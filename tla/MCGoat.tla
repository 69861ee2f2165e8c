-------------------------------- MODULE MCGoat --------------------------------
(***************************************************************************)
(* Small instances of Goat for TLC.                                        *)
(***************************************************************************)
EXTENDS Goat

\* The goroutines of the program are interchangeable.
Symmetry == Permutations(Program \ {Watcher})
=============================================================================
