------------------------------ MODULE MCReaders ------------------------------
(***************************************************************************)
(* Small instances of Readers for TLC.                                     *)
(***************************************************************************)
EXTENDS Readers, TLC

\* What GC work and regions bracket, while goroutines block and move.
Spans == {"GoCreate", "GoStart", "GoEnd", "GoBlockSync", "GoUnblock",
          "GCStart", "GCDone",
          "GCMarkAssistStart", "GCMarkAssistDone", "UserRegionStart", "UserRegionEnd"}

Symmetry == Permutations(Goroutine) \cup Permutations(Proc \ {Boot})
=============================================================================
