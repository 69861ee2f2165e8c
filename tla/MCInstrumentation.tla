-------------------------- MODULE MCInstrumentation --------------------------
(***************************************************************************)
(* Small instances of Instrumentation for TLC: every package of the given  *)
(* size.                                                                   *)
(***************************************************************************)
EXTENDS Instrumentation
=============================================================================
