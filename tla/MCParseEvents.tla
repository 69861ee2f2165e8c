---------------------------- MODULE MCParseEvents ----------------------------
(***************************************************************************)
(* A small instance of ParseEvents for TLC.                                *)
(***************************************************************************)
EXTENDS ParseEvents

\* Goroutines run, block, wake each other and return from a syscall that began
\* before the trace, on Ps that come and go; and the GC runs.
Emitted == {"GoCreate", "GoInSyscall", "GoStart", "GoBlock", "GoUnblock", "GoSysExit",
            "GCStart", "GCDone", "ProcStart", "ProcStop"}
=============================================================================
