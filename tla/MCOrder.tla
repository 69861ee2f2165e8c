------------------------------ MODULE MCOrder ------------------------------
(***************************************************************************)
(* Small instances of Order for TLC.                                       *)
(***************************************************************************)
EXTENDS Order

\* The snapshot, system calls and the GC.
Syscalls == {"GoCreate", "GoWaiting", "GoInSyscall", "GoStart", "GoSysCall",
             "GoSysBlock", "GoSysExit"}

SyscallsAndGC == Syscalls \cup {"GCStart", "GCDone"}
=============================================================================
