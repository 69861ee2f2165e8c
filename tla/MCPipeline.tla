------------------------------ MODULE MCPipeline ------------------------------
(***************************************************************************)
(* Small instances of Pipeline for TLC.                                    *)
(***************************************************************************)
EXTENDS Pipeline

\* Goroutines wake each other, some of them to no avail.
Wakeups == {"GoCreate", "GoWaiting", "GoStart", "GoBlock", "GoUnblock", "GoPreempt", "FutileWakeup"}

\* The snapshot and system calls.
Syscalls == {"GoCreate", "GoInSyscall", "GoStart", "GoSysCall", "GoSysBlock", "GoSysExit"}

\* One trace is of one kind: wakeups, with all readings equal so that the merge
\* may take any head, and futile ones if it is long; or system calls, shorter,
\* with readings that tell times apart.
InBatches  == UNION {{batch[p][k] : k \in DOMAIN batch[p]} : p \in Proc}
IsWakeup(N) ==
    /\ \A e \in InBatches : Delocalized(e.typ) \in Wakeups /\ e.ts = 1
    /\ n < N \/ \E e \in InBatches : e.typ = "FutileWakeup"
IsSyscall(N) == n <= N /\ \A e \in InBatches : Delocalized(e.typ) \in Syscalls
OneKind == pc = "trace" => IsWakeup(8) \/ IsSyscall(6)
OneKindNext == OneKind'

WakeupsAndSyscalls == Wakeups \cup Syscalls

\* A syscall that was under way when tracing started.
OneSyscall == {"GoCreate", "GoInSyscall", "GoSysExit", "GoStart"}
=============================================================================
