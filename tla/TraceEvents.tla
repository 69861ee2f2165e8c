----------------------------- MODULE TraceEvents -----------------------------
(***************************************************************************)
(* The vocabulary every other module shares: identities, the classes of    *)
(* trace events the parser distinguishes (the Ev* constants of             *)
(* src/trace/parser.go), and the shape of one event record.                *)
(*                                                                         *)
(* An event carries the fields of the Go struct Event that steer control   *)
(* (Type, P, G, Args, Ts: arg is the goroutine id among the arguments, seq *)
(* the sequence number, GC number or task id, real the timestamp a         *)
(* GoSysExit carries in Args[2]) and three ghost fields that no code reads: n, its position   *)
(* in the order the runtime emitted the events, and pre and post, the      *)
(* state of the chain (goroutine or GC) it moves, before and after it.     *)
(* Properties and proofs compare the code's view with them.                *)
(***************************************************************************)
EXTENDS Integers, Sequences

CONSTANTS
    Goroutine,   \* goroutine ids other than 0
    Proc,        \* the real Ps
    NoG,         \* goroutine id 0: "no goroutine", the scheduler itself
    Garbage,     \* order.go's key for the chain of GCStart events
    Unordered    \* order.go's key for events without ordering requirements

ASSUME Sentinels ==
    /\ NoG \notin Goroutine
    /\ Garbage \notin Goroutine \cup {NoG}
    /\ Unordered \notin Goroutine \cup {NoG, Garbage}

\* The fake Ps the parser moves some events to.
TimerP   == "TimerP"
NetpollP == "NetpollP"
SyscallP == "SyscallP"
GCP      == "GCP"
FakePs   == {TimerP, NetpollP, SyscallP, GCP}
ASSUME FakePsAreNotReal == FakePs \cap Proc = {}

\* A goroutine parks itself until another one unblocks it.
ParkTypes == {"GoSleep", "GoBlock", "GoBlockSend", "GoBlockRecv",
              "GoBlockSelect", "GoBlockSync", "GoBlockCond", "GoBlockNet",
              "GoBlockGC"}

\* The blocking kinds that may end a futile wakeup.
FutileParks == {"GoBlock", "GoBlockSend", "GoBlockRecv", "GoBlockSelect",
                "GoBlockSync", "GoBlockCond"}

YieldTypes  == {"GoSched", "GoPreempt"}
EndTypes    == {"GoEnd", "GoStop"}
StartTypes  == {"GoStart", "GoStartLabel"}
SnapTypes   == {"GoWaiting", "GoInSyscall"}

\* Everything after which the goroutine no longer runs on its P.
LeaveTypes  == ParkTypes \cup YieldTypes \cup EndTypes \cup {"GoSysBlock"}

\* What a Local event becomes once its order is settled.
LocalTypes  == {"GoStartLocal", "GoUnblockLocal", "GoSysExitLocal"}
Delocalized(typ) == CASE typ = "GoStartLocal"   -> "GoStart"
                      [] typ = "GoUnblockLocal" -> "GoUnblock"
                      [] typ = "GoSysExitLocal" -> "GoSysExit"
                      [] OTHER                  -> typ

\* Events that neither move a chain nor a goroutine's scheduling state.
PlainTypes  == {"ProcStart", "ProcStop", "GCDone", "GCSTWStart", "GCSTWDone",
                "GCSweepStart", "GCSweepDone", "GCMarkAssistStart",
                "GCMarkAssistDone", "GoSysCall", "FutileWakeup",
                "UserTaskCreate", "UserTaskEnd", "UserRegionStart",
                "UserRegionEnd", "UserLog"}

\* What GOAT's runtime adds: operations of channels, mutexes, wait groups and
\* condition variables, selects, and its own scheduling decisions.
GoatTypes   == {"ChMake", "ChSend", "ChRecv", "ChClose", "MuLock", "MuUnlock",
                "MuRLock", "MuRUnlock", "WgAdd", "WgWait", "CvWait", "CvSig",
                "Select", "Selecti", "Sched"}

EventTypes  == LeaveTypes \cup StartTypes \cup SnapTypes \cup LocalTypes
               \cup PlainTypes \cup GoatTypes
               \cup {"GoCreate", "GoUnblock", "GoSysExit", "GCStart"}

\* order.go keeps a gState per chain: how often the goroutine changed hands,
\* and what it is doing.
Chain    == Goroutine \cup {Garbage}
gStatus  == {"gDead", "gRunnable", "gRunning", "gWaiting"}
gState(seq, status) == [seq |-> seq, status |-> status]
GState   == [seq : Nat, status : gStatus]
gZero    == gState(0, "gDead")

Event == [typ : EventTypes, p : Proc, g : Goroutine \cup {NoG},
          arg : Goroutine \cup {NoG}, seq : Nat, real : Nat, ts : Nat,
          n : Nat \ {0}, pre : GState, post : GState]
=============================================================================
