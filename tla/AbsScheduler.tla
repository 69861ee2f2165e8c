---------------------------- MODULE AbsScheduler ----------------------------
(***************************************************************************)
(* What a processed trace promises its readers (the comment above          *)
(* postProcessTrace, src/trace/parser.go): replayed event by event, it is  *)
(* a run of this scheduler.  A P runs at most one goroutine, a goroutine   *)
(* runs on at most one P, and only a blocked goroutine is unblocked.       *)
(***************************************************************************)
CONSTANTS Goroutine, Proc, NoG

VARIABLES
    runs,   \* per P, the goroutine it runs, or NoG
    is      \* per goroutine, what it is doing

sched == <<runs, is>>

Init ==
    /\ runs = [p \in Proc |-> NoG]
    /\ is = [g \in Goroutine |-> "gDead"]

Create(g) ==
    /\ is[g] = "gDead"
    /\ is' = [is EXCEPT ![g] = "gRunnable"]
    /\ UNCHANGED runs

\* The snapshot announces a goroutine that is blocked already.
Blocked(g) ==
    /\ is[g] = "gRunnable"
    /\ is' = [is EXCEPT ![g] = "gWaiting"]
    /\ UNCHANGED runs

Start(p, g) ==
    /\ runs[p] = NoG /\ is[g] = "gRunnable"
    /\ runs' = [runs EXCEPT ![p] = g]
    /\ is' = [is EXCEPT ![g] = "gRunning"]

Leave(p, g, next) ==
    /\ runs[p] = g /\ is[g] = "gRunning" /\ next # "gRunning"
    /\ runs' = [runs EXCEPT ![p] = NoG]
    /\ is' = [is EXCEPT ![g] = next]

Wake(g) ==
    /\ is[g] = "gWaiting"
    /\ is' = [is EXCEPT ![g] = "gRunnable"]
    /\ UNCHANGED runs

Next ==
    \E g \in Goroutine :
        \/ Create(g) \/ Blocked(g) \/ Wake(g)
        \/ \E p \in Proc : Start(p, g)
        \/ \E p \in Proc, next \in {"gDead", "gRunnable", "gWaiting"} : Leave(p, g, next)

Spec == Init /\ [][Next]_sched
-----------------------------------------------------------------------------
\* A goroutine runs exactly while one P runs it, and never two.
Exclusive ==
    /\ \A g \in Goroutine : is[g] = "gRunning" <=> \E p \in Proc : runs[p] = g
    /\ \A p, q \in Proc : runs[p] = runs[q] /\ runs[p] # NoG => p = q
=============================================================================
