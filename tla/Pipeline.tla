------------------------------- MODULE Pipeline -------------------------------
(***************************************************************************)
(* parse of src/trace/parser.go, from the batches on: the runtime writes a *)
(* trace, order1007 merges it, the end of parseEvents moves some events to *)
(* fake Ps, removeFutile drops futile wakeups, and postProcessTrace checks *)
(* and links what is left.  Here postProcessTrace meets the traces a real  *)
(* program can write, not arbitrary ones.                                  *)
(***************************************************************************)
EXTENDS Order

CONSTANT TimerGs   \* the goroutines announced by EvTimerGoroutine
ASSUME TimerAssumption == TimerGs \subseteq Goroutine

VARIABLES
    input,     \* what postProcessTrace is given
    next,      \* the position of its next event; 0 before it runs
    verdict, trace, pgs, ps, tasks, regions, evGC, evSTW   \* see PostProcess

Post == INSTANCE PostProcess
          WITH gs <- pgs, Inputs <- {}, GlobalSTW <- TRUE, MaxTrace <- MaxEvents

post  == <<verdict, trace, pgs, ps, tasks, regions, evGC, evSTW>>
pipe  == <<input, next, post>>
pvars == <<vars, pipe>>
-----------------------------------------------------------------------------
\* Bug: only timers are moved.
FakePTimers(ev) == IF ev.typ = "GoUnblock" /\ ev.g \in TimerGs THEN TimerP ELSE ev.p

\* Timers and syscall exits are moved to fake Ps.
FakeP(ev) == CASE ev.typ = "GoSysExit" -> SyscallP
               [] ev.typ = "GoUnblock" /\ ev.g \in TimerGs -> TimerP
               [] OTHER -> ev.p

Separated(evs) == [i \in DOMAIN evs |-> [evs[i] EXCEPT !.p = FakeP(evs[i])]]

\* Phase 1 of removeFutile: per goroutine, the events since it was woken, and
\* whether one of them said the wakeup was futile.  Like a pointer to it, n
\* identifies an event.
noWakeup == [futile |-> FALSE, wakeup |-> {}]

\* Bugs: a preemption, or the unblock, is not part of the wakeup.
WakeupTypesUnpreempted == {"GoStart", "FutileWakeup"}
WokenBefore(ev) == {}

WakeupTypes == {"GoStart", "GoPreempt", "FutileWakeup"}
Woken(ev)   == {ev.n}

FutileStep(acc, ev) ==
    CASE ev.typ = "GoUnblock" ->
            [acc EXCEPT !.gs[ev.arg].wakeup = Woken(ev)]
      [] ev.typ \in WakeupTypes ->
            [acc EXCEPT !.gs[ev.g] = [futile |-> @.futile \/ ev.typ = "FutileWakeup",
                                      wakeup |-> @.wakeup \cup {ev.n}]]
      [] ev.typ \in FutileParks ->
            [gs     |-> [acc.gs EXCEPT ![ev.g] = noWakeup],
             futile |-> acc.futile \cup (IF acc.gs[ev.g].futile
                                         THEN acc.gs[ev.g].wakeup \cup {ev.n} ELSE {})]
      [] OTHER -> acc

futile(evs) ==
    LET acc[k \in 0..Len(evs)] ==
            IF k = 0 THEN [gs |-> [g \in Goroutine |-> noWakeup], futile |-> {}]
            ELSE FutileStep(acc[k - 1], evs[k])
    IN  acc[Len(evs)].futile

\* Phase 2: the others are kept.
Keep(evs, removed) ==
    LET kept[k \in 0..Len(evs)] ==
            IF k = 0 THEN <<>>
            ELSE IF evs[k].n \in removed THEN kept[k - 1] ELSE Append(kept[k - 1], evs[k])
    IN  kept[Len(evs)]

removeFutile(evs) == Keep(evs, futile(evs))
-----------------------------------------------------------------------------
PipeInit == Init /\ Post!Init /\ input = <<>> /\ next = 0

\* The trace is written and merged.
Parse == (Trace \/ Reorder) /\ UNCHANGED pipe

Prepare ==
    /\ pc = "ordered" /\ next = 0
    /\ input' = removeFutile(Separated(events))
    /\ next' = 1
    /\ UNCHANGED <<vars, post>>

\* What postProcessTrace reads of an event.  There is one task, and all regions
\* are its.
Task      == 1
Entry(ev) == [typ |-> ev.typ, p |-> ev.p, g |-> ev.g, arg |-> ev.arg, seq |-> Task]

Check ==
    /\ next \in DOMAIN input
    /\ Post!Process(Entry(input[next]))
    /\ next' = next + 1
    /\ UNCHANGED <<vars, input>>

Refused  == pc \in Verdicts \ {"ordered"} \/ verdict # "ok"
Accepted == ~Refused /\ next > Len(input)

Return == (Refused \/ Accepted) /\ UNCHANGED pvars

PipeNext == Parse \/ Prepare \/ Check \/ Return

PipeSpec == PipeInit /\ [][PipeNext]_pvars
-----------------------------------------------------------------------------
(***************************************************************************)
(* Properties                                                              *)
(***************************************************************************)
\* The trace of a program, written with one clock, is not refused: every stage
\* leaves what the next one relies on (parser.go:102-117), and timestamps are
\* never found out of order, also not after syscall exits got theirs
\* (order.go:103, 127, 130).
LegalAccepted == ~Refused

\* postProcessTrace is given what its model, and the theorems about it, assume:
\* syscall exits are on their fake P and nothing else is, and no Local form is
\* left (parser.go:490).
AssumedInput == \A k \in DOMAIN input : Entry(input[k]) \in Post!InputEvents

\* What order1007 returns is consistent, whatever the timestamps: it is not
\* refused later ("a consistent stream even if timestamps are incorrect",
\* order.go:51).
StreamConsistent == verdict = "ok"

\* What removeFutile removes, said without its bookkeeping: a futile wakeup
\* (parser.go:501) begins when its goroutine was last unblocked, if that was
\* traced, ends with the next blocking of the goroutine, and consists of the
\* unblock and all the goroutine did, but for what it was made to sweep.
Told == [k \in 1..n |-> CHOOSE ev \in Emitted : ev.n = k]

SweepTypes == {"GCSweepStart", "GCSweepDone"}
Wakes(g)   == {k \in 1..n : Told[k].typ = "GoUnblock" /\ Told[k].arg = g}
Parks(g)   == {k \in 1..n : Told[k].typ \in FutileParks /\ Told[k].g = g}

Wakeup(f) ==
    LET g     == Told[f].g
        first == CHOOSE k \in {0} \cup Wakes(g) : k < f /\ \A l \in Wakes(g) : l < f => l <= k
        last  == CHOOSE k \in Parks(g) : k > f /\ \A l \in Parks(g) : l > f => k <= l
    IN  {first} \cup {k \in (first + 1)..last : Told[k].g = g /\ Told[k].typ \notin SweepTypes}

Futile == UNION {Wakeup(f) : f \in {k \in 1..n : Told[k].typ = "FutileWakeup"}}

\* When postProcessTrace begins, exactly the futile wakeups are missing from
\* what it is given.
FutileInvisible ==
    next = 1 => {input[k].n : k \in DOMAIN input} = (1..n) \ Futile

\* Which exit ends a syscall: the goroutine blocked in it and this is the
\* first exit after that.  Table above Event.Link: "for blocking GoSysCall:
\* the associated GoSysExit" (parser.go:55).
Ends(i, j) ==
    /\ trace[i].typ = "GoSysCall" /\ trace[j].typ = "GoSysExit" /\ trace[j].g = trace[i].g
    /\ i < j
    /\ {trace[k].typ : k \in {l \in (i + 1)..(j - 1) : trace[l].g = trace[i].g}} = {"GoSysBlock"}

SysCallLinks ==
    Accepted => \A i \in DOMAIN trace :
        trace[i].typ = "GoSysCall" =>
            trace[i].link = IF \E j \in DOMAIN trace : Ends(i, j)
                            THEN CHOOSE j \in DOMAIN trace : Ends(i, j) ELSE Post!Nil
=============================================================================
