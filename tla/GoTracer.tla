------------------------------ MODULE GoTracer ------------------------------
(***************************************************************************)
(* The producer of a trace: the Go runtime's tracer, which is not part of  *)
(* the repository.  It is modelled from what order.go and parser.go rely   *)
(* on: every P appends to a batch of its own; a goroutine carries a        *)
(* sequence number that grows when it changes hands; an event on the P     *)
(* that touched the goroutine last is written in its Local form, without a *)
(* number; syscall exits are written later than they happened.             *)
(*                                                                         *)
(* Every action emits exactly one event, so n counts events and steps.     *)
(***************************************************************************)
EXTENDS TraceEvents, FiniteSets

CONSTANTS
    Boot,       \* the P that writes the snapshot when tracing starts
    Emits,      \* the event types this instance may emit (Local forms go with them)
    Ticks,      \* the values a cputicks reading may have, unless clocks are exact
    Clocks,     \* "skewed": the Ps' clocks may disagree; "agree": they are one
                \* clock; "exact": one that gives every event a reading of its own
    MidWakeup,  \* TRUE: tracing may start in the middle of a wakeup
    LocalExits, \* TRUE: a syscall exit may be written in its Local form
    MaxEvents   \* bound on the length of a trace

ASSUME TracerAssumption ==
    /\ Boot \in Proc
    /\ Emits \subseteq EventTypes
    /\ Ticks \subseteq Nat \ {0}
    /\ Clocks \in {"skewed", "agree", "exact"}
    /\ MidWakeup \in BOOLEAN /\ LocalExits \in BOOLEAN
    /\ MaxEvents \in Nat

VARIABLES
    batch,    \* per P, the events written so far
    n,        \* how many events were written
    clock,    \* per P, the reading its last event carries
    rg,       \* per chain, its true gState
    lastp,    \* per goroutine, the P whose batch holds its last numbered event
    cur,      \* per P, the goroutine it runs, or NoG
    mode,     \* per goroutine: "user", "wakeup", "futile" or "syscall"
    blockTs,  \* per goroutine, when it last blocked in a syscall
    open,     \* spans begun and not ended, by SpanKey
    on,       \* the Ps that were started
    starting  \* TRUE while the snapshot is written

tracer == <<batch, n, clock, rg, lastp, cur, mode, blockTs, open, on, starting>>

TracerInit ==
    /\ batch = [p \in Proc |-> <<>>]
    /\ n = 0
    /\ clock = [p \in Proc |-> 0]
    /\ rg = [c \in Chain |-> gZero]
    /\ lastp = [g \in Goroutine |-> Boot]
    /\ cur = [p \in Proc |-> NoG]
    /\ mode = [g \in Goroutine |-> "user"]
    /\ blockTs = [g \in Goroutine |-> 0]
    /\ open = {}
    /\ on = IF "ProcStart" \in Emits THEN {} ELSE Proc
    /\ starting = TRUE

Modes == {"user", "wakeup", "futile", "syscall"}

\* The types of the runtime's bookkeeping.
TracerTypeOK ==
    /\ batch \in [Proc -> Seq(Event)]
    /\ n \in Nat
    /\ clock \in [Proc -> Nat]
    /\ rg \in [Chain -> GState]
    /\ lastp \in [Goroutine -> Proc]
    /\ cur \in [Proc -> Goroutine \cup {NoG}]
    /\ mode \in [Goroutine -> Modes]
    /\ blockTs \in [Goroutine -> Nat]
    /\ on \subseteq Proc
    /\ starting \in BOOLEAN

Monotone == Clocks # "skewed"

\* The readings P's clock may give now, and those it may have given before.
Now(p) == IF Clocks = "exact" THEN {n + 1}
          ELSE {t \in Ticks : \A q \in IF Monotone THEN Proc ELSE {p} : clock[q] <= t}
Past   == IF Clocks = "exact" THEN 0..(n + 1) ELSE Ticks \cup {0}

\* An event of P, on behalf of goroutine g, that moves no chain.
Plain(typ, p, t, g) ==
    [typ |-> typ, p |-> p, g |-> g, arg |-> NoG, seq |-> 0, real |-> 0, ts |-> t,
     n |-> n + 1, pre |-> gZero, post |-> gZero]

\* An event of P that moves chain c to a status, d handovers later.  Events
\* that name a goroutine name this one; some carry the chain's number.
Numbered == StartTypes \cup {"GoUnblock", "GoSysExit", "GCStart"}

Moving(typ, p, t, g, c, d, status) ==
    [typ |-> typ, p |-> p, g |-> g, arg |-> IF c = Garbage THEN NoG ELSE c,
     seq |-> IF typ \in Numbered THEN rg[c].seq ELSE 0, real |-> 0, ts |-> t,
     n |-> n + 1, pre |-> rg[c], post |-> gState(rg[c].seq + d, status)]

Emit(e) ==
    /\ n < MaxEvents
    /\ n' = n + 1
    /\ batch' = [batch EXCEPT ![e.p] = Append(@, e)]
    /\ clock' = [clock EXCEPT ![e.p] = e.ts]

\* The two events of a futile wakeup are written together by one P: it writes
\* nothing in between, and both fit below the bound.
Unsettled == {g \in Goroutine : mode[g] = "futile"}
Room      == n + Cardinality(Unsettled) < MaxEvents

\* What open holds of a span under way: its kind and whose it is.
GCSpan        == <<"gc", NoG>>
STWSpan       == <<"stw", NoG>>
SweepOf(p)    == <<"sweep", p>>
AssistOf(g)   == <<"assist", g>>
RegionOf(g)   == <<"region", g>>
TaskSpan      == <<"task", NoG>>

\* A P that sweeps keeps its goroutine until it is done.
Traced(p, typ) ==
    /\ typ \in Emits /\ ~starting /\ p \in on
    /\ IF cur[p] \in Unsettled THEN typ \in FutileParks ELSE Room
    /\ SweepOf(p) \in open => typ \notin LeaveTypes \cup {"GoStart", "ProcStop", "FutileWakeup"}

\* The goroutine P runs executes user code: nothing is half done.
Acts(p) == cur[p] # NoG /\ mode[cur[p]] # "futile"

\* Once it acts, what it was woken for is over.
Busy(p) == mode' = IF cur[p] = NoG THEN mode ELSE [mode EXCEPT ![cur[p]] = "user"]
-----------------------------------------------------------------------------
\* Tracing starts with the world stopped: every live goroutine is announced,
\* with where it waits if it does.  One of them, at least, runs the tracer.
SnapCreate(g, t) ==
    LET e == Moving("GoCreate", Boot, t, NoG, g, 1, "gRunnable")
    IN  /\ starting /\ "GoCreate" \in Emits /\ n + 1 < MaxEvents
        /\ rg[g].status = "gDead"
        /\ Emit(e)
        /\ rg' = [rg EXCEPT ![g] = e.post]
        /\ \E m \in IF MidWakeup THEN {"user", "wakeup"} ELSE {"user"} :
             mode' = [mode EXCEPT ![g] = m]
        /\ UNCHANGED <<lastp, cur, blockTs, open, on, starting>>

SnapBlocked(g, typ, t) ==
    LET e == Moving(typ, Boot, t, g, g, 1, "gWaiting")
    IN  /\ starting /\ typ \in SnapTypes \cap Emits /\ n + 1 < MaxEvents
        /\ rg[g] = gState(1, "gRunnable")
        /\ \E h \in Goroutine \ {g} : rg[h] = gState(1, "gRunnable")
        /\ Emit(e)
        /\ rg' = [rg EXCEPT ![g] = e.post]
        /\ mode' = [mode EXCEPT ![g] = IF typ = "GoInSyscall" THEN "syscall" ELSE "user"]
        /\ blockTs' = [blockTs EXCEPT ![g] = t]
        /\ UNCHANGED <<lastp, cur, open, on, starting>>

\* The goroutine that started the trace continues on Boot.
StartWorld(t) ==
    LET e == Plain("ProcStart", Boot, t, NoG)
    IN  /\ starting
        /\ \E g \in Goroutine : rg[g] = gState(1, "gRunnable")
        /\ starting' = FALSE
        /\ IF "ProcStart" \in Emits
           THEN Emit(e) /\ on' = {Boot}
           ELSE UNCHANGED <<batch, n, clock, on>>
        /\ UNCHANGED <<rg, lastp, cur, mode, blockTs, open>>

ProcStart(p, t) ==
    /\ "ProcStart" \in Emits /\ ~starting /\ p \notin on /\ Room
    /\ Emit(Plain("ProcStart", p, t, NoG))
    /\ on' = on \cup {p}
    /\ UNCHANGED <<rg, lastp, cur, mode, blockTs, open, starting>>

ProcStop(p, t) ==
    /\ Traced(p, "ProcStop") /\ cur[p] = NoG
    /\ Emit(Plain("ProcStop", p, t, NoG))
    /\ on' = on \ {p}
    /\ UNCHANGED <<rg, lastp, cur, mode, blockTs, open, starting>>
-----------------------------------------------------------------------------
GoCreate(p, g, t) ==
    LET e == Moving("GoCreate", p, t, cur[p], g, 1, "gRunnable")
    IN  /\ Traced(p, "GoCreate") /\ Acts(p)
        /\ rg[g].status = "gDead"
        /\ Emit(e)
        /\ rg' = [rg EXCEPT ![g] = e.post]
        /\ lastp' = [lastp EXCEPT ![g] = p]
        /\ Busy(p)
        /\ UNCHANGED <<cur, blockTs, open, on, starting>>

\* P picks a runnable goroutine; the number is left out if P touched it last.
GoStart(p, g, t) ==
    LET typ == IF lastp[g] = p THEN "GoStartLocal" ELSE "GoStart"
        e   == Moving(typ, p, t, g, g, 1, "gRunning")
    IN  /\ Traced(p, "GoStart") /\ cur[p] = NoG
        /\ rg[g].status = "gRunnable"
        /\ Emit(e)
        /\ rg' = [rg EXCEPT ![g] = e.post]
        /\ lastp' = [lastp EXCEPT ![g] = p]
        /\ cur' = [cur EXCEPT ![p] = g]
        /\ UNCHANGED <<mode, blockTs, open, on, starting>>

GoPark(p, typ, t) ==
    LET e == Moving(typ, p, t, cur[p], cur[p], 0, "gWaiting")
    IN  /\ Traced(p, typ) /\ typ \in ParkTypes /\ cur[p] # NoG
        /\ Emit(e)
        /\ rg' = [rg EXCEPT ![cur[p]] = e.post]
        /\ mode' = [mode EXCEPT ![cur[p]] = "user"]
        /\ cur' = [cur EXCEPT ![p] = NoG]
        /\ UNCHANGED <<lastp, blockTs, open, on, starting>>

\* A woken goroutine finds it must block again; GoPark follows at once.
FutileWakeup(p, t) ==
    /\ Traced(p, "FutileWakeup") /\ Acts(p) /\ mode[cur[p]] = "wakeup"
    /\ n + 1 + Cardinality(Unsettled) < MaxEvents
    /\ Emit(Plain("FutileWakeup", p, t, cur[p]))
    /\ mode' = [mode EXCEPT ![cur[p]] = "futile"]
    /\ UNCHANGED <<rg, lastp, cur, blockTs, open, on, starting>>

\* Being preempted does not end a wakeup, giving way does.
GoYield(p, typ, t) ==
    LET e == Moving(typ, p, t, cur[p], cur[p], 0, "gRunnable")
    IN  /\ Traced(p, typ) /\ typ \in YieldTypes /\ Acts(p)
        /\ Emit(e)
        /\ rg' = [rg EXCEPT ![cur[p]] = e.post]
        /\ IF typ = "GoPreempt" /\ mode[cur[p]] = "wakeup"
           THEN UNCHANGED mode ELSE Busy(p)
        /\ cur' = [cur EXCEPT ![p] = NoG]
        /\ UNCHANGED <<lastp, blockTs, open, on, starting>>

\* Another goroutine, or an idle P (a timer, the network), makes g runnable.
GoUnblock(p, g, t) ==
    LET typ == IF lastp[g] = p THEN "GoUnblockLocal" ELSE "GoUnblock"
        e   == Moving(typ, p, t, cur[p], g, 1, "gRunnable")
    IN  /\ Traced(p, "GoUnblock") /\ (cur[p] = NoG \/ Acts(p))
        /\ rg[g].status = "gWaiting" /\ mode[g] # "syscall"
        /\ Emit(e)
        /\ rg' = [rg EXCEPT ![g] = e.post]
        /\ lastp' = [lastp EXCEPT ![g] = p]
        /\ mode' = [h \in Goroutine |-> IF h = g THEN "wakeup"
                                        ELSE IF h = cur[p] THEN "user" ELSE mode[h]]
        /\ UNCHANGED <<cur, blockTs, open, on, starting>>

GoEnd(p, typ, t) ==
    /\ Traced(p, typ) /\ typ \in EndTypes /\ Acts(p) /\ AssistOf(cur[p]) \notin open
    /\ Emit(Plain(typ, p, t, cur[p]))
    /\ Busy(p)
    /\ cur' = [cur EXCEPT ![p] = NoG]
    /\ UNCHANGED <<rg, lastp, blockTs, open, on, starting>>
-----------------------------------------------------------------------------
GoSysCall(p, t) ==
    /\ Traced(p, "GoSysCall") /\ Acts(p)
    /\ Emit(Plain("GoSysCall", p, t, cur[p]))
    /\ mode' = [mode EXCEPT ![cur[p]] = "syscall"]
    /\ UNCHANGED <<rg, lastp, cur, blockTs, open, on, starting>>

\* The syscall takes long: P is taken from the goroutine.
GoSysBlock(p, t) ==
    LET e == Moving("GoSysBlock", p, t, cur[p], cur[p], 0, "gWaiting")
    IN  /\ Traced(p, "GoSysBlock") /\ Acts(p) /\ mode[cur[p]] = "syscall"
        /\ Emit(e)
        /\ rg' = [rg EXCEPT ![cur[p]] = e.post]
        /\ blockTs' = [blockTs EXCEPT ![cur[p]] = t]
        /\ cur' = [cur EXCEPT ![p] = NoG]
        /\ UNCHANGED <<lastp, mode, open, on, starting>>

\* Written once the goroutine has a P again: real is when the call returned,
\* or 0 when that was before tracing started.  The Local form does not carry
\* the number, and its Args[1] is the real timestamp, so Args[2] stays 0.
GoSysExit(p, g, r, t) ==
    LET local == LocalExits /\ lastp[g] = p
        typ   == IF local THEN "GoSysExitLocal" ELSE "GoSysExit"
        e     == [Moving(typ, p, t, IF local THEN NoG ELSE g, g, 1, "gRunnable")
                    EXCEPT !.real = IF local THEN 0 ELSE r]
    IN  /\ Traced(p, "GoSysExit") /\ cur[p] = NoG
        /\ rg[g].status = "gWaiting" /\ mode[g] = "syscall"
        /\ r # 0 /\ Monotone => blockTs[g] <= r /\ r <= t
        /\ Emit(e)
        /\ rg' = [rg EXCEPT ![g] = e.post]
        /\ lastp' = [lastp EXCEPT ![g] = p]
        /\ mode' = [mode EXCEPT ![g] = "user"]
        /\ UNCHANGED <<cur, blockTs, open, on, starting>>
-----------------------------------------------------------------------------
\* GC phases belong to no goroutine and may end on another P; regions, which
\* may be left open when their goroutine ends, and tasks do not nest here.
GCStart(p, t) ==
    LET e == Moving("GCStart", p, t, NoG, Garbage, 1, "gDead")
    IN  /\ Traced(p, "GCStart") /\ GCSpan \notin open
        /\ Emit(e)
        /\ rg' = [rg EXCEPT ![Garbage] = e.post]
        /\ open' = open \cup {GCSpan}
        /\ UNCHANGED <<lastp, cur, mode, blockTs, on, starting>>

\* The other spans, and what brackets them.
SpanKey(typ, p) ==
    CASE typ = "GCDone"                                    -> GCSpan
      [] typ \in {"GCSTWStart", "GCSTWDone"}               -> STWSpan
      [] typ \in {"GCSweepStart", "GCSweepDone"}           -> SweepOf(p)
      [] typ \in {"GCMarkAssistStart", "GCMarkAssistDone"} -> AssistOf(cur[p])
      [] typ \in {"UserRegionStart", "UserRegionEnd"}      -> RegionOf(cur[p])
      [] typ \in {"UserTaskCreate", "UserTaskEnd"}         -> TaskSpan

SpanOpens  == {"GCSTWStart", "GCSweepStart", "GCMarkAssistStart", "UserRegionStart",
               "UserTaskCreate"}
SpanCloses == {"GCDone", "GCSTWDone", "GCSweepDone", "GCMarkAssistDone", "UserRegionEnd",
               "UserTaskEnd"}
OwnSpans   == {"GCMarkAssistStart", "GCMarkAssistDone", "UserRegionStart", "UserRegionEnd",
               "UserTaskCreate", "UserTaskEnd"}

SpanEvent(p, typ, t) ==
    Plain(typ, p, t, IF typ \in {"GCDone", "GCSTWStart", "GCSTWDone"} THEN NoG ELSE cur[p])

\* A goroutine that sweeps for its P may still be in its wakeup, but not in a
\* system call.
ShowsBusy(p, typ) ==
    \/ typ \in OwnSpans
    \/ typ \in {"GCSweepStart", "GCSweepDone"} /\ cur[p] # NoG /\ mode[cur[p]] = "syscall"

OpenSpan(p, typ, t) ==
    /\ Traced(p, typ) /\ typ \in SpanOpens
    /\ typ \in OwnSpans => Acts(p)
    /\ SpanKey(typ, p) \notin open
    /\ Emit(SpanEvent(p, typ, t))
    /\ open' = open \cup {SpanKey(typ, p)}
    /\ IF ShowsBusy(p, typ) THEN Busy(p) ELSE UNCHANGED mode
    /\ UNCHANGED <<rg, lastp, cur, blockTs, on, starting>>

CloseSpan(p, typ, t) ==
    /\ Traced(p, typ) /\ typ \in SpanCloses
    /\ typ \in OwnSpans => Acts(p)
    /\ SpanKey(typ, p) \in open
    /\ Emit(SpanEvent(p, typ, t))
    /\ open' = open \ {SpanKey(typ, p)}
    /\ IF ShowsBusy(p, typ) THEN Busy(p) ELSE UNCHANGED mode
    /\ UNCHANGED <<rg, lastp, cur, blockTs, on, starting>>

Write(p, t) ==
    \/ ProcStart(p, t) \/ ProcStop(p, t)
    \/ \E g \in Goroutine : GoCreate(p, g, t) \/ GoStart(p, g, t) \/ GoUnblock(p, g, t)
    \/ \E g \in Goroutine, r \in Past : GoSysExit(p, g, r, t)
    \/ \E typ \in ParkTypes : GoPark(p, typ, t)
    \/ \E typ \in YieldTypes : GoYield(p, typ, t)
    \/ \E typ \in EndTypes : GoEnd(p, typ, t)
    \/ FutileWakeup(p, t) \/ GoSysCall(p, t) \/ GoSysBlock(p, t) \/ GCStart(p, t)
    \/ \E typ \in SpanOpens : OpenSpan(p, typ, t)
    \/ \E typ \in SpanCloses : CloseSpan(p, typ, t)

Snapshot(t) ==
    \/ \E g \in Goroutine : SnapCreate(g, t)
    \/ \E g \in Goroutine, typ \in SnapTypes : SnapBlocked(g, typ, t)
    \/ StartWorld(t)

TracerNext ==
    \/ \E t \in Now(Boot) : Snapshot(t)
    \/ \E p \in Proc : \E t \in Now(p) : Write(p, t)

\* The trace may be cut anywhere but inside a futile wakeup's pair of events.
Stoppable == ~starting /\ \A g \in Goroutine : mode[g] # "futile"
=============================================================================
