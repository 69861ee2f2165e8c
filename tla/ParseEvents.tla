----------------------------- MODULE ParseEvents -----------------------------
(***************************************************************************)
(* The loop of parseEvents of src/trace/parser.go: it reads the records of *)
(* a trace file, batch after batch, and attributes every event to the P of *)
(* its batch, to the goroutine that P was running, and to a time.  On the  *)
(* wire most events name no goroutine, and times are differences.          *)
(*                                                                         *)
(* The runtime (GoTracer) writes the trace; it is then flushed to the file *)
(* in batches, each a run of events of one P, in any order that keeps the  *)
(* events of each P in order.  The file may be cut off after any record.   *)
(***************************************************************************)
EXTENDS GoTracer

CONSTANTS
    Timers,       \* the goroutines the runtime may announce as timer goroutines
    Frequencies   \* the values EvFrequency may carry: 0 if the clocks are skewed

ASSUME ParseAssumption ==
    Timers \subseteq Goroutine /\ Frequencies \subseteq Nat

VARIABLES
    flushed,     \* per P, how many of its events were flushed
    unread,      \* the records flushed and not read yet
    footer,      \* TRUE once the frequency was written: no batch follows
    stage,       \* "trace" while the runtime writes, "parse", then the verdict
    lastG, lastP, lastTs, lastGs, timerGoids, ticksPerSec,
    batches      \* per P, the events parsed

file   == <<flushed, unread, footer>>
parser == <<lastG, lastP, lastTs, lastGs, timerGoids, ticksPerSec, batches>>
vars   == <<tracer, file, stage, parser>>
-----------------------------------------------------------------------------
\* The wire format.  Only these name a goroutine, as their first argument.
Naming == StartTypes \cup SnapTypes \cup LocalTypes \cup {"GoCreate", "GoUnblock", "GoSysExit"}

BatchRecord(p, ts) == [kind |-> "Batch", p |-> p, ts |-> ts]
Frequency(v)       == [kind |-> "Frequency", value |-> v]
TimerRecord(g)     == [kind |-> "TimerGoroutine", g |-> g]
EventRecord(e, ts) ==
    [kind |-> "Event", typ |-> e.typ, arg |-> IF e.typ \in Naming THEN e.arg ELSE NoG,
     seq |-> e.seq, real |-> e.real, delta |-> e.ts - ts, n |-> e.n, pre |-> e.pre, post |-> e.post]

\* The next k events of P, the first k1 of them flushed already.  The header's
\* time is read before that of the first event.
Batch(p, k1, k, ts) ==
    <<BatchRecord(p, ts)>>
    \o [i \in 1..k |-> EventRecord(batch[p][k1 + i],
                                   IF i = 1 THEN ts ELSE batch[p][k1 + i - 1].ts)]

FileInit ==
    /\ flushed = [p \in Proc |-> 0]
    /\ unread = <<>>
    /\ footer = FALSE

ParserInit ==
    /\ lastG = NoG
    /\ lastP \in Proc     \* P 0
    /\ lastTs = 0
    /\ lastGs = [p \in Proc |-> NoG]
    /\ timerGoids = {}
    /\ ticksPerSec = 0
    /\ batches = [p \in Proc |-> <<>>]

Init == TracerInit /\ FileInit /\ ParserInit /\ stage = "trace"

Trace == stage = "trace" /\ TracerNext /\ UNCHANGED <<file, stage, parser>>

\* Tracing stops, and parsing begins.
Stop ==
    /\ stage = "trace" /\ Stoppable
    /\ stage' = "parse"
    /\ UNCHANGED <<tracer, file, parser>>

\* The parser sees the file only, so it may as well keep up with its writer.
Flush(p, k) ==
    LET k1   == flushed[p]
        prev == IF k1 = 0 THEN 0 ELSE batch[p][k1].ts
    IN  /\ stage = "parse" /\ unread = <<>> /\ ~footer
        /\ k1 + k <= Len(batch[p])
        /\ \E ts \in {prev, batch[p][k1 + 1].ts} : unread' = Batch(p, k1, k, ts)
        /\ flushed' = [flushed EXCEPT ![p] = k1 + k]
        /\ UNCHANGED <<tracer, footer, stage, parser>>

Footer ==
    /\ stage = "parse" /\ unread = <<>> /\ ~footer
    /\ \A p \in Proc : flushed[p] = Len(batch[p])
    /\ \E v \in Frequencies : unread' = <<Frequency(v)>>
    /\ footer' = TRUE
    /\ UNCHANGED <<tracer, flushed, stage, parser>>

TimerGoroutine(g) ==
    /\ stage = "parse" /\ unread = <<>> /\ footer /\ g \in Timers \ timerGoids
    /\ unread' = <<TimerRecord(g)>>
    /\ UNCHANGED <<tracer, flushed, footer, stage, parser>>
-----------------------------------------------------------------------------
\* Bug: what the P of the last batch was running is forgotten.
SavedNot == lastGs

Saved == [lastGs EXCEPT ![lastP] = lastG]

ReadBatch(r) ==
    /\ r.kind = "Batch"
    /\ lastGs' = Saved
    /\ lastP' = r.p
    /\ lastG' = Saved[r.p]
    /\ lastTs' = r.ts
    /\ UNCHANGED <<stage, timerGoids, ticksPerSec, batches>>

\* ErrTimeOrder: a frequency that makes no sense comes from skewed clocks.
ReadFrequency(r) ==
    /\ r.kind = "Frequency"
    /\ ticksPerSec' = r.value
    /\ stage' = IF r.value <= 0 THEN "timeOrder" ELSE stage
    /\ UNCHANGED <<lastG, lastP, lastTs, lastGs, timerGoids, batches>>

ReadTimer(r) ==
    /\ r.kind = "TimerGoroutine"
    /\ timerGoids' = timerGoids \cup {r.g}
    /\ UNCHANGED <<stage, lastG, lastP, lastTs, lastGs, ticksPerSec, batches>>

\* Whom an event belongs to, and whom the P runs afterwards.
Owner(r) ==
    CASE r.typ \in StartTypes \cup SnapTypes \cup {"GoStartLocal", "GoSysExit"} -> r.arg
      [] r.typ \in {"GCStart", "GCDone", "GCSTWStart", "GCSTWDone"} -> NoG
      [] OTHER -> lastG

NowRunning(r) ==
    CASE r.typ \in StartTypes \cup {"GoStartLocal"} -> r.arg
      [] r.typ \in LeaveTypes                       -> NoG
      [] OTHER                                      -> lastG

ReadEvent(r) ==
    LET ts == lastTs + r.delta
    IN  /\ r.kind = "Event"
        /\ batches' = [batches EXCEPT ![lastP] =
                          Append(@, [typ |-> r.typ, p |-> lastP, g |-> Owner(r), arg |-> r.arg,
                                     seq |-> r.seq, real |-> r.real, ts |-> ts,
                                     n |-> r.n, pre |-> r.pre, post |-> r.post])]
        /\ lastTs' = ts
        /\ lastG' = NowRunning(r)
        /\ UNCHANGED <<stage, lastP, lastGs, timerGoids, ticksPerSec>>

Read ==
    /\ stage = "parse" /\ unread # <<>>
    /\ unread' = Tail(unread)
    /\ LET r == Head(unread)
       IN  ReadBatch(r) \/ ReadFrequency(r) \/ ReadTimer(r) \/ ReadEvent(r)
    /\ UNCHANGED <<tracer, flushed, footer>>

\* Bug: the frequency is not asked for.
VerdictAnyFrequency ==
    IF \A p \in Proc : batches[p] = <<>> THEN "empty" ELSE "parsed"

Verdict == CASE \A p \in Proc : batches[p] = <<>> -> "empty"
             [] ticksPerSec = 0                   -> "noFrequency"
             [] OTHER                             -> "parsed"

\* The file ends here, maybe too early.
EndOfFile ==
    /\ stage = "parse"
    /\ stage' = Verdict
    /\ UNCHANGED <<tracer, file, parser>>

Done == stage \notin {"trace", "parse"} /\ UNCHANGED vars

Next ==
    \/ Trace \/ Stop \/ Footer \/ Read \/ EndOfFile \/ Done
    \/ \E p \in Proc, k \in 1..MaxEvents : Flush(p, k)
    \/ \E g \in Timers : TimerGoroutine(g)

Spec == Init /\ [][Next]_vars
-----------------------------------------------------------------------------
(***************************************************************************)
(* Properties                                                              *)
(***************************************************************************)
\* However the events of a P are spread over batches, and whatever other Ps'
\* batches come in between, each is attributed to the goroutine, and the time,
\* the runtime wrote it for: order1007 is given the batches of GoTracer.
AsWritten ==
    \A p \in Proc, i \in 1..MaxEvents :
        i <= Len(batches[p]) =>
            LET e == batch[p][i]
            IN  batches[p][i] = [e EXCEPT !.arg = IF e.typ \in Naming THEN e.arg ELSE NoG]

\* A file that was cut off before its footer is refused, so a trace that is
\* accepted is complete, and it is not empty (parser.go:456, 460).
AcceptedComplete ==
    stage = "parsed" =>
        /\ n > 0
        /\ \A p \in Proc : Len(batches[p]) = Len(batch[p])
=============================================================================
