------------------------- MODULE MutatorUtilization -------------------------
(***************************************************************************)
(* MutatorUtilization of src/trace/gc.go, one series for all Ps: how many  *)
(* Ps do GC work, over the time of a processed trace.  A utilization is    *)
(* given by that number; it is 1 - busy / number of Ps.                    *)
(***************************************************************************)
EXTENDS TraceEvents, FiniteSets

CONSTANTS
    events,   \* the trace, with times and links
    Flags     \* what counts: "STW", "Assist", "Sweep"

Seqs == INSTANCE SequencesExt

All == Cardinality(Proc)

\* addUtil: runs of equal utilization are one; at one time the lowest counts.
MutatorUtil(ts, busy) == [ts |-> ts, busy |-> busy]

addUtil(util, mu) ==
    LET n == Len(util)
    IN  CASE mu.busy = util[n].busy -> util
          [] mu.busy # util[n].busy /\ mu.ts = util[n].ts ->
                IF mu.busy > util[n].busy THEN [util EXCEPT ![n] = mu] ELSE util
          [] OTHER -> Append(util, mu)

\* gc: per P, how much GC work is under way on it.  block: per goroutine, the
\* event at which it will leave its P.
Start == [gc |-> [p \in Proc |-> 0], stw |-> 0, assists |-> {},
          block |-> [g \in Goroutine \cup {NoG} |-> 0], util |-> <<MutatorUtil(0, 0)>>]

Busy(acc) == IF acc.stw > 0 THEN All ELSE Cardinality({p \in Proc : acc.gc[p] > 0})

Record(acc, ts) == [acc EXCEPT !.util = addUtil(@, MutatorUtil(ts, Busy(acc)))]

Assisting(acc, g) == IF g \in acc.assists THEN 1 ELSE 0

Resumed(acc, ev) ==
    [acc EXCEPT !.gc[ev.p] = @ + Assisting(acc, ev.g), !.block[ev.g] = ev.link]

\* Bug: the P its goroutine leaves goes on assisting.
PausedWithout(acc, ev) == [acc EXCEPT !.block[ev.g] = 0]

Paused(acc, ev) ==
    [acc EXCEPT !.gc[ev.p] = @ - Assisting(acc, ev.g), !.block[ev.g] = 0]

\* An event changes the counts, or it is not looked at at all.
Step(acc, i) ==
    LET ev == events[i]
        Count(what, d, assists) ==
            IF what \in Flags THEN [acc EXCEPT !.gc[ev.p] = @ + d, !.assists = assists] ELSE acc
    IN  CASE ev.typ = "GCSTWStart" ->
                Record(IF "STW" \in Flags THEN [acc EXCEPT !.stw = @ + 1] ELSE acc, ev.ts)
          [] ev.typ = "GCSTWDone" ->
                Record(IF "STW" \in Flags THEN [acc EXCEPT !.stw = @ - 1] ELSE acc, ev.ts)
          [] ev.typ = "GCMarkAssistStart" ->
                Record(Count("Assist", 1, acc.assists \cup {ev.g}), ev.ts)
          [] ev.typ = "GCMarkAssistDone" ->
                Record(Count("Assist", -1, acc.assists \ {ev.g}), ev.ts)
          [] ev.typ = "GCSweepStart" -> Record(Count("Sweep", 1, acc.assists), ev.ts)
          [] ev.typ = "GCSweepDone"  -> Record(Count("Sweep", -1, acc.assists), ev.ts)
          [] ev.typ \in StartTypes   -> Record(Resumed(acc, ev), ev.ts)
          [] OTHER ->
                IF i # acc.block[ev.g] THEN acc ELSE Record(Paused(acc, ev), ev.ts)

\* The utilization ends with 0: all Ps are busy.
Util ==
    LET acc == Seqs!FoldLeft(Step, Start, [i \in DOMAIN events |-> i])
    IN  addUtil(acc.util, MutatorUtil(events[Len(events)].ts, All))
-----------------------------------------------------------------------------
\* What it should be: after event i, is the span open that Opens begins?
Open(i, Opens(_), Closes(_)) ==
    \E k \in 1..i : Opens(events[k]) /\ \A j \in k..i : ~Closes(events[j])

RunsOn(g, p, i) ==
    Open(i, LAMBDA e : e.typ \in StartTypes /\ e.g = g /\ e.p = p,
            LAMBDA e : e.typ \in LeaveTypes /\ e.g = g)

InGC(p, i) ==
    \/ "Sweep" \in Flags /\ Open(i, LAMBDA e : e.typ = "GCSweepStart" /\ e.p = p,
                                    LAMBDA e : e.typ = "GCSweepDone" /\ e.p = p)
    \/ "Assist" \in Flags /\ \E g \in Goroutine :
            /\ RunsOn(g, p, i)
            /\ Open(i, LAMBDA e : e.typ = "GCMarkAssistStart" /\ e.g = g,
                       LAMBDA e : e.typ = "GCMarkAssistDone" /\ e.g = g)

BusyAfter(i) ==
    IF "STW" \in Flags /\ Open(i, LAMBDA e : e.typ = "GCSTWStart", LAMBDA e : e.typ = "GCSTWDone")
    THEN All ELSE Cardinality({p \in Proc : InGC(p, i)})

\* At the time of every event but the last, the utilization that holds is that
\* of the Ps doing GC work then: also of assists that block and move to other Ps.
UtilizationHolds ==
    LET util == Util
    IN  \A i \in 1..(Len(events) - 1), k \in DOMAIN util :
            /\ util[k].ts <= events[i].ts
            /\ k < Len(util) => events[i].ts < util[k + 1].ts
            => util[k].busy = BusyAfter(i)
=============================================================================
