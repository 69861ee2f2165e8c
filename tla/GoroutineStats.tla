--------------------------- MODULE GoroutineStats ---------------------------
(***************************************************************************)
(* GoroutineStats of src/trace/goroutines.go: one pass over the events of  *)
(* a processed trace that sums up, for every goroutine and every region of *)
(* its code, the time it spent running, waiting, blocked, and during a GC. *)
(*                                                                         *)
(* events is that trace, with times; a timestamp of 0 means "not set" to   *)
(* the code, and is the time of the first event.                           *)
(***************************************************************************)
EXTENDS TraceEvents

CONSTANT events

Seqs == INSTANCE SequencesExt

\* When the goroutine began what it is doing, per kind of time; 0 if it is not.
idle == [exec |-> 0, sched |-> 0, io |-> 0, block |-> 0, syscall |-> 0, sweep |-> 0]

\* GExecutionStat
zeroStat  == [exec |-> 0, sched |-> 0, io |-> 0, block |-> 0, syscall |-> 0, sweep |-> 0,
              gc |-> 0, total |-> 0]
Sub(s, v) == [k \in DOMAIN s |-> s[k] - v[k]]

\* GDesc and gdesc.  from is nil (FALSE) for regions that began before the trace.
UserRegionDesc(task, from, start, stat) ==
    [task |-> task, from |-> from, start |-> start, end |-> 0, stat |-> stat]

noGDesc == [known |-> FALSE, created |-> 0, end |-> 0, stat |-> zeroStat, since |-> idle,
            active |-> <<>>, regions |-> <<>>]

\* snapshotStat
Snapshot(g, now, gcStart) ==
    [k \in DOMAIN zeroStat |->
        CASE k = "gc" ->
                g.stat.gc + (IF gcStart = 0 THEN 0
                             ELSE now - (IF g.created < gcStart THEN gcStart ELSE g.created))
          [] k = "total" -> IF g.stat.total = 0 THEN now - g.created ELSE g.stat.total
          [] OTHER -> g.stat[k] + (IF g.since[k] = 0 THEN 0 ELSE now - g.since[k])]

\* Bug: the statistics at the start of the region are not subtracted.
CloseWhole(region, end, stat) == [region EXCEPT !.end = end, !.stat = stat]

Close(region, end, stat) == [region EXCEPT !.end = end, !.stat = Sub(stat, region.stat)]

\* finalize: at the goroutine's end (trigger) and once more at the trace's.
Finalize(g, now, gcStart, trigger) ==
    LET final == Snapshot(g, now, gcStart)
        End(r) == Close(r, IF trigger THEN now ELSE 0, final)
    IN  [g EXCEPT !.end     = IF trigger THEN now ELSE g.end,
                  !.stat    = final,
                  !.regions = g.regions \o [i \in DOMAIN g.active |-> End(g.active[i])],
                  !.since   = idle,
                  !.active  = <<>>]

\* What the goroutine has done since it began k ends now, or k begins.
Ends(g, k, now) ==
    IF g.since[k] = 0 THEN g
    ELSE [g EXCEPT !.stat[k] = g.stat[k] + now - g.since[k], !.since[k] = 0]
Begins(g, k, now) == [g EXCEPT !.since[k] = now]

\* Leaving a P: lastStartTime is trusted to be set.
Left(g, now) == [g EXCEPT !.stat.exec = g.stat.exec + now - g.since.exec, !.since.exec = 0]

Blocked(g, typ, now) ==
    CASE typ \in {"GoBlockSend", "GoBlockRecv", "GoBlockSelect", "GoBlockSync", "GoBlockCond"}
                                   -> Begins(Left(g, now), "block", now)
      [] typ \in YieldTypes        -> Begins(Left(g, now), "sched", now)
      [] typ = "GoBlockNet"        -> Begins(Left(g, now), "io", now)
      [] typ = "GoSysBlock"        -> Begins(Left(g, now), "syscall", now)
      [] OTHER                     -> Left(g, now)

\* Bug: a wakeup does not end what the goroutine was blocked for.
WokenStill(g, now) == Begins(g, "sched", now)

Woken(g, now) == Begins(Ends(Ends(g, "io", now), "block", now), "sched", now)

\* The goroutine inherits the task of its creator's innermost region.
Created(ev, creator) ==
    LET last == creator.active[Len(creator.active)]
    IN  [noGDesc EXCEPT
            !.known = TRUE, !.created = ev.ts, !.since.sched = ev.ts,
            !.active = IF creator.active # <<>> /\ last.task # 0
                       THEN <<UserRegionDesc(last.task, TRUE, ev.ts, zeroStat)>> ELSE <<>>]

RegionStarted(g, ev, gcStart) ==
    [g EXCEPT !.active = Append(g.active, UserRegionDesc(ev.seq, TRUE, ev.ts, Snapshot(g, ev.ts, gcStart)))]

RegionEnded(g, ev, gcStart) ==
    LET n      == Len(g.active)
        region == IF n > 0 THEN g.active[n] ELSE UserRegionDesc(ev.seq, FALSE, 0, zeroStat)
    IN  [g EXCEPT !.active  = SubSeq(g.active, 1, n - 1),
                  !.regions = Append(g.regions, Close(region, ev.ts, Snapshot(g, ev.ts, gcStart)))]

\* Every goroutine that has not ended is charged for the GC.
Charged(g, now, gcStart) ==
    IF ~g.known \/ g.end # 0 THEN g
    ELSE [g EXCEPT !.stat.gc = g.stat.gc + now - (IF gcStart < g.created THEN g.created ELSE gcStart)]

\* One event.  The code dereferences gs[ev.G] without a check but for sweeps.
Step(acc, ev) ==
    LET gs  == acc.gs
        now == ev.ts
        Set(g, desc) == [acc EXCEPT !.gs[g] = desc]
    IN  CASE ev.typ = "GoCreate" ->
                Set(ev.arg, Created(ev, IF ev.g = NoG THEN noGDesc ELSE gs[ev.g]))
          [] ev.typ \in StartTypes ->
                Set(ev.g, Ends(Begins(gs[ev.g], "exec", now), "sched", now))
          [] ev.typ \in EndTypes ->
                Set(ev.g, Finalize(gs[ev.g], now, acc.gcStart, TRUE))
          [] ev.typ \in LeaveTypes \ EndTypes ->
                Set(ev.g, Blocked(gs[ev.g], ev.typ, now))
          [] ev.typ = "GoUnblock" ->
                Set(ev.arg, Woken(gs[ev.arg], now))
          [] ev.typ = "GoSysExit" ->
                Set(ev.g, Begins(Ends(gs[ev.g], "syscall", now), "sched", now))
          [] ev.typ = "GCSweepStart" /\ ev.g # NoG ->
                Set(ev.g, Begins(gs[ev.g], "sweep", now))
          [] ev.typ = "GCSweepDone" /\ ev.g # NoG ->
                Set(ev.g, Ends(gs[ev.g], "sweep", now))
          [] ev.typ = "GCStart" -> [acc EXCEPT !.gcStart = now]
          [] ev.typ = "GCDone" ->
                [gs |-> [g \in Goroutine |-> Charged(gs[g], now, acc.gcStart)], gcStart |-> 0]
          [] ev.typ = "UserRegionStart" ->
                Set(ev.g, RegionStarted(gs[ev.g], ev, acc.gcStart))
          [] ev.typ = "UserRegionEnd" ->
                Set(ev.g, RegionEnded(gs[ev.g], ev, acc.gcStart))
          [] OTHER -> acc

lastTs == events[Len(events)].ts

\* The statistics at the end of the trace; regions stay in the order they ended.
Stat ==
    LET acc == Seqs!FoldLeft(Step, [gs |-> [g \in Goroutine |-> noGDesc], gcStart |-> 0], events)
    IN  [g \in Goroutine |-> IF acc.gs[g].known THEN Finalize(acc.gs[g], lastTs, acc.gcStart, FALSE)
                             ELSE noGDesc]
-----------------------------------------------------------------------------
(***************************************************************************)
(* What the statistics should be: the time between two events is spent on  *)
(* what the goroutine began last.                                          *)
(***************************************************************************)
Moves(ev, g) == \/ ev.g = g /\ ev.typ \in StartTypes \cup LeaveTypes \cup {"GoSysExit"}
                \/ ev.arg = g /\ ev.typ \in {"GoCreate", "GoUnblock"}

\* The position of the event that moved g last, up to i; 0 if none did.
LastMove(g, i) ==
    CHOOSE k \in 0..i : /\ k # 0 => Moves(events[k], g)
                        /\ \A j \in (k + 1)..i : ~Moves(events[j], g)

\* What g spends its time on after event i; what it began at 0 does not count.
Doing(g, i) ==
    LET k == LastMove(g, i)
    IN  IF k = 0 \/ events[k].ts = 0 THEN "nothing"
        ELSE LET typ == events[k].typ
             IN  CASE typ \in StartTypes -> "exec"
                   [] typ \in {"GoCreate", "GoUnblock", "GoSysExit"} \cup YieldTypes -> "sched"
                   [] typ = "GoBlockNet" -> "io"
                   [] typ = "GoSysBlock" -> "syscall"
                   [] typ \in {"GoBlockSend", "GoBlockRecv", "GoBlockSelect", "GoBlockSync",
                               "GoBlockCond"} -> "block"
                   [] OTHER -> "nothing"

\* Is the GC running after event i?
Collecting(i) ==
    \E k \in 1..i : /\ events[k].typ = "GCStart"
                    /\ \A j \in k..i : events[j].typ # "GCDone"

\* The time between the events `from` and `to` that is spent as Is says.
Spent(from, to, Is(_)) ==
    Seqs!FoldLeft(LAMBDA sum, i : IF Is(i) THEN sum + events[i + 1].ts - events[i].ts ELSE sum,
                  0, [i \in 1..(to - from) |-> from + i - 1])

At(ts) == CHOOSE i \in DOMAIN events : events[i].ts = ts

\* From birth to death, or to the end of the trace.
Born(g)  == {i \in DOMAIN events : events[i].typ = "GoCreate" /\ events[i].arg = g}
Died(g)  == {i \in DOMAIN events : events[i].typ \in EndTypes /\ events[i].g = g}
First(g) == CHOOSE i \in Born(g) : TRUE
Last(g)  == IF Died(g) = {} THEN Len(events) ELSE CHOOSE i \in Died(g) : TRUE

Activities == {"exec", "sched", "io", "block", "syscall"}

\* s is how g spent its time between two events.
Measures(s, g, from, to) ==
    /\ \A k \in Activities : s[k] = Spent(from, to, LAMBDA i : Doing(g, i) = k)
    /\ s.total = events[to].ts - events[from].ts

\* GoWaiting and GoInSyscall are not looked at: a goroutine that was blocked when
\* tracing began counts as waiting for a P.
Snapped(g) == \E i \in DOMAIN events : events[i].typ \in SnapTypes /\ events[i].g = g

\* goroutines.go:297: one that ended is charged again for a GC under way at the end.
ChargedTwice(g) == Died(g) # {} /\ Collecting(Len(events))

\* The running, waiting and blocked times of a goroutine are those of its life,
\* unless it was blocked when tracing began; and so is its GC time.
GoroutineTimes ==
    LET gs == Stat
    IN  \A g \in Goroutine : Born(g) # {} =>
            /\ ~Snapped(g) => Measures(gs[g].stat, g, First(g), Last(g))
            /\ ~ChargedTwice(g) => gs[g].stat.gc = Spent(First(g), Last(g), Collecting)

\* Those of a region, and its GC time, are those between its ends, whatever it
\* has in common with other regions.
RegionTimes ==
    LET gs == Stat
    IN  \A g \in Goroutine : \A i \in DOMAIN gs[g].regions :
            LET r    == gs[g].regions[i]
                from == IF r.from THEN At(r.start) ELSE First(g)
                to   == IF r.end = 0 THEN Len(events) ELSE At(r.end)
            IN  Measures(r.stat, g, from, to) /\ r.stat.gc = Spent(from, to, Collecting)
=============================================================================
