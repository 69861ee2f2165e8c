-------------------------- MODULE PostProcessProofs --------------------------
(***************************************************************************)
(* What postProcessTrace guarantees for every input, from a real trace or  *)
(* not: its descriptors keep their types, no nil event is ever             *)
(* dereferenced, and the trace it accepts is a run of AbsScheduler.        *)
(*                                                                         *)
(* The invariant ties the descriptors together: a goroutine is running     *)
(* exactly if one real P has it, and then it has a start event.  Fake Ps   *)
(* keep stale copies of descriptors and are left out of it.                *)
(***************************************************************************)
EXTENDS PostProcess, TLAPS

\* How the descriptors of goroutines and of real Ps agree.
Agree ==
    /\ gs[NoG].state = "gRunning"
    /\ \A g \in G : ~gs[g].known => gs[g].state = "gDead"
    /\ \A g \in Goroutine : gs[g].state = "gRunning" =>
         gs[g].evStart # Nil /\ \E p \in Proc : ps[p].g = g
    /\ \A p \in Proc : ps[p].g # NoG => gs[ps[p].g].state = "gRunning"
    /\ \A p, q \in Proc : ps[p].g = ps[q].g /\ ps[p].g # NoG => p = q

Inv == PostTypeOK /\ Agree /\ NoNilDereference

\* Neither a goroutine's state nor what a real P runs changes.
SameRuns ==
    /\ \A g \in G : /\ gs'[g].state = gs[g].state /\ gs'[g].evStart = gs[g].evStart
                    /\ gs[g].known => gs'[g].known
    /\ \A p \in Proc : ps'[p].g = ps[p].g
-----------------------------------------------------------------------------
LEMMA NoGApart == NoG \notin Goroutine /\ NoG \in G /\ Goroutine \subseteq G
BY Sentinels DEF G

LEMMA RealApart == Proc \subseteq P /\ FakePs \subseteq P /\ Proc \cap FakePs = {}
BY FakePsAreNotReal DEF P

\* What the types of an input event and of its descriptors say.
LEMMA InputTyped ==
    ASSUME PostTypeOK, NEW ev \in InputEvents
    PROVE  /\ ev \in InputEvents /\ ev.g \in G /\ ev.arg \in G /\ ev.p \in P /\ ev.seq \in Nat
           /\ ev.typ \in (EventTypes \ LocalTypes) \cup {BadRegion}
           /\ ev.typ \notin {"GoUnblock", "GoSysExit"} => ev.p \in Proc
           /\ gs[ev.g] \in gdesc /\ gs[ev.arg] \in gdesc /\ ps[ev.p] \in pdesc
           /\ Here \in Nat \ {0} /\ GlobalSTW \in BOOLEAN
<1>1. ev \in InputEvents
  OBVIOUS
<1>2. /\ ev.g \in G /\ ev.arg \in G /\ ev.p \in Proc \cup {TimerP, SyscallP} /\ ev.seq \in Nat
      /\ ev.typ \in (EventTypes \ LocalTypes) \cup {BadRegion}
  BY <1>1 DEF InputEvents, G
<1>3. ev.p \in P
  BY <1>2 DEF P, FakePs
<1>4. ev.typ \notin {"GoUnblock", "GoSysExit"} => ev.p \in Proc
  BY <1>1, <1>2 DEF InputEvents
<1>5. Len(trace) \in Nat
  BY DEF PostTypeOK
<1> QED BY <1>1, <1>2, <1>3, <1>4, <1>5, PostAssumption DEF PostTypeOK, Here

LEMMA RecordTyped ==
    ASSUME PostTypeOK, NEW ev \in InputEvents, ev.typ # BadRegion, NEW p \in P, NEW from,
           Record(ev, p, from)
    PROVE  trace' \in Seq(Processed)
<1>1. /\ ev.g \in G /\ ev.arg \in G /\ ev.seq \in Nat /\ ev.typ \in EventTypes
      /\ gs[ev.g].evCreate \in Nat /\ Here \in Nat
  BY InputTyped DEF gdesc
<1> DEFINE old == [i \in DOMAIN trace |->
                     IF i \in from THEN [trace[i] EXCEPT !.link = Here] ELSE trace[i]]
           new == [typ |-> ev.typ, p |-> p, g |-> ev.g, arg |-> ev.arg, seq |-> ev.seq, link |-> Nil,
                   stk |-> IF ev.typ \in StartTypes THEN gs[ev.g].evCreate ELSE Nil]
<1>2. new \in Processed
  BY <1>1 DEF Processed, Nil
<1>3. trace \in Seq(Processed) /\ DOMAIN trace = 1..Len(trace) /\ Len(trace) \in Nat
  BY DEF PostTypeOK
<1>4. \A i \in 1..Len(trace) : trace[i] \in Processed /\ [trace[i] EXCEPT !.link = Here] \in Processed
  <2> SUFFICES ASSUME NEW e \in Processed PROVE [e EXCEPT !.link = Here] \in Processed
    BY <1>3
  <2> QED BY <1>1 DEF Processed
<1>5. old \in [1..Len(trace) -> Processed]
  BY <1>3, <1>4
<1>6. old \in Seq(Processed)
  BY <1>3, <1>5
<1>7. trace' = Append(old, new)
  BY DEF Record
<1> HIDE DEF old, new
<1> QED BY <1>2, <1>6, <1>7

\* The plain write-back of a case that leaves the scheduling alone.
LEMMA RestoreKeeps ==
    ASSUME Inv, NEW ev \in InputEvents, NEW p \in P, NEW g \in gdesc, NEW desc \in pdesc,
           g.state = gs[ev.g].state, g.evStart = gs[ev.g].evStart,
           p \in Proc => desc.g = ps[p].g,
           Restore(ev, p, gs, g, desc)
    PROVE  gs' \in [G -> gdesc] /\ ps' \in [P -> pdesc] /\ SameRuns
<1> DEFINE new == [g EXCEPT !.known = TRUE]
<1>1. new \in gdesc /\ new.state = gs[ev.g].state /\ new.evStart = gs[ev.g].evStart /\ new.known
  BY DEF gdesc
<1>2. ev.g \in G /\ gs \in [G -> gdesc] /\ ps \in [P -> pdesc]
  BY InputTyped DEF Inv, PostTypeOK
<1>3. gs' = [gs EXCEPT ![ev.g] = new] /\ ps' = [ps EXCEPT ![p] = desc]
  BY DEF Restore
<1> HIDE DEF new
<1>4. gs' \in [G -> gdesc] /\ ps' \in [P -> pdesc]
  BY <1>1, <1>2, <1>3
<1>5. \A h \in G : gs'[h] = IF h = ev.g THEN new ELSE gs[h]
  BY <1>2, <1>3
<1>6. \A q \in Proc : ps'[q] = IF q = p THEN desc ELSE ps[q]
  BY <1>2, <1>3, RealApart
<1> QED BY <1>1, <1>4, <1>5, <1>6 DEF SameRuns

LEMMA SameRunsAgree ==
    ASSUME Inv, SameRuns
    PROVE  Agree'
<1>1. \A p \in Proc : ps[p].g \in G
  BY RealApart DEF Inv, PostTypeOK, pdesc
<1>2. gs'[NoG].state = "gRunning"
  BY NoGApart DEF Inv, Agree, SameRuns
<1>3. \A g \in G : ~gs'[g].known => gs'[g].state = "gDead"
  BY DEF Inv, Agree, SameRuns
<1>4. \A g \in Goroutine : gs'[g].state = "gRunning" =>
        gs'[g].evStart # Nil /\ \E p \in Proc : ps'[p].g = g
  BY NoGApart DEF Inv, Agree, SameRuns
<1>5. \A p \in Proc : ps'[p].g # NoG => gs'[ps'[p].g].state = "gRunning"
  BY <1>1 DEF Inv, Agree, SameRuns
<1>6. \A p, q \in Proc : ps'[p].g = ps'[q].g /\ ps'[p].g # NoG => p = q
  BY DEF Inv, Agree, SameRuns
<1> QED BY <1>2, <1>3, <1>4, <1>5, <1>6 DEF Agree

\* A case that leaves the scheduling alone, as a whole.
LEMMA QuietCase ==
    ASSUME Inv, NEW ev \in InputEvents, ev.typ # BadRegion, NEW p \in P, NEW g \in gdesc,
           NEW desc \in pdesc, NEW from,
           g.state = gs[ev.g].state, g.evStart = gs[ev.g].evStart,
           p \in Proc => desc.g = ps[p].g,
           Record(ev, p, from), Restore(ev, p, gs, g, desc), UNCHANGED verdict,
           tasks' \subseteq Nat, regions' \in [G -> Seq(Nat)], evGC' \in Nat, evSTW' \in Nat
    PROVE  Inv' /\ SameRuns
<1>1. gs' \in [G -> gdesc] /\ ps' \in [P -> pdesc] /\ SameRuns
  BY RestoreKeeps
<1>2. trace' \in Seq(Processed)
  BY RecordTyped DEF Inv
<1>3. Agree'
  BY <1>1, SameRunsAgree
<1> QED BY <1>1, <1>2, <1>3 DEF Inv, PostTypeOK, NoNilDereference
-----------------------------------------------------------------------------
\* One step of the scheduler, or none, as the descriptors show it.
runs == [p \in Proc |-> ps[p].g]
is   == [g \in Goroutine |-> gs[g].state]

SchedStep == [Sched!Next]_<<runs, is>>

LEMMA SameRunsStutter == ASSUME SameRuns PROVE SchedStep
<1>1. runs' = runs /\ is' = is
  BY NoGApart DEF SameRuns, runs, is
<1> QED BY <1>1 DEF SchedStep

\* Only goroutine h moves, and it does not run before or after.
OnlyMoves(h) ==
    /\ \A g \in G \ {h} : /\ gs'[g].state = gs[g].state /\ gs'[g].evStart = gs[g].evStart
                          /\ gs[g].known => gs'[g].known
    /\ \A p \in Proc : ps'[p].g = ps[p].g

LEMMA MovesAgree ==
    ASSUME Inv, NEW h \in Goroutine, OnlyMoves(h), gs[h].state # "gRunning",
           gs'[h].state # "gRunning", gs'[h].known
    PROVE  Agree'
<1>1. \A p \in Proc : ps[p].g \in G /\ ps[p].g # h
  BY RealApart, NoGApart DEF Inv, PostTypeOK, pdesc, Agree
<1>2. gs'[NoG].state = "gRunning"
  BY NoGApart DEF Inv, Agree, OnlyMoves
<1>3. \A g \in G : ~gs'[g].known => gs'[g].state = "gDead"
  BY DEF Inv, Agree, OnlyMoves
<1>4. \A g \in Goroutine : gs'[g].state = "gRunning" =>
        gs'[g].evStart # Nil /\ \E p \in Proc : ps'[p].g = g
  BY NoGApart DEF Inv, Agree, OnlyMoves
<1>5. \A p \in Proc : ps'[p].g # NoG => gs'[ps'[p].g].state = "gRunning"
  BY <1>1 DEF Inv, Agree, OnlyMoves
<1>6. \A p, q \in Proc : ps'[p].g = ps'[q].g /\ ps'[p].g # NoG => p = q
  BY DEF Inv, Agree, OnlyMoves
<1> QED BY <1>2, <1>3, <1>4, <1>5, <1>6 DEF Agree

LEMMA MovesProject ==
    ASSUME NEW h \in Goroutine, OnlyMoves(h)
    PROVE  runs' = runs /\ is' = [is EXCEPT ![h] = gs'[h].state] /\ is[h] = gs[h].state
BY NoGApart DEF OnlyMoves, runs, is

\* Goroutine h, on real P p, starts to run or stops to.
Switches(h, p) ==
    /\ \A g \in G \ {h} : /\ gs'[g].state = gs[g].state /\ gs'[g].evStart = gs[g].evStart
                          /\ gs[g].known => gs'[g].known
    /\ \A q \in Proc \ {p} : ps'[q].g = ps[q].g

LEMMA StartAgrees ==
    ASSUME Inv, NEW h \in Goroutine, NEW p \in Proc, Switches(h, p), gs[h].state # "gRunning",
           ps[p].g = NoG, ps'[p].g = h, gs'[h].state = "gRunning", gs'[h].evStart # Nil,
           gs'[h].known
    PROVE  Agree'
<1>1. \A q \in Proc : ps[q].g \in G /\ ps[q].g # h
  BY RealApart, NoGApart DEF Inv, PostTypeOK, pdesc, Agree
<1>2. gs'[NoG].state = "gRunning"
  BY NoGApart DEF Inv, Agree, Switches
<1>3. \A g \in G : ~gs'[g].known => gs'[g].state = "gDead"
  BY DEF Inv, Agree, Switches
<1>4. ASSUME NEW g \in Goroutine, gs'[g].state = "gRunning"
      PROVE  gs'[g].evStart # Nil /\ \E q \in Proc : ps'[q].g = g
  <2>1. CASE g = h
    BY <2>1
  <2>2. CASE g # h
    <3>1. gs[g].state = "gRunning" /\ gs'[g].evStart = gs[g].evStart /\ g \in G
      BY <1>4, <2>2, NoGApart DEF Switches
    <3>2. PICK q \in Proc : ps[q].g = g
      BY <3>1 DEF Inv, Agree
    <3>3. q # p
      BY <3>2, NoGApart
    <3>4. gs'[g].evStart # Nil /\ ps'[q].g = g
      BY <3>1, <3>2, <3>3 DEF Switches, Inv, Agree
    <3> QED BY <3>4
  <2> QED BY <2>1, <2>2
<1>5. \A q \in Proc : ps'[q].g # NoG => gs'[ps'[q].g].state = "gRunning"
  BY <1>1 DEF Inv, Agree, Switches
<1>6. \A q, r \in Proc : ps'[q].g = ps'[r].g /\ ps'[q].g # NoG => q = r
  BY <1>1 DEF Inv, Agree, Switches
<1> QED BY <1>2, <1>3, <1>4, <1>5, <1>6 DEF Agree

LEMMA LeaveAgrees ==
    ASSUME Inv, NEW h \in Goroutine, NEW p \in Proc, Switches(h, p), ps[p].g = h,
           ps'[p].g = NoG, gs'[h].state # "gRunning", gs'[h].known
    PROVE  Agree'
<1>1. \A q \in Proc : ps[q].g \in G /\ (q # p => ps[q].g # h)
  BY RealApart, NoGApart DEF Inv, PostTypeOK, pdesc, Agree
<1>2. gs'[NoG].state = "gRunning"
  BY NoGApart DEF Inv, Agree, Switches
<1>3. \A g \in G : ~gs'[g].known => gs'[g].state = "gDead"
  BY DEF Inv, Agree, Switches
<1>4. ASSUME NEW g \in Goroutine, gs'[g].state = "gRunning"
      PROVE  gs'[g].evStart # Nil /\ \E q \in Proc : ps'[q].g = g
  <2>1. g # h /\ g \in G
    BY <1>4, NoGApart
  <2>2. gs[g].state = "gRunning" /\ gs'[g].evStart = gs[g].evStart
    BY <1>4, <2>1 DEF Switches
  <2>3. PICK q \in Proc : ps[q].g = g
    BY <2>2 DEF Inv, Agree
  <2>4. gs'[g].evStart # Nil /\ ps'[q].g = g
    BY <2>1, <2>2, <2>3 DEF Switches, Inv, Agree
  <2> QED BY <2>4
<1>5. \A q \in Proc : ps'[q].g # NoG => gs'[ps'[q].g].state = "gRunning"
  BY <1>1 DEF Inv, Agree, Switches
<1>6. \A q, r \in Proc : ps'[q].g = ps'[r].g /\ ps'[q].g # NoG => q = r
  BY <1>1 DEF Inv, Agree, Switches
<1> QED BY <1>2, <1>3, <1>4, <1>5, <1>6 DEF Agree

LEMMA SwitchesProject ==
    ASSUME NEW h \in Goroutine, NEW p \in Proc, Switches(h, p)
    PROVE  /\ runs' = [runs EXCEPT ![p] = ps'[p].g] /\ is' = [is EXCEPT ![h] = gs'[h].state]
           /\ runs[p] = ps[p].g /\ is[h] = gs[h].state
BY NoGApart DEF Switches, runs, is
-----------------------------------------------------------------------------
(***************************************************************************)
(* One lemma per case of the switch                                        *)
(***************************************************************************)
\* What the checks say of an event that moves a goroutine.
LEMMA FitsSays ==
    ASSUME NEW ev, Fits(ev)
    PROVE  /\ ev.typ \in SnapTypes \cup StartTypes => gs[ev.g].state = "gRunnable"
           /\ ev.typ \in StartTypes => ps[ev.p].g = NoG
           /\ ev.typ = "GoCreate" => Running(ev, TRUE) /\ ~gs[ev.arg].known
           /\ ev.typ \in LeaveTypes => Running(ev, FALSE)
           /\ ev.typ = "GoUnblock" => gs[ev.g].state = "gRunning" /\ gs[ev.arg].state = "gWaiting"
           /\ ev.typ = "GoSysExit" => gs[ev.g].state = "gWaiting"
           /\ ev.typ # BadRegion
BY DEF Fits, SnapTypes, StartTypes, LeaveTypes, ParkTypes, YieldTypes, EndTypes, BadRegion

\* The write-back in general.
LEMMA RestoreEffect ==
    ASSUME Inv, NEW ev \in InputEvents, NEW p \in P, NEW other \in [G -> gdesc], NEW g \in gdesc,
           NEW desc \in pdesc, Restore(ev, p, other, g, desc)
    PROVE  /\ gs' \in [G -> gdesc] /\ ps' \in [P -> pdesc]
           /\ gs'[ev.g].state = g.state /\ gs'[ev.g].evStart = g.evStart /\ gs'[ev.g].known
           /\ \A h \in G \ {ev.g} : gs'[h] = other[h]
           /\ ps'[p] = desc /\ \A q \in P \ {p} : ps'[q] = ps[q]
<1> DEFINE new == [g EXCEPT !.known = TRUE]
<1>1. new \in gdesc /\ new.state = g.state /\ new.evStart = g.evStart /\ new.known
  BY DEF gdesc
<1>2. ev.g \in G /\ ps \in [P -> pdesc]
  BY InputTyped DEF Inv, PostTypeOK
<1>3. gs' = [other EXCEPT ![ev.g] = new] /\ ps' = [ps EXCEPT ![p] = desc]
  BY DEF Restore
<1> HIDE DEF new
<1> QED BY <1>1, <1>2, <1>3

\* The whole of a case that moves one goroutine between two states in which
\* it does not run.
LEMMA MoveCase ==
    ASSUME Inv, NEW ev \in InputEvents, ev.typ # BadRegion, NEW p \in P, NEW from,
           NEW other \in [G -> gdesc], NEW g \in gdesc, NEW desc \in pdesc, NEW h \in Goroutine,
           Record(ev, p, from), Restore(ev, p, other, g, desc),
           UNCHANGED <<verdict, tasks, regions, evGC, evSTW>>,
           p \in Proc => desc.g = ps[p].g,
           gs[h].state # "gRunning", gs'[h].state # "gRunning", gs'[h].known,
           \A k \in G \ {h} : other[k] = gs[k],
           ev.g # h => g.state = gs[ev.g].state /\ g.evStart = gs[ev.g].evStart
    PROVE  Inv' /\ OnlyMoves(h)
<1>1. /\ gs' \in [G -> gdesc] /\ ps' \in [P -> pdesc]
      /\ gs'[ev.g].state = g.state /\ gs'[ev.g].evStart = g.evStart /\ gs'[ev.g].known
      /\ \A k \in G \ {ev.g} : gs'[k] = other[k]
      /\ ps'[p] = desc /\ \A q \in P \ {p} : ps'[q] = ps[q]
  BY RestoreEffect
<1>2. OnlyMoves(h)
  <2>1. \A q \in Proc : ps'[q].g = ps[q].g
    BY <1>1, RealApart
  <2>2. ASSUME NEW k \in G \ {h}
        PROVE  gs'[k].state = gs[k].state /\ gs'[k].evStart = gs[k].evStart
               /\ (gs[k].known => gs'[k].known)
    <3>1. CASE k = ev.g
      BY <1>1, <3>1
    <3>2. CASE k # ev.g
      BY <1>1, <3>2
    <3> QED BY <3>1, <3>2
  <2> QED BY <2>1, <2>2 DEF OnlyMoves
<1>3. Agree'
  BY <1>2, MovesAgree
<1>4. trace' \in Seq(Processed)
  BY RecordTyped DEF Inv
<1> QED BY <1>1, <1>2, <1>3, <1>4 DEF Inv, PostTypeOK, NoNilDereference

LEMMA SnapCase ==
    ASSUME Inv, NEW ev \in InputEvents, Fits(ev), GoAnnounced(ev)
    PROVE  Inv' /\ SchedStep
<1> DEFINE g == [gs[ev.g] EXCEPT !.state = "gWaiting", !.ev = Here]
<1>1. /\ ev.typ \in SnapTypes /\ Record(ev, ev.p, {}) /\ Restore(ev, ev.p, gs, g, ps[ev.p])
      /\ UNCHANGED <<verdict, tasks, regions, evGC, evSTW>>
  BY DEF GoAnnounced, Accept
<1>2. gs[ev.g].state = "gRunnable" /\ ev.typ # BadRegion
  BY <1>1, FitsSays
<1>3. /\ ev.p \in P /\ ev.g \in G /\ gs[ev.g] \in gdesc /\ ps[ev.p] \in pdesc /\ Here \in Nat
      /\ gs \in [G -> gdesc]
  BY InputTyped DEF Inv, PostTypeOK
<1>4. g \in gdesc /\ g.state = "gWaiting"
  BY <1>3 DEF gdesc, gStatus
<1>5. ev.g \in Goroutine
  BY <1>2, <1>3 DEF Inv, Agree, G
<1> HIDE DEF g
<1>6. gs'[ev.g].state = "gWaiting" /\ gs'[ev.g].known
  BY <1>1, <1>3, <1>4, RestoreEffect
<1>7. Inv' /\ OnlyMoves(ev.g)
  BY <1>1, <1>2, <1>3, <1>4, <1>5, <1>6, MoveCase
<1>8. Sched!Blocked(ev.g)
  BY <1>2, <1>5, <1>6, <1>7, MovesProject DEF Sched!Blocked, runs, is
<1> QED BY <1>5, <1>7, <1>8 DEF SchedStep, Sched!Next

LEMMA SysExitCase ==
    ASSUME Inv, NEW ev \in InputEvents, Fits(ev), GoSysExit(ev)
    PROVE  Inv' /\ SchedStep
<1> DEFINE g == [gs[ev.g] EXCEPT !.state = "gRunnable", !.ev = Here]
           from == {i \in {gs[ev.g].ev} \ {Nil} : trace[i].typ = "GoSysCall"}
<1>1. /\ ev.typ = "GoSysExit" /\ Record(ev, ev.p, from) /\ Restore(ev, ev.p, gs, g, ps[ev.p])
      /\ UNCHANGED <<verdict, tasks, regions, evGC, evSTW>>
  BY DEF GoSysExit, Accept
<1>2. gs[ev.g].state = "gWaiting" /\ ev.typ # BadRegion
  BY <1>1, FitsSays
<1>3. /\ ev.p \in P /\ ev.g \in G /\ gs[ev.g] \in gdesc /\ ps[ev.p] \in pdesc /\ Here \in Nat
      /\ gs \in [G -> gdesc]
  BY InputTyped DEF Inv, PostTypeOK
<1>4. g \in gdesc /\ g.state = "gRunnable"
  BY <1>3 DEF gdesc, gStatus
<1>5. ev.g \in Goroutine
  BY <1>2, <1>3 DEF Inv, Agree, G
<1> HIDE DEF g, from
<1>6. gs'[ev.g].state = "gRunnable" /\ gs'[ev.g].known
  BY <1>1, <1>3, <1>4, RestoreEffect
<1>7. Inv' /\ OnlyMoves(ev.g)
  BY <1>1, <1>2, <1>3, <1>4, <1>5, <1>6, MoveCase
<1>8. Sched!Wake(ev.g)
  BY <1>2, <1>5, <1>6, <1>7, MovesProject DEF Sched!Wake, runs, is
<1> QED BY <1>5, <1>7, <1>8 DEF SchedStep, Sched!Next

LEMMA CreateCase ==
    ASSUME Inv, NEW ev \in InputEvents, Fits(ev), GoCreate(ev)
    PROVE  Inv' /\ SchedStep
<1> DEFINE new == [noG EXCEPT !.known = TRUE, !.state = "gRunnable", !.ev = Here, !.evCreate = Here]
           other == [gs EXCEPT ![ev.arg] = new]
<1>1. /\ ev.typ = "GoCreate" /\ Record(ev, ev.p, {})
      /\ Restore(ev, ev.p, other, gs[ev.g], ps[ev.p])
      /\ UNCHANGED <<verdict, tasks, regions, evGC, evSTW>>
  BY DEF GoCreate
<1>2. gs[ev.g].state = "gRunning" /\ ~gs[ev.arg].known /\ ev.typ # BadRegion
  BY <1>1, FitsSays DEF Running
<1>3. /\ ev.p \in P /\ ev.g \in G /\ ev.arg \in G /\ gs[ev.g] \in gdesc /\ ps[ev.p] \in pdesc
      /\ Here \in Nat /\ gs \in [G -> gdesc]
  BY InputTyped DEF Inv, PostTypeOK
<1>4. new \in gdesc /\ new.state = "gRunnable" /\ new.known
  BY <1>3 DEF gdesc, gStatus, noG, Nil
<1>5. gs[ev.arg].state = "gDead"
  BY <1>2, <1>3 DEF Inv, Agree
<1>6. ev.arg \in Goroutine /\ ev.arg # ev.g
  BY <1>2, <1>3, <1>5 DEF Inv, Agree, G
<1> HIDE DEF new
<1>7. other \in [G -> gdesc] /\ other[ev.arg] = new /\ \A k \in G \ {ev.arg} : other[k] = gs[k]
  BY <1>3, <1>4
<1> HIDE DEF other
<1>8. gs'[ev.arg].state = "gRunnable" /\ gs'[ev.arg].known
  <2>1. gs'[ev.arg] = other[ev.arg]
    BY <1>1, <1>3, <1>6, <1>7, RestoreEffect
  <2> QED BY <1>4, <1>7, <2>1
<1>9. Inv' /\ OnlyMoves(ev.arg)
  BY <1>1, <1>2, <1>3, <1>5, <1>6, <1>7, <1>8, MoveCase
<1>10. Sched!Create(ev.arg)
  BY <1>5, <1>6, <1>8, <1>9, MovesProject DEF Sched!Create, runs, is
<1> QED BY <1>6, <1>9, <1>10 DEF SchedStep, Sched!Next

LEMMA UnblockCase ==
    ASSUME Inv, NEW ev \in InputEvents, Fits(ev), GoUnblock(ev)
    PROVE  Inv' /\ SchedStep
<1> DEFINE g1 == gs[ev.arg]
           new == [g1 EXCEPT !.state = "gRunnable", !.ev = Here]
           other == [gs EXCEPT ![ev.arg] = new]
           p == IF g1.ev # Nil /\ trace[g1.ev].typ = "GoBlockNet" /\ ev.p # TimerP
                THEN NetpollP ELSE ev.p
<1>1. /\ ev.typ = "GoUnblock" /\ Record(ev, p, {g1.ev})
      /\ Restore(ev, p, other, gs[ev.g], ps[ev.p])
      /\ UNCHANGED <<verdict, tasks, regions, evGC, evSTW>>
  BY DEF GoUnblock
<1>2. gs[ev.g].state = "gRunning" /\ gs[ev.arg].state = "gWaiting" /\ ev.typ # BadRegion
  BY <1>1, FitsSays
<1>3. /\ ev.p \in P /\ ev.g \in G /\ ev.arg \in G /\ gs[ev.g] \in gdesc /\ ps[ev.p] \in pdesc
      /\ g1 \in gdesc /\ Here \in Nat /\ gs \in [G -> gdesc]
  BY InputTyped DEF Inv, PostTypeOK
<1>4. p \in P /\ (p \in Proc => ps[ev.p].g = ps[p].g)
  <2>1. NetpollP \in P /\ NetpollP \notin Proc
    BY RealApart DEF FakePs
  <2> QED BY <1>3, <2>1
<1>5. new \in gdesc /\ new.state = "gRunnable" /\ (g1.known => new.known)
  BY <1>3 DEF gdesc, gStatus
<1>6. ev.arg \in Goroutine /\ ev.arg # ev.g /\ g1.known
  BY <1>2, <1>3 DEF Inv, Agree, G
<1> HIDE DEF new, p
<1>7. other \in [G -> gdesc] /\ other[ev.arg] = new /\ \A k \in G \ {ev.arg} : other[k] = gs[k]
  BY <1>3, <1>5
<1> HIDE DEF other
<1>8. gs'[ev.arg].state = "gRunnable" /\ gs'[ev.arg].known
  <2>1. gs'[ev.arg] = other[ev.arg]
    BY <1>1, <1>3, <1>4, <1>6, <1>7, RestoreEffect
  <2> QED BY <1>5, <1>6, <1>7, <2>1
<1>9. Inv' /\ OnlyMoves(ev.arg)
  BY <1>1, <1>2, <1>3, <1>4, <1>6, <1>7, <1>8, MoveCase
<1>10. Sched!Wake(ev.arg)
  BY <1>2, <1>6, <1>8, <1>9, MovesProject DEF Sched!Wake, runs, is
<1> QED BY <1>6, <1>9, <1>10 DEF SchedStep, Sched!Next

LEMMA StartCase ==
    ASSUME Inv, NEW ev \in InputEvents, Fits(ev), GoStart(ev)
    PROVE  Inv' /\ SchedStep
<1> DEFINE g == [gs[ev.g] EXCEPT !.state = "gRunning", !.evStart = Here, !.evCreate = Nil,
                                 !.ev = Nil]
           desc == [ps[ev.p] EXCEPT !.g = ev.g]
<1>1. /\ ev.typ \in StartTypes /\ Record(ev, ev.p, {gs[ev.g].ev}) /\ Restore(ev, ev.p, gs, g, desc)
      /\ UNCHANGED <<verdict, tasks, regions, evGC, evSTW>>
  BY DEF GoStart, Started, Taken, Accept
<1>2. gs[ev.g].state = "gRunnable" /\ ps[ev.p].g = NoG /\ ev.typ # BadRegion
  BY <1>1, FitsSays
<1>3. /\ ev.p \in Proc /\ ev.p \in P /\ ev.g \in G /\ gs[ev.g] \in gdesc /\ ps[ev.p] \in pdesc
      /\ Here \in Nat \ {0} /\ gs \in [G -> gdesc]
  BY <1>1, InputTyped DEF Inv, PostTypeOK, StartTypes
<1>4. g \in gdesc /\ g.state = "gRunning" /\ g.evStart = Here /\ Here # Nil
  BY <1>3 DEF gdesc, gStatus, Nil
<1>5. desc \in pdesc /\ desc.g = ev.g
  BY <1>3 DEF pdesc
<1>6. ev.g \in Goroutine
  BY <1>2, <1>3 DEF Inv, Agree, G
<1> HIDE DEF g, desc
<1>7. /\ gs' \in [G -> gdesc] /\ ps' \in [P -> pdesc]
      /\ gs'[ev.g].state = "gRunning" /\ gs'[ev.g].evStart # Nil /\ gs'[ev.g].known
      /\ \A h \in G \ {ev.g} : gs'[h] = gs[h]
      /\ ps'[ev.p].g = ev.g /\ \A q \in P \ {ev.p} : ps'[q] = ps[q]
  BY <1>1, <1>3, <1>4, <1>5, RestoreEffect
<1>8. Switches(ev.g, ev.p)
  BY <1>7, RealApart DEF Switches
<1>9. Agree'
  BY <1>2, <1>3, <1>6, <1>7, <1>8, StartAgrees
<1>10. trace' \in Seq(Processed)
  BY <1>1, <1>2, <1>3, RecordTyped DEF Inv
<1>11. Inv'
  BY <1>1, <1>7, <1>9, <1>10 DEF Inv, PostTypeOK, NoNilDereference
<1>12. Sched!Start(ev.p, ev.g)
  <2>1. /\ runs' = [runs EXCEPT ![ev.p] = ev.g] /\ is' = [is EXCEPT ![ev.g] = "gRunning"]
        /\ runs[ev.p] = NoG /\ is[ev.g] = "gRunnable"
    BY <1>2, <1>3, <1>6, <1>7, <1>8, SwitchesProject
  <2> QED BY <2>1 DEF Sched!Start, runs, is
<1> QED BY <1>3, <1>6, <1>11, <1>12 DEF SchedStep, Sched!Next

LEMMA LeaveCase ==
    ASSUME Inv, NEW ev \in InputEvents, Fits(ev), GoLeave(ev)
    PROVE  Inv' /\ SchedStep
<1> DEFINE old == gs[ev.g]
           g == [old EXCEPT !.state = LeaveState(ev.typ), !.evStart = Nil,
                            !.ev = IF ev.typ \in ParkTypes \cup YieldTypes THEN Here ELSE @]
           desc == [ps[ev.p] EXCEPT !.g = NoG]
           active == IF ev.typ = "GoEnd" THEN {regions[ev.g][i] : i \in DOMAIN regions[ev.g]}
                     ELSE {}
<1>1. ev.typ \in LeaveTypes
  BY DEF GoLeave
<1>2. old.state = "gRunning" /\ ps[ev.p].g = ev.g /\ ev.g # NoG /\ ev.typ # BadRegion
  BY <1>1, FitsSays DEF Running
<1>3. /\ ev.p \in Proc /\ ev.p \in P /\ ev.g \in G /\ old \in gdesc /\ ps[ev.p] \in pdesc
      /\ Here \in Nat \ {0} /\ gs \in [G -> gdesc]
  BY <1>1, InputTyped DEF Inv, PostTypeOK, LeaveTypes, ParkTypes, YieldTypes, EndTypes
<1>4. ev.g \in Goroutine
  BY <1>2, <1>3 DEF G
<1>5. old.evStart # Nil
  BY <1>2, <1>4 DEF Inv, Agree
<1>6. /\ Record(ev, ev.p, {old.evStart} \cup active) /\ Restore(ev, ev.p, gs, g, desc)
      /\ regions' = IF ev.typ = "GoEnd" THEN [regions EXCEPT ![ev.g] = <<>>] ELSE regions
      /\ UNCHANGED <<verdict, tasks, evGC, evSTW>>
  BY <1>5 DEF GoLeave, Accept
<1>7. LeaveState(ev.typ) \in {"gDead", "gRunnable", "gWaiting"}
  BY DEF LeaveState
<1>8. g \in gdesc /\ g.state = LeaveState(ev.typ)
  BY <1>3, <1>7 DEF gdesc, gStatus, Nil
<1>9. desc \in pdesc /\ desc.g = NoG
  BY <1>3 DEF pdesc, G
<1> HIDE DEF g, desc, active
<1>10. /\ gs' \in [G -> gdesc] /\ ps' \in [P -> pdesc]
       /\ gs'[ev.g].state = LeaveState(ev.typ) /\ gs'[ev.g].known
       /\ \A h \in G \ {ev.g} : gs'[h] = gs[h]
       /\ ps'[ev.p].g = NoG /\ \A q \in P \ {ev.p} : ps'[q] = ps[q]
  BY <1>3, <1>6, <1>8, <1>9, RestoreEffect
<1>11. Switches(ev.g, ev.p)
  BY <1>10, RealApart DEF Switches
<1>12. Agree'
  BY <1>2, <1>3, <1>4, <1>7, <1>10, <1>11, LeaveAgrees
<1>13. trace' \in Seq(Processed)
  BY <1>2, <1>3, <1>6, RecordTyped DEF Inv
<1>14. regions' \in [G -> Seq(Nat)]
  BY <1>3, <1>6 DEF Inv, PostTypeOK
<1>15. Inv'
  BY <1>6, <1>10, <1>12, <1>13, <1>14 DEF Inv, PostTypeOK, NoNilDereference
<1>16. Sched!Leave(ev.p, ev.g, LeaveState(ev.typ))
  <2>1. /\ runs' = [runs EXCEPT ![ev.p] = NoG] /\ is' = [is EXCEPT ![ev.g] = LeaveState(ev.typ)]
        /\ runs[ev.p] = ev.g /\ is[ev.g] = "gRunning" /\ LeaveState(ev.typ) # "gRunning"
    BY <1>2, <1>3, <1>4, <1>7, <1>10, <1>11, SwitchesProject
  <2> QED BY <2>1 DEF Sched!Leave, runs, is
<1> QED BY <1>3, <1>4, <1>7, <1>15, <1>16 DEF SchedStep, Sched!Next

\* The cases that leave the scheduling alone.
LEMMA QuietCases ==
    ASSUME Inv, NEW ev \in InputEvents, Fits(ev),
           \/ ProcSwitch(ev) \/ GCStart(ev) \/ GCDone(ev) \/ StopTheWorld(ev) \/ Sweep(ev)
           \/ MarkAssist(ev) \/ GoSysCall(ev) \/ UserTask(ev) \/ UserRegion(ev) \/ OtherEvent(ev)
    PROVE  Inv' /\ SchedStep
<1> DEFINE g == gs[ev.g]
           p == ps[ev.p]
<1>0. /\ ev.p \in P /\ ev.g \in G /\ g \in gdesc /\ p \in pdesc /\ Here \in Nat
      /\ gs \in [G -> gdesc] /\ tasks \subseteq Nat /\ regions \in [G -> Seq(Nat)]
      /\ evGC \in Nat /\ evSTW \in Nat
  BY InputTyped DEF Inv, PostTypeOK
<1>00. ev.typ # BadRegion
  BY FitsSays
<1> SUFFICES Inv' /\ SameRuns
  BY SameRunsStutter
<1>1. CASE ProcSwitch(ev)
  <2>1. [p EXCEPT !.running = (ev.typ = "ProcStart")] \in pdesc
        /\ [p EXCEPT !.running = (ev.typ = "ProcStart")].g = p.g
    BY <1>0 DEF pdesc
  <2> QED BY <1>0, <1>00, <1>1, <2>1, QuietCase DEF ProcSwitch, Accept
<1>2. CASE GCStart(ev)
  <2>1. GCP \in P /\ GCP \notin Proc
    BY RealApart DEF FakePs
  <2> QED BY <1>0, <1>00, <1>2, <2>1, QuietCase DEF GCStart
<1>3. CASE GCDone(ev)
  <2>1. Nil \in Nat
    BY DEF Nil
  <2> QED BY <1>0, <1>00, <1>3, <2>1, QuietCase DEF GCDone, Accept
<1>4. CASE StopTheWorld(ev)
  <2> DEFINE next == IF ev.typ = "GCSTWStart" THEN Here ELSE Nil
             from == IF ev.typ = "GCSTWStart" THEN {} ELSE {STW(ev)}
             desc == [p EXCEPT !.evSTW = next]
  <2>1. next \in Nat /\ desc \in pdesc /\ desc.g = p.g
    BY <1>0 DEF pdesc, Nil
  <2>2. \/ evSTW' = next /\ Accept(ev, g, p, from)
        \/ UNCHANGED evSTW /\ Accept(ev, g, desc, from)
    BY <1>4 DEF StopTheWorld
  <2>3. UNCHANGED <<tasks, regions, evGC>>
    BY <1>4 DEF StopTheWorld
  <2> HIDE DEF next, from, desc
  <2> QED BY <1>0, <1>00, <2>1, <2>2, <2>3, QuietCase DEF Accept
<1>5. CASE Sweep(ev)
  <2>1. \A k \in Nat : [p EXCEPT !.evSweep = k] \in pdesc /\ [p EXCEPT !.evSweep = k].g = p.g
    BY <1>0 DEF pdesc
  <2>2. Nil \in Nat
    BY DEF Nil
  <2>5. PICK k \in Nat : \E from : Accept(ev, g, [p EXCEPT !.evSweep = k], from)
    BY <1>0, <1>5, <2>2 DEF Sweep
  <2>3. PICK from : Accept(ev, g, [p EXCEPT !.evSweep = k], from)
    BY <2>5
  <2>4. UNCHANGED <<tasks, regions, evGC, evSTW>>
    BY <1>5 DEF Sweep
  <2> QED BY <1>0, <1>00, <2>1, <2>3, <2>4, QuietCase DEF Accept
<1>6. CASE MarkAssist(ev)
  <2> DEFINE G2(k) == [g EXCEPT !.evMarkAssist = k]
  <2>1. \A k \in Nat : G2(k) \in gdesc /\ G2(k).state = g.state /\ G2(k).evStart = g.evStart
    BY <1>0 DEF gdesc
  <2>2. Nil \in Nat
    BY DEF Nil
  <2>5. PICK k \in Nat : \E from : Accept(ev, G2(k), p, from)
    BY <1>0, <1>6, <2>2 DEF MarkAssist
  <2>3. PICK from : Accept(ev, G2(k), p, from)
    BY <2>5
  <2>4. UNCHANGED <<tasks, regions, evGC, evSTW>>
    BY <1>6 DEF MarkAssist
  <2> HIDE DEF G2
  <2> QED BY <1>0, <1>00, <2>1, <2>3, <2>4, QuietCase DEF Accept
<1>7. CASE GoSysCall(ev)
  <2>1. [g EXCEPT !.ev = Here] \in gdesc /\ [g EXCEPT !.ev = Here].state = g.state
        /\ [g EXCEPT !.ev = Here].evStart = g.evStart
    BY <1>0 DEF gdesc
  <2> QED BY <1>0, <1>00, <1>7, <2>1, QuietCase DEF GoSysCall, Accept
<1>8. CASE UserTask(ev)
  <2>1. tasks' \subseteq Nat
    BY <1>0, <1>8 DEF UserTask
  <2>2. \E from : Accept(ev, g, p, from)
    BY <1>8 DEF UserTask
  <2>3. UNCHANGED <<regions, evGC, evSTW>>
    BY <1>8 DEF UserTask
  <2> QED BY <1>0, <1>00, <2>1, <2>2, <2>3, QuietCase DEF Accept
<1>9. CASE UserRegion(ev)
  <2> DEFINE stack == regions[ev.g]
  <2>1. stack \in Seq(Nat) /\ Append(stack, Here) \in Seq(Nat)
        /\ (stack # <<>> => SubSeq(stack, 1, Len(stack) - 1) \in Seq(Nat))
    <3>1. stack \in Seq(Nat)
      BY <1>0
    <3>2. ASSUME stack # <<>> PROVE SubSeq(stack, 1, Len(stack) - 1) \in Seq(Nat)
      <4>1. Len(stack) \in Nat /\ Len(stack) - 1 \in Nat /\ Len(stack) - 1 <= Len(stack)
        BY <3>1, <3>2
      <4>2. \A i \in 1..(Len(stack) - 1) : stack[i] \in Nat
        BY <3>1, <4>1
      <4> HIDE DEF stack
      <4> QED BY <3>1, <4>1, <4>2
    <3> QED BY <1>0, <3>1, <3>2
  <2>2. regions' \in [G -> Seq(Nat)]
    BY <1>0, <1>9, <2>1 DEF UserRegion
  <2>3. \E from : Accept(ev, g, p, from)
    BY <1>9 DEF UserRegion
  <2>4. UNCHANGED <<tasks, evGC, evSTW>>
    BY <1>9 DEF UserRegion
  <2> QED BY <1>0, <1>00, <2>2, <2>3, <2>4, QuietCase DEF Accept
<1>10. CASE OtherEvent(ev)
  BY <1>0, <1>00, <1>10, QuietCase DEF OtherEvent, Accept
<1> QED BY <1>1, <1>2, <1>3, <1>4, <1>5, <1>6, <1>7, <1>8, <1>9, <1>10
-----------------------------------------------------------------------------
(***************************************************************************)
(* The theorems                                                            *)
(***************************************************************************)
LEMMA InitHolds == Init => Inv /\ Sched!Init
<1> SUFFICES ASSUME Init PROVE Inv /\ Sched!Init
  OBVIOUS
<1>1. noG \in gdesc /\ [noG EXCEPT !.known = TRUE, !.state = "gRunning"] \in gdesc
      /\ noP \in pdesc
  BY DEF noG, noP, gdesc, pdesc, gStatus, Nil, G
<1>2. PostTypeOK
  BY <1>1 DEF Init, PostTypeOK, Nil
<1>3. \A g \in Goroutine : gs[g] = noG
  BY NoGApart DEF Init
<1>4. gs[NoG].state = "gRunning" /\ gs[NoG].known
  BY NoGApart DEF Init, noG
<1>5. \A p \in Proc : ps[p].g = NoG
  BY RealApart DEF Init, noP
<1>6. Agree
  BY <1>3, <1>4, <1>5 DEF Agree, noG, G
<1>7. Sched!Init
  BY <1>3, <1>5 DEF Sched!Init, noG
<1> QED BY <1>2, <1>6, <1>7 DEF Inv, NoNilDereference, Init

LEMMA StepHolds == Inv /\ [Next]_post => Inv' /\ SchedStep
<1> SUFFICES ASSUME Inv, [Next]_post PROVE Inv' /\ SchedStep
  OBVIOUS
<1>1. CASE UNCHANGED post
  <2>1. SameRuns
    BY <1>1 DEF post, SameRuns
  <2>2. Inv'
    BY <1>1 DEF post, Inv, PostTypeOK, Agree, NoNilDereference
  <2> QED BY <2>1, <2>2, SameRunsStutter
<1>2. ASSUME NEW ev \in Inputs, Reject(ev) PROVE Inv' /\ SchedStep
  <2>1. SameRuns
    BY <1>2 DEF Reject, SameRuns
  <2>2. Inv'
    BY <1>2 DEF Reject, Inv, PostTypeOK, Agree, NoNilDereference
  <2> QED BY <2>1, <2>2, SameRunsStutter
<1>3. ASSUME NEW ev \in Inputs, Fits(ev), Case(ev) PROVE Inv' /\ SchedStep
  BY <1>3, PostAssumption, SnapCase, CreateCase, StartCase, LeaveCase, UnblockCase, SysExitCase,
     QuietCases DEF Case
<1> QED BY <1>1, <1>2, <1>3 DEF Next, Read, Finished, Process

THEOREM PostInductive == Spec => []Inv
<1>1. Init => Inv
  BY InitHolds
<1>2. Inv /\ [Next]_post => Inv'
  BY StepHolds
<1> QED BY <1>1, <1>2, PTL DEF Spec

\* Type correctness of the descriptors, the links and the spans, for every
\* input.
THEOREM PostTypes == Spec => []PostTypeOK
<1>1. Inv => PostTypeOK
  BY DEF Inv
<1> QED BY <1>1, PostInductive, PTL

\* For every input, a goroutine that leaves its P has a start event: the
\* parser does not dereference nil (parser.go:729, 747, 781, 799).
THEOREM NeverNil == Spec => []NoNilDereference
<1>1. Inv => NoNilDereference
  BY DEF Inv
<1> QED BY <1>1, PostInductive, PTL

\* For every input, what postProcessTrace accepts is a run of the abstract
\* scheduler: a P does not run two goroutines, a goroutine does not run twice,
\* and only a blocked goroutine is unblocked (parser.go:561).
THEOREM Refinement == Spec => SchedulerRun
<1>1. Init => Sched!Init
  BY InitHolds
<1>2. Inv /\ [Next]_post => [Sched!Next]_<<runs, is>>
  BY StepHolds DEF SchedStep
<1>3. [Sched!Next]_<<runs, is>> => [Sched!Next]_(Sched!sched)
  BY DEF runs, is, Sched!sched
<1> QED BY <1>1, <1>2, <1>3, PostInductive, PTL DEF Spec, SchedulerRun, Sched!Spec
-----------------------------------------------------------------------------
(***************************************************************************)
(* What the links of postProcessTrace mean, for every input: each joins    *)
(* two events that belong together and is never redirected, the executions *)
(* of goroutines on Ps exclude each other, whoever wakes up had blocked,   *)
(* and a first start shows the stack of its goroutine's creation.          *)
(*                                                                         *)
(* The descriptors are all the pass remembers of the events before.  The   *)
(* invariant says what they remember: every position a descriptor holds is *)
(* that of an unlinked event of the right kind and owner, and no start of  *)
(* the goroutine lies between that event and now.                          *)
(***************************************************************************)
\* No start of g comes after position k.
Unstarted(k, g) == \A j \in (k + 1)..Len(trace) : ~StartsAt(j, g)

\* Position k holds an event, of type typ, that is not linked yet.
Unlinked(k)    == k \in DOMAIN trace /\ trace[k].link = Nil
SpanAt(k, typ) == Unlinked(k) /\ trace[k].typ = typ

\* The position a descriptor holds, if any.
Held(k) == {k} \ {Nil}

\* evStart: the unlinked starts are those of the goroutines that run.
StartFits ==
    /\ \A g \in G : \A k \in Held(gs[g].evStart) :
         Unlinked(k) /\ StartsAt(k, g) /\ Unstarted(k, g) /\ ps[trace[k].p].g = g
    /\ \A i \in DOMAIN trace : trace[i].typ \in StartTypes =>
         /\ trace[i].p \in Proc /\ trace[i].g \in Goroutine
         /\ trace[i].link = Nil => gs[trace[i].g].evStart = i

\* ev: what made g runnable, where it blocked, or the syscall it is in.
Readied(k, g) ==
    \/ trace[k].typ = "GoCreate" /\ trace[k].arg = g /\ Unstarted(0, g)
    \/ trace[k].typ = "GoUnblock" /\ trace[k].arg = g /\ Unstarted(k, g)
    \/ trace[k].typ \in YieldTypes \cup {"GoSysExit"} /\ trace[k].g = g /\ Unstarted(k, g)

Paused(k, g) ==
    /\ trace[k].g = g
    /\ \/ trace[k].typ = "GoSysCall"
       \/ gs[g].state = "gWaiting" /\ trace[k].typ \in ParkTypes \cup SnapTypes

EvFits ==
    \A g \in G : \A k \in Held(gs[g].ev) :
        Unlinked(k) /\ IF gs[g].state = "gRunnable" THEN Readied(k, g) ELSE Paused(k, g)

\* evCreate: set from the one creation of a goroutine to its first start.
CreateFits ==
    /\ \A i \in DOMAIN trace :
         /\ trace[i].typ = "GoCreate" => gs[trace[i].arg].known
         /\ trace[i].typ \in StartTypes => gs[trace[i].g].known
    /\ \A i, j \in DOMAIN trace :
         trace[i].typ = "GoCreate" /\ trace[j].typ = "GoCreate" /\ trace[i].arg = trace[j].arg
         => i = j
    /\ \A g \in G : \A k \in Held(gs[g].evCreate) :
         k \in DOMAIN trace /\ trace[k].typ = "GoCreate" /\ trace[k].arg = g /\ Unstarted(0, g)
    /\ \A g \in Goroutine :
         gs[g].evCreate = Nil /\ gs[g].state # "gDead" => ~Unstarted(0, g)

\* The spans that are open.  Fake Ps hold stale ones.
SpanFits ==
    /\ \A g \in G : \A k \in Held(gs[g].evMarkAssist) :
         SpanAt(k, "GCMarkAssistStart") /\ trace[k].g = g
    /\ \A p \in Proc : \A k \in Held(ps[p].evSweep) :
         SpanAt(k, "GCSweepStart") /\ trace[k].p = p
    /\ \A p \in Proc : \A k \in Held(ps[p].evSTW) :
         SpanAt(k, "GCSTWStart") /\ trace[k].p = p /\ ~GlobalSTW
    /\ \A k \in Held(evGC) : SpanAt(k, "GCStart")
    /\ \A k \in Held(evSTW) : SpanAt(k, "GCSTWStart") /\ GlobalSTW
    /\ \A i \in tasks : SpanAt(i, "UserTaskCreate")

\* The regions that are open: each stack holds rising positions.
Active(g) == {regions[g][r] : r \in DOMAIN regions[g]}

RegionFits ==
    \A g \in G :
        /\ \A k \in Active(g) : SpanAt(k, "UserRegionStart") /\ trace[k].g = g
        /\ \A r, s \in DOMAIN regions[g] : r < s => regions[g][r] < regions[g][s]

\* Who waits has blocked, and neither started nor woke up since.
BlockedAt(i, j, g) ==
    /\ BlocksAt(i, g)
    /\ \A k \in (i + 1)..(j - 1) : ~StartsAt(k, g) /\ ~WakesAt(k, g)

WaitFits ==
    \A g \in Goroutine :
        gs[g].state = "gWaiting" => \E i \in DOMAIN trace : BlockedAt(i, Len(trace) + 1, g)

\* What ends an execution is on the P it was on.
LeaveFits ==
    \A i \in DOMAIN trace :
        trace[i].typ \in StartTypes /\ trace[i].link # Nil => trace[trace[i].link].p = trace[i].p

\* The inductive invariant.
Holders == StartFits /\ EvFits /\ CreateFits /\ SpanFits /\ RegionFits /\ WaitFits
History == LinksFit /\ LeaveFits /\ StartsExclude /\ WokenWasBlocked /\ FirstStartStack
LinkInv == Inv /\ Holders /\ History
-----------------------------------------------------------------------------
(***************************************************************************)
(* What one accepted event changes                                         *)
(***************************************************************************)
\* The events that ev links to itself.
LinkedBy(i, ev) ==
    \/ ev.typ = "GCDone" /\ i = evGC
    \/ ev.typ = "GCSTWDone" /\ i = STW(ev)
    \/ ev.typ = "GCSweepDone" /\ i = ps[ev.p].evSweep
    \/ ev.typ = "GCMarkAssistDone" /\ i = gs[ev.g].evMarkAssist
    \/ ev.typ \in StartTypes /\ i = gs[ev.g].ev
    \/ ev.typ \in LeaveTypes /\ i = gs[ev.g].evStart
    \/ ev.typ = "GoEnd" /\ \E r \in DOMAIN regions[ev.g] : i = regions[ev.g][r]
    \/ ev.typ = "GoUnblock" /\ i = gs[ev.arg].ev
    \/ ev.typ = "GoSysExit" /\ i = gs[ev.g].ev /\ trace[i].typ = "GoSysCall"
    \/ ev.typ = "UserTaskEnd" /\ i \in TaskEvents(ev)
    \/ ev.typ = "UserRegionEnd" /\ regions[ev.g] # <<>> /\ i = Innermost(ev.g)

\* The trace gains ev at Here; of the others, only links change.
Grows(ev) ==
    /\ Len(trace) \in Nat /\ DOMAIN trace = 1..Len(trace)
    /\ Len(trace') = Here /\ DOMAIN trace' = 1..Here
    /\ \A i \in 1..Len(trace) :
         /\ trace'[i].typ = trace[i].typ /\ trace'[i].p = trace[i].p /\ trace'[i].g = trace[i].g
         /\ trace'[i].arg = trace[i].arg /\ trace'[i].seq = trace[i].seq
         /\ trace'[i].stk = trace[i].stk
         /\ trace'[i].link = IF LinkedBy(i, ev) THEN Here ELSE trace[i].link
    /\ trace'[Here].typ = ev.typ /\ trace'[Here].g = ev.g /\ trace'[Here].arg = ev.arg
    /\ trace'[Here].seq = ev.seq /\ trace'[Here].link = Nil
    /\ trace'[Here].stk = IF ev.typ \in StartTypes THEN gs[ev.g].evCreate ELSE Nil
    /\ ev.typ \notin {"GCStart", "GoUnblock"} => trace'[Here].p = ev.p

Created(ev, h) == ev.typ = "GoCreate" /\ h = ev.arg
Does(ev, h, types) == ev.typ \in types /\ h = ev.g

\* The descriptors of goroutines.
MovesTo(ev, h, d) ==
    /\ d.known = (gs[h].known \/ h = ev.g \/ Created(ev, h))
    /\ d.state =
             IF Created(ev, h) \/ (ev.typ = "GoUnblock" /\ h = ev.arg) THEN "gRunnable"
             ELSE IF Does(ev, h, SnapTypes) THEN "gWaiting"
             ELSE IF Does(ev, h, StartTypes) THEN "gRunning"
             ELSE IF Does(ev, h, LeaveTypes) THEN LeaveState(ev.typ)
             ELSE IF Does(ev, h, {"GoSysExit"}) THEN "gRunnable"
             ELSE gs[h].state
    /\ d.ev =
             IF \/ Created(ev, h) \/ (ev.typ = "GoUnblock" /\ h = ev.arg)
                \/ Does(ev, h, SnapTypes \cup ParkTypes \cup YieldTypes \cup {"GoSysCall", "GoSysExit"})
             THEN Here ELSE IF Does(ev, h, StartTypes) THEN Nil ELSE gs[h].ev
    /\ d.evStart =
             IF Does(ev, h, StartTypes) THEN Here
             ELSE IF Does(ev, h, LeaveTypes) \/ Created(ev, h) THEN Nil ELSE gs[h].evStart
    /\ d.evCreate =
             IF Created(ev, h) THEN Here
             ELSE IF Does(ev, h, StartTypes) THEN Nil ELSE gs[h].evCreate
    /\ d.evMarkAssist =
             IF Does(ev, h, {"GCMarkAssistStart"}) THEN Here
             ELSE IF Does(ev, h, {"GCMarkAssistDone"}) \/ Created(ev, h) THEN Nil
             ELSE gs[h].evMarkAssist

Moves(ev) == \A h \in G : MovesTo(ev, h, gs'[h])

\* The descriptors of real Ps.
RunsTo(ev, q, d) ==
    /\ d.g = IF q = ev.p /\ ev.typ \in StartTypes THEN ev.g
                      ELSE IF q = ev.p /\ ev.typ \in LeaveTypes THEN NoG ELSE ps[q].g
    /\ d.evSweep = IF q = ev.p /\ ev.typ = "GCSweepStart" THEN Here
                            ELSE IF q = ev.p /\ ev.typ = "GCSweepDone" THEN Nil ELSE ps[q].evSweep
    /\ d.evSTW =
             IF q = ev.p /\ ~GlobalSTW /\ ev.typ = "GCSTWStart" THEN Here
             ELSE IF q = ev.p /\ ~GlobalSTW /\ ev.typ = "GCSTWDone" THEN Nil ELSE ps[q].evSTW
    /\ d.running =
             IF q = ev.p /\ ev.typ = "ProcStart" THEN TRUE
             ELSE IF q = ev.p /\ ev.typ = "ProcStop" THEN FALSE ELSE ps[q].running

Runs(ev) == \A q \in Proc : RunsTo(ev, q, ps'[q])

\* The rest.
Opens(ev) ==
    /\ evGC' = IF ev.typ = "GCStart" THEN Here ELSE IF ev.typ = "GCDone" THEN Nil ELSE evGC
    /\ evSTW' = IF GlobalSTW /\ ev.typ = "GCSTWStart" THEN Here
                ELSE IF GlobalSTW /\ ev.typ = "GCSTWDone" THEN Nil ELSE evSTW
    /\ tasks' = IF ev.typ = "UserTaskCreate" THEN tasks \cup {Here}
                ELSE IF ev.typ = "UserTaskEnd" THEN tasks \ TaskEvents(ev) ELSE tasks
    /\ regions' =
         IF ev.typ = "UserRegionStart"
         THEN [regions EXCEPT ![ev.g] = Append(regions[ev.g], Here)]
         ELSE IF ev.typ = "UserRegionEnd" /\ regions[ev.g] # <<>>
         THEN [regions EXCEPT ![ev.g] = SubSeq(regions[ev.g], 1, Len(regions[ev.g]) - 1)]
         ELSE IF ev.typ = "GoEnd" THEN [regions EXCEPT ![ev.g] = <<>>] ELSE regions

Effects(ev) == Grows(ev) /\ Moves(ev) /\ Runs(ev) /\ Opens(ev)
-----------------------------------------------------------------------------
LEMMA RecordGrows ==
    ASSUME Inv, NEW ev \in InputEvents, NEW p \in P, NEW from, Record(ev, p, from),
           ev.typ \notin {"GCStart", "GoUnblock"} => p = ev.p,
           \A i \in DOMAIN trace : i \in from <=> LinkedBy(i, ev)
    PROVE  Grows(ev)
<1> DEFINE old == [i \in DOMAIN trace |->
                     IF i \in from THEN [trace[i] EXCEPT !.link = Here] ELSE trace[i]]
           new == [typ |-> ev.typ, p |-> p, g |-> ev.g, arg |-> ev.arg, seq |-> ev.seq, link |-> Nil,
                   stk |-> IF ev.typ \in StartTypes THEN gs[ev.g].evCreate ELSE Nil]
<1>1. trace \in Seq(Processed) /\ DOMAIN trace = 1..Len(trace) /\ Len(trace) \in Nat
  BY DEF Inv, PostTypeOK
<1>2. \A i \in 1..Len(trace) : trace[i] \in Processed
  BY <1>1
<1>3. trace' = Append(old, new)
  BY DEF Record
<1>4. ASSUME NEW i \in 1..Len(trace)
      PROVE  /\ old[i].typ = trace[i].typ /\ old[i].p = trace[i].p /\ old[i].g = trace[i].g
             /\ old[i].arg = trace[i].arg /\ old[i].seq = trace[i].seq /\ old[i].stk = trace[i].stk
             /\ old[i].link = IF LinkedBy(i, ev) THEN Here ELSE trace[i].link
  <2>1. trace[i] \in Processed /\ old[i] = IF i \in from THEN [trace[i] EXCEPT !.link = Here] ELSE trace[i]
    BY <1>1, <1>2
  <2>2. i \in from <=> LinkedBy(i, ev)
    BY <1>1
  <2> HIDE DEF old
  <2> QED BY <2>1, <2>2 DEF Processed
<1>5. /\ new.typ = ev.typ /\ new.p = p /\ new.g = ev.g /\ new.arg = ev.arg /\ new.seq = ev.seq
      /\ new.link = Nil /\ new.stk = IF ev.typ \in StartTypes THEN gs[ev.g].evCreate ELSE Nil
  OBVIOUS
<1>6. old \in Seq(Processed) /\ Len(old) = Len(trace)
  <2>1. ASSUME NEW e \in Processed PROVE [e EXCEPT !.link = Here] \in Processed
    <3>1. Here \in Nat
      BY <1>1 DEF Here
    <3> QED BY <3>1 DEF Processed
  <2>2. old \in [1..Len(trace) -> Processed]
    BY <1>1, <1>2, <2>1
  <2> QED BY <1>1, <2>2
<1> HIDE DEF old, new
<1>7. /\ Len(trace') = Here /\ DOMAIN trace' = 1..Here /\ trace'[Here] = new
      /\ \A i \in 1..Len(trace) : trace'[i] = old[i]
  BY <1>1, <1>3, <1>6 DEF Here
<1> QED BY <1>1, <1>4, <1>5, <1>7 DEF Grows

\* What the pass writes back.
LEMMA Written ==
    ASSUME Inv, NEW ev \in InputEvents, NEW p \in P, NEW other \in [G -> gdesc], NEW g \in gdesc,
           NEW desc \in pdesc, Restore(ev, p, other, g, desc)
    PROVE  /\ \A h \in G \ {ev.g} : gs'[h] = other[h]
           /\ gs'[ev.g].known /\ gs'[ev.g].state = g.state /\ gs'[ev.g].ev = g.ev
           /\ gs'[ev.g].evStart = g.evStart /\ gs'[ev.g].evCreate = g.evCreate
           /\ gs'[ev.g].evMarkAssist = g.evMarkAssist
           /\ ps'[p] = desc /\ \A q \in P \ {p} : ps'[q] = ps[q]
<1> DEFINE new == [g EXCEPT !.known = TRUE]
<1>1. /\ new.known /\ new.state = g.state /\ new.ev = g.ev /\ new.evStart = g.evStart
      /\ new.evCreate = g.evCreate /\ new.evMarkAssist = g.evMarkAssist
  BY DEF gdesc
<1>2. ev.g \in G /\ ps \in [P -> pdesc]
  BY InputTyped DEF Inv, PostTypeOK
<1>3. gs' = [other EXCEPT ![ev.g] = new] /\ ps' = [ps EXCEPT ![p] = desc]
  BY DEF Restore
<1> HIDE DEF new
<1> QED BY <1>1, <1>2, <1>3

\* What it does not write back stays as it is.
LEMMA OthersStay ==
    ASSUME Inv, NEW ev \in InputEvents
    PROVE  /\ \A h \in G : h # ev.g /\ (ev.typ \in {"GoCreate", "GoUnblock"} => h # ev.arg)
                           => MovesTo(ev, h, gs[h])
           /\ \A q \in Proc : q # ev.p => RunsTo(ev, q, ps[q])
<1>1. \A h \in G : gs[h].known \in BOOLEAN
  BY DEF Inv, PostTypeOK, gdesc
<1>2. ASSUME NEW h \in G, h # ev.g, ev.typ \in {"GoCreate", "GoUnblock"} => h # ev.arg
      PROVE  MovesTo(ev, h, gs[h])
  BY <1>1, <1>2 DEF MovesTo, Created, Does
<1>3. ASSUME NEW q \in Proc, q # ev.p PROVE RunsTo(ev, q, ps[q])
  BY <1>3 DEF RunsTo
<1> QED BY <1>2, <1>3

\* A case that ends with Accept changes what its own part says.
LEMMA AcceptEffects ==
    ASSUME Inv, NEW ev \in InputEvents, ev.typ \notin {"GoCreate", "GoUnblock", "GCStart"},
           NEW g \in gdesc, NEW desc \in pdesc, NEW from, Accept(ev, g, desc, from),
           \A i \in DOMAIN trace : i \in from <=> LinkedBy(i, ev),
           MovesTo(ev, ev.g, [g EXCEPT !.known = TRUE]),
           ev.p \in Proc => RunsTo(ev, ev.p, desc),
           Opens(ev)
    PROVE  Effects(ev)
<1>1. ev.p \in P /\ ev.g \in G /\ gs \in [G -> gdesc] /\ ps \in [P -> pdesc]
  BY InputTyped DEF Inv, PostTypeOK
<1>2. Grows(ev)
  BY <1>1, RecordGrows DEF Accept
<1>3. /\ \A h \in G \ {ev.g} : gs'[h] = gs[h]
      /\ ps'[ev.p] = desc /\ \A q \in P \ {ev.p} : ps'[q] = ps[q]
  BY <1>1, Written DEF Accept
<1>4. gs'[ev.g] = [g EXCEPT !.known = TRUE]
  BY <1>1 DEF Accept, Restore
<1>5. ASSUME NEW h \in G PROVE MovesTo(ev, h, gs'[h])
  BY <1>3, <1>4, OthersStay
<1>6. ASSUME NEW q \in Proc PROVE RunsTo(ev, q, ps'[q])
  BY <1>3, OthersStay, RealApart
<1> QED BY <1>2, <1>5, <1>6 DEF Effects, Moves, Runs

\* A case that does not concern the goroutine.
LEMMA QuietMoves ==
    ASSUME Inv, NEW ev \in InputEvents,
           ev.typ \notin SnapTypes \cup StartTypes \cup LeaveTypes
                         \cup {"GoCreate", "GoUnblock", "GoSysCall", "GoSysExit",
                               "GCMarkAssistStart", "GCMarkAssistDone"}
    PROVE  MovesTo(ev, ev.g, [gs[ev.g] EXCEPT !.known = TRUE])
<1>1. gs[ev.g] \in gdesc
  BY InputTyped DEF Inv
<1>2. ev.typ \notin ParkTypes \cup YieldTypes
  BY DEF LeaveTypes
<1> QED BY <1>1, <1>2 DEF MovesTo, Created, Does, gdesc

\* A case that does not concern the P.
LEMMA QuietRuns ==
    ASSUME NEW ev, ev.typ \notin StartTypes \cup LeaveTypes
                                 \cup {"GCSweepStart", "GCSweepDone", "ProcStart", "ProcStop"},
           ev.typ \in {"GCSTWStart", "GCSTWDone"} => GlobalSTW
    PROVE  RunsTo(ev, ev.p, ps[ev.p])
BY DEF RunsTo

LEMMA ProcSwitchEffects ==
    ASSUME Inv, NEW ev \in InputEvents, ProcSwitch(ev) PROVE Effects(ev)
<1> DEFINE desc == [ps[ev.p] EXCEPT !.running = (ev.typ = "ProcStart")]
<1>1. ev.typ \in {"ProcStart", "ProcStop"} /\ Accept(ev, gs[ev.g], desc, {})
      /\ UNCHANGED <<tasks, regions, evGC, evSTW>>
  BY DEF ProcSwitch
<1>2. gs[ev.g] \in gdesc /\ ps[ev.p] \in pdesc
  BY InputTyped DEF Inv
<1>3. desc \in pdesc /\ desc.g = ps[ev.p].g /\ desc.evSweep = ps[ev.p].evSweep
      /\ desc.evSTW = ps[ev.p].evSTW /\ desc.running = (ev.typ = "ProcStart")
  BY <1>2 DEF pdesc
<1> HIDE DEF desc
<1>4. RunsTo(ev, ev.p, desc)
  BY <1>1, <1>3 DEF RunsTo, StartTypes, LeaveTypes, ParkTypes, YieldTypes, EndTypes
<1>5. MovesTo(ev, ev.g, [gs[ev.g] EXCEPT !.known = TRUE])
  BY <1>1, QuietMoves DEF SnapTypes, StartTypes, LeaveTypes, ParkTypes, YieldTypes, EndTypes
<1>6. \A i \in DOMAIN trace : ~LinkedBy(i, ev)
  BY <1>1 DEF LinkedBy, StartTypes, LeaveTypes, ParkTypes, YieldTypes, EndTypes
<1>7. Opens(ev)
  BY <1>1 DEF Opens
<1> QED BY <1>1, <1>2, <1>3, <1>4, <1>5, <1>6, <1>7, AcceptEffects

LEMMA GCStartEffects ==
    ASSUME Inv, NEW ev \in InputEvents, GCStart(ev) PROVE Effects(ev)
<1>1. /\ ev.typ = "GCStart" /\ evGC' = Here /\ UNCHANGED <<verdict, tasks, regions, evSTW>>
      /\ Record(ev, GCP, {}) /\ Restore(ev, GCP, gs, gs[ev.g], ps[ev.p])
  BY DEF GCStart
<1>2. /\ gs \in [G -> gdesc] /\ ps \in [P -> pdesc] /\ ev.g \in G /\ ev.p \in P
      /\ gs[ev.g] \in gdesc /\ ps[ev.p] \in pdesc
  BY InputTyped DEF Inv, PostTypeOK
<1>3. GCP \in P /\ GCP \notin Proc
  BY RealApart DEF FakePs
<1>4. \A i \in DOMAIN trace : ~LinkedBy(i, ev)
  BY <1>1 DEF LinkedBy, StartTypes, LeaveTypes, ParkTypes, YieldTypes, EndTypes
<1>5. Grows(ev)
  BY <1>1, <1>3, <1>4, RecordGrows
<1>6. MovesTo(ev, ev.g, [gs[ev.g] EXCEPT !.known = TRUE])
  BY <1>1, QuietMoves DEF SnapTypes, StartTypes, LeaveTypes, ParkTypes, YieldTypes, EndTypes
<1>7. RunsTo(ev, ev.p, ps[ev.p])
  BY <1>1, QuietRuns DEF StartTypes, LeaveTypes, ParkTypes, YieldTypes, EndTypes
<1>8. gs'[ev.g] = [gs[ev.g] EXCEPT !.known = TRUE]
  BY <1>1, <1>2 DEF Restore
<1>9. \A h \in G \ {ev.g} : gs'[h] = gs[h]
  BY <1>1, <1>2, <1>3, Written
<1>10. \A q \in Proc : ps'[q] = ps[q]
  BY <1>1, <1>2, <1>3, Written, RealApart
<1>11. Moves(ev)
  BY <1>1, <1>6, <1>8, <1>9, OthersStay DEF Moves
<1>12. Runs(ev)
  BY <1>7, <1>10, OthersStay DEF Runs
<1>13. Opens(ev)
  BY <1>1 DEF Opens
<1> QED BY <1>5, <1>11, <1>12, <1>13 DEF Effects

LEMMA GCDoneEffects ==
    ASSUME Inv, NEW ev \in InputEvents, GCDone(ev) PROVE Effects(ev)
<1>1. /\ ev.typ = "GCDone" /\ evGC' = Nil /\ UNCHANGED <<tasks, regions, evSTW>>
      /\ Accept(ev, gs[ev.g], ps[ev.p], {evGC})
  BY DEF GCDone
<1>2. gs[ev.g] \in gdesc /\ ps[ev.p] \in pdesc
  BY InputTyped DEF Inv
<1>3. RunsTo(ev, ev.p, ps[ev.p])
  BY <1>1, QuietRuns DEF StartTypes, LeaveTypes, ParkTypes, YieldTypes, EndTypes
<1>4. MovesTo(ev, ev.g, [gs[ev.g] EXCEPT !.known = TRUE])
  BY <1>1, QuietMoves DEF SnapTypes, StartTypes, LeaveTypes, ParkTypes, YieldTypes, EndTypes
<1>5. \A i \in DOMAIN trace : i \in {evGC} <=> LinkedBy(i, ev)
  BY <1>1 DEF LinkedBy, StartTypes, LeaveTypes, ParkTypes, YieldTypes, EndTypes
<1>6. Opens(ev)
  BY <1>1 DEF Opens
<1> QED BY <1>1, <1>2, <1>3, <1>4, <1>5, <1>6, AcceptEffects

LEMMA StopTheWorldEffects ==
    ASSUME Inv, NEW ev \in InputEvents, StopTheWorld(ev) PROVE Effects(ev)
<1> DEFINE next == IF ev.typ = "GCSTWStart" THEN Here ELSE Nil
           from == IF ev.typ = "GCSTWStart" THEN {} ELSE {STW(ev)}
           desc == IF GlobalSTW THEN ps[ev.p] ELSE [ps[ev.p] EXCEPT !.evSTW = next]
<1>1. /\ ev.typ \in {"GCSTWStart", "GCSTWDone"} /\ Accept(ev, gs[ev.g], desc, from)
      /\ evSTW' = IF GlobalSTW THEN next ELSE evSTW
      /\ UNCHANGED <<tasks, regions, evGC>>
  BY DEF StopTheWorld
<1>2. gs[ev.g] \in gdesc /\ ps[ev.p] \in pdesc /\ Here \in Nat
  BY InputTyped DEF Inv
<1>3. desc \in pdesc /\ desc.g = ps[ev.p].g /\ desc.evSweep = ps[ev.p].evSweep
      /\ desc.evSTW = (IF GlobalSTW THEN ps[ev.p].evSTW ELSE next) /\ desc.running = ps[ev.p].running
  BY <1>2 DEF pdesc, Nil
<1> HIDE DEF desc
<1>4. RunsTo(ev, ev.p, desc)
  BY <1>1, <1>3 DEF RunsTo, StartTypes, LeaveTypes, ParkTypes, YieldTypes, EndTypes
<1>5. MovesTo(ev, ev.g, [gs[ev.g] EXCEPT !.known = TRUE])
  BY <1>1, QuietMoves DEF SnapTypes, StartTypes, LeaveTypes, ParkTypes, YieldTypes, EndTypes
<1>6. \A i \in DOMAIN trace : i \in from <=> LinkedBy(i, ev)
  BY <1>1 DEF LinkedBy, StartTypes, LeaveTypes, ParkTypes, YieldTypes, EndTypes
<1>7. Opens(ev)
  BY <1>1 DEF Opens
<1> HIDE DEF from
<1> QED BY <1>1, <1>2, <1>3, <1>4, <1>5, <1>6, <1>7, AcceptEffects

LEMMA SweepEffects ==
    ASSUME Inv, NEW ev \in InputEvents, Sweep(ev) PROVE Effects(ev)
<1> DEFINE next == IF ev.typ = "GCSweepStart" THEN Here ELSE Nil
           from == IF ev.typ = "GCSweepStart" THEN {} ELSE {ps[ev.p].evSweep}
           desc == [ps[ev.p] EXCEPT !.evSweep = next]
<1>1. /\ ev.typ \in {"GCSweepStart", "GCSweepDone"} /\ Accept(ev, gs[ev.g], desc, from)
      /\ UNCHANGED <<tasks, regions, evGC, evSTW>>
  BY DEF Sweep
<1>2. gs[ev.g] \in gdesc /\ ps[ev.p] \in pdesc /\ Here \in Nat
  BY InputTyped DEF Inv
<1>3. desc \in pdesc /\ desc.g = ps[ev.p].g /\ desc.evSweep = next /\ desc.evSTW = ps[ev.p].evSTW
      /\ desc.running = ps[ev.p].running
  BY <1>2 DEF pdesc, Nil
<1> HIDE DEF desc
<1>4. RunsTo(ev, ev.p, desc)
  BY <1>1, <1>3 DEF RunsTo, StartTypes, LeaveTypes, ParkTypes, YieldTypes, EndTypes
<1>5. MovesTo(ev, ev.g, [gs[ev.g] EXCEPT !.known = TRUE])
  BY <1>1, QuietMoves DEF SnapTypes, StartTypes, LeaveTypes, ParkTypes, YieldTypes, EndTypes
<1>6. \A i \in DOMAIN trace : i \in from <=> LinkedBy(i, ev)
  BY <1>1 DEF LinkedBy, StartTypes, LeaveTypes, ParkTypes, YieldTypes, EndTypes
<1>7. Opens(ev)
  BY <1>1 DEF Opens
<1> HIDE DEF from
<1> QED BY <1>1, <1>2, <1>3, <1>4, <1>5, <1>6, <1>7, AcceptEffects

LEMMA MarkAssistEffects ==
    ASSUME Inv, NEW ev \in InputEvents, MarkAssist(ev) PROVE Effects(ev)
<1> DEFINE next == IF ev.typ = "GCMarkAssistStart" THEN Here ELSE Nil
           from == IF ev.typ = "GCMarkAssistStart" THEN {} ELSE {gs[ev.g].evMarkAssist}
           g == [gs[ev.g] EXCEPT !.evMarkAssist = next]
<1>1. /\ ev.typ \in {"GCMarkAssistStart", "GCMarkAssistDone"} /\ Accept(ev, g, ps[ev.p], from)
      /\ UNCHANGED <<tasks, regions, evGC, evSTW>>
  BY DEF MarkAssist
<1>2. gs[ev.g] \in gdesc /\ ps[ev.p] \in pdesc /\ Here \in Nat
  BY InputTyped DEF Inv
<1>3. g \in gdesc /\ [g EXCEPT !.known = TRUE] = [gs[ev.g] EXCEPT !.evMarkAssist = next, !.known = TRUE]
  BY <1>2 DEF gdesc, Nil
<1>4. MovesTo(ev, ev.g, [gs[ev.g] EXCEPT !.evMarkAssist = next, !.known = TRUE])
  BY <1>1, <1>2 DEF MovesTo, Created, Does, gdesc,
                    SnapTypes, StartTypes, LeaveTypes, ParkTypes, YieldTypes, EndTypes
<1>5. RunsTo(ev, ev.p, ps[ev.p])
  BY <1>1, QuietRuns DEF StartTypes, LeaveTypes, ParkTypes, YieldTypes, EndTypes
<1>6. \A i \in DOMAIN trace : i \in from <=> LinkedBy(i, ev)
  BY <1>1 DEF LinkedBy, StartTypes, LeaveTypes, ParkTypes, YieldTypes, EndTypes
<1>7. Opens(ev)
  BY <1>1 DEF Opens
<1> HIDE DEF from, g, next
<1> QED BY <1>1, <1>2, <1>3, <1>4, <1>5, <1>6, <1>7, AcceptEffects

LEMMA GoAnnouncedEffects ==
    ASSUME Inv, NEW ev \in InputEvents, GoAnnounced(ev) PROVE Effects(ev)
<1> DEFINE g == [gs[ev.g] EXCEPT !.state = "gWaiting", !.ev = Here]
<1>1. /\ ev.typ \in SnapTypes /\ Accept(ev, g, ps[ev.p], {})
      /\ UNCHANGED <<tasks, regions, evGC, evSTW>>
  BY DEF GoAnnounced
<1>2. gs[ev.g] \in gdesc /\ ps[ev.p] \in pdesc /\ Here \in Nat
  BY InputTyped DEF Inv
<1>3. g \in gdesc /\ [g EXCEPT !.known = TRUE]
                       = [gs[ev.g] EXCEPT !.state = "gWaiting", !.ev = Here, !.known = TRUE]
  BY <1>2 DEF gdesc, gStatus
<1>4. MovesTo(ev, ev.g, [gs[ev.g] EXCEPT !.state = "gWaiting", !.ev = Here, !.known = TRUE])
  BY <1>1, <1>2 DEF MovesTo, Created, Does, gdesc,
                    SnapTypes, StartTypes, LeaveTypes, ParkTypes, YieldTypes, EndTypes
<1>5. RunsTo(ev, ev.p, ps[ev.p])
  BY <1>1, QuietRuns DEF SnapTypes, StartTypes, LeaveTypes, ParkTypes, YieldTypes, EndTypes
<1>6. \A i \in DOMAIN trace : ~LinkedBy(i, ev)
  BY <1>1 DEF LinkedBy, SnapTypes, StartTypes, LeaveTypes, ParkTypes, YieldTypes, EndTypes
<1>7. Opens(ev)
  BY <1>1 DEF Opens, SnapTypes
<1>8. ev.typ \notin {"GoCreate", "GoUnblock", "GCStart"}
  BY <1>1 DEF SnapTypes
<1> HIDE DEF g
<1> QED BY <1>1, <1>2, <1>3, <1>4, <1>5, <1>6, <1>7, <1>8, AcceptEffects

LEMMA GoSysCallEffects ==
    ASSUME Inv, NEW ev \in InputEvents, GoSysCall(ev) PROVE Effects(ev)
<1> DEFINE g == [gs[ev.g] EXCEPT !.ev = Here]
<1>1. /\ ev.typ = "GoSysCall" /\ Accept(ev, g, ps[ev.p], {})
      /\ UNCHANGED <<tasks, regions, evGC, evSTW>>
  BY DEF GoSysCall
<1>2. gs[ev.g] \in gdesc /\ ps[ev.p] \in pdesc /\ Here \in Nat
  BY InputTyped DEF Inv
<1>3. g \in gdesc /\ [g EXCEPT !.known = TRUE] = [gs[ev.g] EXCEPT !.ev = Here, !.known = TRUE]
  BY <1>2 DEF gdesc
<1>4. MovesTo(ev, ev.g, [gs[ev.g] EXCEPT !.ev = Here, !.known = TRUE])
  BY <1>1, <1>2 DEF MovesTo, Created, Does, gdesc,
                    SnapTypes, StartTypes, LeaveTypes, ParkTypes, YieldTypes, EndTypes
<1>5. RunsTo(ev, ev.p, ps[ev.p])
  BY <1>1, QuietRuns DEF StartTypes, LeaveTypes, ParkTypes, YieldTypes, EndTypes
<1>6. \A i \in DOMAIN trace : ~LinkedBy(i, ev)
  BY <1>1 DEF LinkedBy, StartTypes, LeaveTypes, ParkTypes, YieldTypes, EndTypes
<1>7. Opens(ev)
  BY <1>1 DEF Opens
<1> HIDE DEF g
<1> QED BY <1>1, <1>2, <1>3, <1>4, <1>5, <1>6, <1>7, AcceptEffects

LEMMA GoSysExitEffects ==
    ASSUME Inv, NEW ev \in InputEvents, GoSysExit(ev) PROVE Effects(ev)
<1> DEFINE g == [gs[ev.g] EXCEPT !.state = "gRunnable", !.ev = Here]
           from == {i \in {gs[ev.g].ev} \ {Nil} : trace[i].typ = "GoSysCall"}
<1>1. /\ ev.typ = "GoSysExit" /\ Accept(ev, g, ps[ev.p], from)
      /\ UNCHANGED <<tasks, regions, evGC, evSTW>>
  BY DEF GoSysExit
<1>2. gs[ev.g] \in gdesc /\ ps[ev.p] \in pdesc /\ Here \in Nat
  BY InputTyped DEF Inv
<1>3. g \in gdesc /\ [g EXCEPT !.known = TRUE]
                       = [gs[ev.g] EXCEPT !.state = "gRunnable", !.ev = Here, !.known = TRUE]
  BY <1>2 DEF gdesc, gStatus
<1>4. MovesTo(ev, ev.g, [gs[ev.g] EXCEPT !.state = "gRunnable", !.ev = Here, !.known = TRUE])
  BY <1>1, <1>2 DEF MovesTo, Created, Does, gdesc,
                    SnapTypes, StartTypes, LeaveTypes, ParkTypes, YieldTypes, EndTypes
<1>5. RunsTo(ev, ev.p, ps[ev.p])
  BY <1>1, QuietRuns DEF StartTypes, LeaveTypes, ParkTypes, YieldTypes, EndTypes
<1>6. \A i \in DOMAIN trace : i \in from <=> LinkedBy(i, ev)
  <2>1. Nil \notin DOMAIN trace
    BY DEF Inv, PostTypeOK, Nil
  <2> QED BY <1>1, <2>1 DEF LinkedBy, StartTypes, LeaveTypes, ParkTypes, YieldTypes, EndTypes
<1>7. Opens(ev)
  BY <1>1 DEF Opens
<1> HIDE DEF g, from
<1> QED BY <1>1, <1>2, <1>3, <1>4, <1>5, <1>6, <1>7, AcceptEffects

LEMMA GoStartEffects ==
    ASSUME Inv, NEW ev \in InputEvents, GoStart(ev) PROVE Effects(ev)
<1> DEFINE g == [gs[ev.g] EXCEPT !.state = "gRunning", !.evStart = Here, !.evCreate = Nil,
                                 !.ev = Nil]
           desc == [ps[ev.p] EXCEPT !.g = ev.g]
<1>1. /\ ev.typ \in StartTypes /\ Accept(ev, g, desc, {gs[ev.g].ev})
      /\ UNCHANGED <<tasks, regions, evGC, evSTW>>
  BY DEF GoStart, Started, Taken
<1>2. gs[ev.g] \in gdesc /\ ps[ev.p] \in pdesc /\ Here \in Nat /\ ev.g \in G
  BY InputTyped DEF Inv
<1>3. g \in gdesc /\ [g EXCEPT !.known = TRUE]
                       = [gs[ev.g] EXCEPT !.state = "gRunning", !.evStart = Here, !.evCreate = Nil,
                                          !.ev = Nil, !.known = TRUE]
  BY <1>2 DEF gdesc, gStatus, Nil
<1>4. MovesTo(ev, ev.g, [gs[ev.g] EXCEPT !.state = "gRunning", !.evStart = Here, !.evCreate = Nil,
                                         !.ev = Nil, !.known = TRUE])
  BY <1>1, <1>2 DEF MovesTo, Created, Does, gdesc,
                    SnapTypes, StartTypes, LeaveTypes, ParkTypes, YieldTypes, EndTypes
<1>5. desc \in pdesc /\ desc.g = ev.g /\ desc.evSweep = ps[ev.p].evSweep
      /\ desc.evSTW = ps[ev.p].evSTW /\ desc.running = ps[ev.p].running
  BY <1>2 DEF pdesc
<1> HIDE DEF desc
<1>6. RunsTo(ev, ev.p, desc)
  BY <1>1, <1>5 DEF RunsTo, StartTypes
<1>7. \A i \in DOMAIN trace : i \in {gs[ev.g].ev} <=> LinkedBy(i, ev)
  BY <1>1 DEF LinkedBy, StartTypes, LeaveTypes, ParkTypes, YieldTypes, EndTypes
<1>8. Opens(ev)
  BY <1>1 DEF Opens, StartTypes
<1>9. ev.typ \notin {"GoCreate", "GoUnblock", "GCStart"}
  BY <1>1 DEF StartTypes
<1> HIDE DEF g
<1> QED BY <1>1, <1>2, <1>3, <1>4, <1>5, <1>6, <1>7, <1>8, <1>9, AcceptEffects

LEMMA GoLeaveEffects ==
    ASSUME Inv, NEW ev \in InputEvents, GoLeave(ev), verdict' # "panic" PROVE Effects(ev)
<1> DEFINE next == IF ev.typ \in ParkTypes \cup YieldTypes THEN Here ELSE gs[ev.g].ev
           g == [gs[ev.g] EXCEPT !.state = LeaveState(ev.typ), !.evStart = Nil, !.ev = next]
           desc == [ps[ev.p] EXCEPT !.g = NoG]
           active == IF ev.typ = "GoEnd" THEN {regions[ev.g][i] : i \in DOMAIN regions[ev.g]}
                     ELSE {}
           from == {gs[ev.g].evStart} \cup active
<1>1. /\ ev.typ \in LeaveTypes /\ Accept(ev, g, desc, from)
      /\ regions' = IF ev.typ = "GoEnd" THEN [regions EXCEPT ![ev.g] = <<>>] ELSE regions
      /\ UNCHANGED <<tasks, evGC, evSTW>>
  BY DEF GoLeave
<1>2. gs[ev.g] \in gdesc /\ ps[ev.p] \in pdesc /\ Here \in Nat
  BY InputTyped DEF Inv
<1>3. next \in Nat /\ LeaveState(ev.typ) \in gStatus
  BY <1>2 DEF gdesc, gStatus, LeaveState
<1>4. g \in gdesc /\ [g EXCEPT !.known = TRUE]
                       = [gs[ev.g] EXCEPT !.state = LeaveState(ev.typ), !.evStart = Nil, !.ev = next,
                                          !.known = TRUE]
  BY <1>2, <1>3 DEF gdesc, Nil
<1>5. MovesTo(ev, ev.g, [gs[ev.g] EXCEPT !.state = LeaveState(ev.typ), !.evStart = Nil, !.ev = next,
                                         !.known = TRUE])
  BY <1>1, <1>2 DEF MovesTo, Created, Does, gdesc,
                    SnapTypes, StartTypes, LeaveTypes, ParkTypes, YieldTypes, EndTypes
<1>6. desc \in pdesc /\ desc.g = NoG /\ desc.evSweep = ps[ev.p].evSweep
      /\ desc.evSTW = ps[ev.p].evSTW /\ desc.running = ps[ev.p].running
  BY <1>2 DEF pdesc, G
<1> HIDE DEF desc
<1>7. RunsTo(ev, ev.p, desc)
  BY <1>1, <1>6 DEF RunsTo, StartTypes, LeaveTypes, ParkTypes, YieldTypes, EndTypes
<1>8. \A i \in DOMAIN trace : i \in from <=> LinkedBy(i, ev)
  BY <1>1 DEF LinkedBy, StartTypes, LeaveTypes, ParkTypes, YieldTypes, EndTypes
<1>9. Opens(ev)
  BY <1>1 DEF Opens, LeaveTypes, ParkTypes, YieldTypes, EndTypes
<1>10. ev.typ \notin {"GoCreate", "GoUnblock", "GCStart"}
  BY <1>1 DEF LeaveTypes, ParkTypes, YieldTypes, EndTypes
<1> HIDE DEF g, from
<1> QED BY <1>1, <1>2, <1>4, <1>5, <1>6, <1>7, <1>8, <1>9, <1>10, AcceptEffects

\* A case that changes goroutine ev.arg, and not ev.g.
LEMMA OtherEffects ==
    ASSUME Inv, NEW ev \in InputEvents, NEW p \in P, NEW from, NEW new \in gdesc, ev.arg # ev.g,
           ev.typ \in {"GoCreate", "GoUnblock"},
           Record(ev, p, from), Restore(ev, p, [gs EXCEPT ![ev.arg] = new], gs[ev.g], ps[ev.p]),
           ev.typ = "GoCreate" => p = ev.p,
           p \in Proc => p = ev.p,
           \A i \in DOMAIN trace : i \in from <=> LinkedBy(i, ev),
           MovesTo(ev, ev.arg, new),
           Opens(ev)
    PROVE  Effects(ev)
<1> DEFINE other == [gs EXCEPT ![ev.arg] = new]
<1>1. /\ ev.p \in P /\ ev.g \in G /\ ev.arg \in G /\ gs \in [G -> gdesc] /\ ps \in [P -> pdesc]
      /\ gs[ev.g] \in gdesc /\ ps[ev.p] \in pdesc /\ other \in [G -> gdesc]
  BY InputTyped DEF Inv, PostTypeOK
<1>2. Grows(ev)
  BY RecordGrows
<1>3. /\ \A h \in G \ {ev.g} : gs'[h] = other[h]
      /\ ps'[p] = ps[ev.p] /\ \A q \in P \ {p} : ps'[q] = ps[q]
  <2> HIDE DEF other
  <2>1. Restore(ev, p, other, gs[ev.g], ps[ev.p])
    BY DEF other
  <2> QED BY <1>1, <2>1, Written
<1>4. gs'[ev.g] = [gs[ev.g] EXCEPT !.known = TRUE]
  BY <1>1 DEF Restore
<1>5. MovesTo(ev, ev.g, [gs[ev.g] EXCEPT !.known = TRUE])
  <2>1. /\ ev.typ \notin SnapTypes \cup StartTypes \cup LeaveTypes \cup ParkTypes \cup YieldTypes
        /\ ev.typ \notin {"GoSysCall", "GoSysExit", "GCMarkAssistStart", "GCMarkAssistDone"}
    BY DEF SnapTypes, StartTypes, LeaveTypes, ParkTypes, YieldTypes, EndTypes
  <2> QED BY <1>1, <2>1 DEF MovesTo, Created, Does, gdesc
<1>6. RunsTo(ev, ev.p, ps[ev.p])
  BY QuietRuns DEF StartTypes, LeaveTypes, ParkTypes, YieldTypes, EndTypes
<1>7. ASSUME NEW h \in G PROVE MovesTo(ev, h, gs'[h])
  <2>1. CASE h = ev.g
    BY <1>4, <1>5, <2>1
  <2>2. CASE h = ev.arg
    <3>1. gs'[h] = new
      BY <1>1, <1>3, <2>2
    <3> QED BY <2>2, <3>1
  <2>3. CASE h # ev.g /\ h # ev.arg
    <3>1. gs'[h] = gs[h]
      BY <1>1, <1>3, <2>3
    <3> QED BY <2>3, <3>1, OthersStay
  <2> QED BY <2>1, <2>2, <2>3
<1>8. ASSUME NEW q \in Proc PROVE RunsTo(ev, q, ps'[q])
  <2>1. ps'[q] = ps[q]
    BY <1>3, RealApart
  <2> QED BY <1>6, <2>1, OthersStay
<1> QED BY <1>2, <1>7, <1>8 DEF Effects, Moves, Runs

LEMMA GoCreateEffects ==
    ASSUME Inv, NEW ev \in InputEvents, Fits(ev), GoCreate(ev) PROVE Effects(ev)
<1> DEFINE new == [noG EXCEPT !.known = TRUE, !.state = "gRunnable", !.ev = Here, !.evCreate = Here]
<1>1. /\ ev.typ = "GoCreate" /\ Record(ev, ev.p, {})
      /\ Restore(ev, ev.p, [gs EXCEPT ![ev.arg] = new], gs[ev.g], ps[ev.p])
      /\ UNCHANGED <<tasks, regions, evGC, evSTW>>
  BY DEF GoCreate
<1>2. ev.p \in P /\ ev.g \in G /\ ev.arg \in G /\ Here \in Nat
  BY InputTyped DEF Inv
<1>3. gs[ev.g].state = "gRunning" /\ ~gs[ev.arg].known
  BY <1>1, FitsSays DEF Running
<1>4. ev.arg # ev.g
  BY <1>2, <1>3 DEF Inv, Agree
<1>5. new \in gdesc /\ MovesTo(ev, ev.arg, new)
  BY <1>1, <1>2, <1>4 DEF noG, gdesc, gStatus, Nil, MovesTo, Created, Does,
                          SnapTypes, StartTypes, LeaveTypes, ParkTypes, YieldTypes, EndTypes
<1>6. \A i \in DOMAIN trace : ~LinkedBy(i, ev)
  BY <1>1 DEF LinkedBy, StartTypes, LeaveTypes, ParkTypes, YieldTypes, EndTypes
<1>7. Opens(ev)
  BY <1>1 DEF Opens
<1> HIDE DEF new
<1> QED BY <1>1, <1>2, <1>4, <1>5, <1>6, <1>7, OtherEffects

LEMMA GoUnblockEffects ==
    ASSUME Inv, NEW ev \in InputEvents, Fits(ev), GoUnblock(ev) PROVE Effects(ev)
<1> DEFINE g1 == gs[ev.arg]
           new == [g1 EXCEPT !.state = "gRunnable", !.ev = Here]
           p == IF g1.ev # Nil /\ trace[g1.ev].typ = "GoBlockNet" /\ ev.p # TimerP
                THEN NetpollP ELSE ev.p
<1>1. /\ ev.typ = "GoUnblock" /\ Record(ev, p, {g1.ev})
      /\ Restore(ev, p, [gs EXCEPT ![ev.arg] = new], gs[ev.g], ps[ev.p])
      /\ UNCHANGED <<tasks, regions, evGC, evSTW>>
  BY DEF GoUnblock
<1>2. ev.p \in P /\ ev.g \in G /\ ev.arg \in G /\ Here \in Nat /\ g1 \in gdesc
  BY InputTyped DEF Inv
<1>3. gs[ev.g].state = "gRunning" /\ g1.state = "gWaiting"
  BY <1>1, FitsSays
<1>4. ev.arg # ev.g
  BY <1>3
<1>5. new \in gdesc /\ MovesTo(ev, ev.arg, new)
  BY <1>1, <1>2, <1>4 DEF gdesc, gStatus, MovesTo, Created, Does,
                          SnapTypes, StartTypes, LeaveTypes, ParkTypes, YieldTypes, EndTypes
<1>6. p \in P /\ (p \in Proc => p = ev.p)
  <2>1. NetpollP \in P /\ NetpollP \notin Proc
    BY RealApart DEF FakePs
  <2> QED BY <1>2, <2>1
<1>7. \A i \in DOMAIN trace : i \in {g1.ev} <=> LinkedBy(i, ev)
  BY <1>1 DEF LinkedBy, StartTypes, LeaveTypes, ParkTypes, YieldTypes, EndTypes
<1>8. Opens(ev)
  BY <1>1 DEF Opens
<1> HIDE DEF g1, new, p
<1> QED BY <1>1, <1>2, <1>4, <1>5, <1>6, <1>7, <1>8, OtherEffects

\* The cases that only join the trace.
LEMMA PlainEffects ==
    ASSUME Inv, NEW ev \in InputEvents, NEW from, Accept(ev, gs[ev.g], ps[ev.p], from),
           ev.typ \in {"UserTaskCreate", "UserTaskEnd", "UserRegionStart", "UserRegionEnd",
                       "FutileWakeup", "UserLog"} \cup GoatTypes,
           \A i \in DOMAIN trace : i \in from <=> LinkedBy(i, ev),
           Opens(ev)
    PROVE  Effects(ev)
<1>1. gs[ev.g] \in gdesc /\ ps[ev.p] \in pdesc
  BY InputTyped DEF Inv
<1>2. MovesTo(ev, ev.g, [gs[ev.g] EXCEPT !.known = TRUE])
  BY QuietMoves DEF GoatTypes, SnapTypes, StartTypes, LeaveTypes, ParkTypes, YieldTypes, EndTypes
<1>3. RunsTo(ev, ev.p, ps[ev.p])
  BY QuietRuns DEF GoatTypes, StartTypes, LeaveTypes, ParkTypes, YieldTypes, EndTypes
<1>4. ev.typ \notin {"GoCreate", "GoUnblock", "GCStart"}
  BY DEF GoatTypes
<1> QED BY <1>1, <1>2, <1>3, <1>4, AcceptEffects

LEMMA UserTaskEffects ==
    ASSUME Inv, NEW ev \in InputEvents, UserTask(ev) PROVE Effects(ev)
<1> DEFINE from == IF ev.typ = "UserTaskCreate" THEN {} ELSE TaskEvents(ev)
<1>1. /\ ev.typ \in {"UserTaskCreate", "UserTaskEnd"} /\ Accept(ev, gs[ev.g], ps[ev.p], from)
      /\ tasks' = IF ev.typ = "UserTaskCreate" THEN tasks \cup {Here} ELSE tasks \ TaskEvents(ev)
      /\ UNCHANGED <<regions, evGC, evSTW>>
  BY DEF UserTask
<1>2. \A i \in DOMAIN trace : i \in from <=> LinkedBy(i, ev)
  BY <1>1 DEF LinkedBy, StartTypes, LeaveTypes, ParkTypes, YieldTypes, EndTypes
<1>3. Opens(ev)
  BY <1>1 DEF Opens
<1> HIDE DEF from
<1> QED BY <1>1, <1>2, <1>3, PlainEffects

LEMMA UserRegionEffects ==
    ASSUME Inv, NEW ev \in InputEvents, UserRegion(ev) PROVE Effects(ev)
<1> DEFINE closes == ev.typ = "UserRegionEnd" /\ regions[ev.g] # <<>>
           from == IF closes THEN {Innermost(ev.g)} ELSE {}
<1>1. /\ ev.typ \in {"UserRegionStart", "UserRegionEnd"} /\ Accept(ev, gs[ev.g], ps[ev.p], from)
      /\ regions' = IF ev.typ = "UserRegionStart"
                    THEN [regions EXCEPT ![ev.g] = Append(regions[ev.g], Here)]
                    ELSE IF closes
                    THEN [regions EXCEPT ![ev.g] = SubSeq(regions[ev.g], 1, Len(regions[ev.g]) - 1)]
                    ELSE regions
      /\ UNCHANGED <<tasks, evGC, evSTW>>
  BY DEF UserRegion
<1>2. \A i \in DOMAIN trace : i \in from <=> LinkedBy(i, ev)
  BY <1>1 DEF LinkedBy, StartTypes, LeaveTypes, ParkTypes, YieldTypes, EndTypes
<1>3. Opens(ev)
  BY <1>1 DEF Opens
<1> HIDE DEF from
<1> QED BY <1>1, <1>2, <1>3, PlainEffects

LEMMA OtherEventEffects ==
    ASSUME Inv, NEW ev \in InputEvents, OtherEvent(ev) PROVE Effects(ev)
<1>1. /\ ev.typ \in {"FutileWakeup", "UserLog"} \cup GoatTypes
      /\ Accept(ev, gs[ev.g], ps[ev.p], {}) /\ UNCHANGED <<tasks, regions, evGC, evSTW>>
  BY DEF OtherEvent
<1>2. \A i \in DOMAIN trace : ~LinkedBy(i, ev)
  BY <1>1 DEF LinkedBy, GoatTypes, StartTypes, LeaveTypes, ParkTypes, YieldTypes, EndTypes
<1>3. Opens(ev)
  BY <1>1 DEF Opens, GoatTypes
<1> QED BY <1>1, <1>2, <1>3, PlainEffects

\* The summary of the switch that everything below rests on.
LEMMA CaseAccepts ==
    ASSUME NEW ev, Case(ev)
    PROVE  verdict' \in {verdict, "panic"}
BY DEF Case, ProcSwitch, GCStart, GCDone, StopTheWorld, Sweep, MarkAssist, GoAnnounced, GoCreate,
       GoStart, GoLeave, GoUnblock, GoSysCall, GoSysExit, UserTask, UserRegion, OtherEvent, Accept

LEMMA CaseEffects ==
    ASSUME Inv, NEW ev \in InputEvents, Fits(ev), Case(ev)
    PROVE  Effects(ev) /\ Inv'
<1>1. Inv'
  BY SnapCase, CreateCase, StartCase, LeaveCase, UnblockCase, SysExitCase, QuietCases DEF Case
<1>2. verdict' # "panic"
  BY <1>1 DEF Inv, NoNilDereference
<1> QED BY <1>1, <1>2, ProcSwitchEffects, GCStartEffects, GCDoneEffects, StopTheWorldEffects,
           SweepEffects, MarkAssistEffects, GoAnnouncedEffects, GoCreateEffects, GoStartEffects,
           GoLeaveEffects, GoUnblockEffects, GoSysCallEffects, GoSysExitEffects, UserTaskEffects,
           UserRegionEffects, OtherEventEffects DEF Case
-----------------------------------------------------------------------------
(***************************************************************************)
(* What an event links to itself                                           *)
(***************************************************************************)
\* How the classes of events keep apart.
LEMMA Classes ==
    /\ StartTypes \cap LeaveTypes = {} /\ SnapTypes \cap (StartTypes \cup LeaveTypes) = {}
    /\ ParkTypes \cup YieldTypes \cup EndTypes \cup {"GoSysBlock"} = LeaveTypes
    /\ YieldTypes \cap (ParkTypes \cup EndTypes) = {} /\ ParkTypes \cap EndTypes = {}
    /\ "GoSysBlock" \notin ParkTypes \cup YieldTypes \cup EndTypes
    /\ "GoEnd" \in EndTypes
    /\ \A typ \in {"GoCreate", "GoUnblock", "GoSysCall", "GoSysExit", "GCStart", "GCDone",
                   "GCSTWStart", "GCSTWDone", "GCSweepStart", "GCSweepDone",
                   "GCMarkAssistStart", "GCMarkAssistDone", "UserTaskCreate", "UserTaskEnd",
                   "UserRegionStart", "UserRegionEnd"} :
         typ \notin StartTypes \cup LeaveTypes \cup SnapTypes
BY DEF StartTypes, LeaveTypes, SnapTypes, ParkTypes, YieldTypes, EndTypes

\* What the checks say of an event that ends something.
LEMMA FitsEnds ==
    ASSUME NEW ev, Fits(ev)
    PROVE  /\ ev.typ = "GCDone" => evGC # Nil
           /\ ev.typ = "GCSTWDone" => STW(ev) # Nil
           /\ ev.typ = "GCSweepDone" => ps[ev.p].evSweep # Nil
           /\ ev.typ = "UserTaskCreate" => TaskEvents(ev) = {}
           /\ ev.typ = "UserRegionEnd" /\ regions[ev.g] # <<>> => trace[Innermost(ev.g)].seq = ev.seq
           /\ ev.typ = "GoSysCall" => Running(ev, FALSE)
BY Classes DEF Fits, SnapTypes, StartTypes, LeaveTypes, ParkTypes, YieldTypes, EndTypes, BadRegion

\* Event i, linked by ev, was unlinked and is what the table of links expects.
Pairs(i, ev) ==
    \/ ev.typ = "GCDone" /\ trace[i].typ = "GCStart"
    \/ /\ ev.typ = "GCSTWDone" /\ trace[i].typ = "GCSTWStart"
       /\ ~GlobalSTW => trace[i].p = ev.p
    \/ ev.typ = "GCSweepDone" /\ trace[i].typ = "GCSweepStart" /\ trace[i].p = ev.p
    \/ ev.typ = "GCMarkAssistDone" /\ trace[i].typ = "GCMarkAssistStart" /\ trace[i].g = ev.g
    \/ ev.typ \in StartTypes /\ Readied(i, ev.g)
    \/ ev.typ \in LeaveTypes /\ StartsAt(i, ev.g) /\ trace[i].p = ev.p
    \/ /\ ev.typ = "GoEnd" /\ trace[i].typ = "UserRegionStart" /\ trace[i].g = ev.g
    \/ /\ ev.typ = "GoUnblock" /\ trace[i].g = ev.arg
       /\ trace[i].typ \in {"GoSysCall"} \cup ParkTypes \cup SnapTypes
    \/ ev.typ = "GoSysExit" /\ trace[i].g = ev.g /\ trace[i].typ = "GoSysCall"
    \/ ev.typ = "UserTaskEnd" /\ i \in TaskEvents(ev) /\ trace[i].typ = "UserTaskCreate"
    \/ /\ ev.typ = "UserRegionEnd" /\ trace[i].typ = "UserRegionStart" /\ trace[i].g = ev.g
       /\ trace[i].seq = ev.seq /\ regions[ev.g] # <<>> /\ i = Innermost(ev.g)

\* A running goroutine's start is on the P that runs it.
LEMMA RunningStart ==
    ASSUME Inv, StartFits, NEW ev \in InputEvents, ev.typ \in LeaveTypes, Fits(ev)
    PROVE  LET k == gs[ev.g].evStart
           IN  /\ k # Nil /\ Unlinked(k) /\ StartsAt(k, ev.g) /\ Unstarted(k, ev.g)
               /\ trace[k].p = ev.p /\ ev.p \in Proc /\ ev.g \in Goroutine
<1> DEFINE k == gs[ev.g].evStart
<1>1. gs[ev.g].state = "gRunning" /\ ps[ev.p].g = ev.g /\ ev.g # NoG
  BY FitsSays DEF Running
<1>2. ev.g \in Goroutine /\ ev.g \in G /\ ev.p \in Proc
  BY <1>1, InputTyped, Classes DEF Inv, G
<1>3. k # Nil
  BY <1>1, <1>2 DEF Inv, Agree
<1>4. Unlinked(k) /\ StartsAt(k, ev.g) /\ Unstarted(k, ev.g) /\ ps[trace[k].p].g = ev.g
  BY <1>2, <1>3 DEF StartFits, Held
<1>5. trace[k].p \in Proc
  BY <1>4 DEF StartFits, StartsAt, Unlinked
<1>6. trace[k].p = ev.p
  BY <1>1, <1>2, <1>4, <1>5 DEF Inv, Agree
<1> QED BY <1>2, <1>3, <1>4, <1>6

LEMMA Targets ==
    ASSUME Inv, Holders, NEW ev \in InputEvents, Fits(ev), NEW i \in DOMAIN trace, LinkedBy(i, ev)
    PROVE  trace[i].link = Nil /\ Pairs(i, ev)
<1>1. /\ ev.g \in G /\ ev.arg \in G /\ i # Nil
      /\ ev.typ \notin {"GoUnblock", "GoSysExit"} => ev.p \in Proc
  BY InputTyped DEF Inv, PostTypeOK, Nil
<1>2. CASE ev.typ = "GCDone" /\ i = evGC
  BY <1>1, <1>2 DEF Holders, SpanFits, Held, SpanAt, Unlinked, Pairs
<1>3. CASE ev.typ = "GCSTWDone" /\ i = STW(ev)
  BY <1>1, <1>3 DEF Holders, SpanFits, Held, SpanAt, Unlinked, Pairs, STW
<1>4. CASE ev.typ = "GCSweepDone" /\ i = ps[ev.p].evSweep
  BY <1>1, <1>4 DEF Holders, SpanFits, Held, SpanAt, Unlinked, Pairs
<1>5. CASE ev.typ = "GCMarkAssistDone" /\ i = gs[ev.g].evMarkAssist
  BY <1>1, <1>5 DEF Holders, SpanFits, Held, SpanAt, Unlinked, Pairs
<1>6. CASE ev.typ \in StartTypes /\ i = gs[ev.g].ev
  <2>1. gs[ev.g].state = "gRunnable"
    BY <1>6, FitsSays
  <2> QED BY <1>1, <1>6, <2>1 DEF Holders, EvFits, Held, Unlinked, Pairs
<1>7. CASE ev.typ \in LeaveTypes /\ i = gs[ev.g].evStart
  BY <1>7, RunningStart DEF Holders, Unlinked, Pairs
<1>8. CASE ev.typ = "GoEnd" /\ \E r \in DOMAIN regions[ev.g] : i = regions[ev.g][r]
  BY <1>1, <1>8 DEF Holders, RegionFits, Active, SpanAt, Unlinked, Pairs
<1>9. CASE ev.typ = "GoUnblock" /\ i = gs[ev.arg].ev
  <2>1. gs[ev.arg].state = "gWaiting"
    BY <1>9, FitsSays
  <2> QED BY <1>1, <1>9, <2>1 DEF Holders, EvFits, Held, Paused, Unlinked, Pairs
<1>10. CASE ev.typ = "GoSysExit" /\ i = gs[ev.g].ev /\ trace[i].typ = "GoSysCall"
  <2>1. gs[ev.g].state = "gWaiting"
    BY <1>10, FitsSays
  <2> QED BY <1>1, <1>10, <2>1 DEF Holders, EvFits, Held, Paused, Unlinked, Pairs
<1>11. CASE ev.typ = "UserTaskEnd" /\ i \in TaskEvents(ev)
  BY <1>11 DEF Holders, SpanFits, Held, SpanAt, Unlinked, Pairs, TaskEvents
<1>12. CASE ev.typ = "UserRegionEnd" /\ regions[ev.g] # <<>> /\ i = Innermost(ev.g)
  <2>1. regions[ev.g] \in Seq(Nat)
    BY <1>1 DEF Inv, PostTypeOK
  <2>2. Len(regions[ev.g]) \in DOMAIN regions[ev.g]
    BY <1>12, <2>1
  <2>3. i \in Active(ev.g)
    BY <1>12, <2>2 DEF Active, Innermost
  <2>4. SpanAt(i, "UserRegionStart") /\ trace[i].g = ev.g
    BY <1>1, <2>3 DEF Holders, RegionFits
  <2>5. trace[i].seq = ev.seq
    BY <1>12, FitsEnds
  <2> QED BY <1>12, <2>4, <2>5 DEF SpanAt, Unlinked, Pairs
<1> QED BY <1>2, <1>3, <1>4, <1>5, <1>6, <1>7, <1>8, <1>9, <1>10, <1>11, <1>12 DEF LinkedBy

\* The past stays, seen from after ev, which is at position n.
Later(ev, n) ==
    /\ n = Here /\ n \in Nat \ {0} /\ n \notin DOMAIN trace
    /\ DOMAIN trace = 1..(n - 1) /\ DOMAIN trace' = 1..n /\ DOMAIN trace' = DOMAIN trace \cup {n}
    /\ Len(trace) = n - 1 /\ Len(trace') = n
    /\ \A i \in DOMAIN trace : i \in Nat \ {0} /\ i < n

\* The events before ev, and ev.
Rows(ev, n) ==
    /\ \A i \in DOMAIN trace :
         /\ trace'[i].typ = trace[i].typ /\ trace'[i].p = trace[i].p
         /\ trace'[i].g = trace[i].g /\ trace'[i].arg = trace[i].arg
         /\ trace'[i].seq = trace[i].seq /\ trace'[i].stk = trace[i].stk
         /\ trace'[i].link = IF LinkedBy(i, ev) THEN n ELSE trace[i].link
    /\ trace'[n].typ = ev.typ /\ trace'[n].g = ev.g /\ trace'[n].arg = ev.arg
    /\ trace'[n].seq = ev.seq /\ trace'[n].link = Nil
    /\ trace'[n].stk = IF ev.typ \in StartTypes THEN gs[ev.g].evCreate ELSE Nil
    /\ ev.typ \notin {"GCStart", "GoUnblock"} => trace'[n].p = ev.p

\* What the predicates on positions say.
Seen(ev, n) ==
    /\ \A i \in DOMAIN trace : Unlinked(i)' <=> Unlinked(i) /\ ~LinkedBy(i, ev)
    /\ Unlinked(n)'
    /\ \A i \in DOMAIN trace : \A g : StartsAt(i, g)' <=> StartsAt(i, g)
    /\ \A i \in DOMAIN trace : \A g : WakesAt(i, g)' <=> WakesAt(i, g)
    /\ \A i \in DOMAIN trace : \A g : BlocksAt(i, g)' <=> BlocksAt(i, g)
    /\ \A g : StartsAt(n, g)' <=> ev.typ \in StartTypes /\ ev.g = g
    /\ \A g : WakesAt(n, g)' <=> \/ ev.typ = "GoUnblock" /\ ev.arg = g
                                 \/ ev.typ = "GoSysExit" /\ ev.g = g
    /\ \A g : BlocksAt(n, g)' <=> /\ ev.typ \in ParkTypes \cup SnapTypes \cup {"GoSysBlock"}
                                  /\ ev.g = g
    /\ \A k \in 0..(n - 1) : \A g :
         Unstarted(k, g)' <=> Unstarted(k, g) /\ ~(ev.typ \in StartTypes /\ ev.g = g)
    /\ \A g : Unstarted(n, g)'

LEMMA PastRows ==
    ASSUME NEW ev, NEW n, n = Here, Grows(ev)
    PROVE  Later(ev, n) /\ Rows(ev, n)
<1>1. Later(ev, n)
  <2>1. /\ Len(trace) \in Nat /\ DOMAIN trace = 1..Len(trace) /\ n = Len(trace) + 1
        /\ Len(trace') = n /\ DOMAIN trace' = 1..n
    BY DEF Grows, Here
  <2>2. /\ n \in Nat \ {0} /\ n \notin DOMAIN trace /\ DOMAIN trace' = DOMAIN trace \cup {n}
        /\ Len(trace) = n - 1
        /\ \A i \in DOMAIN trace : i \in Nat \ {0} /\ i < n
    BY <2>1
  <2> QED BY <2>1, <2>2 DEF Later
<1>2. Rows(ev, n)
  BY DEF Grows, Rows
<1> QED BY <1>1, <1>2

LEMMA PastSeen ==
    ASSUME NEW ev, NEW n, Later(ev, n), Rows(ev, n)
    PROVE  Seen(ev, n)
<1>1. ASSUME NEW i \in DOMAIN trace
      PROVE  /\ Unlinked(i)' <=> Unlinked(i) /\ ~LinkedBy(i, ev)
             /\ \A g : (StartsAt(i, g)' <=> StartsAt(i, g)) /\ (WakesAt(i, g)' <=> WakesAt(i, g))
             /\ \A g : BlocksAt(i, g)' <=> BlocksAt(i, g)
  <2>1. /\ trace'[i].typ = trace[i].typ /\ trace'[i].g = trace[i].g /\ trace'[i].arg = trace[i].arg
        /\ trace'[i].link = IF LinkedBy(i, ev) THEN n ELSE trace[i].link
    BY DEF Rows
  <2>2. i \in DOMAIN trace' /\ n # Nil
    BY DEF Later, Nil
  <2>3. Unlinked(i)' <=> Unlinked(i) /\ ~LinkedBy(i, ev)
    BY <2>1, <2>2 DEF Unlinked
  <2>4. ASSUME NEW g PROVE (StartsAt(i, g)' <=> StartsAt(i, g)) /\ (WakesAt(i, g)' <=> WakesAt(i, g))
    BY <2>1 DEF StartsAt, WakesAt
  <2>5. ASSUME NEW g PROVE BlocksAt(i, g)' <=> BlocksAt(i, g)
    BY <2>1 DEF BlocksAt
  <2> QED BY <2>3, <2>4, <2>5
<1>2. /\ Unlinked(n)'
      /\ \A g : StartsAt(n, g)' <=> ev.typ \in StartTypes /\ ev.g = g
      /\ \A g : WakesAt(n, g)' <=> \/ ev.typ = "GoUnblock" /\ ev.arg = g
                                   \/ ev.typ = "GoSysExit" /\ ev.g = g
      /\ \A g : BlocksAt(n, g)' <=> /\ ev.typ \in ParkTypes \cup SnapTypes \cup {"GoSysBlock"}
                                    /\ ev.g = g
  <2>1. trace'[n].typ = ev.typ /\ trace'[n].g = ev.g /\ trace'[n].arg = ev.arg /\ trace'[n].link = Nil
    BY DEF Rows
  <2>2. n \in DOMAIN trace'
    BY DEF Later
  <2>3. ASSUME NEW g
        PROVE  /\ StartsAt(n, g)' <=> ev.typ \in StartTypes /\ ev.g = g
               /\ WakesAt(n, g)' <=> \/ ev.typ = "GoUnblock" /\ ev.arg = g
                                     \/ ev.typ = "GoSysExit" /\ ev.g = g
    BY <2>1 DEF StartsAt, WakesAt
  <2>4. ASSUME NEW g
        PROVE  BlocksAt(n, g)' <=> /\ ev.typ \in ParkTypes \cup SnapTypes \cup {"GoSysBlock"}
                                   /\ ev.g = g
    BY <2>1 DEF BlocksAt
  <2> QED BY <2>1, <2>2, <2>3, <2>4 DEF Unlinked
<1>3. ASSUME NEW k \in 0..(n - 1), NEW g
      PROVE  Unstarted(k, g)' <=> Unstarted(k, g) /\ ~(ev.typ \in StartTypes /\ ev.g = g)
  <2>1. n \in Nat \ {0} /\ Len(trace) = n - 1 /\ Len(trace') = n
    BY DEF Later
  <2>2. (k + 1)..n = ((k + 1)..(n - 1)) \cup {n}
    BY <2>1
  <2>3. \A j \in (k + 1)..(n - 1) : StartsAt(j, g)' <=> StartsAt(j, g)
    <3>1. \A j \in (k + 1)..(n - 1) : j \in DOMAIN trace
      BY <2>1 DEF Later
    <3> QED BY <1>1, <3>1
  <2>4. Unstarted(k, g)' <=> \A j \in (k + 1)..n : ~StartsAt(j, g)'
    BY <2>1 DEF Unstarted
  <2>5. Unstarted(k, g) <=> \A j \in (k + 1)..(n - 1) : ~StartsAt(j, g)
    BY <2>1 DEF Unstarted
  <2> QED BY <1>2, <2>2, <2>3, <2>4, <2>5
<1>4. ASSUME NEW g PROVE Unstarted(n, g)'
  <2>1. n \in Nat /\ Len(trace') = n
    BY DEF Later
  <2>2. \A j : j \notin (n + 1)..n
    BY <2>1
  <2> QED BY <2>1, <2>2 DEF Unstarted
<1> QED BY <1>1, <1>2, <1>3, <1>4 DEF Seen

\* What the preservation of each part of the invariant starts from.
After(ev, n) ==
    /\ Later(ev, n) /\ Rows(ev, n) /\ Seen(ev, n) /\ Moves(ev) /\ Runs(ev) /\ Opens(ev)
    /\ \A i \in DOMAIN trace : LinkedBy(i, ev) => trace[i].link = Nil /\ Pairs(i, ev)
    /\ \A i \in DOMAIN trace : trace[i] \in Processed
    /\ ev.g \in G /\ ev.arg \in G

LEMMA WhatFollows ==
    ASSUME Inv, Holders, NEW ev \in InputEvents, Fits(ev), Effects(ev)
    PROVE  \E n : After(ev, n)
<1>1. PICK n : n = Here
  OBVIOUS
<1>2. Later(ev, n) /\ Rows(ev, n)
  BY <1>1, PastRows DEF Effects
<1>3. Seen(ev, n)
  BY <1>2, PastSeen
<1>4. ev.g \in G /\ ev.arg \in G
  BY InputTyped DEF Inv
<1>5. \A i \in DOMAIN trace : LinkedBy(i, ev) => trace[i].link = Nil /\ Pairs(i, ev)
  BY Targets
<1>6. \A i \in DOMAIN trace : trace[i] \in Processed
  <2>1. trace \in Seq(Processed)
    BY DEF Inv, PostTypeOK
  <2> QED BY <2>1
<1> QED BY <1>2, <1>3, <1>4, <1>5, <1>6 DEF Effects, After
-----------------------------------------------------------------------------
(***************************************************************************)
(* Each part of the invariant is kept by an accepted event                 *)
(***************************************************************************)
LEMMA StartFitsKept ==
    ASSUME Inv, Holders, NEW ev \in InputEvents, Fits(ev), NEW n, After(ev, n), Inv'
    PROVE  StartFits'
<1>0. Later(ev, n) /\ Rows(ev, n) /\ Seen(ev, n) /\ Moves(ev) /\ Runs(ev) /\ n = Here
  BY DEF After, Later
<1>1. ASSUME NEW g \in G, NEW k \in Held(gs'[g].evStart)
      PROVE  Unlinked(k)' /\ StartsAt(k, g)' /\ Unstarted(k, g)' /\ ps'[trace'[k].p].g = g
  <2>0. k = gs'[g].evStart /\ k # Nil
    BY DEF Held
  <2>1. k = IF Does(ev, g, StartTypes) THEN n
            ELSE IF Does(ev, g, LeaveTypes) \/ Created(ev, g) THEN Nil ELSE gs[g].evStart
    BY <1>0, <2>0 DEF Moves, MovesTo
  <2>2. CASE Does(ev, g, StartTypes)
    <3>1. k = n /\ ev.typ \in StartTypes /\ ev.g = g
      BY <2>1, <2>2 DEF Does
    <3>2. ev.p \in Proc /\ trace'[n].p = ev.p
      BY <1>0, <3>1, InputTyped, Classes DEF Inv, StartTypes, Rows
    <3>3. ps'[ev.p].g = g
      BY <1>0, <3>1, <3>2 DEF Runs, RunsTo
    <3>4. Unlinked(n)' /\ StartsAt(n, g)' /\ Unstarted(n, g)'
      BY <1>0, <3>1 DEF Seen
    <3> QED BY <3>1, <3>2, <3>3, <3>4
  <2>3. CASE ~Does(ev, g, StartTypes)
    <3>1. k = gs[g].evStart /\ ~Does(ev, g, LeaveTypes)
      BY <2>0, <2>1, <2>3
    <3>2. Unlinked(k) /\ StartsAt(k, g) /\ Unstarted(k, g) /\ ps[trace[k].p].g = g
      BY <2>0, <3>1 DEF Holders, StartFits, Held
    <3>3. k \in DOMAIN trace /\ trace[k].p \in Proc /\ trace[k].g = g /\ g \in Goroutine
      BY <3>2 DEF Unlinked, StartsAt, Holders, StartFits
    <3>4. ~LinkedBy(k, ev)
      <4> SUFFICES ASSUME LinkedBy(k, ev) PROVE FALSE
        OBVIOUS
      <4>1. Pairs(k, ev)
        BY <3>3 DEF After
      <4> QED BY <2>3, <3>1, <3>2, <4>1, Classes DEF Pairs, Readied, StartsAt, Does, StartTypes, YieldTypes
    <3>5. ps'[trace[k].p].g = g
      <4>1. CASE trace[k].p # ev.p
        BY <1>0, <3>2, <3>3, <4>1 DEF Runs, RunsTo
      <4>2. CASE trace[k].p = ev.p
        <5>1. ps[ev.p].g = g
          BY <3>2, <4>2
        <5>2. g # NoG
          BY <3>3, NoGApart
        <5>3. ev.typ \notin StartTypes
          BY <5>1, <5>2, FitsSays
        <5>4. ev.typ \notin LeaveTypes
          BY <3>1, <5>1, FitsSays DEF Running, Does
        <5> QED BY <1>0, <3>3, <4>2, <5>1, <5>3, <5>4 DEF Runs, RunsTo
      <4> QED BY <4>1, <4>2
    <3>6. Unlinked(k)' /\ StartsAt(k, g)' /\ trace'[k].p = trace[k].p /\ k \in 0..(n - 1)
      BY <1>0, <3>2, <3>3, <3>4 DEF Seen, Rows, Later
    <3>7. Unstarted(k, g)'
      BY <1>0, <2>3, <3>2, <3>6 DEF Seen, Does
    <3> QED BY <3>5, <3>6, <3>7
  <2> QED BY <2>2, <2>3
<1>2. ASSUME NEW i \in DOMAIN trace', trace'[i].typ \in StartTypes
      PROVE  /\ trace'[i].p \in Proc /\ trace'[i].g \in Goroutine
             /\ trace'[i].link = Nil => gs'[trace'[i].g].evStart = i
  <2>1. CASE i = n
    <3>1. ev.typ \in StartTypes /\ trace'[n].g = ev.g
      BY <1>0, <1>2, <2>1 DEF Rows
    <3>2. ev.p \in Proc /\ trace'[n].p = ev.p
      BY <1>0, <3>1, InputTyped, Classes DEF Inv, StartTypes, Rows
    <3>3. gs[ev.g].state = "gRunnable" /\ ev.g \in G
      BY <3>1, FitsSays DEF After
    <3>4. ev.g \in Goroutine
      BY <3>3 DEF Inv, Agree, G
    <3>5. gs'[ev.g].evStart = n
      BY <1>0, <3>1, <3>3 DEF Moves, MovesTo, Does
    <3> QED BY <2>1, <3>1, <3>2, <3>4, <3>5
  <2>2. CASE i \in DOMAIN trace
    <3> DEFINE g == trace[i].g
    <3>1. trace[i].typ \in StartTypes /\ trace'[i].p = trace[i].p /\ trace'[i].g = g
      BY <1>0, <1>2, <2>2 DEF Rows
    <3>2. trace[i].p \in Proc /\ g \in Goroutine /\ g \in G
      BY <2>2, <3>1, NoGApart DEF Holders, StartFits
    <3>3. ASSUME trace'[i].link = Nil PROVE gs'[g].evStart = i
      <4>1. trace[i].link = Nil /\ ~LinkedBy(i, ev) /\ i # Nil /\ n # Nil
        BY <1>0, <2>2, <3>3 DEF Nil, Rows, Later
      <4>2. gs[g].evStart = i
        BY <2>2, <3>1, <4>1 DEF Holders, StartFits
      <4>3. ~Does(ev, g, LeaveTypes)
        BY <4>1, <4>2 DEF LinkedBy, Does
      <4>4. ps[trace[i].p].g = g /\ g # NoG
        BY <3>2, <4>1, <4>2, NoGApart DEF Holders, StartFits, Held
      <4>5. gs[g].state = "gRunning" /\ gs[g].known
        BY <3>2, <4>4 DEF Inv, Agree
      <4>6. ~Does(ev, g, StartTypes) /\ ~Created(ev, g)
        BY <4>5, FitsSays DEF Does, Created
      <4> QED BY <1>0, <3>2, <4>2, <4>3, <4>6 DEF Moves, MovesTo
    <3> QED BY <3>1, <3>2, <3>3
  <2> QED BY <1>0, <2>1, <2>2 DEF Later
<1> QED BY <1>1, <1>2 DEF StartFits, Held

LEMMA EvFitsKept ==
    ASSUME Inv, Holders, NEW ev \in InputEvents, Fits(ev), NEW n, After(ev, n), Inv'
    PROVE  EvFits'
<1>0. Later(ev, n) /\ Rows(ev, n) /\ Seen(ev, n) /\ Moves(ev) /\ n = Here
  BY DEF After, Later
<1> SUFFICES ASSUME NEW g \in G, NEW k \in Held(gs'[g].ev)
             PROVE  Unlinked(k)' /\ IF gs'[g].state = "gRunnable" THEN Readied(k, g)' ELSE Paused(k, g)'
  BY DEF EvFits, Held
<1> DEFINE Woken == ev.typ = "GoUnblock" /\ g = ev.arg
           New == \/ Created(ev, g) \/ Woken
                  \/ Does(ev, g, SnapTypes \cup ParkTypes \cup YieldTypes \cup {"GoSysCall", "GoSysExit"})
<1>1. k # Nil /\ k = IF New THEN n ELSE IF Does(ev, g, StartTypes) THEN Nil ELSE gs[g].ev
  BY <1>0 DEF Held, Moves, MovesTo
<1>2. gs'[g].state = IF Created(ev, g) \/ Woken THEN "gRunnable"
                     ELSE IF Does(ev, g, SnapTypes) THEN "gWaiting"
                     ELSE IF Does(ev, g, StartTypes) THEN "gRunning"
                     ELSE IF Does(ev, g, LeaveTypes) THEN LeaveState(ev.typ)
                     ELSE IF Does(ev, g, {"GoSysExit"}) THEN "gRunnable"
                     ELSE gs[g].state
  BY <1>0 DEF Moves, MovesTo
<1>3. CASE New
  <2>1. k = n /\ Unlinked(n)' /\ Unstarted(n, g)'
    BY <1>0, <1>1, <1>3 DEF Seen
  <2>2. trace'[n].typ = ev.typ /\ trace'[n].g = ev.g /\ trace'[n].arg = ev.arg
    BY <1>0 DEF Rows
  <2>3. CASE Created(ev, g)
    <3>1. ~gs[g].known
      BY <2>3, FitsSays DEF Created
    <3>2. Unstarted(0, g)
      BY <3>1 DEF Holders, CreateFits, Unstarted, StartsAt, Later, After
    <3>3. Unstarted(0, g)'
      <4>1. ev.typ \notin StartTypes /\ 0 \in 0..(n - 1)
        BY <1>0, <2>3, Classes DEF Created, Later
      <4> QED BY <1>0, <3>2, <4>1 DEF Seen
    <3>4. gs'[g].state = "gRunnable" /\ ev.typ = "GoCreate" /\ ev.arg = g
      BY <1>2, <2>3 DEF Created
    <3> QED BY <2>1, <2>2, <3>3, <3>4 DEF Readied
  <2>4. CASE Woken
    <3>1. gs'[g].state = "gRunnable" /\ ev.typ = "GoUnblock" /\ ev.arg = g
      BY <1>2, <2>4
    <3> QED BY <2>1, <2>2, <3>1 DEF Readied
  <2>5. CASE Does(ev, g, SnapTypes \cup ParkTypes) /\ ~Created(ev, g) /\ ~Woken
    <3>1. gs'[g].state = "gWaiting" /\ ev.typ \in SnapTypes \cup ParkTypes /\ ev.g = g
      BY <1>2, <2>5, Classes DEF Does, LeaveState
    <3> QED BY <2>1, <2>2, <3>1 DEF Paused
  <2>6. CASE Does(ev, g, YieldTypes \cup {"GoSysExit"}) /\ ~Created(ev, g) /\ ~Woken
    <3>1. gs'[g].state = "gRunnable" /\ ev.typ \in YieldTypes \cup {"GoSysExit"} /\ ev.g = g
      BY <1>2, <2>6, Classes DEF Does, LeaveState
    <3> QED BY <2>1, <2>2, <3>1 DEF Readied
  <2>7. CASE Does(ev, g, {"GoSysCall"}) /\ ~Created(ev, g) /\ ~Woken
    <3>1. gs'[g].state = "gRunning" /\ ev.typ = "GoSysCall" /\ ev.g = g
      BY <1>2, <2>7, Classes, FitsEnds DEF Does, Running
    <3> QED BY <2>1, <2>2, <3>1 DEF Paused
  <2> QED BY <1>3, <2>3, <2>4, <2>5, <2>6, <2>7 DEF Does
<1>4. CASE ~New
  <2>1. k = gs[g].ev /\ k \in Held(gs[g].ev) /\ ~Does(ev, g, StartTypes)
    BY <1>1, <1>4 DEF Held
  <2>2. Unlinked(k) /\ IF gs[g].state = "gRunnable" THEN Readied(k, g) ELSE Paused(k, g)
    BY <2>1 DEF Holders, EvFits
  <2>3. k \in DOMAIN trace /\ k \in 0..(n - 1) /\ 0 \in 0..(n - 1)
    BY <1>0, <2>2 DEF Unlinked, Later
  <2>4. ~LinkedBy(k, ev)
    <3> SUFFICES ASSUME LinkedBy(k, ev) PROVE FALSE
      OBVIOUS
    <3>1. Pairs(k, ev)
      BY <2>3 DEF After
    <3>2. CASE gs[g].state = "gRunnable"
      BY <1>4, <2>1, <2>2, <3>1, <3>2, Classes DEF Pairs, Readied, Does, StartsAt
    <3>3. CASE gs[g].state # "gRunnable"
      BY <1>4, <2>1, <2>2, <3>1, <3>3, Classes DEF Pairs, Readied, Paused, Does, StartsAt
    <3> QED BY <3>2, <3>3
  <2>5. /\ trace'[k].typ = trace[k].typ /\ trace'[k].g = trace[k].g /\ trace'[k].arg = trace[k].arg
        /\ Unlinked(k)'
    BY <1>0, <2>2, <2>3, <2>4 DEF Rows, Seen
  <2>6. (Unstarted(0, g)' <=> Unstarted(0, g)) /\ (Unstarted(k, g)' <=> Unstarted(k, g))
    BY <1>0, <2>1, <2>3 DEF Seen, Does
  <2>7. CASE Does(ev, g, LeaveTypes)
    <3>1. gs[g].state = "gRunning"
      BY <2>7, FitsSays DEF Running, Does
    <3>2. Paused(k, g) /\ trace[k].typ = "GoSysCall"
      BY <2>2, <3>1 DEF Paused
    <3>3. gs'[g].state # "gRunnable"
      BY <1>2, <1>4, <2>7, Classes DEF Does, LeaveState
    <3> QED BY <2>5, <3>2, <3>3 DEF Paused
  <2>8. CASE ~Does(ev, g, LeaveTypes)
    <3>1. gs'[g].state = gs[g].state
      BY <1>2, <1>4, <2>1, <2>8 DEF Does
    <3> QED BY <2>2, <2>5, <2>6, <3>1 DEF Readied, Paused
  <2> QED BY <2>7, <2>8
<1> QED BY <1>3, <1>4

LEMMA CreateFitsKept ==
    ASSUME Inv, Holders, NEW ev \in InputEvents, Fits(ev), NEW n, After(ev, n), Inv'
    PROVE  CreateFits'
<1>0. Later(ev, n) /\ Rows(ev, n) /\ Seen(ev, n) /\ Moves(ev) /\ n = Here /\ 0 \in 0..(n - 1)
  BY DEF After, Later
<1>a. \A i \in DOMAIN trace' : i \in DOMAIN trace \/ i = n
  BY <1>0 DEF Later
<1>t. \A i \in DOMAIN trace : trace[i].g \in G /\ trace[i].arg \in G
  BY DEF After, Processed
<1>c. CreateFits
  BY DEF Holders
<1>1. ASSUME NEW g \in G, Created(ev, g) PROVE ~gs[g].known /\ Unstarted(0, g) /\ Unstarted(0, g)'
  <2>1. ~gs[g].known /\ ev.typ \notin StartTypes
    BY <1>1, FitsSays, Classes DEF Created
  <2>2. Unstarted(0, g)
    BY <2>1, <1>c DEF CreateFits, Unstarted, StartsAt, Later, After
  <2> QED BY <1>0, <2>1, <2>2 DEF Seen
<1>2. \A i \in DOMAIN trace' : /\ trace'[i].typ = "GoCreate" => gs'[trace'[i].arg].known
                               /\ trace'[i].typ \in StartTypes => gs'[trace'[i].g].known
  <2>1. \A g \in G : (gs[g].known \/ g = ev.g \/ Created(ev, g)) => gs'[g].known
    BY <1>0 DEF Moves, MovesTo
  <2>2. ASSUME NEW i \in DOMAIN trace
        PROVE  /\ trace'[i].typ = "GoCreate" => gs'[trace'[i].arg].known
               /\ trace'[i].typ \in StartTypes => gs'[trace'[i].g].known
    <3>1. trace'[i].typ = trace[i].typ /\ trace'[i].g = trace[i].g /\ trace'[i].arg = trace[i].arg
      BY <1>0 DEF Rows
    <3> QED BY <1>c, <1>t, <2>1, <3>1 DEF CreateFits
  <2>3. /\ trace'[n].typ = "GoCreate" => gs'[trace'[n].arg].known
        /\ trace'[n].typ \in StartTypes => gs'[trace'[n].g].known
    <3>1. trace'[n].typ = ev.typ /\ trace'[n].g = ev.g /\ trace'[n].arg = ev.arg
      BY <1>0 DEF Rows
    <3> QED BY <2>1, <3>1 DEF Created, After
  <2> QED BY <1>a, <2>2, <2>3
<1>3. ASSUME NEW i \in DOMAIN trace', NEW j \in DOMAIN trace',
             trace'[i].typ = "GoCreate", trace'[j].typ = "GoCreate", trace'[i].arg = trace'[j].arg
      PROVE  i = j
  <2>1. ASSUME NEW l \in DOMAIN trace, trace'[l].typ = "GoCreate", trace'[n].typ = "GoCreate"
        PROVE  trace'[l].arg # trace'[n].arg
    <3>1. ev.typ = "GoCreate" /\ trace'[n].arg = ev.arg /\ ~gs[ev.arg].known
      BY <1>0, <2>1, FitsSays DEF Rows
    <3>2. gs[trace[l].arg].known /\ trace'[l].arg = trace[l].arg
      BY <1>0, <1>c, <2>1 DEF Rows, CreateFits
    <3> QED BY <3>1, <3>2
  <2>2. CASE i \in DOMAIN trace /\ j \in DOMAIN trace
    <3>1. /\ trace[i].typ = "GoCreate" /\ trace[j].typ = "GoCreate"
          /\ trace[i].arg = trace[j].arg
      BY <1>0, <1>3, <2>2 DEF Rows
    <3> QED BY <1>c, <2>2, <3>1 DEF CreateFits
  <2> QED BY <1>3, <1>a, <2>1, <2>2
<1>4. ASSUME NEW g \in G, NEW k \in Held(gs'[g].evCreate)
      PROVE  /\ k \in DOMAIN trace' /\ trace'[k].typ = "GoCreate" /\ trace'[k].arg = g
             /\ Unstarted(0, g)'
  <2>1. k # Nil /\ k = IF Created(ev, g) THEN n ELSE IF Does(ev, g, StartTypes) THEN Nil ELSE gs[g].evCreate
    BY <1>0, <1>4 DEF Moves, MovesTo, Held
  <2>2. CASE Created(ev, g)
    <3>1. k = n /\ ev.typ = "GoCreate" /\ ev.arg = g
      BY <2>1, <2>2 DEF Created
    <3> QED BY <1>0, <1>1, <2>2, <3>1 DEF Rows, Later
  <2>3. CASE ~Created(ev, g)
    <3>1. k \in Held(gs[g].evCreate) /\ ~Does(ev, g, StartTypes)
      BY <2>1, <2>3 DEF Held
    <3>2. k \in DOMAIN trace /\ trace[k].typ = "GoCreate" /\ trace[k].arg = g /\ Unstarted(0, g)
      BY <1>c, <3>1 DEF CreateFits
    <3>3. Unstarted(0, g)'
      BY <1>0, <3>1, <3>2 DEF Seen, Does
    <3> QED BY <1>0, <3>2, <3>3 DEF Rows, Later
  <2> QED BY <2>2, <2>3
<1>5. ASSUME NEW g \in Goroutine, gs'[g].evCreate = Nil, gs'[g].state # "gDead"
      PROVE  ~Unstarted(0, g)'
  <2>0. g \in G /\ n # Nil
    BY <1>0, NoGApart DEF Later, Nil
  <2>1. CASE Does(ev, g, StartTypes)
    BY <1>0, <2>1 DEF Seen, Does
  <2>2. CASE ~Does(ev, g, StartTypes)
    <3>1. ~Created(ev, g) /\ gs[g].evCreate = Nil
      BY <1>0, <1>5, <2>0, <2>2 DEF Moves, MovesTo
    <3>2. gs[g].state # "gDead"
      <4>1. /\ ev.typ = "GoUnblock" /\ g = ev.arg => gs[g].state = "gWaiting"
            /\ Does(ev, g, SnapTypes) => gs[g].state = "gRunnable"
            /\ Does(ev, g, LeaveTypes) => gs[g].state = "gRunning"
            /\ Does(ev, g, {"GoSysExit"}) => gs[g].state = "gWaiting"
        BY FitsSays DEF Does, Running
      <4>2. CASE \/ ev.typ = "GoUnblock" /\ g = ev.arg
                 \/ Does(ev, g, SnapTypes) \/ Does(ev, g, LeaveTypes) \/ Does(ev, g, {"GoSysExit"})
        BY <4>1, <4>2
      <4>3. CASE ~(\/ ev.typ = "GoUnblock" /\ g = ev.arg
                   \/ Does(ev, g, SnapTypes) \/ Does(ev, g, LeaveTypes) \/ Does(ev, g, {"GoSysExit"}))
        BY <1>0, <1>5, <2>0, <2>2, <3>1, <4>3 DEF Moves, MovesTo
      <4> QED BY <4>2, <4>3
    <3>3. ~Unstarted(0, g)
      BY <1>c, <3>1, <3>2 DEF CreateFits
    <3> QED BY <1>0, <3>3 DEF Seen
  <2> QED BY <2>1, <2>2
<1> QED BY <1>2, <1>3, <1>4, <1>5 DEF CreateFits, Held

\* Only its end links the start of a span.
LEMMA SpanStays ==
    ASSUME NEW ev, NEW n, After(ev, n), NEW k, NEW typ, SpanAt(k, typ)
    PROVE  /\ ~LinkedBy(k, ev) => SpanAt(k, typ)'
           /\ trace'[k].p = trace[k].p /\ trace'[k].g = trace[k].g
           /\ LinkedBy(k, ev) => Pairs(k, ev) /\ trace[k].typ = typ
<1>1. k \in DOMAIN trace /\ Unlinked(k) /\ trace[k].typ = typ
  BY DEF SpanAt, Unlinked
<1>2. trace'[k].typ = trace[k].typ /\ trace'[k].p = trace[k].p /\ trace'[k].g = trace[k].g
  BY <1>1 DEF After, Rows
<1>3. ~LinkedBy(k, ev) => Unlinked(k)'
  BY <1>1 DEF After, Seen
<1>4. LinkedBy(k, ev) => Pairs(k, ev)
  BY <1>1 DEF After
<1> QED BY <1>1, <1>2, <1>3, <1>4 DEF SpanAt

LEMMA SpanStarts ==
    ASSUME NEW ev, NEW n, After(ev, n)
    PROVE  /\ SpanAt(n, ev.typ)' /\ trace'[n].g = ev.g /\ trace'[n].seq = ev.seq
           /\ ev.typ \notin {"GCStart", "GoUnblock"} => trace'[n].p = ev.p
BY DEF After, Seen, Rows, SpanAt

LEMMA SpanFitsKept ==
    ASSUME Inv, Holders, NEW ev \in InputEvents, Fits(ev), NEW n, After(ev, n), Inv'
    PROVE  SpanFits'
<1>0. Moves(ev) /\ Runs(ev) /\ Opens(ev) /\ n = Here
  BY DEF After, Later
<1>s. SpanFits
  BY DEF Holders
<1>n. SpanAt(n, ev.typ)' /\ trace'[n].g = ev.g /\ (ev.typ # "GCStart" /\ ev.typ # "GoUnblock" => trace'[n].p = ev.p)
  BY SpanStarts
<1>1. ASSUME NEW g \in G, NEW k \in Held(gs'[g].evMarkAssist)
      PROVE  SpanAt(k, "GCMarkAssistStart")' /\ trace'[k].g = g
  <2>1. k # Nil /\ k = IF Does(ev, g, {"GCMarkAssistStart"}) THEN n
            ELSE IF Does(ev, g, {"GCMarkAssistDone"}) \/ Created(ev, g) THEN Nil
            ELSE gs[g].evMarkAssist
    BY <1>0, <1>1 DEF Moves, MovesTo, Held
  <2>2. CASE Does(ev, g, {"GCMarkAssistStart"})
    BY <1>n, <2>1, <2>2 DEF Does
  <2>3. CASE ~Does(ev, g, {"GCMarkAssistStart"})
    <3>1. k \in Held(gs[g].evMarkAssist) /\ ~Does(ev, g, {"GCMarkAssistDone"})
      BY <2>1, <2>3 DEF Held
    <3>2. SpanAt(k, "GCMarkAssistStart") /\ trace[k].g = g
      BY <1>s, <3>1 DEF SpanFits
    <3>3. ~LinkedBy(k, ev)
      BY <3>1, <3>2, SpanStays, Classes DEF Pairs, Readied, StartsAt, Does, StartTypes, YieldTypes, ParkTypes, SnapTypes
    <3> QED BY <3>2, <3>3, SpanStays
  <2> QED BY <2>2, <2>3
<1>2. ASSUME NEW p \in Proc, NEW k \in Held(ps'[p].evSweep)
      PROVE  SpanAt(k, "GCSweepStart")' /\ trace'[k].p = p
  <2>1. k # Nil /\ k = IF p = ev.p /\ ev.typ = "GCSweepStart" THEN n
                       ELSE IF p = ev.p /\ ev.typ = "GCSweepDone" THEN Nil ELSE ps[p].evSweep
    BY <1>0, <1>2 DEF Runs, RunsTo, Held
  <2>2. CASE p = ev.p /\ ev.typ = "GCSweepStart"
    BY <1>n, <2>1, <2>2
  <2>3. CASE ~(p = ev.p /\ ev.typ = "GCSweepStart")
    <3>1. k \in Held(ps[p].evSweep) /\ ~(p = ev.p /\ ev.typ = "GCSweepDone")
      BY <2>1, <2>3 DEF Held
    <3>2. SpanAt(k, "GCSweepStart") /\ trace[k].p = p
      BY <1>s, <3>1 DEF SpanFits
    <3>3. ~LinkedBy(k, ev)
      BY <3>1, <3>2, SpanStays, Classes DEF Pairs, Readied, StartsAt, StartTypes, YieldTypes, ParkTypes, SnapTypes
    <3> QED BY <3>2, <3>3, SpanStays
  <2> QED BY <2>2, <2>3
<1>3. ASSUME NEW p \in Proc, NEW k \in Held(ps'[p].evSTW)
      PROVE  SpanAt(k, "GCSTWStart")' /\ trace'[k].p = p /\ ~GlobalSTW
  <2>1. k # Nil /\ k = IF p = ev.p /\ ~GlobalSTW /\ ev.typ = "GCSTWStart" THEN n
                       ELSE IF p = ev.p /\ ~GlobalSTW /\ ev.typ = "GCSTWDone" THEN Nil ELSE ps[p].evSTW
    BY <1>0, <1>3 DEF Runs, RunsTo, Held
  <2>2. CASE p = ev.p /\ ~GlobalSTW /\ ev.typ = "GCSTWStart"
    BY <1>n, <2>1, <2>2
  <2>3. CASE ~(p = ev.p /\ ~GlobalSTW /\ ev.typ = "GCSTWStart")
    <3>1. k \in Held(ps[p].evSTW) /\ ~(p = ev.p /\ ~GlobalSTW /\ ev.typ = "GCSTWDone")
      BY <2>1, <2>3 DEF Held
    <3>2. SpanAt(k, "GCSTWStart") /\ trace[k].p = p /\ ~GlobalSTW
      BY <1>s, <3>1 DEF SpanFits
    <3>3. ~LinkedBy(k, ev)
      BY <3>1, <3>2, SpanStays, Classes DEF Pairs, Readied, StartsAt, StartTypes, YieldTypes, ParkTypes, SnapTypes
    <3> QED BY <3>2, <3>3, SpanStays
  <2> QED BY <2>2, <2>3
<1>4. ASSUME NEW k \in Held(evGC') PROVE SpanAt(k, "GCStart")'
  <2>1. k # Nil /\ k = IF ev.typ = "GCStart" THEN n ELSE IF ev.typ = "GCDone" THEN Nil ELSE evGC
    BY <1>0, <1>4 DEF Opens, Held
  <2>2. CASE ev.typ = "GCStart"
    BY <1>n, <2>1, <2>2
  <2>3. CASE ev.typ # "GCStart"
    <3>1. k \in Held(evGC) /\ ev.typ # "GCDone"
      BY <2>1, <2>3 DEF Held
    <3>2. SpanAt(k, "GCStart")
      BY <1>s, <3>1 DEF SpanFits
    <3>3. ~LinkedBy(k, ev)
      BY <3>1, <3>2, SpanStays, Classes DEF Pairs, Readied, StartsAt, StartTypes, YieldTypes, ParkTypes, SnapTypes
    <3> QED BY <3>2, <3>3, SpanStays
  <2> QED BY <2>2, <2>3
<1>5. ASSUME NEW k \in Held(evSTW') PROVE SpanAt(k, "GCSTWStart")' /\ GlobalSTW
  <2>1. k # Nil /\ k = IF GlobalSTW /\ ev.typ = "GCSTWStart" THEN n
                       ELSE IF GlobalSTW /\ ev.typ = "GCSTWDone" THEN Nil ELSE evSTW
    BY <1>0, <1>5 DEF Opens, Held
  <2>2. CASE GlobalSTW /\ ev.typ = "GCSTWStart"
    BY <1>n, <2>1, <2>2
  <2>3. CASE ~(GlobalSTW /\ ev.typ = "GCSTWStart")
    <3>1. k \in Held(evSTW) /\ ~(GlobalSTW /\ ev.typ = "GCSTWDone")
      BY <2>1, <2>3 DEF Held
    <3>2. SpanAt(k, "GCSTWStart") /\ GlobalSTW
      BY <1>s, <3>1 DEF SpanFits
    <3>3. ~LinkedBy(k, ev)
      BY <3>1, <3>2, SpanStays, Classes DEF Pairs, Readied, StartsAt, StartTypes, YieldTypes, ParkTypes, SnapTypes
    <3> QED BY <3>2, <3>3, SpanStays
  <2> QED BY <2>2, <2>3
<1>6. ASSUME NEW i \in tasks' PROVE SpanAt(i, "UserTaskCreate")'
  <2>1. tasks' = IF ev.typ = "UserTaskCreate" THEN tasks \cup {n}
                 ELSE IF ev.typ = "UserTaskEnd" THEN tasks \ TaskEvents(ev) ELSE tasks
    BY <1>0 DEF Opens
  <2>2. CASE ev.typ = "UserTaskCreate" /\ i = n
    BY <1>n, <2>2
  <2>3. CASE ~(ev.typ = "UserTaskCreate" /\ i = n)
    <3>1. i \in tasks /\ ~(ev.typ = "UserTaskEnd" /\ i \in TaskEvents(ev))
      BY <1>6, <2>1, <2>3
    <3>2. SpanAt(i, "UserTaskCreate")
      BY <1>s, <3>1 DEF SpanFits
    <3>3. ~LinkedBy(i, ev)
      BY <3>1, <3>2, SpanStays, Classes DEF Pairs, Readied, StartsAt, StartTypes, YieldTypes, ParkTypes, SnapTypes
    <3> QED BY <3>2, <3>3, SpanStays
  <2> QED BY <2>2, <2>3
<1> QED BY <1>1, <1>2, <1>3, <1>4, <1>5, <1>6 DEF SpanFits, Held

LEMMA RegionFitsKept ==
    ASSUME Inv, Holders, NEW ev \in InputEvents, Fits(ev), NEW n, After(ev, n), Inv'
    PROVE  RegionFits'
<1>0. Opens(ev) /\ n = Here /\ Later(ev, n) /\ ev.g \in G
  BY DEF After, Later
<1>r. RegionFits /\ regions \in [G -> Seq(Nat)]
  BY DEF Holders, Inv, PostTypeOK
<1>1. ASSUME NEW g \in G, NEW r \in DOMAIN regions[g], NEW k, k = regions[g][r],
             ev.typ = "GoEnd" => g # ev.g,
             ev.typ = "UserRegionEnd" /\ g = ev.g => r # Len(regions[g])
      PROVE  SpanAt(k, "UserRegionStart")' /\ trace'[k].g = g
  <2>1. SpanAt(k, "UserRegionStart") /\ trace[k].g = g
    BY <1>r, <1>1 DEF RegionFits, Active
  <2>2. ~LinkedBy(k, ev)
    <3> SUFFICES ASSUME LinkedBy(k, ev) PROVE FALSE
      OBVIOUS
    <3>1. Pairs(k, ev) /\ trace[k].typ = "UserRegionStart" /\ trace[k].g = g
      BY <2>1, SpanStays
    <3>2. ev.typ = "UserRegionEnd" /\ g = ev.g /\ regions[ev.g] # <<>> /\ k = Innermost(ev.g)
      BY <1>1, <3>1, Classes DEF Pairs, Readied, StartsAt, StartTypes, YieldTypes, ParkTypes, SnapTypes
    <3>3. regions[g] \in Seq(Nat) /\ r \in 1..Len(regions[g]) /\ r # Len(regions[g])
      BY <1>1, <1>r, <3>2
    <3>4. r < Len(regions[g]) /\ Len(regions[g]) \in DOMAIN regions[g]
      BY <3>3
    <3>5. regions[g][r] < regions[g][Len(regions[g])] /\ regions[g][r] \in Nat
      BY <1>r, <3>4 DEF RegionFits
    <3> QED BY <1>1, <3>2, <3>5 DEF Innermost
  <2> QED BY <2>1, <2>2, SpanStays
<1>2. ASSUME NEW g \in G
      PROVE  /\ \A k \in {regions'[g][r] : r \in DOMAIN regions'[g]} :
                  SpanAt(k, "UserRegionStart")' /\ trace'[k].g = g
             /\ \A r, s \in DOMAIN regions'[g] : r < s => regions'[g][r] < regions'[g][s]
  <2>0. regions[g] \in Seq(Nat) /\ DOMAIN regions[g] = 1..Len(regions[g]) /\ Len(regions[g]) \in Nat
    <3>1. regions[g] \in Seq(Nat)
      BY <1>r
    <3> QED BY <3>1
  <2>1. CASE ev.typ = "UserRegionStart" /\ g = ev.g
    <3>1. regions'[g] = Append(regions[g], n) /\ regions[g] \in Seq(Nat) /\ n \in Nat
      BY <1>0, <1>r, <2>1 DEF Opens, Later
    <3>2. /\ DOMAIN regions'[g] = 1..(Len(regions[g]) + 1)
          /\ regions'[g][Len(regions[g]) + 1] = n
          /\ \A r \in 1..Len(regions[g]) : regions'[g][r] = regions[g][r]
      BY <3>1
    <3>3. \A r \in DOMAIN regions[g] : regions[g][r] \in Nat /\ regions[g][r] < n
      <4>1. \A k \in Active(g) : SpanAt(k, "UserRegionStart")
        BY <1>r DEF RegionFits
      <4>2. \A k \in Active(g) : k \in Nat /\ k < n
        BY <1>0, <4>1 DEF SpanAt, Unlinked, Later
      <4> QED BY <4>2 DEF Active
    <3>4. SpanAt(n, "UserRegionStart")' /\ trace'[n].g = g
      BY <2>1, SpanStarts
    <3>5. ASSUME NEW k, NEW r \in DOMAIN regions'[g], k = regions'[g][r]
          PROVE  SpanAt(k, "UserRegionStart")' /\ trace'[k].g = g
      <4>1. r = Len(regions[g]) + 1 \/ r \in 1..Len(regions[g])
        <5>1. PICK m \in Nat : m = Len(regions[g])
          BY <2>0
        <5>2. r \in 1..(m + 1)
          BY <3>2, <5>1
        <5>3. r = m + 1 \/ r \in 1..m
          BY <5>2
        <5> QED BY <5>1, <5>3
      <4>2. k = n \/ (r \in DOMAIN regions[g] /\ k = regions[g][r])
        BY <2>0, <3>2, <3>5, <4>1
      <4> QED BY <1>1, <2>1, <3>4, <4>2
    <3>6. \A r, s \in DOMAIN regions'[g] : r < s => regions'[g][r] < regions'[g][s]
      <4>1. ASSUME NEW r \in DOMAIN regions'[g], NEW s \in DOMAIN regions'[g], r < s
            PROVE  regions'[g][r] < regions'[g][s]
        <5>1. r \in DOMAIN regions[g] /\ r \in 1..Len(regions[g])
          BY <2>0, <3>2, <4>1
        <5>2. CASE s = Len(regions[g]) + 1
          BY <3>2, <3>3, <5>1, <5>2
        <5>3. CASE s \in DOMAIN regions[g]
          BY <1>r, <2>0, <3>2, <4>1, <5>1, <5>3 DEF RegionFits
        <5> QED BY <2>0, <3>2, <5>2, <5>3
      <4> QED BY <4>1
    <3> QED BY <3>5, <3>6
  <2>2. CASE ev.typ = "UserRegionEnd" /\ g = ev.g /\ regions[g] # <<>>
    <3>1. regions'[g] = SubSeq(regions[g], 1, Len(regions[g]) - 1)
      BY <1>0, <1>r, <2>2 DEF Opens
    <3>2. Len(regions[g]) \in Nat \ {0}
      BY <2>0, <2>2
    <3>3. DOMAIN regions'[g] = 1..(Len(regions[g]) - 1)
      BY <2>0, <3>1, <3>2
    <3>4. \A r \in 1..(Len(regions[g]) - 1) : regions'[g][r] = regions[g][r]
      BY <2>0, <3>1, <3>2
    <3>5. \A r \in 1..(Len(regions[g]) - 1) : r \in DOMAIN regions[g] /\ r # Len(regions[g])
      BY <2>0, <3>2
    <3>6. ASSUME NEW k, NEW r \in DOMAIN regions'[g], k = regions'[g][r]
          PROVE  SpanAt(k, "UserRegionStart")' /\ trace'[k].g = g
      BY <1>1, <2>2, <3>3, <3>4, <3>5, <3>6
    <3>7. \A r, s \in DOMAIN regions'[g] : r < s => regions'[g][r] < regions'[g][s]
      BY <1>r, <3>3, <3>4, <3>5 DEF RegionFits
    <3> QED BY <3>6, <3>7
  <2>3. CASE ev.typ = "GoEnd" /\ g = ev.g
    <3>1. regions'[g] = <<>>
      BY <1>0, <1>r, <2>3 DEF Opens
    <3> QED BY <3>1
  <2>4. CASE /\ ~(ev.typ = "UserRegionStart" /\ g = ev.g)
             /\ ~(ev.typ = "UserRegionEnd" /\ g = ev.g /\ regions[g] # <<>>)
             /\ ~(ev.typ = "GoEnd" /\ g = ev.g)
    <3>1. regions'[g] = regions[g]
      BY <1>0, <1>r, <2>4 DEF Opens
    <3>2. \A r \in DOMAIN regions[g] : ev.typ = "UserRegionEnd" => g # ev.g
      BY <2>4
    <3>3. ASSUME NEW k, NEW r \in DOMAIN regions[g], k = regions[g][r]
          PROVE  SpanAt(k, "UserRegionStart")' /\ trace'[k].g = g
      BY <1>1, <2>4, <3>2, <3>3
    <3>4. \A r, s \in DOMAIN regions'[g] : r < s => regions'[g][r] < regions'[g][s]
      BY <1>r, <3>1 DEF RegionFits
    <3> QED BY <3>1, <3>3, <3>4
  <2> QED BY <2>1, <2>2, <2>3, <2>4
<1> QED BY <1>2 DEF RegionFits, Active

LEMMA WaitFitsKept ==
    ASSUME Inv, Holders, NEW ev \in InputEvents, Fits(ev), NEW n, After(ev, n), Inv'
    PROVE  WaitFits'
<1>0. Later(ev, n) /\ Seen(ev, n) /\ Moves(ev)
  BY DEF After
<1> SUFFICES ASSUME NEW g \in Goroutine, gs'[g].state = "gWaiting"
             PROVE  \E i \in 1..n : /\ BlocksAt(i, g)'
                                    /\ \A k \in (i + 1)..n : ~StartsAt(k, g)' /\ ~WakesAt(k, g)'
  <2>1. Len(trace') = n /\ DOMAIN trace' = 1..n /\ n \in Nat
    BY <1>0 DEF Later
  <2>2. \A i \in 1..n : (i + 1)..((n + 1) - 1) = (i + 1)..n
    BY <2>1
  <2> QED BY <2>1, <2>2 DEF WaitFits, BlockedAt
<1>1. CASE Does(ev, g, SnapTypes \cup ParkTypes \cup {"GoSysBlock"})
  <2>1. BlocksAt(n, g)'
    BY <1>0, <1>1 DEF Seen, Does
  <2>2. n \in 1..n /\ \A k : k \notin (n + 1)..n
    BY <1>0 DEF Later
  <2> QED BY <2>1, <2>2
<1>2. CASE ~Does(ev, g, SnapTypes \cup ParkTypes \cup {"GoSysBlock"})
  <2>1. /\ ~Does(ev, g, StartTypes) /\ ~(ev.typ = "GoUnblock" /\ g = ev.arg)
        /\ ~Does(ev, g, {"GoSysExit"})
        /\ gs[g].state = "gWaiting"
    <3>1. gs'[g].state = IF Created(ev, g) \/ (ev.typ = "GoUnblock" /\ g = ev.arg) THEN "gRunnable"
                         ELSE IF Does(ev, g, SnapTypes) THEN "gWaiting"
                         ELSE IF Does(ev, g, StartTypes) THEN "gRunning"
                         ELSE IF Does(ev, g, LeaveTypes) THEN LeaveState(ev.typ)
                         ELSE IF Does(ev, g, {"GoSysExit"}) THEN "gRunnable"
                         ELSE gs[g].state
      BY <1>0, NoGApart DEF Moves, MovesTo
    <3>2. Does(ev, g, LeaveTypes) => LeaveState(ev.typ) # "gWaiting"
      BY <1>2, Classes DEF Does, LeaveState
    <3> QED BY <1>2, <3>1, <3>2 DEF Does
  <2>2. PICK i \in DOMAIN trace : BlockedAt(i, Len(trace) + 1, g)
    BY <2>1 DEF Holders, WaitFits
  <2>3. i \in 1..n /\ BlocksAt(i, g)'
    BY <1>0, <2>2 DEF Later, Seen, BlockedAt
  <2>4. ASSUME NEW k \in (i + 1)..n PROVE ~StartsAt(k, g)' /\ ~WakesAt(k, g)'
    <3>1. CASE k = n
      BY <1>0, <2>1, <3>1 DEF Seen, Does
    <3>2. CASE k # n
      <4>1. k \in DOMAIN trace /\ k \in (i + 1)..((Len(trace) + 1) - 1)
        BY <1>0, <2>4, <2>3, <3>2 DEF Later
      <4> QED BY <1>0, <2>2, <4>1 DEF Seen, BlockedAt
    <3> QED BY <3>1, <3>2
  <2> QED BY <2>3, <2>4
<1> QED BY <1>1, <1>2

LEMMA WokenKept ==
    ASSUME Inv, Holders, WokenWasBlocked, NEW ev \in InputEvents, Fits(ev), NEW n, After(ev, n)
    PROVE  WokenWasBlocked'
<1>0. Later(ev, n) /\ Seen(ev, n)
  BY DEF After
<1> SUFFICES ASSUME NEW j \in 1..n, NEW g \in Goroutine, WakesAt(j, g)'
             PROVE  \E i \in 1..(j - 1) :
                      /\ BlocksAt(i, g)'
                      /\ \A k \in (i + 1)..(j - 1) : ~StartsAt(k, g)' /\ ~WakesAt(k, g)'
  BY <1>0 DEF WokenWasBlocked, Later
<1>1. \E i \in 1..(j - 1) :
        /\ BlocksAt(i, g)
        /\ \A k \in (i + 1)..(j - 1) : ~StartsAt(k, g) /\ ~WakesAt(k, g)
  <2>1. CASE j \in DOMAIN trace
    <3>1. WakesAt(j, g)
      BY <1>0, <2>1 DEF Seen
    <3> QED BY <2>1, <3>1 DEF WokenWasBlocked
  <2>2. CASE j = n
    <3>1. gs[g].state = "gWaiting"
      BY <1>0, <2>2, FitsSays DEF Seen
    <3>2. PICK i \in DOMAIN trace : BlockedAt(i, Len(trace) + 1, g)
      BY <3>1 DEF Holders, WaitFits
    <3>3. Len(trace) + 1 = j /\ i \in 1..(j - 1)
      BY <1>0, <2>2 DEF Later
    <3> QED BY <3>2, <3>3 DEF BlockedAt
  <2> QED BY <1>0, <2>1, <2>2 DEF Later
<1>2. \A i \in 1..(j - 1) : i \in DOMAIN trace /\ \A k \in (i + 1)..(j - 1) : k \in DOMAIN trace
  BY <1>0 DEF Later
<1> QED BY <1>0, <1>1, <1>2 DEF Seen

LEMMA OldLinkFits ==
    ASSUME NEW ev, NEW n, After(ev, n), NEW i \in DOMAIN trace, NEW j \in DOMAIN trace, LinkFits(i, j)
    PROVE  LinkFits(i, j)'
<1>0. Later(ev, n) /\ Rows(ev, n) /\ Seen(ev, n)
  BY DEF After
<1>1. /\ trace'[i].typ = trace[i].typ /\ trace'[i].p = trace[i].p /\ trace'[i].g = trace[i].g
      /\ trace'[i].arg = trace[i].arg /\ trace'[i].seq = trace[i].seq
      /\ trace'[j].typ = trace[j].typ /\ trace'[j].p = trace[j].p /\ trace'[j].g = trace[j].g
      /\ trace'[j].arg = trace[j].arg /\ trace'[j].seq = trace[j].seq
  BY <1>0 DEF Rows
<1>2. ASSUME NEW k \in Nat, NEW g, NextStart(k, j, g) PROVE NextStart(k, j, g)'
  <2>1. \A l \in (k + 1)..(j - 1) : l \in DOMAIN trace
    BY <1>0 DEF Later
  <2> QED BY <1>0, <1>2, <2>1 DEF Seen, NextStart
<1>3. 0 \in Nat /\ i \in Nat
  BY <1>0 DEF Later
<1>4. PICK g, h : g = trace[i].g /\ h = trace[i].arg
  OBVIOUS
<1>5. /\ NextStart(0, j, h) => NextStart(0, j, h)'
      /\ NextStart(i, j, h) => NextStart(i, j, h)'
      /\ NextStart(i, j, g) => NextStart(i, j, g)'
      /\ WakesAt(j, g) => WakesAt(j, g)'
  BY <1>0, <1>2, <1>3 DEF Seen
<1>6. CASE trace[i].typ = "GoCreate"
  BY <1>1, <1>4, <1>5, <1>6 DEF LinkFits, NextStart, StartsAt
<1>7. CASE trace[i].typ = "GoUnblock"
  BY <1>1, <1>4, <1>5, <1>7 DEF LinkFits, NextStart, StartsAt
<1>8. CASE trace[i].typ \in YieldTypes \cup {"GoSysExit"}
  BY <1>1, <1>4, <1>5, <1>8, Classes DEF LinkFits, NextStart, StartsAt, YieldTypes
<1>9. CASE trace[i].typ = "GoSysCall"
  BY <1>1, <1>4, <1>5, <1>9 DEF LinkFits, WakesAt, StartTypes, ParkTypes, SnapTypes, YieldTypes
<1>10. CASE trace[i].typ \notin {"GoCreate", "GoUnblock", "GoSysCall", "GoSysExit"} \cup YieldTypes
  BY <1>1, <1>10 DEF LinkFits
<1> QED BY <1>6, <1>7, <1>8, <1>9, <1>10

LEMMA NewLinkFits ==
    ASSUME Inv, NEW ev \in InputEvents, NEW n, After(ev, n), NEW i \in DOMAIN trace, LinkedBy(i, ev)
    PROVE  LinkFits(i, n)'
<1>0. Later(ev, n) /\ Rows(ev, n) /\ Seen(ev, n) /\ Pairs(i, ev)
  BY DEF After
<1>1. /\ trace'[i].typ = trace[i].typ /\ trace'[i].p = trace[i].p /\ trace'[i].g = trace[i].g
      /\ trace'[i].arg = trace[i].arg /\ trace'[i].seq = trace[i].seq
      /\ trace'[n].typ = ev.typ /\ trace'[n].g = ev.g
      /\ trace'[n].arg = ev.arg /\ trace'[n].seq = ev.seq
      /\ ev.typ \notin {"GCStart", "GoUnblock"} => trace'[n].p = ev.p
  BY <1>0 DEF Rows
<1>2. ASSUME NEW k \in 0..(n - 1), Unstarted(k, ev.g), ev.typ \in StartTypes PROVE NextStart(k, n, ev.g)'
  <2>1. /\ \A l \in (k + 1)..(n - 1) : l \in DOMAIN trace
        /\ (k + 1)..Len(trace) = (k + 1)..(n - 1)
    BY <1>0 DEF Later
  <2>2. PICK g : g = ev.g
    OBVIOUS
  <2>3. NextStart(k, n, g)'
    BY <1>0, <1>2, <2>1, <2>2 DEF Seen, NextStart, Unstarted
  <2> QED BY <2>2, <2>3
<1>3. CASE ev.typ \in StartTypes /\ Readied(i, ev.g)
  <2>1. 0 \in 0..(n - 1) /\ i \in 0..(n - 1)
    BY <1>0 DEF Later
  <2>2. PICK g : g = ev.g
    OBVIOUS
  <2>3. (Unstarted(0, g) => NextStart(0, n, g)') /\ (Unstarted(i, g) => NextStart(i, n, g)')
    BY <1>2, <1>3, <2>1, <2>2
  <2>4. CASE trace[i].typ = "GoCreate" /\ trace[i].arg = g /\ Unstarted(0, g)
    <3>1. NextStart(0, n, g)' /\ trace'[i].typ = "GoCreate" /\ trace'[i].arg = g
      BY <1>1, <2>3, <2>4
    <3> QED BY <3>1, Classes DEF LinkFits, NextStart, StartsAt, YieldTypes, ParkTypes, SnapTypes
  <2>5. CASE trace[i].typ = "GoUnblock" /\ trace[i].arg = g /\ Unstarted(i, g)
    <3>1. NextStart(i, n, g)' /\ trace'[i].typ = "GoUnblock" /\ trace'[i].arg = g
      BY <1>1, <2>3, <2>5
    <3> QED BY <3>1, Classes DEF LinkFits, NextStart, StartsAt, YieldTypes, ParkTypes, SnapTypes
  <2>6. CASE trace[i].typ \in YieldTypes \cup {"GoSysExit"} /\ trace[i].g = g /\ Unstarted(i, g)
    <3>1. NextStart(i, n, g)' /\ trace'[i].typ \in YieldTypes \cup {"GoSysExit"} /\ trace'[i].g = g
      BY <1>1, <2>3, <2>6
    <3> QED BY <3>1, Classes DEF LinkFits, NextStart, StartsAt, YieldTypes, StartTypes, ParkTypes, SnapTypes
  <2> QED BY <1>3, <2>2, <2>4, <2>5, <2>6 DEF Readied
<1>4. CASE ev.typ \in LeaveTypes /\ StartsAt(i, ev.g)
  BY <1>1, <1>4, Classes DEF LinkFits, StartsAt
<1>5. CASE /\ ev.typ = "GoUnblock" /\ trace[i].g = ev.arg
           /\ trace[i].typ \in {"GoSysCall"} \cup ParkTypes \cup SnapTypes
  <2>1. trace[i].typ = "GoSysCall" => LinkFits(i, n)'
    BY <1>1, <1>5 DEF LinkFits, WakesAt, StartTypes, ParkTypes, SnapTypes, YieldTypes
  <2>2. trace[i].typ \in ParkTypes \cup SnapTypes => LinkFits(i, n)'
    BY <1>1, <1>5 DEF LinkFits, StartTypes, ParkTypes, SnapTypes, YieldTypes
  <2> QED BY <1>5, <2>1, <2>2
<1>6. CASE ev.typ = "GoSysExit" /\ trace[i].g = ev.g /\ trace[i].typ = "GoSysCall"
  BY <1>1, <1>6 DEF LinkFits, WakesAt, StartTypes, ParkTypes, SnapTypes, YieldTypes
<1>7. CASE /\ ev.typ \in {"GCDone", "GCSTWDone", "GCSweepDone", "GCMarkAssistDone"}
           /\ ~(ev.typ \in StartTypes /\ Readied(i, ev.g))
  BY <1>0, <1>1, <1>7, Classes DEF LinkFits, Pairs
<1>8. CASE \/ ev.typ = "GoEnd" /\ trace[i].typ = "UserRegionStart" /\ trace[i].g = ev.g
           \/ ev.typ = "UserTaskEnd" /\ i \in TaskEvents(ev) /\ trace[i].typ = "UserTaskCreate"
           \/ /\ ev.typ = "UserRegionEnd" /\ trace[i].typ = "UserRegionStart" /\ trace[i].g = ev.g
              /\ trace[i].seq = ev.seq
  BY <1>1, <1>8 DEF LinkFits, TaskEvents, StartTypes, ParkTypes, SnapTypes, YieldTypes
<1> QED BY <1>0, <1>3, <1>4, <1>5, <1>6, <1>7, <1>8 DEF Pairs

LEMMA LinksFitKept ==
    ASSUME Inv, LinksFit, NEW ev \in InputEvents, NEW n, After(ev, n)
    PROVE  LinksFit'
<1>0. Later(ev, n) /\ Rows(ev, n)
  BY DEF After
<1> SUFFICES ASSUME NEW i \in DOMAIN trace', NEW j, j = trace'[i].link, j # Nil
             PROVE  j \in DOMAIN trace' /\ i < j /\ LinkFits(i, j)'
  <2>1. \A i \in DOMAIN trace' : trace'[i].link # Nil =>
          \E j : /\ j = trace'[i].link /\ j \in DOMAIN trace' /\ i < j /\ LinkFits(i, j)'
    OBVIOUS
  <2> QED BY <2>1 DEF LinksFit, LinkFits
<1>1. i \in DOMAIN trace
  BY <1>0 DEF Rows, Later
<1>2. CASE LinkedBy(i, ev)
  BY <1>0, <1>1, <1>2, NewLinkFits DEF Rows, Later
<1>3. CASE ~LinkedBy(i, ev)
  <2>1. j = trace[i].link
    BY <1>0, <1>1, <1>3 DEF Rows
  <2>2. j \in DOMAIN trace /\ i < j /\ LinkFits(i, j)
    BY <1>1, <2>1 DEF LinksFit
  <2> QED BY <1>0, <1>1, <2>2, OldLinkFits DEF Later
<1> QED BY <1>2, <1>3

LEMMA LeaveFitsKept ==
    ASSUME Inv, LinksFit, LeaveFits, NEW ev \in InputEvents, NEW n, After(ev, n)
    PROVE  LeaveFits'
<1>0. Later(ev, n) /\ Rows(ev, n)
  BY DEF After
<1> SUFFICES ASSUME NEW i \in DOMAIN trace', trace'[i].typ \in StartTypes, trace'[i].link # Nil
             PROVE  trace'[trace'[i].link].p = trace'[i].p
  BY DEF LeaveFits
<1>1. i \in DOMAIN trace /\ trace[i].typ \in StartTypes /\ trace'[i].p = trace[i].p
  BY <1>0 DEF Rows, Later
<1>2. CASE LinkedBy(i, ev)
  <2>1. Pairs(i, ev)
    BY <1>1, <1>2 DEF After
  <2>2. ev.typ \in LeaveTypes /\ trace[i].p = ev.p
    BY <1>1, <2>1, Classes DEF Pairs, Readied, StartTypes, YieldTypes, ParkTypes, SnapTypes
  <2> QED BY <1>0, <1>1, <1>2, <2>2, Classes DEF Rows
<1>3. CASE ~LinkedBy(i, ev)
  <2>1. trace'[i].link = trace[i].link /\ trace[i].link \in DOMAIN trace
    BY <1>0, <1>1, <1>3 DEF Rows, LinksFit
  <2> QED BY <1>0, <1>1, <2>1 DEF Rows, LeaveFits
<1> QED BY <1>2, <1>3

LEMMA ExcludeKept ==
    ASSUME Inv, Holders, LinksFit, LeaveFits, StartsExclude, NEW ev \in InputEvents, Fits(ev),
           NEW n, After(ev, n)
    PROVE  StartsExclude'
<1>0. Later(ev, n) /\ Rows(ev, n)
  BY DEF After
<1> SUFFICES ASSUME NEW i \in DOMAIN trace', NEW j \in DOMAIN trace', i < j,
                    trace'[i].typ \in StartTypes, trace'[j].typ \in StartTypes,
                    trace'[i].p = trace'[j].p \/ trace'[i].g = trace'[j].g
             PROVE  \E k : /\ k = trace'[i].link /\ i < k /\ k < j
                           /\ trace'[k].typ \in LeaveTypes
                           /\ trace'[k].g = trace'[i].g /\ trace'[k].p = trace'[i].p
  BY DEF StartsExclude
<1>1. i \in DOMAIN trace /\ (j \in DOMAIN trace \/ j = n)
  BY <1>0 DEF Later
<1>2. trace[i].typ \in StartTypes /\ trace'[i].p = trace[i].p /\ trace'[i].g = trace[i].g
  BY <1>0, <1>1 DEF Rows
<1>3. PICK k : k = trace[i].link
  OBVIOUS
<1>4. /\ k # Nil /\ k \in DOMAIN trace /\ i < k /\ k < j
      /\ trace[k].typ \in LeaveTypes /\ trace[k].g = trace[i].g /\ trace[k].p = trace[i].p
  <2>1. CASE j \in DOMAIN trace
    <3>1. /\ trace[j].typ \in StartTypes
          /\ trace[i].p = trace[j].p \/ trace[i].g = trace[j].g
      BY <1>0, <1>2, <2>1 DEF Rows
    <3>2. i < k /\ k < j /\ trace[k].typ \in LeaveTypes /\ trace[k].g = trace[i].g /\ trace[k].p = trace[i].p
      BY <1>1, <1>2, <1>3, <2>1, <3>1 DEF StartsExclude
    <3>3. k # Nil /\ i \in Nat /\ trace[i] \in Processed
      BY <1>0, <1>1, <3>2 DEF Later, Nil, After
    <3>4. k \in DOMAIN trace
      BY <1>1, <1>3, <3>3 DEF LinksFit
    <3> QED BY <3>2, <3>3, <3>4
  <2>2. CASE j = n
    <3>1. /\ ev.typ \in StartTypes /\ trace'[n].p = ev.p /\ trace'[n].g = ev.g
          /\ trace[i].p = ev.p \/ trace[i].g = ev.g
      BY <1>0, <1>2, <2>2, Classes DEF Rows
    <3>2. k # Nil
      <4> SUFFICES ASSUME k = Nil PROVE FALSE
        OBVIOUS
      <4>1. trace[i].p \in Proc /\ trace[i].g \in Goroutine /\ gs[trace[i].g].evStart = i
        BY <1>1, <1>2, <1>3 DEF Holders, StartFits
      <4>2. i # Nil /\ trace[i].g \in G /\ trace[i].g # NoG
        BY <1>0, <1>1, <4>1, NoGApart DEF Later, Nil
      <4>3. ps[trace[i].p].g = trace[i].g
        BY <4>1, <4>2 DEF Holders, StartFits, Held
      <4>4. gs[trace[i].g].state = "gRunning"
        BY <4>1, <4>2, <4>3 DEF Inv, Agree
      <4>5. gs[ev.g].state = "gRunnable" /\ ps[ev.p].g = NoG
        BY <3>1, FitsSays
      <4> QED BY <3>1, <4>2, <4>3, <4>4, <4>5
    <3>3. k \in DOMAIN trace /\ i < k /\ LinkFits(i, k)
      BY <1>1, <1>3, <3>2 DEF LinksFit
    <3>4. trace[k].typ \in LeaveTypes /\ trace[k].g = trace[i].g
      BY <1>2, <3>3, Classes DEF LinkFits, StartTypes, YieldTypes, ParkTypes, SnapTypes
    <3>5. trace[k].p = trace[i].p
      BY <1>1, <1>2, <1>3, <3>2 DEF LeaveFits
    <3> QED BY <1>0, <2>2, <3>2, <3>3, <3>4, <3>5 DEF Later
  <2> QED BY <1>1, <2>1, <2>2
<1>5. ~LinkedBy(i, ev)
  BY <1>1, <1>3, <1>4 DEF After
<1>6. trace'[i].link = k
  BY <1>0, <1>1, <1>3, <1>5 DEF Rows
<1>7. trace'[k].typ = trace[k].typ /\ trace'[k].g = trace[k].g /\ trace'[k].p = trace[k].p
  BY <1>0, <1>4 DEF Rows
<1> QED BY <1>2, <1>4, <1>6, <1>7

LEMMA FirstStackKept ==
    ASSUME Inv, Holders, FirstStartStack, NEW ev \in InputEvents, Fits(ev), NEW n, After(ev, n)
    PROVE  FirstStartStack'
<1>0. Later(ev, n) /\ Rows(ev, n) /\ Seen(ev, n)
  BY DEF After
<1> DEFINE Makes(j, g) == {i \in 1..(j - 1) : trace[i].typ = "GoCreate" /\ trace[i].arg = g}
           Stack(j, g) == IF \E i \in 1..(j - 1) : StartsAt(i, g) THEN Nil
                          ELSE CHOOSE i \in Makes(j, g) : TRUE
<1>1. ASSUME NEW j \in 1..n, NEW g
      PROVE  /\ {i \in 1..(j - 1) : trace'[i].typ = "GoCreate" /\ trace'[i].arg = g} = Makes(j, g)
             /\ (\E i \in 1..(j - 1) : StartsAt(i, g)') <=> (\E i \in 1..(j - 1) : StartsAt(i, g))
  <2>1. \A i \in 1..(j - 1) : i \in DOMAIN trace
    BY <1>0 DEF Later
  <2>2. \A i \in 1..(j - 1) : trace'[i].typ = trace[i].typ /\ trace'[i].arg = trace[i].arg
    BY <1>0, <2>1 DEF Rows
  <2>3. \A i \in 1..(j - 1) : StartsAt(i, g)' <=> StartsAt(i, g)
    BY <1>0, <2>1 DEF Seen
  <2> QED BY <2>2, <2>3
<1>2. ASSUME NEW j \in 1..n, NEW g, trace'[j].typ \in StartTypes, g = trace'[j].g
      PROVE  trace'[j].stk = Stack(j, g)
  <2>1. CASE j \in DOMAIN trace
    <3>1. trace[j].typ \in StartTypes /\ trace[j].g = g /\ trace'[j].stk = trace[j].stk
      BY <1>0, <1>2, <2>1 DEF Rows
    <3> QED BY <2>1, <3>1 DEF FirstStartStack
  <2>2. CASE j = n
    <3>1. ev.typ \in StartTypes /\ ev.g = g /\ trace'[n].stk = gs[g].evCreate /\ g \in G
      BY <1>0, <1>2, <2>2 DEF Rows, After
    <3>2. gs[g].state = "gRunnable"
      BY <3>1, FitsSays
    <3>3. g \in Goroutine /\ 1..(n - 1) = DOMAIN trace /\ 1..(n - 1) = (0 + 1)..Len(trace)
      BY <1>0, <3>1, <3>2 DEF Inv, Agree, G, Later
    <3>4. Unstarted(0, g) <=> ~\E i \in 1..(n - 1) : StartsAt(i, g)
      BY <3>3 DEF Unstarted
    <3>5. CASE gs[g].evCreate = Nil
      <4>1. ~Unstarted(0, g)
        BY <3>2, <3>3, <3>5 DEF Holders, CreateFits
      <4> QED BY <2>2, <3>1, <3>4, <3>5, <4>1
    <3>6. CASE gs[g].evCreate # Nil
      <4>1. PICK k : k = gs[g].evCreate /\ k \in Held(gs[g].evCreate)
        BY <3>6 DEF Held
      <4>2. k \in DOMAIN trace /\ trace[k].typ = "GoCreate" /\ trace[k].arg = g /\ Unstarted(0, g)
        BY <3>1, <4>1 DEF Holders, CreateFits
      <4>3. Makes(n, g) = {k}
        <5>1. \A i \in DOMAIN trace : trace[i].typ = "GoCreate" /\ trace[i].arg = g => i = k
          BY <4>2 DEF Holders, CreateFits
        <5> QED BY <3>3, <4>2, <5>1
      <4>4. (CHOOSE i \in Makes(n, g) : TRUE) = k
        BY <4>3
      <4> QED BY <2>2, <3>1, <3>4, <4>1, <4>2, <4>4
    <3> QED BY <3>5, <3>6
  <2> QED BY <1>0, <2>1, <2>2 DEF Later
<1>3. ASSUME NEW j \in 1..n, NEW g, trace'[j].typ \in StartTypes, g = trace'[j].g
      PROVE  trace'[j].stk =
                IF \E i \in 1..(j - 1) : StartsAt(i, g)' THEN Nil
                ELSE CHOOSE i \in {i \in 1..(j - 1) : trace'[i].typ = "GoCreate" /\ trace'[i].arg = g} : TRUE
  BY <1>1, <1>2, <1>3
<1> QED BY <1>0, <1>3 DEF FirstStartStack, StartsAt, Later
-----------------------------------------------------------------------------
(***************************************************************************)
(* The theorems                                                            *)
(***************************************************************************)
LEMMA LinkInit ==
    ASSUME Init
    PROVE  Holders /\ History
<1>1. trace = <<>> /\ DOMAIN trace = {} /\ Len(trace) = 0
  BY DEF Init
<1>2. \A g \in G : /\ gs[g].ev = Nil /\ gs[g].evStart = Nil /\ gs[g].evCreate = Nil
                   /\ gs[g].evMarkAssist = Nil
                   /\ g # NoG => gs[g].state = "gDead"
                   /\ regions[g] = <<>>
  BY DEF Init, noG
<1>3. \A p \in Proc : ps[p].evSweep = Nil /\ ps[p].evSTW = Nil
  BY RealApart DEF Init, noP
<1>4. tasks = {} /\ evGC = Nil /\ evSTW = Nil
  BY DEF Init
<1>5. StartFits /\ EvFits /\ CreateFits
  BY <1>1, <1>2, NoGApart DEF StartFits, EvFits, CreateFits, Held
<1>6. SpanFits
  BY <1>2, <1>3, <1>4 DEF SpanFits, Held
<1>7. RegionFits
  BY <1>2 DEF RegionFits, Active
<1>8. WaitFits
  BY <1>2, NoGApart DEF WaitFits
<1>9. History
  BY <1>1 DEF History, LinksFit, LeaveFits, StartsExclude, WokenWasBlocked, FirstStartStack
<1> QED BY <1>5, <1>6, <1>7, <1>8, <1>9 DEF Holders

\* A step that accepts no event leaves all of it alone.
LEMMA LinkUnchanged ==
    ASSUME Holders, History, UNCHANGED <<trace, gs, ps, tasks, regions, evGC, evSTW>>
    PROVE  Holders' /\ History'
<1>0. /\ trace' = trace /\ gs' = gs /\ ps' = ps /\ tasks' = tasks /\ regions' = regions
      /\ evGC' = evGC /\ evSTW' = evSTW
  OBVIOUS
<1>1. StartFits'
  BY <1>0 DEF Holders, StartFits, Held, Unlinked, StartsAt, Unstarted
<1>2. EvFits'
  BY <1>0 DEF Holders, EvFits, Held, Unlinked, Readied, Paused, Unstarted, StartsAt
<1>3. CreateFits'
  BY <1>0 DEF Holders, CreateFits, Held, Unstarted, StartsAt
<1>4. SpanFits'
  BY <1>0 DEF Holders, SpanFits, Held, SpanAt, Unlinked
<1>5. RegionFits'
  BY <1>0 DEF Holders, RegionFits, Active, SpanAt, Unlinked
<1>6. WaitFits'
  BY <1>0 DEF Holders, WaitFits, BlockedAt, BlocksAt, StartsAt, WakesAt
<1>7. LinksFit'
  BY <1>0 DEF History, LinksFit, LinkFits, NextStart, StartsAt, WakesAt
<1>8. LeaveFits' /\ StartsExclude'
  BY <1>0 DEF History, LeaveFits, StartsExclude
<1>9. WokenWasBlocked'
  BY <1>0 DEF History, WokenWasBlocked, BlocksAt, StartsAt, WakesAt
<1>10. FirstStartStack'
  BY <1>0 DEF History, FirstStartStack, StartsAt
<1> QED BY <1>1, <1>2, <1>3, <1>4, <1>5, <1>6, <1>7, <1>8, <1>9, <1>10 DEF Holders, History

\* Links are made once.
LinkStep == \A i \in DOMAIN trace : trace[i].link # Nil => trace'[i].link = trace[i].link

LEMMA LinkKept ==
    ASSUME LinkInv, NEW ev \in InputEvents, Fits(ev), Case(ev)
    PROVE  Holders' /\ History' /\ LinkStep
<1>1. Inv /\ Holders /\ LinksFit /\ LeaveFits /\ StartsExclude /\ WokenWasBlocked /\ FirstStartStack
  BY DEF LinkInv, History
<1>2. Effects(ev) /\ Inv'
  BY <1>1, CaseEffects
<1>3. PICK n : After(ev, n)
  BY <1>1, <1>2, WhatFollows
<1>4. Holders'
  BY <1>1, <1>2, <1>3, StartFitsKept, EvFitsKept, CreateFitsKept, SpanFitsKept, RegionFitsKept,
     WaitFitsKept DEF Holders
<1>5. History'
  BY <1>1, <1>3, LinksFitKept, LeaveFitsKept, ExcludeKept, WokenKept, FirstStackKept DEF History
<1>6. LinkStep
  BY <1>3 DEF After, Rows, LinkStep
<1> QED BY <1>4, <1>5, <1>6

LEMMA LinkNext == LinkInv /\ [Next]_post => LinkInv' /\ [LinkStep]_post
<1> SUFFICES ASSUME LinkInv, [Next]_post PROVE LinkInv' /\ [LinkStep]_post
  OBVIOUS
<1>0. Inv /\ Holders /\ History /\ Inv'
  BY StepHolds DEF LinkInv
<1>1. CASE UNCHANGED <<trace, gs, ps, tasks, regions, evGC, evSTW>>
  BY <1>0, <1>1, LinkUnchanged DEF LinkInv, LinkStep
<1>2. ASSUME NEW ev \in InputEvents, Fits(ev), Case(ev) PROVE LinkInv' /\ [LinkStep]_post
  BY <1>0, <1>2, LinkKept DEF LinkInv
<1>3. \/ UNCHANGED <<trace, gs, ps, tasks, regions, evGC, evSTW>>
      \/ \E ev \in InputEvents : Fits(ev) /\ Case(ev)
  BY PostAssumption DEF Next, Read, Finished, Process, Reject, post
<1> QED BY <1>1, <1>2, <1>3

\* The strengthened invariant holds throughout, and no step redirects a link.
THEOREM LinkInductive == Spec => []LinkInv /\ [][LinkStep]_post
<1>1. Init => LinkInv
  BY InitHolds, LinkInit DEF LinkInv
<1> QED BY <1>1, LinkNext, PTL DEF Spec

\* For every input, two executions on one P, or of one goroutine, do not
\* overlap: the first ended before the second began, where its link says
\* (the promise at parser.go:563).
THEOREM ExecutionsExclude == Spec => []StartsExclude
<1>1. LinkInv => StartsExclude
  BY DEF LinkInv, History
<1> QED BY <1>1, LinkInductive, PTL

\* For every input, whoever is unblocked or comes back from a syscall had
\* blocked before, and neither started nor woke up since (parser.go:563).
THEOREM WokenHadBlocked == Spec => []WokenWasBlocked
<1>1. LinkInv => WokenWasBlocked
  BY DEF LinkInv, History
<1> QED BY <1>1, LinkInductive, PTL

\* For every input, every link joins two events that the table above
\* Event.Link pairs (parser.go:46), of one goroutine, P, task or region, and
\* points forward.
THEOREM LinksPair == Spec => []LinksFit
<1>1. LinkInv => LinksFit
  BY DEF LinkInv, History
<1> QED BY <1>1, LinkInductive, PTL

\* For every input, exactly the first start of a goroutine after its creation
\* carries the stack of that creation (parser.go:711).
THEOREM FirstStartShows == Spec => []FirstStartStack
<1>1. LinkInv => FirstStartStack
  BY DEF LinkInv, History
<1> QED BY <1>1, LinkInductive, PTL

\* For every input, no later event overwrites the link of an earlier one,
\* though each case writes through a pointer kept in a descriptor
\* (parser.go:46).
THEOREM LinksAreFinal == Spec => LinksStay
<1>1. Spec => [][LinkStep]_post
  BY LinkInductive
<1> QED BY <1>1, PTL DEF LinksStay, LinkStep

\* For every input, the starts without a link are those of the goroutines
\* that still run, and are on the Ps that run them: what the check the code
\* still wants (parser.go:846) can ask for.
THEOREM UnlinkedStillRun == Spec => []StartsLinked
<1>1. ASSUME LinkInv, NEW i \in DOMAIN trace, trace[i].typ \in StartTypes
      PROVE  trace[i].link = Nil <=>
                /\ ps[trace[i].p].g = trace[i].g
                /\ \A j \in (i + 1)..Len(trace) : ~StartsAt(j, trace[i].g)
  <2> DEFINE g == trace[i].g
  <2>1. Inv /\ StartFits
    BY <1>1 DEF LinkInv, Holders
  <2>2. DOMAIN trace = 1..Len(trace) /\ Len(trace) \in Nat
    BY <2>1 DEF Inv, PostTypeOK
  <2>3. trace[i].p \in Proc /\ g \in Goroutine /\ g \in G /\ g # NoG /\ i # Nil
    BY <1>1, <2>1, <2>2, NoGApart DEF StartFits, Nil
  <2>4. ASSUME trace[i].link = Nil PROVE ps[trace[i].p].g = g /\ Unstarted(i, g)
    <3>1. gs[g].evStart = i
      BY <1>1, <2>1, <2>4 DEF StartFits
    <3> QED BY <2>1, <2>3, <3>1 DEF StartFits, Held
  <2>5. ASSUME ps[trace[i].p].g = g, Unstarted(i, g) PROVE trace[i].link = Nil
    <3>1. gs[g].state = "gRunning"
      BY <2>1, <2>3, <2>5 DEF Inv, Agree
    <3>2. gs[g].evStart # Nil
      BY <2>1, <2>3, <3>1 DEF Inv, Agree
    <3>3. PICK k : k = gs[g].evStart /\ k \in Held(gs[g].evStart)
      BY <3>2 DEF Held
    <3>4. Unlinked(k) /\ StartsAt(k, g) /\ Unstarted(k, g)
      BY <2>1, <2>3, <3>3 DEF StartFits
    <3>5. k \in 1..Len(trace) /\ i \in 1..Len(trace) /\ StartsAt(i, g)
      BY <1>1, <2>2, <3>4 DEF Unlinked, StartsAt
    <3>6. ~(k < i) /\ ~(i < k)
      BY <2>2, <2>5, <3>4, <3>5 DEF Unstarted
    <3> QED BY <3>4, <3>5, <3>6 DEF Unlinked
  <2> QED BY <2>4, <2>5 DEF Unstarted
<1>2. LinkInv => StartsLinked
  BY <1>1 DEF StartsLinked
<1> QED BY <1>2, LinkInductive, PTL

\* The promise of the abstract scheduler, for every input: a goroutine runs
\* exactly while one P runs it (parser.go:563).
THEOREM ExclusiveRuns == Spec => []SchedulerExclusive
<1>1. Inv => SchedulerExclusive
  <2> SUFFICES ASSUME Inv PROVE SchedulerExclusive
    OBVIOUS
  <2>1. /\ \A g \in Goroutine : gs[g].state = "gRunning" => \E p \in Proc : ps[p].g = g
        /\ \A p \in Proc : ps[p].g # NoG => gs[ps[p].g].state = "gRunning"
        /\ \A p, q \in Proc : ps[p].g = ps[q].g /\ ps[p].g # NoG => p = q
    BY DEF Inv, Agree
  <2> QED BY <2>1, NoGApart DEF SchedulerExclusive, Sched!Exclusive
<1> QED BY <1>1, PostInductive, PTL
=============================================================================
