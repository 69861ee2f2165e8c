----------------------------- MODULE PostProcess -----------------------------
(***************************************************************************)
(* postProcessTrace of src/trace/parser.go: the last pass over the events  *)
(* of a trace.  It keeps a descriptor per goroutine and per P, refuses the *)
(* trace at the first event that does not fit them, and links events that  *)
(* belong together.                                                        *)
(*                                                                         *)
(* The input is arbitrary: any event of Inputs may come next, as if read   *)
(* from any file.  Pointers to events are positions in trace; Nil is none. *)
(* Linking writes to events that are in trace already.                     *)
(***************************************************************************)
EXTENDS TraceEvents, FiniteSets

CONSTANTS
    Inputs,     \* the events that may come next
    GlobalSTW,  \* TRUE for traces of Go 1.10 and later
    MaxTrace    \* bound on the length of the input

\* A region event with a mode other than start or end.
BadRegion == "UserRegionInvalid"

\* What parseEvents hands on: syscall exits, and only they, are on SyscallP,
\* and only unblocks are on TimerP.  seq names a task, or a task and a region.
InputEvents ==
    {e \in [typ : (EventTypes \ LocalTypes) \cup {BadRegion}, p : Proc \cup {TimerP, SyscallP},
            g : Goroutine \cup {NoG}, arg : Goroutine \cup {NoG}, seq : Nat] :
        /\ e.typ = "GoSysExit" <=> e.p = SyscallP
        /\ e.p = TimerP => e.typ = "GoUnblock"}

ASSUME PostAssumption ==
    Inputs \subseteq InputEvents /\ GlobalSTW \in BOOLEAN /\ MaxTrace \in Nat

VARIABLES
    verdict,  \* "ok" so far, "error", or "panic" for a nil dereference
    trace,    \* the events accepted, with their links
    gs,       \* per goroutine, its gdesc
    ps,       \* per P, its pdesc
    tasks,    \* the creations of tasks that have not ended
    regions,  \* per goroutine, its stack of active regions
    evGC,     \* the GC in progress
    evSTW     \* the stop-the-world in progress

post == <<verdict, trace, gs, ps, tasks, regions, evGC, evSTW>>

Nil  == 0
Here == Len(trace) + 1

G == Goroutine \cup {NoG}
P == Proc \cup FakePs

\* known: the map gs has an entry.
gdesc == [known : BOOLEAN, state : gStatus, ev : Nat, evStart : Nat, evCreate : Nat,
          evMarkAssist : Nat]
pdesc == [running : BOOLEAN, g : G, evSTW : Nat, evSweep : Nat]

noG == [known |-> FALSE, state |-> "gDead", ev |-> Nil, evStart |-> Nil, evCreate |-> Nil,
        evMarkAssist |-> Nil]
\* Bug: a P starts out with a goroutine id that is not 0's.
noPBad == [running |-> FALSE, g |-> Nil, evSTW |-> Nil, evSweep |-> Nil]

noP == [running |-> FALSE, g |-> NoG, evSTW |-> Nil, evSweep |-> Nil]

Init ==
    /\ verdict = "ok"
    /\ trace = <<>>
    /\ gs = [g \in G |-> IF g = NoG THEN [noG EXCEPT !.known = TRUE, !.state = "gRunning"]
                         ELSE noG]
    /\ ps = [p \in P |-> noP]
    /\ tasks = {}
    /\ regions = [g \in G |-> <<>>]
    /\ evGC = Nil
    /\ evSTW = Nil
-----------------------------------------------------------------------------
\* Bug: any P will do.
RunningAnywhere(ev, allowG0) == gs[ev.g].state = "gRunning" /\ (allowG0 \/ ev.g # NoG)

\* checkRunning
Running(ev, allowG0) ==
    /\ gs[ev.g].state = "gRunning"
    /\ ps[ev.p].g = ev.g
    /\ allowG0 \/ ev.g # NoG

\* Bug: the wrong descriptor field.
STWSweep(ev) == IF GlobalSTW THEN evSTW ELSE ps[ev.p].evSweep

\* Before Go 1.10 every P stopped the world for itself.
STW(ev) == IF GlobalSTW THEN evSTW ELSE ps[ev.p].evSTW

\* Bug: the first region of the stack instead of the last.
Outermost(g) == regions[g][1]

Innermost(g) == regions[g][Len(regions[g])]

TaskEvents(ev) == {i \in tasks : trace[i].seq = ev.seq}

\* The checks of every case: an event that fails its own ends the pass.
Fits(ev) ==
    LET g == gs[ev.g]
        p == ps[ev.p]
    IN  CASE ev.typ = "ProcStart"         -> ~p.running
          [] ev.typ = "ProcStop"          -> p.running /\ p.g = NoG
          [] ev.typ = "GCStart"           -> evGC = Nil
          [] ev.typ = "GCDone"            -> evGC # Nil
          [] ev.typ = "GCSTWStart"        -> STW(ev) = Nil
          [] ev.typ = "GCSTWDone"         -> STW(ev) # Nil
          [] ev.typ = "GCSweepStart"      -> p.evSweep = Nil
          [] ev.typ = "GCSweepDone"       -> p.evSweep # Nil
          [] ev.typ = "GCMarkAssistStart" -> g.evMarkAssist = Nil
          [] ev.typ \in SnapTypes \cup StartTypes
                -> g.state = "gRunnable" /\ (ev.typ \in StartTypes => p.g = NoG)
          [] ev.typ = "GoCreate"  -> Running(ev, TRUE) /\ ~gs[ev.arg].known
          [] ev.typ \in LeaveTypes \cup {"GoSysCall"} -> Running(ev, FALSE)
          [] ev.typ = "GoUnblock" -> /\ g.state = "gRunning"
                                     /\ ev.p = TimerP \/ p.g = ev.g
                                     /\ gs[ev.arg].state = "gWaiting"
          [] ev.typ = "GoSysExit"      -> g.state = "gWaiting"
          [] ev.typ = "UserTaskCreate" -> TaskEvents(ev) = {}
          [] ev.typ = "UserRegionEnd"  -> regions[ev.g] # <<>> => trace[Innermost(ev.g)].seq = ev.seq
          [] ev.typ = BadRegion        -> FALSE
          [] OTHER                     -> TRUE

\* ev joins the trace, on behalf of P p; the events `from` link to it.  The
\* first start of a goroutine shows the stack of the code it was created for.
Record(ev, p, from) ==
    trace' = Append([i \in DOMAIN trace |->
                        IF i \in from THEN [trace[i] EXCEPT !.link = Here] ELSE trace[i]],
                    [typ |-> ev.typ, p |-> p, g |-> ev.g, arg |-> ev.arg, seq |-> ev.seq,
                     link |-> Nil,
                     stk |-> IF ev.typ \in StartTypes THEN gs[ev.g].evCreate ELSE Nil])

\* gs[ev.G] = g; ps[ev.P] = p, after what the case did to another goroutine.
Restore(ev, p, other, g, desc) ==
    /\ gs' = [other EXCEPT ![ev.g] = [g EXCEPT !.known = TRUE]]
    /\ ps' = [ps EXCEPT ![p] = desc]

\* The common end of most cases.
Accept(ev, g, p, from) ==
    Record(ev, ev.p, from) /\ Restore(ev, ev.p, gs, g, p) /\ UNCHANGED verdict

Reject(ev) ==
    /\ ~Fits(ev)
    /\ verdict' = "error"
    /\ UNCHANGED <<trace, gs, ps, tasks, regions, evGC, evSTW>>
-----------------------------------------------------------------------------
ProcSwitch(ev) ==
    /\ ev.typ \in {"ProcStart", "ProcStop"}
    /\ Accept(ev, gs[ev.g], [ps[ev.p] EXCEPT !.running = (ev.typ = "ProcStart")], {})
    /\ UNCHANGED <<tasks, regions, evGC, evSTW>>

\* A GC belongs to the P of the GC, which gets a copy of the P's descriptor.
GCStart(ev) ==
    /\ ev.typ = "GCStart"
    /\ evGC' = Here
    /\ Record(ev, GCP, {}) /\ Restore(ev, GCP, gs, gs[ev.g], ps[ev.p])
    /\ UNCHANGED <<verdict, tasks, regions, evSTW>>

GCDone(ev) ==
    /\ ev.typ = "GCDone"
    /\ evGC' = Nil
    /\ Accept(ev, gs[ev.g], ps[ev.p], {evGC})
    /\ UNCHANGED <<tasks, regions, evSTW>>

StopTheWorld(ev) ==
    LET next == IF ev.typ = "GCSTWStart" THEN Here ELSE Nil
        from == IF ev.typ = "GCSTWStart" THEN {} ELSE {STW(ev)}
    IN  /\ ev.typ \in {"GCSTWStart", "GCSTWDone"}
        /\ IF GlobalSTW
           THEN evSTW' = next /\ Accept(ev, gs[ev.g], ps[ev.p], from)
           ELSE UNCHANGED evSTW /\ Accept(ev, gs[ev.g], [ps[ev.p] EXCEPT !.evSTW = next], from)
        /\ UNCHANGED <<tasks, regions, evGC>>

Sweep(ev) ==
    /\ \/ /\ ev.typ = "GCSweepStart"
          /\ Accept(ev, gs[ev.g], [ps[ev.p] EXCEPT !.evSweep = Here], {})
       \/ /\ ev.typ = "GCSweepDone"
          /\ Accept(ev, gs[ev.g], [ps[ev.p] EXCEPT !.evSweep = Nil], {ps[ev.p].evSweep})
    /\ UNCHANGED <<tasks, regions, evGC, evSTW>>

\* Bug: the end of an assist is linked, but the assist not over.
MarkAssistKept(ev) ==
    /\ \/ /\ ev.typ = "GCMarkAssistStart"
          /\ Accept(ev, [gs[ev.g] EXCEPT !.evMarkAssist = Here], ps[ev.p], {})
       \/ /\ ev.typ = "GCMarkAssistDone"
          /\ Accept(ev, gs[ev.g], ps[ev.p], {gs[ev.g].evMarkAssist})
    /\ UNCHANGED <<tasks, regions, evGC, evSTW>>

\* An assist may have begun before the trace: its end is never refused.
MarkAssist(ev) ==
    /\ \/ /\ ev.typ = "GCMarkAssistStart"
          /\ Accept(ev, [gs[ev.g] EXCEPT !.evMarkAssist = Here], ps[ev.p], {})
       \/ /\ ev.typ = "GCMarkAssistDone"
          /\ Accept(ev, [gs[ev.g] EXCEPT !.evMarkAssist = Nil], ps[ev.p], {gs[ev.g].evMarkAssist})
    /\ UNCHANGED <<tasks, regions, evGC, evSTW>>
-----------------------------------------------------------------------------
GoAnnounced(ev) ==
    /\ ev.typ \in SnapTypes
    /\ Accept(ev, [gs[ev.g] EXCEPT !.state = "gWaiting", !.ev = Here], ps[ev.p], {})
    /\ UNCHANGED <<tasks, regions, evGC, evSTW>>

GoCreate(ev) ==
    LET new == [noG EXCEPT !.known = TRUE, !.state = "gRunnable", !.ev = Here, !.evCreate = Here]
    IN  /\ ev.typ = "GoCreate"
        /\ Record(ev, ev.p, {})
        /\ Restore(ev, ev.p, [gs EXCEPT ![ev.arg] = new], gs[ev.g], ps[ev.p])
        /\ UNCHANGED <<verdict, tasks, regions, evGC, evSTW>>

\* Bugs: evStart is not set; evCreate, or ev, is not reset; the P is not taken.
StartedUnset(g)   == [g EXCEPT !.state = "gRunning", !.evCreate = Nil, !.ev = Nil]
StartedCreated(g) == [g EXCEPT !.state = "gRunning", !.evStart = Here, !.ev = Nil]
StartedLinked(g)  == [g EXCEPT !.state = "gRunning", !.evStart = Here, !.evCreate = Nil]
TakenNot(p, g)    == p

Started(g)  == [g EXCEPT !.state = "gRunning", !.evStart = Here, !.evCreate = Nil, !.ev = Nil]
Taken(p, g) == [p EXCEPT !.g = g]

GoStart(ev) ==
    /\ ev.typ \in StartTypes
    /\ Accept(ev, Started(gs[ev.g]), Taken(ps[ev.p], ev.g), {gs[ev.g].ev})
    /\ UNCHANGED <<tasks, regions, evGC, evSTW>>

\* Bug: who gives way waits to be woken.
LeaveStateWaiting(typ) == IF typ \in EndTypes THEN "gDead" ELSE "gWaiting"

\* What a goroutine is after it left its P, and what its next event links to.
LeaveState(typ) == CASE typ \in EndTypes   -> "gDead"
                     [] typ \in YieldTypes -> "gRunnable"
                     [] OTHER              -> "gWaiting"

\* g.evStart.Link = ev: there must be an evStart.  The end of a goroutine is
\* also the end of its active regions.
GoLeave(ev) ==
    LET g      == gs[ev.g]
        active == IF ev.typ = "GoEnd" THEN {regions[ev.g][i] : i \in DOMAIN regions[ev.g]} ELSE {}
    IN  /\ ev.typ \in LeaveTypes
        /\ IF g.evStart = Nil
           THEN verdict' = "panic" /\ UNCHANGED <<trace, gs, ps, regions>>
           ELSE /\ Accept(ev,
                      [g EXCEPT !.state = LeaveState(ev.typ), !.evStart = Nil,
                                !.ev = IF ev.typ \in ParkTypes \cup YieldTypes THEN Here ELSE @],
                      [ps[ev.p] EXCEPT !.g = NoG], {g.evStart} \cup active)
                /\ regions' = IF ev.typ = "GoEnd" THEN [regions EXCEPT ![ev.g] = <<>>] ELSE regions
        /\ UNCHANGED <<tasks, evGC, evSTW>>

\* Who blocked on the network is unblocked by the P of the network, which
\* gets a copy of the P's descriptor.
GoUnblock(ev) ==
    LET g1 == gs[ev.arg]
        p  == IF g1.ev # Nil /\ trace[g1.ev].typ = "GoBlockNet" /\ ev.p # TimerP
              THEN NetpollP ELSE ev.p
    IN  /\ ev.typ = "GoUnblock"
        /\ Record(ev, p, {g1.ev})
        /\ Restore(ev, p, [gs EXCEPT ![ev.arg] = [g1 EXCEPT !.state = "gRunnable", !.ev = Here]],
                   gs[ev.g], ps[ev.p])
        /\ UNCHANGED <<verdict, tasks, regions, evGC, evSTW>>

\* Bug: the syscall is not remembered.
GoSysCallForgotten(ev) ==
    /\ ev.typ = "GoSysCall"
    /\ Accept(ev, gs[ev.g], ps[ev.p], {})
    /\ UNCHANGED <<tasks, regions, evGC, evSTW>>

GoSysCall(ev) ==
    /\ ev.typ = "GoSysCall"
    /\ Accept(ev, [gs[ev.g] EXCEPT !.ev = Here], ps[ev.p], {})
    /\ UNCHANGED <<tasks, regions, evGC, evSTW>>

GoSysExit(ev) ==
    LET g == gs[ev.g]
    IN  /\ ev.typ = "GoSysExit"
        /\ Accept(ev, [g EXCEPT !.state = "gRunnable", !.ev = Here], ps[ev.p],
                  {i \in {g.ev} \ {Nil} : trace[i].typ = "GoSysCall"})
        /\ UNCHANGED <<tasks, regions, evGC, evSTW>>
-----------------------------------------------------------------------------
UserTask(ev) ==
    /\ \/ /\ ev.typ = "UserTaskCreate"
          /\ Accept(ev, gs[ev.g], ps[ev.p], {})
          /\ tasks' = tasks \cup {Here}
       \/ /\ ev.typ = "UserTaskEnd"
          /\ Accept(ev, gs[ev.g], ps[ev.p], TaskEvents(ev))
          /\ tasks' = tasks \ TaskEvents(ev)
    /\ UNCHANGED <<regions, evGC, evSTW>>

\* A region may have begun before the trace: then its end pairs with nothing.
UserRegion(ev) ==
    LET stack == regions[ev.g]
    IN  /\ \/ /\ ev.typ = "UserRegionStart"
              /\ Accept(ev, gs[ev.g], ps[ev.p], {})
              /\ regions' = [regions EXCEPT ![ev.g] = Append(stack, Here)]
           \/ /\ ev.typ = "UserRegionEnd" /\ stack # <<>>
              /\ Accept(ev, gs[ev.g], ps[ev.p], {Innermost(ev.g)})
              /\ regions' = [regions EXCEPT ![ev.g] = SubSeq(stack, 1, Len(stack) - 1)]
           \/ /\ ev.typ = "UserRegionEnd" /\ stack = <<>>
              /\ Accept(ev, gs[ev.g], ps[ev.p], {})
              /\ UNCHANGED regions
        /\ UNCHANGED <<tasks, evGC, evSTW>>

\* Events without a case of their own.
OtherEvent(ev) ==
    /\ ev.typ \in {"FutileWakeup", "UserLog"} \cup GoatTypes
    /\ Accept(ev, gs[ev.g], ps[ev.p], {})
    /\ UNCHANGED <<tasks, regions, evGC, evSTW>>

Case(ev) ==
    \/ ProcSwitch(ev) \/ GCStart(ev) \/ GCDone(ev) \/ StopTheWorld(ev) \/ Sweep(ev)
    \/ MarkAssist(ev) \/ GoAnnounced(ev) \/ GoCreate(ev) \/ GoStart(ev) \/ GoLeave(ev)
    \/ GoUnblock(ev) \/ GoSysCall(ev) \/ GoSysExit(ev) \/ UserTask(ev) \/ UserRegion(ev)
    \/ OtherEvent(ev)

\* One turn of the loop over the events.
Process(ev) == verdict = "ok" /\ (Reject(ev) \/ (Fits(ev) /\ Case(ev)))

Read == Len(trace) < MaxTrace /\ \E ev \in Inputs : Process(ev)

\* The input ends, or a check failed and the loop returned.
Finished == UNCHANGED post

Next == Read \/ Finished

Spec == Init /\ [][Next]_post
-----------------------------------------------------------------------------
(***************************************************************************)
(* Properties                                                              *)
(***************************************************************************)
Processed == [typ : EventTypes, p : P, g : G, arg : G, seq : Nat, link : Nat, stk : Nat]

\* The types of the descriptors and of the processed events.
PostTypeOK ==
    /\ verdict \in {"ok", "error", "panic"}
    /\ trace \in Seq(Processed)
    /\ gs \in [G -> gdesc]
    /\ ps \in [P -> pdesc]
    /\ tasks \subseteq Nat
    /\ regions \in [G -> Seq(Nat)]
    /\ evGC \in Nat /\ evSTW \in Nat

\* A goroutine that leaves its P was started there in this trace: whatever the
\* input, g.evStart.Link is never a nil dereference (parser.go:729, 747, 781, 800).
NoNilDereference == verdict # "panic"

StartsAt(i, g) == trace[i].typ \in StartTypes /\ trace[i].g = g
WakesAt(i, g)  == \/ trace[i].typ = "GoUnblock" /\ trace[i].arg = g
                  \/ trace[i].typ = "GoSysExit" /\ trace[i].g = g
BlocksAt(i, g) == /\ trace[i].typ \in ParkTypes \cup SnapTypes \cup {"GoSysBlock"}
                  /\ trace[i].g = g

\* "A P does not run two Gs at the same time" (parser.go:563), and no G runs
\* on two Ps: between two starts on one P, or of one goroutine, the first one
\* ended, and its link says where.
StartsExclude ==
    \A i, j \in DOMAIN trace :
        /\ i < j /\ {trace[i].typ, trace[j].typ} \subseteq StartTypes
        /\ (trace[i].p = trace[j].p \/ trace[i].g = trace[j].g)
        => LET k == trace[i].link
           IN  /\ i < k /\ k < j
               /\ trace[k].typ \in LeaveTypes
               /\ trace[k].g = trace[i].g /\ trace[k].p = trace[i].p

\* "All EvGoStart events has non-nil Link", the test the code still wants
\* (parser.go:846), holds but for the goroutines still running: a start is
\* unlinked exactly if its P still runs that goroutine since.
StartsLinked ==
    \A i \in DOMAIN trace :
        trace[i].typ \in StartTypes =>
            (trace[i].link = Nil <=>
                /\ ps[trace[i].p].g = trace[i].g
                /\ \A j \in (i + 1)..Len(trace) : ~StartsAt(j, trace[i].g))

\* "A G is indeed blocked before an unblock event" (parser.go:563): it blocked
\* earlier and did not start, or wake up, since.
WokenWasBlocked ==
    \A j \in DOMAIN trace, g \in Goroutine :
        WakesAt(j, g) =>
            \E i \in 1..(j - 1) :
                /\ BlocksAt(i, g)
                /\ \A k \in (i + 1)..(j - 1) : ~StartsAt(k, g) /\ ~WakesAt(k, g)

\* No start of g lies between positions i and j.
NextStart(i, j, g) == StartsAt(j, g) /\ \A k \in (i + 1)..(j - 1) : ~StartsAt(k, g)

\* The table above Event.Link (parser.go:46): what an event may link to.  The
\* input being arbitrary, a blocked syscall may also end in an unblock.
LinkFits(i, j) ==
    LET a == trace[i]
        b == trace[j]
    IN  CASE a.typ = "GCStart"       -> b.typ = "GCDone"
          [] a.typ = "GCSTWStart"    -> b.typ = "GCSTWDone"
          [] a.typ = "GCSweepStart"  -> b.typ = "GCSweepDone" /\ b.p = a.p
          [] a.typ = "GCMarkAssistStart" -> b.typ = "GCMarkAssistDone" /\ b.g = a.g
          [] a.typ = "GoCreate"      -> NextStart(0, j, a.arg)
          [] a.typ = "GoUnblock"     -> NextStart(i, j, a.arg)
          [] a.typ \in YieldTypes \cup {"GoSysExit"} -> NextStart(i, j, a.g)
          [] a.typ \in StartTypes    -> b.typ \in LeaveTypes /\ b.g = a.g
          [] a.typ \in ParkTypes \cup SnapTypes -> b.typ = "GoUnblock" /\ b.arg = a.g
          [] a.typ = "GoSysCall"     -> WakesAt(j, a.g)
          [] a.typ = "UserTaskCreate" -> b.typ = "UserTaskEnd" /\ b.seq = a.seq
          [] a.typ = "UserRegionStart" ->
                b.g = a.g /\ (b.typ = "GoEnd" \/ (b.typ = "UserRegionEnd" /\ b.seq = a.seq))
          [] OTHER -> FALSE

\* Every link points forward, to an event of the kind the table names and of
\* the same goroutine, P, task or region.
LinksFit ==
    \A i \in DOMAIN trace :
        LET j == trace[i].link
        IN  j # Nil => j \in DOMAIN trace /\ i < j /\ LinkFits(i, j)

\* A start carries the stack of the goroutine's creation exactly if it is the
\* first one after it (parser.go:711).
FirstStartStack ==
    \A j \in DOMAIN trace :
        trace[j].typ \in StartTypes =>
            LET Created == {i \in 1..(j - 1) : trace[i].typ = "GoCreate" /\ trace[i].arg = trace[j].g}
            IN  trace[j].stk = IF \E i \in 1..(j - 1) : StartsAt(i, trace[j].g) THEN Nil
                               ELSE CHOOSE i \in Created : TRUE

\* A link, once made, is never redirected.
LinksStay ==
    [][\A i \in DOMAIN trace : trace[i].link # Nil => trace'[i].link = trace[i].link]_post

\* Replayed, an accepted trace is a run of the scheduler.
Sched == INSTANCE AbsScheduler
           WITH runs <- [p \in Proc |-> ps[p].g], is <- [g \in Goroutine |-> gs[g].state]
SchedulerRun       == Sched!Spec
SchedulerExclusive == Sched!Exclusive
=============================================================================
