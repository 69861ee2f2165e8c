-------------------------------- MODULE Order --------------------------------
(***************************************************************************)
(* order1007 of src/trace/order.go: merges the per-P batches of a trace    *)
(* into one stream.  The runtime writes the batches first (TracerNext);    *)
(* then the merge loop takes, again and again, the event with the least    *)
(* timestamp among the heads of batches whose goroutine is in the state    *)
(* the event needs; at the end the timestamps are checked and syscall      *)
(* exits are moved to the time they really happened.                       *)
(***************************************************************************)
EXTENDS GoTracer

VARIABLES
    pc,        \* where order1007 is; "trace" while the runtime still writes
    selected,  \* the batches whose head is in the frontier
    frontier,  \* events ready to be merged, with their transition
    gs,        \* per chain, the state after the events merged so far
    events     \* the merged stream

order == <<pc, selected, frontier, gs, events>>
vars  == <<tracer, order>>

\* How order1007 ends: with a stream, with an error, or in a panic.
Broken   == {"noOrder", "panic"}
Verdicts == {"ordered", "timeOrder", "stray"} \cup Broken
-----------------------------------------------------------------------------
\* Markers for a sequence number an event does not know.
NoSeq  == -1
SeqInc == -2

\* stateTransition: the state a chain must be in for ev to be merged, and the
\* state it is in afterwards.
Transition(g, s0, status0, s1, status1) ==
    [g |-> g, init |-> gState(s0, status0), next |-> gState(s1, status1)]

SeqArgs       == Nat \cup {NoSeq, SeqInc}
TransitionSet == [g : Chain \cup {Unordered},
                  init : [seq : SeqArgs, status : gStatus],
                  next : [seq : SeqArgs, status : gStatus]]

stateTransition(ev) ==
    CASE ev.typ = "GoCreate"    -> Transition(ev.arg, 0, "gDead", 1, "gRunnable")
      [] ev.typ \in SnapTypes   -> Transition(ev.g, 1, "gRunnable", 2, "gWaiting")
      [] ev.typ \in StartTypes  -> Transition(ev.g, ev.seq, "gRunnable", ev.seq + 1, "gRunning")
      [] ev.typ = "GoStartLocal" -> Transition(ev.g, NoSeq, "gRunnable", SeqInc, "gRunning")
      [] ev.typ \in ParkTypes \cup {"GoSysBlock"}
                                -> Transition(ev.g, NoSeq, "gRunning", NoSeq, "gWaiting")
      [] ev.typ \in YieldTypes  -> Transition(ev.g, NoSeq, "gRunning", NoSeq, "gRunnable")
      [] ev.typ \in {"GoUnblock", "GoSysExit"}
                                -> Transition(ev.arg, ev.seq, "gWaiting", ev.seq + 1, "gRunnable")
      [] ev.typ \in {"GoUnblockLocal", "GoSysExitLocal"}
                                -> Transition(ev.arg, NoSeq, "gWaiting", SeqInc, "gRunnable")
      [] ev.typ = "GCStart"     -> Transition(Garbage, ev.seq, "gDead", ev.seq + 1, "gDead")
      [] OTHER                  -> Transition(Unordered, 0, "gDead", 0, "gDead")

\* Bug: the sequence number is not looked at.
ReadyStatusOnly(curr, init) == init.status = curr.status

Ready(curr, init) ==
    init.seq \in {NoSeq, curr.seq} /\ init.status = curr.status

\* gs is only indexed by chains: an unordered event is ready at once.
transitionReady(st, tr) == tr.g = Unordered \/ Ready(st[tr.g], tr.init)

\* Bug: the marker of an increment is stored as it is.
ResolveNoInc(curr, next) ==
    IF next.seq = NoSeq THEN [next EXCEPT !.seq = curr.seq] ELSE next

Resolve(curr, next) ==
    CASE next.seq = NoSeq  -> [next EXCEPT !.seq = curr.seq]
      [] next.seq = SeqInc -> [next EXCEPT !.seq = curr.seq + 1]
      [] OTHER             -> next

transition(st, tr) ==
    IF tr.g = Unordered THEN st
    ELSE [st EXCEPT ![tr.g] = Resolve(st[tr.g], tr.next)]
-----------------------------------------------------------------------------
OrderInit ==
    /\ pc = "trace"
    /\ selected = {}
    /\ frontier = {}
    /\ gs = [c \in Chain |-> gZero]
    /\ events = <<>>

Init == TracerInit /\ OrderInit

Trace == pc = "trace" /\ TracerNext /\ UNCHANGED order

\* The trace is complete and handed to order1007 (an empty one never is).
Begin ==
    /\ pc = "trace" /\ Stoppable /\ n > 0
    /\ pc' = "scan"
    /\ UNCHANGED <<tracer, selected, frontier, gs, events>>

\* Bug: pending counts one batch only.
ExhaustedOne == frontier = {} /\ \E p \in Proc : batch[p] = <<>>

Exhausted == frontier = {} /\ \A p \in Proc : batch[p] = <<>>

\* Bug: the flag of a selected batch is not looked at.
RipeAgain == {p \in Proc :
                 batch[p] # <<>> /\ transitionReady(gs, stateTransition(Head(batch[p])))}

\* The inner loop: every unselected batch with a ready head gives it up.
\* Local events lose their Local form here, their transition is kept.
Ripe == {p \in Proc \ selected :
            batch[p] # <<>> /\ transitionReady(gs, stateTransition(Head(batch[p])))}

OrderEvent(p) ==
    LET ev == Head(batch[p])
    IN  [ev |-> [ev EXCEPT !.typ = Delocalized(@)],
         batch |-> p, tr |-> stateTransition(ev)]

Scan ==
    /\ pc = "scan" /\ ~Exhausted
    /\ frontier' = frontier \cup {OrderEvent(p) : p \in Ripe}
    /\ batch' = [p \in Proc |-> IF p \in Ripe THEN Tail(batch[p]) ELSE batch[p]]
    /\ selected' = selected \cup Ripe
    /\ pc' = IF frontier' = {} THEN "noOrder" ELSE "merge"
    /\ UNCHANGED <<gs, events, n, clock, rg, lastp, cur, mode, blockTs, open, on, starting>>

\* Bug: the frontier is not sorted.
EarliestAny(f) == f \in frontier

\* sort.Sort(frontier) leaves equal timestamps in any order: batches come from
\* a Go map.
Earliest(f) == \A f2 \in frontier : f.ev.ts <= f2.ev.ts

\* transition panics when the state f was ready in is gone.
Merge(f) ==
    /\ pc = "merge" /\ Earliest(f)
    /\ events' = Append(events, f.ev)
    /\ frontier' = frontier \ {f}
    /\ IF transitionReady(gs, f.tr) /\ f.batch \in selected
       THEN /\ gs' = transition(gs, f.tr)
            /\ selected' = selected \ {f.batch}
            /\ pc' = "scan"
       ELSE pc' = "panic" /\ UNCHANGED <<gs, selected>>
    /\ UNCHANGED tracer

\* sort.IsSorted(eventList(events))
IsSorted(s) == \A i, j \in DOMAIN s : i < j => s[i].ts <= s[j].ts

\* Bug: unsorted events are merged once more.
CheckOrderAgain ==
    /\ pc = "scan" /\ Exhausted
    /\ pc' = IF IsSorted(events) THEN "exits" ELSE "scan"
    /\ UNCHANGED <<tracer, selected, frontier, gs, events>>

CheckOrder ==
    /\ pc = "scan" /\ Exhausted
    /\ pc' = IF IsSorted(events) THEN "exits" ELSE "timeOrder"
    /\ UNCHANGED <<tracer, selected, frontier, gs, events>>
-----------------------------------------------------------------------------
\* Bug: blocks in the snapshot are forgotten.
lastSysBlockTraced(i) ==
    LET Blocks == {j \in 1..(i - 1) : events[j].typ = "GoSysBlock" /\ events[j].g = events[i].g}
    IN  IF Blocks = {} THEN 0
        ELSE events[CHOOSE j \in Blocks : \A k \in Blocks : k <= j].ts

\* lastSysBlock[ev.G] when the loop reaches event i; 0 when there is none.
lastSysBlock(i) ==
    LET Blocks == {j \in 1..(i - 1) : events[j].typ \in {"GoSysBlock", "GoInSyscall"}
                                      /\ events[j].g = events[i].g}
    IN  IF Blocks = {} THEN 0
        ELSE events[CHOOSE j \in Blocks : \A k \in Blocks : k <= j].ts

\* The exits that carry a timestamp of their own, and the two refusals.
Moved   == {i \in DOMAIN events : events[i].typ = "GoSysExit" /\ events[i].real # 0}
Stray   == {i \in Moved : lastSysBlock(i) = 0}

\* Bug: a call that returned as it blocked is refused.
EarlyOrEqual ==
    {i \in Moved : lastSysBlock(i) # 0 /\ events[i].real <= lastSysBlock(i)}

Early   == {i \in Moved : lastSysBlock(i) # 0 /\ events[i].real < lastSysBlock(i)}

\* Bug: equal timestamps are turned around.
UnstableSort(s) ==
    LET Rank(i) == Cardinality({j \in DOMAIN s : \/ s[j].ts < s[i].ts
                                                 \/ (s[j].ts = s[i].ts /\ j >= i)})
    IN  [k \in DOMAIN s |-> s[CHOOSE i \in DOMAIN s : Rank(i) = k]]

\* sort.Stable by timestamp: element i goes to position Rank(i).
StableSort(s) ==
    LET Rank(i) == Cardinality({j \in DOMAIN s : \/ s[j].ts < s[i].ts
                                                 \/ (s[j].ts = s[i].ts /\ j <= i)})
    IN  [k \in DOMAIN s |-> s[CHOOSE i \in DOMAIN s : Rank(i) = k]]

Corrected == [i \in DOMAIN events |->
                 IF i \in Moved THEN [events[i] EXCEPT !.ts = events[i].real]
                 ELSE events[i]]

FixSysExits ==
    /\ pc = "exits"
    /\ IF Stray \cup Early = {}
       THEN pc' = "ordered" /\ events' = StableSort(Corrected)
       ELSE /\ pc' = IF \E i \in Stray : \A j \in Early : i < j THEN "stray" ELSE "timeOrder"
            /\ UNCHANGED events
    /\ UNCHANGED <<tracer, selected, frontier, gs>>

Done == pc \in Verdicts /\ UNCHANGED vars

Reorder == Begin \/ Scan \/ (\E f \in frontier : Merge(f)) \/ CheckOrder \/ FixSysExits

Next == Trace \/ Reorder \/ Done

Spec == Init /\ [][Next]_vars

\* order1007 is one loop of one goroutine: once started it keeps running.
FairSpec == Spec /\ WF_vars(Reorder)
-----------------------------------------------------------------------------
(***************************************************************************)
(* Properties                                                              *)
(***************************************************************************)
\* The types of what order1007 reads and keeps.
OrderTypeOK ==
    /\ TracerTypeOK
    /\ pc \in {"trace", "scan", "merge", "exits"} \cup Verdicts
    /\ selected \subseteq Proc
    /\ gs \in [Chain -> GState]
    /\ frontier \subseteq [ev : Event, batch : Proc, tr : TransitionSet]
    /\ pc # "ordered" => events \in Seq(Event)

ChainOf(ev) == stateTransition(ev).g

\* Whatever the clocks say, the batches of a real trace can be merged: the
\* loop never runs out of ready heads ("no consistent ordering", order.go:86)
\* and no merge invalidates what another batch's head was found ready for
\* (the two panics, order.go:95 and 206).
NoBrokenMerge == pc \notin Broken

\* The merged stream moves every goroutine, and the GC, through its states in
\* the order the runtime did ("a consistent stream even if timestamps are
\* incorrect", order.go:51).  Correcting the syscall exits keeps that order
\* if the clocks agree.
ChainOrder ==
    pc # "ordered" \/ Monotone =>
        \A i, j \in DOMAIN events :
            i < j /\ ChainOf(events[i]) = ChainOf(events[j]) /\ ChainOf(events[i]) # Unordered
                => events[i].n < events[j].n

\* Until syscall exits are corrected, the events of one P stay in the order
\* that P wrote them (order.go:46).
BatchOrder ==
    pc # "ordered" =>
        \A i, j \in DOMAIN events :
            i < j /\ events[i].p = events[j].p => events[i].n < events[j].n

\* Every event written is in the stream once: the pending count and the
\* batches run out together (order.go:63).
NothingLost ==
    pc \in {"exits", "ordered", "timeOrder", "stray"} =>
        /\ Len(events) = n
        /\ {events[i].n : i \in DOMAIN events} = 1..n

\* A syscall exit always finds the block it ends earlier in the stream, also
\* if the clocks are skewed (order.go:126).
NoStrayExit == pc # "stray"

\* If the clocks agree, and different Ps never read the same value, merging
\* recovers exactly the order in which the runtime wrote the events.
Emitted == {events[i] : i \in DOMAIN events} \cup {f.ev : f \in frontier}
           \cup (UNION {{batch[p][i] : i \in DOMAIN batch[p]} : p \in Proc})
AgreedClocks == \A e, f \in Emitted : e.n < f.n /\ e.p # f.p => e.ts < f.ts
TimelineRecovered ==
    AgreedClocks /\ pc # "ordered" => \A i \in DOMAIN events : events[i].n = i

\* order1007 comes to an end, whatever it was given.
Terminates == (pc = "scan") ~> (pc \in Verdicts)
=============================================================================
