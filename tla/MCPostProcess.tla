---------------------------- MODULE MCPostProcess ----------------------------
(***************************************************************************)
(* Small instances of PostProcess for TLC: every sequence of the events    *)
(* below is tried, most of them not from any real trace.                   *)
(***************************************************************************)
EXTENDS PostProcess, TLC

Ev(typ, p, g, arg, seq) == [typ |-> typ, p |-> p, g |-> g, arg |-> arg, seq |-> seq]

On(types) == {Ev(typ, p, g, NoG, 0) : typ \in types, p \in Proc, g \in Goroutine}

\* Goroutines are created, start, leave in every way, and wake up.
Scheduling ==
    On({"GoStart", "GoBlock", "GoBlockNet", "GoPreempt", "GoSysCall", "GoSysBlock", "GoEnd"})
    \cup {Ev("GoCreate", p, NoG, a, 0) : p \in Proc, a \in Goroutine}
    \cup {Ev("GoUnblock", p, g, a, 0) : p \in Proc \cup {TimerP}, g \in G, a \in Goroutine}
    \cup {Ev("GoSysExit", SyscallP, g, NoG, 0) : g \in Goroutine}

\* What brackets the work of a P, of the GC, and of a goroutine; and the
\* snapshot.  All Ps stop the world and sweep; p does the rest, and runs g.
EachP == {"GCSTWStart", "GCSTWDone", "GCSweepStart", "GCSweepDone"}
Spans(p, g) ==
    {Ev(typ, q, NoG, NoG, 0) : typ \in EachP, q \in Proc}
    \cup {Ev(typ, p, NoG, NoG, 0) : typ \in {"ProcStart", "ProcStop", "GCStart", "GCDone"}}
    \cup {Ev("GoCreate", p, NoG, g, 0), Ev("GoSysExit", SyscallP, g, NoG, 0)}
    \cup {Ev(typ, p, g, NoG, 0) :
            typ \in {"GoWaiting", "GoInSyscall", "GoStart", "GoStartLabel", "GoEnd", "GoStop",
                     "UserLog", "GCMarkAssistStart", "GCMarkAssistDone", BadRegion}}
    \cup {Ev(typ, p, g, NoG, 1) : typ \in {"UserTaskCreate", "UserTaskEnd"}}
    \cup {Ev(typ, p, g, NoG, s) : typ \in {"UserRegionStart", "UserRegionEnd"}, s \in {1, 2}}

\* A trace is one of scheduling, or a shorter one of spans.
Occur(types) == \A k \in DOMAIN trace : trace[k].typ \in types
ScheduleTypes == {ev.typ : ev \in Scheduling}
Schedules ==
    Len(trace) < MaxTrace /\ Occur(ScheduleTypes) /\ \E ev \in Scheduling : Process(ev)
Brackets ==
    /\ Len(trace) < MaxTrace - 2
    /\ \E p \in Proc, g \in Goroutine :
        /\ Occur({ev.typ : ev \in Spans(p, g)})
        /\ \A k \in DOMAIN trace :
            /\ trace[k].p \in {p} \cup FakePs \/ trace[k].typ \in EachP
            /\ {trace[k].g, trace[k].arg} \subseteq {g, NoG}
        /\ \E ev \in Spans(p, g) : Process(ev)

KindSpec == Init /\ [][Schedules \/ Brackets \/ Finished]_post

Symmetry == Permutations(Goroutine) \cup Permutations(Proc)
=============================================================================
