---------------------------- MODULE GoroutineTree ----------------------------
(***************************************************************************)
(* GetGoroutineInfo and GetGTree of src/traceops/ginfo.go, and the verdict *)
(* DeadlockChecker (src/traceops/deadlock_checker.go) draws from them.     *)
(* Events come one by one; of the events kept per goroutine only the last  *)
(* one is ever looked at.                                                  *)
(***************************************************************************)
EXTENDS TraceEvents, FiniteSets

VARIABLES
    gmap,      \* per goroutine, its GInfo
    edges,     \* who created whom
    main,      \* GoroutineInfo.Main
    tracer,    \* GoroutineInfo.Trace
    panicked

tree == <<gmap, edges, main, tracer, panicked>>

G    == Goroutine \cup {NoG}
nil  == "nil"
None == [typ |-> "None", stk |-> <<>>]

\* known: the map has an entry.
noInfo == [known |-> FALSE, parent |-> NoG, create |-> <<>>, last |-> None]

TreeInit ==
    /\ gmap = [g \in G |-> noInfo]
    /\ edges = {}
    /\ main = nil /\ tracer = nil
    /\ panicked = FALSE

\* Tests for prefixes of function names: strings.HasPrefix(frm.Fn, ...).
TraceStart == {"runtime/trace.Start", "runtime/trace.Start.func1"}
GoatStart  == {"goat.Start"}

\* The creation of the trace reader shows who it is, and who main is.
FindsTracer(ev) == tracer = nil /\ ev.stk # <<>> /\ ev.stk[1] \in TraceStart

\* An event of an unknown goroutine must be a creation, one of a known child
\* must not.
Panics(ev) ==
    \/ ev.typ = "GoCreate" /\ gmap[ev.arg].known
    \/ ev.typ # "GoCreate" /\ (~gmap[ev.g].known \/ FindsTracer(ev))

\* Bugs: a creator is not entered; the edge points the other way.
CreatesOnly(ev) == gmap[ev.g]
EdgeBack(ev)    == <<ev.arg, ev.g>>

\* Who creates is known already, or becomes a root without events.
Creates(ev) == [gmap[ev.g] EXCEPT !.known = TRUE, !.last = IF gmap[ev.g].known THEN ev ELSE @]
Child(ev)   == [noInfo EXCEPT !.known = TRUE, !.parent = ev.g, !.create = ev.stk]
Edge(ev)    == <<ev.g, ev.arg>>

GetGoroutineInfo(ev) ==
    /\ panicked' = Panics(ev)
    /\ IF Panics(ev) THEN UNCHANGED <<gmap, edges>>
       ELSE IF ev.typ = "GoCreate"
       THEN /\ gmap' = [gmap EXCEPT ![ev.g] = Creates(ev), ![ev.arg] = Child(ev)]
            /\ edges' = edges \cup {Edge(ev)}
       ELSE gmap' = [gmap EXCEPT ![ev.g].last = ev] /\ UNCHANGED edges
    /\ IF FindsTracer(ev) THEN tracer' = ev.arg /\ main' = ev.g ELSE UNCHANGED <<main, tracer>>
-----------------------------------------------------------------------------
Has(stk, fns) == \E i \in DOMAIN stk : stk[i] \in fns

\* Bug: what goat.Start leads to is the application, too.
AppAll == {g \in G : gmap[g].known /\ gmap[g].create # <<>>}

\* What has a creation stack that does not lead through goat.Start.
App == {g \in G : gmap[g].known /\ gmap[g].create # <<>> /\ ~Has(gmap[g].create, GoatStart)}

\* The nodes GetGTree reaches from main, breadth first.
Children(g) == {c \in App : <<g, c>> \in edges}
GTree ==
    LET Visited[d \in 0..Cardinality(G)] ==
            IF d = 0 THEN {main}
            ELSE Visited[d - 1] \cup UNION {Children(g) : g \in Visited[d - 1]}
    IN  Visited[Cardinality(G)]

\* Bug: any GoSched will do.
StoppedAnyhow(ev) == ev.typ = "GoSched"

\* DeadlockChecker: main was the one to stop the trace.
Stopped(ev) == ev.typ = "GoSched" /\ ev.stk[1] = "runtime.StopTrace"

GlobalDL   == gmap[main].last = None \/ ~Stopped(gmap[main].last)
LeakedApp  == {g \in App : gmap[g].last.typ # "GoEnd"}
Leaked     == LeakedApp \cup IF GlobalDL THEN {main} ELSE {}
DLReport   == [GlobalDL |-> GlobalDL, Leaked |-> Cardinality(Leaked),
               TotalG |-> Cardinality({g \in G : gmap[g].known})]
=============================================================================
