--------------------------------- MODULE Goat ---------------------------------
(***************************************************************************)
(* What GOAT does with a trace: the goroutine tree and its deadlock check  *)
(* (src/traceops), and the database and its checker (src/db).  Both read   *)
(* the same ParseResult, event by event; here, side by side.               *)
(***************************************************************************)
EXTENDS GoatProgram

VARIABLES
    next,        \* the position of the next event; 0 while the program runs
    gmap, edges, main, tracer, treePanic,                             \* see GoroutineTree
    rows, grtns, localClock, chanClock, wgClock, mutexClock, cvClock, \* see Store
    msgs, links, storePanic

Tree == INSTANCE GoroutineTree WITH panicked <- treePanic
DB   == INSTANCE Store WITH panicked <- storePanic

\* Go's nil and the root's id, -1, are no goroutines; there are finitely many.
ASSUME GoatAssumption ==
    /\ Tree!nil \notin Tree!G /\ DB!Root \notin Tree!G
    /\ IsFiniteSet(Goroutine)

tree  == <<gmap, edges, main, tracer, treePanic>>
store == <<rows, grtns, localClock, chanClock, wgClock, mutexClock, cvClock, msgs, links, storePanic>>
gvars == <<program, next, tree, store>>

GoatInit == ProgramInit /\ next = 0 /\ Tree!TreeInit /\ DB!StoreInit

Run == next = 0 /\ Traced /\ UNCHANGED <<next, tree, store>>

\* The program stops the trace, or is killed.
Ends == next = 0 /\ Begun /\ next' = 1 /\ UNCHANGED <<program, tree, store>>

Panicked == treePanic \/ storePanic
Analyse ==
    /\ next \in DOMAIN trace /\ ~Panicked
    /\ Tree!GetGoroutineInfo(Parsed(next))
    /\ DB!Store(Parsed(next))
    /\ next' = next + 1
    /\ UNCHANGED program

Analysed == next > Len(trace) /\ ~Panicked
Reported == (Analysed \/ Panicked) /\ UNCHANGED gvars

GoatNext == Run \/ Ends \/ Analyse \/ Reported
GoatSpec == GoatInit /\ [][GoatNext]_gvars
-----------------------------------------------------------------------------
(***************************************************************************)
(* Properties                                                              *)
(***************************************************************************)
\* Neither analysis meets a goroutine it does not know, creates one twice,
\* finds main in an event that creates nothing (ginfo.go:118, 155, 158, 176),
\* or the end of a goroutine without a row (store.go:347).  What stops Store is
\* a goroutine that ends inside a region, since its end is linked twice
\* (store.go:220), and an event whose number has no name (util.go:35).
EndsInRegion ==
    \E r \in DOMAIN trace :
        trace[r].typ = "UserRegionStart" /\ trace[r].link # 0 /\ trace[trace[r].link].typ = "GoEnd"
Nameless == \E k \in DOMAIN trace : trace[k].typ \in DB!Unnamed
NoPanic ==
    /\ ~treePanic
    /\ storePanic => EndsInRegion \/ Nameless

\* Main is in a global deadlock unless it was main that stopped the trace: not
\* if it yielded, and not if goat.Watch did (deadlock_checker.go:55, 62).
GlobalVerdict ==
    Analysed => (Tree!GlobalDL <=> ~(Stopped /\ trace[Len(trace)].g = Main))

\* The leaked goroutines are those the program created and that still live when
\* the trace ends, goat.Watch among them (deadlock_checker.go:70).
LeaksLive ==
    Analysed => Tree!LeakedApp = {g \in Program : gs[g].known /\ gs[g].state # "gDead"}

\* The tree below main holds the application, and all of it (ginfo.go:66).
TreeHoldsApp == Analysed => Tree!GTree = Tree!App \cup {Main}

\* The database tells the same story, although it leaves out events: who is
\* main, and who the application; the same verdict; and the same leaked
\* goroutines, but for those that never ran (checker.go:96, 128).
VerdictsAgree ==
    Analysed =>
        /\ DB!main = main /\ DB!tracer = tracer /\ DB!app = Tree!App
        /\ DB!Checker.GlobalDL = Tree!DLReport.GlobalDL
        /\ DB!suspicious = {g \in Tree!LeakedApp : gmap[g].last # Tree!None}

\* The table of goroutines holds those of the tree, each once, with the same
\* parents, and an end exactly if it ended.
TablesAgree ==
    Analysed =>
        /\ Len(grtns) = Tree!DLReport.TotalG
        /\ \A k \in DOMAIN grtns :
            LET g == grtns[k].gid
            IN  /\ gmap[g].known
                /\ IF grtns[k].parent = DB!Root THEN \A e \in edges : e[2] # g
                   ELSE <<grtns[k].parent, g>> \in edges
                /\ grtns[k].ended # -1 <=> gmap[g].last.typ = "GoEnd"

\* A predecessor names one row, an earlier one: that of the event that links
\* here.  Where the linking event was stored, it is not missing (store.go:230).
Links(i, j)  == rows[i].link = rows[j].off /\ rows[i].typ \notin DB!CHNL \cup DB!MUTX \cup DB!WGCV
Precedes(i, j) == rows[j].pred = <<rows[i].g, rows[i].vc>>
Predecessors ==
    \A j \in DOMAIN rows :
        /\ rows[j].pred # DB!NULL =>
            /\ Cardinality({i \in DOMAIN rows : Precedes(i, j)}) = 1
            /\ \A i \in DOMAIN rows : Precedes(i, j) =>
                i < j /\ (Links(i, j) \/ (rows[i].typ = "ChSend" /\ rows[i].rid = rows[j].rid))
        /\ \A i \in DOMAIN rows : Links(i, j) => Precedes(i, j)

\* "Verbatim copy from src/runtime/trace.go" (src/db/constants.go:4): what is
\* stored has the name the parser gave it.
NamesKept == \A k \in DOMAIN rows : rows[k].typ = trace[rows[k].off].typ
=============================================================================
