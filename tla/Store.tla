-------------------------------- MODULE Store --------------------------------
(***************************************************************************)
(* Store of src/db/store.go: one pass over the events of a ParseResult     *)
(* that gives them logical clocks and predecessors and writes them into    *)
(* the tables Events and Goroutines; and the queries of src/db/util.go and *)
(* src/db/checker.go over these tables.  A table is a sequence of rows in  *)
(* the order of insertion.                                                 *)
(***************************************************************************)
EXTENDS TraceEvents, FiniteSets

CONSTANT Resources   \* the ids of channels, mutexes, wait groups, ...

VARIABLES
    rows,       \* Events
    grtns,      \* Goroutines
    localClock, chanClock, wgClock, mutexClock, cvClock,
    msgs,       \* per message, its first send
    links,      \* per linked event, the event that links to it
    panicked

tables == <<rows, grtns, localClock, chanClock, wgClock, mutexClock, cvClock, msgs, links>>

Seqs == INSTANCE SequencesExt

NULL == <<>>

StoreInit ==
    /\ rows = <<>> /\ grtns = <<>>
    /\ localClock = [g \in Goroutine \cup {NoG} |-> 0]
    /\ chanClock = [r \in Resources |-> 0] /\ wgClock = chanClock
    /\ mutexClock = chanClock /\ cvClock = chanClock
    /\ msgs = NULL /\ links = NULL
    /\ panicked = FALSE
-----------------------------------------------------------------------------
\* Events have numbers, and EventDescriptions of src/db/constants.go names
\* GOAT's differently from the parser that numbered them.  It ends at 60.
StoredAs(typ) ==
    CASE typ = "ChMake"    -> "ChSend"
      [] typ = "ChSend"    -> "ChRecv"
      [] typ = "ChRecv"    -> "ChMake"
      [] typ = "MuLock"    -> "WgAdd"
      [] typ = "MuUnlock"  -> "WgWait"
      [] typ = "MuRLock"   -> "MuLock"
      [] typ = "MuRUnlock" -> "MuUnlock"
      [] typ = "WgAdd"     -> "Select"
      [] typ = "WgWait"    -> "Sched"
      [] OTHER             -> typ
Unnamed == {"Select", "Selecti", "Sched"}

CHNL == {"ChSend", "ChRecv", "ChMake", "ChClose"}
MUTX == {"MuLock", "MuUnlock"}
WGCV == {"WgAdd", "WgWait", "CvWait", "CvSig"}
Cv   == {"CvWait", "CvSig"}

GoatFns == {"goat.Start", "goat.Watch", "goat.Stop", "goat.Sched_Handler"}
Has(stk, fns) == \E i \in DOMAIN stk : stk[i] \in fns

\* Bug: GoSched is not an exception.
storeIgnoreSched(ev) == StoredAs(ev.typ) \notin {"GoCreate", "GoStart"} /\ Has(ev.stk, GoatFns)

\* What goat's own functions do is left out, but for what the verdict needs.
storeIgnore(ev) == StoredAs(ev.typ) \notin {"GoSched", "GoCreate", "GoStart"} /\ Has(ev.stk, GoatFns)

\* {cid, eid, val}
Message(ev) == <<ev.args[1], ev.args[2], ev.args[3]>>
Blocked(ev) == ev.args[4] = 0

\* Bug: the predecessor's clock is that before it.
PredecessorBefore(ev) == <<ev.g, localClock[ev.g]>>

Predecessor(ev) == <<ev.g, localClock[ev.g] + 1>>
Entered(map, key, value) ==
    [k \in DOMAIN map \cup {key} |-> IF k \in DOMAIN map THEN map[k] ELSE value]
Sent(ev) == Entered(msgs, Message(ev), Predecessor(ev))

\* Resource clocks: one more for every event of the resource, but not for a
\* send or receive that blocks.
Ticks(ev, as, kinds) == [r \in Resources |-> IF as \in kinds /\ r = ev.args[1] THEN 1 ELSE 0]
Advance(clock, ticks) == [r \in Resources |-> clock[r] + ticks[r]]

IsLink(ev, as) == as \notin CHNL \cup MUTX \cup WGCV /\ ev.link # 0

\* The clock stored with an event: none for mutexes, and for condition
\* variables that of a wait group with the same id.
Clock(ev, as) == CASE as \in CHNL -> chanClock'[ev.args[1]]
                   [] as \in WGCV -> wgClock'[ev.args[1]]
                   [] OTHER       -> NULL

Kind(as) == CASE as \in MUTX -> "M" [] as \in CHNL -> "C" [] as \in Cv -> "CV" [] OTHER -> "W"

\* Whoever links to an event precedes it, else the send of what it receives.
PredOf(ev, as) ==
    CASE ev.off \in DOMAIN links                           -> links[ev.off]
      [] ev.off \notin DOMAIN links /\ as = "ChRecv" /\ Message(ev) \in DOMAIN msgs -> msgs[Message(ev)]
      [] OTHER                                             -> NULL
Rid(ev, as) ==
    CASE ev.off \in DOMAIN links -> <<"G", ev.args[1]>>
      [] ev.off \notin DOMAIN links /\ as \in CHNL \cup MUTX \cup WGCV -> <<Kind(as), ev.args[1]>>
      [] OTHER -> NULL

Row(ev, as) ==
    [off |-> ev.off, typ |-> as, vc |-> localClock'[ev.g], g |-> ev.g, link |-> ev.link,
     pred |-> PredOf(ev, as), rid |-> Rid(ev, as), rclock |-> Clock(ev, as), stk |-> ev.stk]
-----------------------------------------------------------------------------
Grtn(gid, parent, stk) == [gid |-> gid, parent |-> parent, create |-> stk, ended |-> -1]
Stored(g) == \E k \in DOMAIN grtns : grtns[k].gid = g

\* A creator without a row gets one, with the stack of the creation.
Root == -1
Creator(ev) == IF Stored(ev.g) THEN <<>> ELSE <<Grtn(ev.g, Root, ev.stk)>>

\* Bug: every goroutine is a child of the root.
GoroutinesRooted(ev) == grtns \o Creator(ev) \o <<Grtn(ev.arg, Root, ev.stk)>>

Goroutines(ev) == grtns \o Creator(ev) \o <<Grtn(ev.arg, ev.g, ev.stk)>>
Ended(ev) == [k \in DOMAIN grtns |-> IF grtns[k].gid = ev.g THEN [grtns[k] EXCEPT !.ended = Len(rows')]
                                     ELSE grtns[k]]

LinkedTwice(ev) == IsLink(ev, StoredAs(ev.typ)) /\ ev.link \in DOMAIN links
EndsUnknown(ev) == ev.typ = "GoEnd" /\ ~Stored(ev.g)

\* An event without a name, or linked to what is linked already, or the end of
\* a goroutine without a row.  What a panic leaves in the tables is not looked at.
Panics(ev) == ev.typ \in Unnamed \/ (~storeIgnore(ev) /\ (LinkedTwice(ev) \/ EndsUnknown(ev)))

Insert(ev) ==
    LET as == StoredAs(ev.typ)
    IN  /\ localClock' = [localClock EXCEPT ![ev.g] = @ + 1]
        /\ mutexClock' = Advance(mutexClock, Ticks(ev, as, MUTX))
        /\ chanClock' = Advance(chanClock,
                Ticks(ev, as, IF Blocked(ev) THEN {"ChMake", "ChClose"} ELSE CHNL))
        /\ cvClock' = Advance(cvClock, Ticks(ev, as, Cv))
        /\ wgClock' = Advance(wgClock, Ticks(ev, as, WGCV \ Cv))
        /\ msgs' = IF as = "ChSend" THEN Sent(ev) ELSE msgs
        /\ links' = IF IsLink(ev, as) THEN Entered(links, ev.link, Predecessor(ev)) ELSE links
        /\ rows' = Append(rows, Row(ev, as))
        /\ grtns' = CASE as = "GoCreate" -> Goroutines(ev)
                      [] as = "GoEnd"    -> Ended(ev)
                      [] OTHER           -> grtns

Store(ev) ==
    /\ panicked' = Panics(ev)
    /\ IF Panics(ev) \/ storeIgnore(ev) THEN UNCHANGED tables ELSE Insert(ev)
-----------------------------------------------------------------------------
\* GetGoroutineInfo of src/db/util.go: rows whose creation stack has frames.
Created  == {k \in DOMAIN grtns : grtns[k].gid # NoG /\ grtns[k].create # <<>>}
IsTracer == {k \in Created : Has(grtns[k].create, {"runtime/trace.Start", "runtime/trace.Start.func1"})}
First(S) == CHOOSE k \in S : \A l \in S : k <= l
tracer   == grtns[First(IsTracer)].gid
main     == grtns[First(IsTracer)].parent
app      == {grtns[k].gid : k \in {l \in Created : ~Has(grtns[l].create, {"goat.Start"})}}

\* SELECT type, stack_id FROM Events WHERE g=? ORDER BY id DESC LIMIT 1
LastOf(g) == {k \in DOMAIN rows : rows[k].g = g /\ \A l \in DOMAIN rows : rows[l].g = g => l <= k}

\* Checker: a main goroutine without events passes, and so does one whose last
\* event is a GoSched without a stack.
isGlobalDL ==
    \E k \in LastOf(main) :
        \/ rows[k].typ # "GoSched"
        \/ rows[k].stk # <<>> /\ rows[k].stk[1] # "runtime.StopTrace"
suspicious == {g \in app : \E k \in LastOf(g) : rows[k].typ # "GoEnd"}

\* rid like "C%": condition variables count as channels.
totalch == Cardinality({rows[k].rid : k \in {l \in DOMAIN rows : rows[l].rid # NULL
                                                  /\ rows[l].rid[1] \in {"C", "CV"}}})

Checker == [GlobalDL |-> isGlobalDL, Leaked |-> IF isGlobalDL THEN 0 ELSE Cardinality(suspicious),
            TotalG |-> Cardinality(app) + 1, TotalCh |-> totalch]
=============================================================================
