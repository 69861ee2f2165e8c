----------------------------- MODULE ParseProofs -----------------------------
(***************************************************************************)
(* However the runtime's batches are cut up and mixed in the file, what    *)
(* parseEvents reads back of a P is what was written on it, event for      *)
(* event, with its goroutine and its time; and only a complete file is     *)
(* accepted.                                                               *)
(*                                                                         *)
(* The argument: which goroutine a P runs after its first i events follows *)
(* from these events alone, as the parser computes it, and the goroutine   *)
(* of the next event follows from that.  So there is, for every P, a       *)
(* history of the goroutines it ran, and the parser's lastG and lastGs are *)
(* entries of these histories: those at the positions it has reached.      *)
(***************************************************************************)
EXTENDS ParseEvents, TracerProofs

G == Goroutine \cup {NoG}

\* Whom an event belongs to, and whom the P runs afterwards, if it ran h: the
\* parser's rules, without its variables.
Owns(r, h) ==
    CASE r.typ \in StartTypes \cup SnapTypes \cup {"GoStartLocal", "GoSysExit"} -> r.arg
      [] r.typ \in {"GCStart", "GCDone", "GCSTWStart", "GCSTWDone"} -> NoG
      [] OTHER -> h

RunsThen(r, h) ==
    CASE r.typ \in StartTypes \cup {"GoStartLocal"} -> r.arg
      [] r.typ \in LeaveTypes                       -> NoG
      [] OTHER                                      -> h

\* The runtime obeys them.
Written(e) ==
    /\ e \in Event /\ Emit(e)
    /\ e.g = Owns(e, cur[e.p])
    /\ cur' = [cur EXCEPT ![e.p] = RunsThen(e, cur[e.p])]

\* A P that does not run, runs no goroutine.
Idle ==
    /\ \A p \in Proc : starting \/ p \notin on => cur[p] = NoG
    /\ n = 0 => \A p \in Proc : batch[p] = <<>>
-----------------------------------------------------------------------------
(***************************************************************************)
(* The inductive invariant                                                 *)
(***************************************************************************)
Histories == [Proc -> [Nat -> G]]

\* run[p][i]: what p runs after its first i events.
History(run) ==
    \A p \in Proc :
        /\ run[p][0] = NoG /\ run[p][Len(batch[p])] = cur[p]
        /\ \A i \in 1..Len(batch[p]) :
             LET e == batch[p][i]
             IN  e.p = p /\ e.g = Owns(e, run[p][i - 1]) /\ run[p][i] = RunsThen(e, run[p][i - 1])

\* The parser knows what every P runs where it has got to.
Resumes(run) ==
    /\ lastG = run[lastP][Len(batches[lastP])]
    /\ \A p \in Proc \ {lastP} : lastGs[p] = run[p][Len(batches[p])]

\* An event as the parser reads it.
AsRead(e) == [e EXCEPT !.arg = IF e.typ \in Naming THEN e.arg ELSE NoG]

Faithful ==
    \A p \in Proc :
        /\ Len(batches[p]) <= flushed[p] /\ flushed[p] <= Len(batch[p])
        /\ \A i \in 1..Len(batches[p]) : batches[p][i] = AsRead(batch[p][i])

\* Events k1 + 1 to k2 of a P in the file, the first one's time relative to ts.
Records(evs, k1, k2, ts) ==
    [i \in 1..(k2 - k1) |-> EventRecord(evs[k1 + i], IF i = 1 THEN ts ELSE evs[k1 + i - 1].ts)]

UpToDate(p) == Len(batches[p]) = flushed[p]

\* What was flushed and not read: at most one batch, with or without its header.
Unread ==
    \/ unread = <<>> /\ \A p \in Proc : UpToDate(p)
    \/ footer /\ (\A p \in Proc : UpToDate(p))
       /\ ((\E v \in Frequencies : unread = <<Frequency(v)>>) \/ \E g \in Timers : unread = <<TimerRecord(g)>>)
    \/ ~footer /\ \E p \in Proc, ts \in Nat :
         /\ unread = <<BatchRecord(p, ts)>> \o Records(batch[p], Len(batches[p]), flushed[p], ts)
         /\ \A q \in Proc \ {p} : UpToDate(q)
    \/ ~footer /\ unread = Records(batch[lastP], Len(batches[lastP]), flushed[lastP], lastTs)
       /\ \A q \in Proc \ {lastP} : UpToDate(q)

\* What is known once the footer is written, and once it is read.
Finished ==
    /\ footer => \A p \in Proc : flushed[p] = Len(batch[p])
    /\ ticksPerSec # 0 => footer
    /\ stage = "parsed" => ticksPerSec # 0 /\ \E p \in Proc : batches[p] # <<>>

\* Nothing is flushed before tracing stops.
Waits ==
    stage = "trace" => /\ unread = <<>> /\ ~footer
                       /\ \A p \in Proc : batches[p] = <<>> /\ flushed[p] = 0

ParseTypeOK ==
    /\ TracerTypeOK
    /\ flushed \in [Proc -> Nat] /\ footer \in BOOLEAN
    /\ lastG \in G /\ lastP \in Proc /\ lastTs \in Int /\ lastGs \in [Proc -> G]
    /\ ticksPerSec \in Nat
    /\ batches \in [Proc -> Seq(Event)]

ParseInv ==
    /\ ParseTypeOK /\ Idle
    /\ \E run \in Histories : History(run) /\ Resumes(run)
    /\ Faithful /\ Unread /\ Finished /\ Waits
-----------------------------------------------------------------------------
(***************************************************************************)
(* What the runtime writes                                                 *)
(***************************************************************************)
USE DEF gState

Writes == TracerTypeOK' /\ Idle' /\ \E e \in Event : Written(e)

\* Every action emits one event, and keeps the types; what remains to be said
\* of it is whose event it is and whom its P runs then.
LEMMA EventWrites ==
    ASSUME TracerTypeOK, Idle, NEW e \in Event, Emit(e),
           e.g = Owns(e, cur[e.p]), cur' = [cur EXCEPT ![e.p] = RunsThen(e, cur[e.p])],
           RunsThen(e, cur[e.p]) \in G,
           starting' \/ e.p \notin on' => RunsThen(e, cur[e.p]) = NoG,
           \A q \in on \ on' : cur[q] = NoG,
           rg' = rg \/ \E c \in Chain : rg' = [rg EXCEPT ![c] = e.post],
           lastp' = lastp \/ \E g \in Goroutine : lastp' = [lastp EXCEPT ![g] = e.p],
           blockTs' = blockTs \/ \E g \in Goroutine : blockTs' = [blockTs EXCEPT ![g] = e.ts],
           mode' \in [Goroutine -> Modes], on' \subseteq Proc, starting' \in BOOLEAN,
           starting' => starting
    PROVE  Writes
<1>1. e.p \in Proc /\ e.post \in GState /\ e.ts \in Nat
  BY DEF Event
<1>2. TracerTypeOK'
  <2>1. rg' \in [Chain -> GState] /\ lastp' \in [Goroutine -> Proc] /\ blockTs' \in [Goroutine -> Nat]
    BY <1>1 DEF TracerTypeOK
  <2>2. cur' \in [Proc -> Goroutine \cup {NoG}]
    BY <1>1 DEF TracerTypeOK, G
  <2> QED BY <2>1, <2>2, EmitTyped DEF TracerTypeOK
<1>3. Idle'
  <2>1. n' = n + 1 /\ n \in Nat
    BY DEF Emit, TracerTypeOK
  <2>2. ASSUME NEW q \in Proc, starting' \/ q \notin on' PROVE cur'[q] = NoG
    BY <1>1, <2>2 DEF Idle, TracerTypeOK
  <2> QED BY <2>1, <2>2 DEF Idle
<1>4. Written(e)
  BY DEF Written
<1> QED BY <1>2, <1>3, <1>4 DEF Writes

\* Events that move no chain, on behalf of the goroutine that runs, if any.
LEMMA PlainWrites ==
    ASSUME TracerTypeOK, Idle, NEW p \in Proc, NEW t \in Nat, NEW typ \in PlainTypes \cup EndTypes,
           NEW g \in G, Emit(Plain(typ, p, t, g)),
           g = IF typ \in {"GCDone", "GCSTWStart", "GCSTWDone"} THEN NoG ELSE cur[p],
           cur' = IF typ \in EndTypes THEN [cur EXCEPT ![p] = NoG] ELSE cur,
           starting' \/ p \notin on' => cur[p] = NoG,
           \A q \in on \ on' : cur[q] = NoG,
           UNCHANGED <<rg, lastp, blockTs>>,
           mode' \in [Goroutine -> Modes], on' \subseteq Proc, starting' \in BOOLEAN,
           starting' => starting
    PROVE  Writes
<1> DEFINE e == Plain(typ, p, t, g)
<1>1. typ \in EventTypes
  BY DEF EventTypes, LeaveTypes
<1>2. e \in Event
  BY <1>1, PlainTyped DEF G
<1>3. e.typ = typ /\ e.p = p /\ e.g = g /\ Emit(e)
  BY DEF Plain
<1>4. cur[p] \in G /\ NoG \in G /\ cur = [cur EXCEPT ![p] = cur[p]]
  BY DEF TracerTypeOK, G
<1>5. /\ Owns(e, cur[p]) = IF typ \in {"GCDone", "GCSTWStart", "GCSTWDone"} THEN NoG ELSE cur[p]
      /\ RunsThen(e, cur[p]) = IF typ \in EndTypes THEN NoG ELSE cur[p]
  <2> HIDE DEF e
  <2> QED BY <1>3 DEF Owns, RunsThen, PlainTypes, EndTypes, StartTypes, SnapTypes, LeaveTypes,
                     ParkTypes, YieldTypes
<1> HIDE DEF e
<1>6. cur' = [cur EXCEPT ![p] = RunsThen(e, cur[p])] /\ RunsThen(e, cur[p]) \in G
  BY <1>4, <1>5
<1> QED BY <1>2, <1>3, <1>5, <1>6, EventWrites

\* Events that move a chain.
LEMMA MovingWrites ==
    ASSUME TracerTypeOK, Idle, NEW p \in Proc, NEW t \in Nat, NEW typ \in EventTypes,
           NEW g \in G, NEW c \in Chain, NEW d \in Nat, NEW status \in gStatus,
           NEW r \in Nat,
           Emit([Moving(typ, p, t, g, c, d, status) EXCEPT !.real = r]),
           rg' = [rg EXCEPT ![c] = Moving(typ, p, t, g, c, d, status).post],
           \/ /\ typ \in {"GoStart", "GoStartLocal"} /\ g = c /\ c \in Goroutine
              /\ cur' = [cur EXCEPT ![p] = c] /\ ~starting /\ p \in on
           \/ typ \in SnapTypes \cup {"GoSysExit"} /\ g = c /\ c \in Goroutine /\ cur' = cur
           \/ typ = "GoSysExitLocal" /\ g = cur[p] /\ cur' = cur
           \/ typ = "GCStart" /\ g = NoG /\ cur' = cur
           \/ typ \in {"GoCreate", "GoUnblock", "GoUnblockLocal"} /\ g = cur[p] /\ cur' = cur
           \/ /\ typ \in LeaveTypes /\ g = cur[p]
              /\ cur' = [cur EXCEPT ![p] = NoG],
           lastp' = lastp \/ \E h \in Goroutine : lastp' = [lastp EXCEPT ![h] = p],
           blockTs' = blockTs \/ \E h \in Goroutine : blockTs' = [blockTs EXCEPT ![h] = t],
           mode' \in [Goroutine -> Modes], UNCHANGED <<on, starting>>
    PROVE  Writes
<1> DEFINE m == Moving(typ, p, t, g, c, d, status)
           e == [m EXCEPT !.real = r]
<1>1. m \in Event
  BY MovingTyped DEF G
<1>2. e \in Event
  BY <1>1 DEF Event
<1>3. e.typ = typ /\ e.p = p /\ e.g = g /\ e.ts = t /\ (c \in Goroutine => e.arg = c)
      /\ e.post = m.post /\ Emit(e)
  BY Sentinels DEF Moving
<1>4. rg' = [rg EXCEPT ![c] = e.post]
  BY <1>3
<1> HIDE DEF m, e
<1>5. cur[p] \in G /\ NoG \in G /\ Goroutine \subseteq G /\ cur = [cur EXCEPT ![p] = cur[p]]
  BY DEF TracerTypeOK, G
<1>6. e.g = Owns(e, cur[p])
  BY <1>3 DEF Owns, SnapTypes, StartTypes, LeaveTypes, ParkTypes, YieldTypes, EndTypes
<1>7. RunsThen(e, cur[p]) = IF typ \in {"GoStart", "GoStartLocal"} THEN c
                            ELSE IF typ \in LeaveTypes THEN NoG ELSE cur[p]
  BY <1>3 DEF RunsThen, SnapTypes, StartTypes, LeaveTypes, ParkTypes, YieldTypes, EndTypes
<1>8. cur' = [cur EXCEPT ![p] = RunsThen(e, cur[p])] /\ RunsThen(e, cur[p]) \in G
  BY <1>5, <1>7 DEF SnapTypes, StartTypes, LeaveTypes, ParkTypes, YieldTypes, EndTypes
<1>9. starting \/ p \notin on => RunsThen(e, cur[p]) = NoG
  <2>1. starting \/ p \notin on => cur[p] = NoG
    BY DEF Idle
  <2>2. typ \in {"GoStart", "GoStartLocal"} => ~starting /\ p \in on
    BY DEF SnapTypes, LeaveTypes, ParkTypes, YieldTypes, EndTypes
  <2> QED BY <2>1, <2>2, <1>7
<1>10. on \subseteq Proc /\ starting \in BOOLEAN
  BY DEF TracerTypeOK
<1> QED BY <1>2, <1>3, <1>4, <1>6, <1>8, <1>9, <1>10, EventWrites

\* Only syscall exits carry a second timestamp.
LEMMA NotReal ==
    ASSUME NEW typ, NEW p, NEW t, NEW g, NEW c, NEW d, NEW status
    PROVE  [Moving(typ, p, t, g, c, d, status) EXCEPT !.real = 0] = Moving(typ, p, t, g, c, d, status)
BY DEF Moving

LEMMA SnapWrites ==
    ASSUME TracerTypeOK, Idle, NEW t \in Nat, NEW g \in Goroutine,
           SnapCreate(g, t) \/ \E typ \in SnapTypes : SnapBlocked(g, typ, t)
    PROVE  Writes
<1>0. Boot \in Proc /\ g \in Chain /\ g \in G /\ NoG \in G /\ mode \in [Goroutine -> Modes]
  BY TracerAssumption DEF Chain, G, TracerTypeOK
<1>1. CASE SnapCreate(g, t)
  <2>1. /\ Emit(Moving("GoCreate", Boot, t, NoG, g, 1, "gRunnable")) /\ starting
        /\ rg' = [rg EXCEPT ![g] = Moving("GoCreate", Boot, t, NoG, g, 1, "gRunnable").post]
        /\ mode' \in [Goroutine -> Modes]
        /\ UNCHANGED <<lastp, cur, blockTs, on, starting>>
    BY <1>1, <1>0 DEF SnapCreate, Modes
  <2>2. cur[Boot] = NoG
    BY <2>1, <1>0 DEF Idle
  <2>3. "GoCreate" \in EventTypes /\ "gRunnable" \in gStatus /\ 0 \in Nat /\ 1 \in Nat
    BY DEF EventTypes, gStatus
  <2>4. Emit([Moving("GoCreate", Boot, t, NoG, g, 1, "gRunnable") EXCEPT !.real = 0])
    BY <2>1, NotReal
  <2> QED BY <1>0, <2>1, <2>2, <2>3, <2>4, MovingWrites
<1>2. ASSUME NEW typ \in SnapTypes, SnapBlocked(g, typ, t) PROVE Writes
  <2>1. /\ Emit(Moving(typ, Boot, t, g, g, 1, "gWaiting"))
        /\ rg' = [rg EXCEPT ![g] = Moving(typ, Boot, t, g, g, 1, "gWaiting").post]
        /\ mode' \in [Goroutine -> Modes] /\ blockTs' = [blockTs EXCEPT ![g] = t]
        /\ UNCHANGED <<lastp, cur, on, starting>>
    BY <1>2, <1>0 DEF SnapBlocked, Modes
  <2>2. typ \in EventTypes /\ "gWaiting" \in gStatus /\ 0 \in Nat /\ 1 \in Nat
    BY DEF EventTypes, gStatus
  <2>3. Emit([Moving(typ, Boot, t, g, g, 1, "gWaiting") EXCEPT !.real = 0])
    BY <2>1, NotReal
  <2> QED BY <1>0, <2>1, <2>2, <2>3, MovingWrites
<1> QED BY <1>1, <1>2

LEMMA HandoverWrites ==
    ASSUME TracerTypeOK, Idle, NEW p \in Proc, NEW t \in Nat, NEW g \in Goroutine,
           GoCreate(p, g, t) \/ GoStart(p, g, t) \/ GoUnblock(p, g, t)
    PROVE  Writes
<1>0. /\ g \in Chain /\ g \in G /\ NoG \in G /\ cur[p] \in G /\ mode \in [Goroutine -> Modes]
      /\ 0 \in Nat /\ 1 \in Nat /\ {"gRunnable", "gRunning"} \subseteq gStatus
  BY DEF Chain, G, TracerTypeOK, gStatus
<1>1. {"GoCreate", "GoStart", "GoStartLocal", "GoUnblock", "GoUnblockLocal"} \subseteq EventTypes
  BY DEF EventTypes, StartTypes, LocalTypes
<1>2. CASE GoCreate(p, g, t)
  <2>1. /\ Emit(Moving("GoCreate", p, t, cur[p], g, 1, "gRunnable"))
        /\ rg' = [rg EXCEPT ![g] = Moving("GoCreate", p, t, cur[p], g, 1, "gRunnable").post]
        /\ lastp' = [lastp EXCEPT ![g] = p] /\ Busy(p)
        /\ UNCHANGED <<cur, blockTs, on, starting>>
    BY <1>2 DEF GoCreate
  <2>2. Emit([Moving("GoCreate", p, t, cur[p], g, 1, "gRunnable") EXCEPT !.real = 0])
    BY <2>1, NotReal
  <2>3. mode' \in [Goroutine -> Modes]
    BY <1>0, <2>1 DEF Busy, Modes
  <2> QED BY <1>0, <1>1, <2>1, <2>2, <2>3, MovingWrites
<1>3. CASE GoStart(p, g, t)
  <2> DEFINE typ == IF lastp[g] = p THEN "GoStartLocal" ELSE "GoStart"
  <2>1. /\ Emit(Moving(typ, p, t, g, g, 1, "gRunning"))
        /\ rg' = [rg EXCEPT ![g] = Moving(typ, p, t, g, g, 1, "gRunning").post]
        /\ lastp' = [lastp EXCEPT ![g] = p] /\ cur' = [cur EXCEPT ![p] = g]
        /\ ~starting /\ p \in on /\ UNCHANGED <<mode, blockTs, on, starting>>
    BY <1>3 DEF GoStart, Traced
  <2>2. Emit([Moving(typ, p, t, g, g, 1, "gRunning") EXCEPT !.real = 0])
    BY <2>1, NotReal
  <2>3. typ \in {"GoStart", "GoStartLocal"} /\ typ \in EventTypes
    BY <1>1
  <2> HIDE DEF typ
  <2> QED BY <1>0, <2>1, <2>2, <2>3, MovingWrites
<1>4. CASE GoUnblock(p, g, t)
  <2> DEFINE typ == IF lastp[g] = p THEN "GoUnblockLocal" ELSE "GoUnblock"
  <2>1. /\ Emit(Moving(typ, p, t, cur[p], g, 1, "gRunnable"))
        /\ rg' = [rg EXCEPT ![g] = Moving(typ, p, t, cur[p], g, 1, "gRunnable").post]
        /\ lastp' = [lastp EXCEPT ![g] = p]
        /\ mode' = [h \in Goroutine |-> IF h = g THEN "wakeup"
                                        ELSE IF h = cur[p] THEN "user" ELSE mode[h]]
        /\ UNCHANGED <<cur, blockTs, on, starting>>
    BY <1>4 DEF GoUnblock
  <2>2. Emit([Moving(typ, p, t, cur[p], g, 1, "gRunnable") EXCEPT !.real = 0])
    BY <2>1, NotReal
  <2>3. typ \in {"GoUnblock", "GoUnblockLocal"} /\ typ \in EventTypes
    BY <1>1
  <2>4. mode' \in [Goroutine -> Modes]
    BY <1>0, <2>1 DEF Modes
  <2> HIDE DEF typ
  <2> QED BY <1>0, <2>1, <2>2, <2>3, <2>4, MovingWrites
<1> QED BY <1>2, <1>3, <1>4

LEMMA ExitWrites ==
    ASSUME TracerTypeOK, Idle, NEW p \in Proc, NEW t \in Nat, NEW g \in Goroutine,
           NEW r \in Past, GoSysExit(p, g, r, t)
    PROVE  Writes
<1> DEFINE local == LocalExits /\ lastp[g] = p
           typ   == IF local THEN "GoSysExitLocal" ELSE "GoSysExit"
           by    == IF local THEN NoG ELSE g
           real  == IF local THEN 0 ELSE r
<1>0. /\ g \in Chain /\ by \in G /\ mode \in [Goroutine -> Modes] /\ 1 \in Nat
      /\ "gRunnable" \in gStatus /\ typ \in EventTypes
  BY DEF Chain, G, TracerTypeOK, gStatus, EventTypes, LocalTypes
<1>1. real \in Nat
  BY TracerAssumption DEF Past, TracerTypeOK
<1>2. /\ Emit([Moving(typ, p, t, by, g, 1, "gRunnable") EXCEPT !.real = real])
      /\ rg' = [rg EXCEPT ![g] = Moving(typ, p, t, by, g, 1, "gRunnable").post]
      /\ lastp' = [lastp EXCEPT ![g] = p] /\ mode' = [mode EXCEPT ![g] = "user"]
      /\ cur[p] = NoG /\ UNCHANGED <<cur, blockTs, on, starting>>
  BY DEF GoSysExit, Moving
<1>3. mode' \in [Goroutine -> Modes]
  BY <1>0, <1>2 DEF Modes
<1>4. (typ = "GoSysExit" /\ by = g) \/ (typ = "GoSysExitLocal" /\ by = NoG)
  OBVIOUS
<1> HIDE DEF typ, by, real
<1> QED BY <1>0, <1>1, <1>2, <1>3, <1>4, MovingWrites

LEMMA LeaveWrites ==
    ASSUME TracerTypeOK, Idle, NEW p \in Proc, NEW t \in Nat,
           \/ \E typ \in ParkTypes : GoPark(p, typ, t)
           \/ \E typ \in YieldTypes : GoYield(p, typ, t)
           \/ GoSysBlock(p, t)
    PROVE  Writes
<1>0. /\ cur[p] \in G /\ mode \in [Goroutine -> Modes] /\ 0 \in Nat
      /\ {"gRunnable", "gWaiting"} \subseteq gStatus /\ LeaveTypes \subseteq EventTypes
  BY DEF G, TracerTypeOK, gStatus, EventTypes
<1>1. cur[p] # NoG => cur[p] \in Goroutine /\ cur[p] \in Chain
  BY <1>0 DEF G, Chain
<1>2. ASSUME NEW typ \in LeaveTypes, NEW status \in {"gRunnable", "gWaiting"},
             Emit(Moving(typ, p, t, cur[p], cur[p], 0, status)), cur[p] # NoG,
             rg' = [rg EXCEPT ![cur[p]] = Moving(typ, p, t, cur[p], cur[p], 0, status).post],
             cur' = [cur EXCEPT ![p] = NoG],
             blockTs' = blockTs \/ blockTs' = [blockTs EXCEPT ![cur[p]] = t],
             mode' \in [Goroutine -> Modes], UNCHANGED <<lastp, on, starting>>
      PROVE  Writes
  <2>1. Emit([Moving(typ, p, t, cur[p], cur[p], 0, status) EXCEPT !.real = 0])
    BY <1>2, NotReal
  <2> QED BY <1>0, <1>1, <1>2, <2>1, MovingWrites
<1>3. ASSUME NEW typ \in ParkTypes, GoPark(p, typ, t) PROVE Writes
  <2>1. mode' \in [Goroutine -> Modes]
    BY <1>0, <1>3 DEF GoPark, Modes
  <2> QED BY <1>2, <1>3, <2>1 DEF GoPark, LeaveTypes
<1>4. ASSUME NEW typ \in YieldTypes, GoYield(p, typ, t) PROVE Writes
  <2>1. mode' \in [Goroutine -> Modes]
    BY <1>0, <1>4 DEF GoYield, Busy, Modes
  <2> QED BY <1>2, <1>4, <2>1 DEF GoYield, Acts, LeaveTypes
<1>5. CASE GoSysBlock(p, t)
  <2>1. mode' \in [Goroutine -> Modes]
    BY <1>0, <1>5 DEF GoSysBlock
  <2> QED BY <1>2, <1>5, <2>1 DEF GoSysBlock, Acts, LeaveTypes
<1> QED BY <1>3, <1>4, <1>5

LEMMA OtherWrites ==
    ASSUME TracerTypeOK, Idle, NEW p \in Proc, NEW t \in Nat,
           \/ ProcStart(p, t) \/ ProcStop(p, t)
           \/ \E typ \in EndTypes : GoEnd(p, typ, t)
           \/ FutileWakeup(p, t) \/ GoSysCall(p, t) \/ GCStart(p, t)
           \/ \E typ \in SpanOpens : OpenSpan(p, typ, t)
           \/ \E typ \in SpanCloses : CloseSpan(p, typ, t)
    PROVE  Writes
<1>0. /\ cur[p] \in G /\ NoG \in G /\ mode \in [Goroutine -> Modes] /\ on \subseteq Proc
      /\ starting \in BOOLEAN
  BY DEF G, TracerTypeOK
<1>1. starting \/ p \notin on => cur[p] = NoG
  BY DEF Idle
<1>2. CASE ProcStart(p, t)
  <2>1. /\ Emit(Plain("ProcStart", p, t, NoG)) /\ on' = on \cup {p} /\ cur[p] = NoG
        /\ UNCHANGED <<rg, lastp, cur, mode, blockTs, starting>>
    BY <1>1, <1>2 DEF ProcStart
  <2> QED BY <1>0, <2>1, PlainWrites DEF PlainTypes, EndTypes
<1>3. CASE ProcStop(p, t)
  <2>1. /\ Emit(Plain("ProcStop", p, t, NoG)) /\ on' = on \ {p} /\ cur[p] = NoG
        /\ UNCHANGED <<rg, lastp, cur, mode, blockTs, starting>>
    BY <1>3 DEF ProcStop
  <2>2. \A q \in on \ on' : cur[q] = NoG
    BY <2>1
  <2> QED BY <1>0, <2>1, <2>2, PlainWrites DEF PlainTypes, EndTypes
<1>4. ASSUME NEW typ \in EndTypes, GoEnd(p, typ, t) PROVE Writes
  <2>1. /\ Emit(Plain(typ, p, t, cur[p])) /\ cur' = [cur EXCEPT ![p] = NoG]
        /\ UNCHANGED <<rg, lastp, blockTs, on, starting>> /\ mode' \in [Goroutine -> Modes]
    BY <1>0, <1>4 DEF GoEnd, Busy, Modes, TracerTypeOK
  <2>2. typ \notin {"GCDone", "GCSTWStart", "GCSTWDone"}
    BY DEF EndTypes
  <2> QED BY <1>0, <1>1, <2>1, <2>2, PlainWrites
<1>5. ASSUME NEW typ \in PlainTypes, Emit(SpanEvent(p, typ, t)),
             UNCHANGED <<rg, lastp, cur, blockTs, on, starting>>, mode' \in [Goroutine -> Modes]
      PROVE  Writes
  <2> DEFINE g == IF typ \in {"GCDone", "GCSTWStart", "GCSTWDone"} THEN NoG ELSE cur[p]
  <2>1. Emit(Plain(typ, p, t, g)) /\ g \in G
    BY <1>0, <1>5 DEF SpanEvent
  <2>2. typ \notin EndTypes
    BY DEF EndTypes, PlainTypes
  <2> QED BY <1>0, <1>1, <1>5, <2>1, <2>2, PlainWrites
<1>6. CASE FutileWakeup(p, t)
  <2>1. mode' \in [Goroutine -> Modes]
    BY <1>0, <1>6 DEF FutileWakeup, Modes
  <2> QED BY <1>5, <1>6, <2>1 DEF FutileWakeup, SpanEvent, PlainTypes
<1>7. CASE GoSysCall(p, t)
  <2>1. mode' \in [Goroutine -> Modes]
    BY <1>0, <1>7 DEF GoSysCall, Modes
  <2> QED BY <1>5, <1>7, <2>1 DEF GoSysCall, SpanEvent, PlainTypes
<1>8. CASE GCStart(p, t)
  <2>1. /\ Emit(Moving("GCStart", p, t, NoG, Garbage, 1, "gDead"))
        /\ rg' = [rg EXCEPT ![Garbage] = Moving("GCStart", p, t, NoG, Garbage, 1, "gDead").post]
        /\ UNCHANGED <<lastp, cur, mode, blockTs, on, starting>>
    BY <1>8 DEF GCStart
  <2>2. Emit([Moving("GCStart", p, t, NoG, Garbage, 1, "gDead") EXCEPT !.real = 0])
    BY <2>1, NotReal
  <2>3. "GCStart" \in EventTypes /\ Garbage \in Chain /\ "gDead" \in gStatus /\ 0 \in Nat /\ 1 \in Nat
    BY DEF EventTypes, Chain, gStatus
  <2> QED BY <1>0, <2>1, <2>2, <2>3, MovingWrites
<1>9. ASSUME NEW typ \in SpanOpens, OpenSpan(p, typ, t) PROVE Writes
  <2>1. mode' \in [Goroutine -> Modes]
    BY <1>0, <1>9 DEF OpenSpan, Busy, Modes
  <2> QED BY <1>5, <1>9, <2>1 DEF OpenSpan, SpanOpens, PlainTypes
<1>10. ASSUME NEW typ \in SpanCloses, CloseSpan(p, typ, t) PROVE Writes
  <2>1. mode' \in [Goroutine -> Modes]
    BY <1>0, <1>10 DEF CloseSpan, Busy, Modes
  <2> QED BY <1>5, <1>10, <2>1 DEF CloseSpan, SpanCloses, PlainTypes
<1> QED BY <1>2, <1>3, <1>4, <1>6, <1>7, <1>8, <1>9, <1>10

\* One step of the runtime, whatever it is.
LEMMA TracerWrites ==
    ASSUME TracerTypeOK, Idle, TracerNext
    PROVE  Writes \/ (TracerTypeOK' /\ Idle' /\ UNCHANGED <<batch, n, cur>>)
<1>0. Boot \in Proc /\ \A p \in Proc : \A t \in Now(p) : t \in Nat
  BY TracerAssumption, NowTyped
<1>1. ASSUME NEW t \in Now(Boot), Snapshot(t)
      PROVE  Writes \/ (TracerTypeOK' /\ Idle' /\ UNCHANGED <<batch, n, cur>>)
  <2>0. t \in Nat
    BY <1>0
  <2>1. CASE (\E g \in Goroutine : SnapCreate(g, t)) \/ \E g \in Goroutine, typ \in SnapTypes : SnapBlocked(g, typ, t)
    BY <2>0, <2>1, SnapWrites
  <2>2. CASE StartWorld(t) /\ "ProcStart" \in Emits
    <3>1. /\ Emit(Plain("ProcStart", Boot, t, NoG)) /\ on' = {Boot} /\ starting' = FALSE
          /\ starting /\ UNCHANGED <<rg, lastp, cur, mode, blockTs>>
      BY <2>2 DEF StartWorld
    <3>2. \A p \in Proc : cur[p] = NoG
      BY <3>1 DEF Idle
    <3>3. on \subseteq Proc /\ mode \in [Goroutine -> Modes] /\ NoG \in G /\ cur[Boot] = NoG
      BY <1>0, <3>2 DEF TracerTypeOK, G
    <3>4. \A q \in on \ on' : cur[q] = NoG
      BY <3>2, <3>3
    <3>5. "ProcStart" \in PlainTypes \cup EndTypes /\ "ProcStart" \notin EndTypes
          /\ "ProcStart" \notin {"GCDone", "GCSTWStart", "GCSTWDone"}
      BY DEF PlainTypes, EndTypes
    <3> QED BY <1>0, <2>0, <3>1, <3>3, <3>4, <3>5, PlainWrites
  <2>3. CASE StartWorld(t) /\ "ProcStart" \notin Emits
    <3>1. UNCHANGED <<batch, n, clock, on, rg, lastp, cur, mode, blockTs, open>> /\ starting' = FALSE
      BY <2>3 DEF StartWorld
    <3> QED BY <3>1 DEF TracerTypeOK, Idle
  <2> QED BY <1>1, <2>1, <2>2, <2>3 DEF Snapshot
<1>2. ASSUME NEW p \in Proc, NEW t \in Now(p), Write(p, t) PROVE Writes
  <2>0. t \in Nat
    BY <1>0
  <2>1. CASE \E g \in Goroutine : GoCreate(p, g, t) \/ GoStart(p, g, t) \/ GoUnblock(p, g, t)
    BY <2>0, <2>1, HandoverWrites
  <2>2. CASE \E g \in Goroutine, r \in Past : GoSysExit(p, g, r, t)
    BY <2>0, <2>2, ExitWrites
  <2>3. CASE \/ \E typ \in ParkTypes : GoPark(p, typ, t)
             \/ \E typ \in YieldTypes : GoYield(p, typ, t)
             \/ GoSysBlock(p, t)
    BY <2>0, <2>3, LeaveWrites
  <2>4. CASE \/ ProcStart(p, t) \/ ProcStop(p, t)
             \/ \E typ \in EndTypes : GoEnd(p, typ, t)
             \/ FutileWakeup(p, t) \/ GoSysCall(p, t) \/ GCStart(p, t)
             \/ \E typ \in SpanOpens : OpenSpan(p, typ, t)
             \/ \E typ \in SpanCloses : CloseSpan(p, typ, t)
    BY <2>0, <2>4, OtherWrites
  <2> QED BY <1>2, <2>1, <2>2, <2>3, <2>4 DEF Write
<1> QED BY <1>1, <1>2 DEF TracerNext
-----------------------------------------------------------------------------
(***************************************************************************)
(* Tracing                                                                 *)
(***************************************************************************)
LEMMA ParseInit == Init => ParseInv
<1> SUFFICES ASSUME Init PROVE ParseInv
  OBVIOUS
<1> USE DEF Init, TracerInit, FileInit, ParserInit
<1>1. ParseTypeOK
  <2>1. \A x : <<>> \in Seq(x)
    OBVIOUS
  <2>2. gZero \in GState
    BY DEF GState, gZero, gStatus
  <2>3. TracerTypeOK
    BY <2>1, <2>2, TracerAssumption DEF TracerTypeOK, Modes
  <2>4. batches \in [Proc -> Seq(Event)]
    BY <2>1
  <2>5. flushed \in [Proc -> Nat] /\ lastTs \in Int /\ ticksPerSec \in Nat
    <3>1. flushed = [p \in Proc |-> 0] /\ lastTs = 0 /\ ticksPerSec = 0
      OBVIOUS
    <3> QED BY ONLY <3>1
  <2>7. footer \in BOOLEAN
    OBVIOUS
  <2>6. lastG \in G /\ lastP \in Proc /\ lastGs \in [Proc -> G]
    BY DEF G
  <2> QED BY ONLY <2>3, <2>4, <2>5, <2>6, <2>7 DEF ParseTypeOK
<1>2. Idle
  BY DEF Idle
<1>3. \E run \in Histories : History(run) /\ Resumes(run)
  <2> DEFINE run == [p \in Proc |-> [i \in Nat |-> NoG]]
  <2>1. run \in Histories
    BY DEF Histories, G
  <2>2. History(run) /\ Resumes(run)
    BY DEF History, Resumes
  <2> QED BY <2>1, <2>2
<1>4. Faithful /\ Finished /\ Waits
  BY DEF Faithful, Finished, Waits
<1>5. Unread
  BY DEF Unread, UpToDate
<1> QED BY <1>1, <1>2, <1>3, <1>4, <1>5 DEF ParseInv

\* An event more, and the history of its P goes on.
LEMMA HistoryGrows ==
    ASSUME TracerTypeOK, NEW run \in Histories, History(run), NEW e \in Event, Written(e)
    PROVE  \E run2 \in Histories :
             /\ History(run2)'
             /\ \A p \in Proc : \A i \in 0..Len(batch[p]) : run2[p][i] = run[p][i]
<1>1. PICK h : h = RunsThen(e, cur[e.p])
  OBVIOUS
<1>2. PICK k : k = Len(batch[e.p]) + 1
  OBVIOUS
<1>3. PICK run2 : run2 = [run EXCEPT ![e.p] = [@ EXCEPT ![k] = h]]
  OBVIOUS
<1>0. e.p \in Proc /\ e.arg \in G /\ NoG \in G
  BY DEF Event, G
<1>01. /\ batch \in [Proc -> Seq(Event)] /\ cur \in [Proc -> G] /\ k \in Nat
       /\ run2 \in Histories
  <2>1. batch \in [Proc -> Seq(Event)] /\ cur \in [Proc -> G]
    BY DEF TracerTypeOK, G
  <2>2. k \in Nat
    BY <1>0, <1>2, <2>1
  <2>3. h \in G
    BY <1>0, <1>1, <2>1 DEF RunsThen
  <2> QED BY <1>0, <1>3, <2>1, <2>2, <2>3 DEF Histories
<1>02. /\ \A p \in Proc : p # e.p => run2[p] = run[p]
       /\ \A i \in Nat : i # k => run2[e.p][i] = run[e.p][i]
       /\ run2[e.p][k] = h
  BY <1>0, <1>01, <1>3 DEF Histories
<1>4. /\ batch' = [batch EXCEPT ![e.p] = Append(@, e)] /\ cur' = [cur EXCEPT ![e.p] = h]
      /\ e.g = Owns(e, cur[e.p]) /\ h = RunsThen(e, cur[e.p])
  BY <1>1 DEF Written, Emit
<1>5. \A p \in Proc : \A i \in 0..Len(batch[p]) : run2[p][i] = run[p][i]
  <2> SUFFICES ASSUME NEW p \in Proc, NEW i \in 0..Len(batch[p]) PROVE run2[p][i] = run[p][i]
    OBVIOUS
  <2>1. Len(batch[p]) \in Nat
    BY <1>01
  <2> QED BY <1>02, <1>2, <2>1
<1>6. History(run2)'
  <2> SUFFICES ASSUME NEW p \in Proc
               PROVE  /\ run2[p][0] = NoG /\ run2[p][Len(batch'[p])] = cur'[p]
                      /\ \A i \in 1..Len(batch'[p]) :
                           LET f == batch'[p][i]
                           IN  f.p = p /\ f.g = Owns(f, run2[p][i - 1])
                               /\ run2[p][i] = RunsThen(f, run2[p][i - 1])
    BY DEF History
  <2>1. /\ run[p][0] = NoG /\ run[p][Len(batch[p])] = cur[p]
        /\ \A i \in 1..Len(batch[p]) :
             LET f == batch[p][i]
             IN  f.p = p /\ f.g = Owns(f, run[p][i - 1]) /\ run[p][i] = RunsThen(f, run[p][i - 1])
    BY DEF History
  <2>2. CASE p # e.p
    <3>1. batch'[p] = batch[p] /\ cur'[p] = cur[p] /\ run2[p] = run[p]
      BY <1>01, <1>02, <1>4, <2>2
    <3> QED BY <2>1, <3>1
  <2>3. CASE p = e.p
    <3>1. /\ batch'[p] = Append(batch[p], e) /\ cur'[p] = h /\ Len(batch'[p]) = k /\ k \in Nat
          /\ Len(batch[p]) \in Nat /\ k = Len(batch[p]) + 1
      BY <1>01, <1>2, <1>4, <2>3
    <3>2. run2[p][0] = NoG /\ run2[p][k] = h /\ run2[p][k - 1] = cur[p]
      BY <1>02, <1>5, <2>1, <2>3, <3>1
    <3>3. ASSUME NEW i \in 1..k
          PROVE  LET f == batch'[p][i]
                 IN  f.p = p /\ f.g = Owns(f, run2[p][i - 1])
                     /\ run2[p][i] = RunsThen(f, run2[p][i - 1])
      <4>1. CASE i = k
        <5>1. batch'[p][i] = e
          BY <1>01, <3>1, <4>1
        <5> QED BY <1>4, <2>3, <3>2, <4>1, <5>1
      <4>2. CASE i # k
        <5>1. i \in 1..Len(batch[p]) /\ i \in 0..Len(batch[p]) /\ i - 1 \in 0..Len(batch[p])
          BY <3>1, <4>2
        <5>2. batch'[p][i] = batch[p][i] /\ run2[p][i] = run[p][i] /\ run2[p][i - 1] = run[p][i - 1]
          BY <1>01, <1>5, <3>1, <5>1
        <5> QED BY <2>1, <5>1, <5>2
      <4> QED BY <4>1, <4>2
    <3> QED BY <3>1, <3>2, <3>3
  <2> QED BY <2>2, <2>3
<1> QED BY <1>01, <1>5, <1>6

\* The parser does not look at the history yet.
LEMMA ResumesKept ==
    ASSUME ParseTypeOK, NEW run, NEW run2, Resumes(run), UNCHANGED <<lastG, lastP, lastGs, batches>>,
           \A p \in Proc : run2[p][Len(batches[p])] = run[p][Len(batches[p])]
    PROVE  Resumes(run2)'
BY DEF Resumes, ParseTypeOK

LEMMA TraceKeepsParse ==
    ASSUME ParseInv, Trace
    PROVE  ParseInv'
<1>1. stage = "trace" /\ TracerNext /\ UNCHANGED <<file, stage, parser>>
  BY DEF Trace
<1>2. UNCHANGED <<flushed, unread, footer, stage, lastG, lastP, lastTs, lastGs, timerGoids, ticksPerSec, batches>>
  BY <1>1 DEF file, parser
<1>3. ParseTypeOK /\ TracerTypeOK /\ Idle
  BY DEF ParseInv, ParseTypeOK
<1>4. /\ unread = <<>> /\ ~footer /\ ticksPerSec = 0
      /\ \A p \in Proc : batches[p] = <<>> /\ flushed[p] = 0 /\ Len(batches[p]) = 0
  BY <1>1 DEF ParseInv, Waits, Finished
<1>5. Writes \/ (TracerTypeOK' /\ Idle' /\ UNCHANGED <<batch, n, cur>>)
  BY <1>1, <1>3, TracerWrites
<1>6. TracerTypeOK' /\ Idle'
  BY <1>5 DEF Writes
<1>7. ParseTypeOK'
  BY <1>2, <1>3, <1>6 DEF ParseTypeOK
<1>8. \E run \in Histories : History(run)' /\ Resumes(run)'
  <2>1. PICK run \in Histories : History(run) /\ Resumes(run)
    BY DEF ParseInv
  <2>2. CASE Writes
    <3>1. PICK e \in Event : Written(e)
      BY <2>2 DEF Writes
    <3>2. PICK run2 \in Histories :
             /\ History(run2)'
             /\ \A p \in Proc : \A i \in 0..Len(batch[p]) : run2[p][i] = run[p][i]
      BY <1>3, <2>1, <3>1, HistoryGrows
    <3>3. \A p \in Proc : 0 \in 0..Len(batch[p])
      BY <1>3 DEF TracerTypeOK
    <3>4. \A p \in Proc : run2[p][Len(batches[p])] = run[p][Len(batches[p])]
      BY <1>4, <3>2, <3>3
    <3> QED BY <1>2, <1>3, <2>1, <3>2, <3>4, ResumesKept
  <2>3. CASE UNCHANGED <<batch, n, cur>>
    <3>1. History(run)'
      BY <2>1, <2>3 DEF History
    <3>2. Resumes(run)'
      BY <1>2, <2>1 DEF Resumes
    <3> QED BY <3>1, <3>2
  <2> QED BY <1>5, <2>2, <2>3
<1>9. Faithful'
  <2>1. \A p \in Proc : Len(batch'[p]) \in Nat
    BY <1>6 DEF TracerTypeOK
  <2> QED BY <1>2, <1>4, <2>1 DEF Faithful
<1>10. Unread' /\ Finished' /\ Waits'
  <2>1. Unread'
    BY <1>2, <1>4 DEF Unread, UpToDate
  <2>2. Finished'
    BY <1>1, <1>2, <1>4 DEF Finished
  <2>3. Waits'
    BY <1>2, <1>4 DEF Waits
  <2> QED BY <2>1, <2>2, <2>3
<1> QED BY <1>6, <1>7, <1>8, <1>9, <1>10 DEF ParseInv
-----------------------------------------------------------------------------
(***************************************************************************)
(* The file                                                                *)
(***************************************************************************)
\* Facts about sequences: prepending, and reading on in a sequence that is
\* given by its elements.
LEMMA Prepended ==
    ASSUME NEW S, NEW f \in Seq(S), NEW r
    PROVE  <<r>> \o f # <<>> /\ Head(<<r>> \o f) = r /\ Tail(<<r>> \o f) = f
<1> DEFINE T == S \cup {r}
           s == <<r>> \o f
<1>1. f \in Seq(T) /\ <<r>> \in Seq(T) /\ Len(f) \in Nat
  OBVIOUS
<1>2. s \in Seq(T) /\ Len(s) = Len(f) + 1 /\ s[1] = r /\ \A i \in 1..Len(f) : s[i + 1] = f[i]
  BY <1>1
<1> HIDE DEF s
<1>3. s # <<>> /\ Head(s) = r
  BY <1>1, <1>2
<1>4. Tail(s) \in Seq(T) /\ Len(Tail(s)) = Len(f) /\ \A i \in 1..Len(f) : Tail(s)[i] = f[i]
  BY <1>1, <1>2, <1>3
<1>5. Tail(s) = f
  BY <1>1, <1>4
<1> QED BY <1>3, <1>5 DEF s

LEMMA Listed ==
    ASSUME NEW k \in Nat, NEW S, NEW s, s = [i \in 1..k |-> s[i]], \A i \in 1..k : s[i] \in S
    PROVE  s \in Seq(S) /\ Len(s) = k
<1>1. s \in [1..k -> S]
  OBVIOUS
<1> QED BY <1>1

LEMMA RecordsRead ==
    ASSUME NEW evs, NEW k1 \in Nat, NEW k2 \in Nat, k1 <= k2, NEW ts
    PROVE  LET s == Records(evs, k1, k2, ts)
           IN  /\ \E S : s \in Seq(S)
               /\ k1 = k2 => s = <<>>
               /\ k1 < k2 => /\ s # <<>> /\ Head(s) = EventRecord(evs[k1 + 1], ts)
                             /\ Tail(s) = Records(evs, k1 + 1, k2, evs[k1 + 1].ts)
<1> DEFINE R(i) == EventRecord(evs[k1 + i], IF i = 1 THEN ts ELSE evs[k1 + i - 1].ts)
           Q(i) == EventRecord(evs[k1 + 1 + i],
                               IF i = 1 THEN evs[k1 + 1].ts ELSE evs[k1 + 1 + i - 1].ts)
           s    == Records(evs, k1, k2, ts)
           t    == Records(evs, k1 + 1, k2, evs[k1 + 1].ts)
<1>1. s = [i \in 1..(k2 - k1) |-> R(i)] /\ t = [i \in 1..(k2 - (k1 + 1)) |-> Q(i)]
  BY DEF Records
<1>2. ASSUME NEW i \in 1..(k2 - (k1 + 1)) PROVE R(i + 1) = Q(i)
  <2>1. k1 + (i + 1) = k1 + 1 + i /\ i + 1 # 1 /\ k1 + (i + 1) - 1 = k1 + i /\ k1 + 1 + i - 1 = k1 + i
    BY <1>2
  <2>2. i = 1 => k1 + i = k1 + 1
    OBVIOUS
  <2> QED BY <2>1, <2>2
<1>3. R(1) = EventRecord(evs[k1 + 1], ts)
  OBVIOUS
<1> HIDE DEF s, t, R, Q
<1>0. PICK S : S = {R(i) : i \in 1..(k2 - k1)} \cup {Q(i) : i \in 1..(k2 - (k1 + 1))}
  OBVIOUS
<1>00. (\A i \in 1..(k2 - k1) : R(i) \in S) /\ \A i \in 1..(k2 - (k1 + 1)) : Q(i) \in S
  BY <1>0
<1>4. s \in Seq(S) /\ Len(s) = k2 - k1
  <2>1. k2 - k1 \in Nat
    OBVIOUS
  <2>2. s = [i \in 1..(k2 - k1) |-> s[i]] /\ \A i \in 1..(k2 - k1) : s[i] \in S
    BY <1>00, <1>1
  <2> QED BY <2>1, <2>2, Listed
<1>5. k1 = k2 => s = <<>>
  BY <1>4
<1>6. ASSUME k1 < k2 PROVE s # <<>> /\ Head(s) = R(1) /\ Tail(s) = t
  <2>1. k2 - (k1 + 1) \in Nat /\ k2 - k1 = k2 - (k1 + 1) + 1 /\ 1 \in 1..(k2 - k1)
    BY <1>6
  <2>2. t \in Seq(S) /\ Len(t) = k2 - (k1 + 1)
    <3>1. t = [i \in 1..(k2 - (k1 + 1)) |-> t[i]] /\ \A i \in 1..(k2 - (k1 + 1)) : t[i] \in S
      BY <1>00, <1>1
    <3> QED BY <2>1, <3>1, Listed
  <2>3. s # <<>> /\ Head(s) = s[1] /\ s[1] = R(1)
    BY <1>1, <1>4, <2>1
  <2>4. Tail(s) \in Seq(S) /\ Len(Tail(s)) = k2 - (k1 + 1)
    BY <1>4, <2>1, <2>3
  <2>5. ASSUME NEW i \in 1..(k2 - (k1 + 1)) PROVE Tail(s)[i] = t[i]
    <3>1. Tail(s)[i] = s[i + 1] /\ i + 1 \in 1..(k2 - k1)
      BY <1>4, <2>1, <2>3
    <3> QED BY <1>1, <1>2, <3>1
  <2>6. Tail(s) = t
    BY <2>2, <2>4, <2>5
  <2> QED BY <2>3, <2>6
<1> QED BY <1>3, <1>4, <1>5, <1>6 DEF s, t
-----------------------------------------------------------------------------
(***************************************************************************)
(* Flushing                                                                *)
(***************************************************************************)
LEMMA Lengths ==
    ASSUME ParseTypeOK, Faithful, NEW p \in Proc
    PROVE  /\ Len(batches[p]) \in Nat /\ flushed[p] \in Nat /\ Len(batch[p]) \in Nat
           /\ Len(batches[p]) <= flushed[p] /\ flushed[p] <= Len(batch[p])
BY DEF ParseTypeOK, TracerTypeOK, Faithful

\* What the runtime wrote is not touched any more.
LEMMA TracerKept ==
    ASSUME ParseInv, UNCHANGED tracer
    PROVE  /\ TracerTypeOK' /\ Idle' /\ batch' = batch
           /\ \A run : History(run) => History(run)'
<1>1. UNCHANGED <<batch, n, clock, rg, lastp, cur, mode, blockTs, open, on, starting>>
  BY DEF tracer
<1>2. TracerTypeOK /\ Idle
  BY DEF ParseInv, ParseTypeOK
<1>3. TracerTypeOK' /\ Idle'
  BY <1>1, <1>2 DEF TracerTypeOK, Idle
<1>4. ASSUME NEW run, History(run) PROVE History(run)'
  BY <1>1, <1>4 DEF History
<1> QED BY <1>1, <1>3, <1>4

\* Where the file ends, or has its footer, the parser has got everywhere.
LEMMA AllRead ==
    ASSUME ParseInv, unread = <<>> \/ footer, NEW p \in Proc
    PROVE  UpToDate(p)
<1>1. ParseTypeOK /\ Faithful /\ Unread /\ lastP \in Proc
  BY DEF ParseInv, ParseTypeOK
<1>2. CASE footer
  BY <1>1, <1>2 DEF Unread
<1>3. CASE unread = <<>> /\ ~footer
  <2>1. ASSUME NEW q \in Proc, NEW ts \in Nat
        PROVE  unread # <<BatchRecord(q, ts)>> \o Records(batch[q], Len(batches[q]), flushed[q], ts)
    <3>1. \E S : Records(batch[q], Len(batches[q]), flushed[q], ts) \in Seq(S)
      BY <1>1, Lengths, RecordsRead
    <3> QED BY <1>3, <3>1, Prepended
  <2>2. unread = Records(batch[lastP], Len(batches[lastP]), flushed[lastP], lastTs) => UpToDate(lastP)
    <3>1. /\ Len(batches[lastP]) \in Nat /\ flushed[lastP] \in Nat
          /\ Len(batches[lastP]) <= flushed[lastP]
      BY <1>1, Lengths
    <3>2. Len(batches[lastP]) < flushed[lastP]
          => Records(batch[lastP], Len(batches[lastP]), flushed[lastP], lastTs) # <<>>
      BY <1>1, <3>1, RecordsRead
    <3> QED BY <1>3, <3>1, <3>2 DEF UpToDate
  <2> QED BY <1>1, <1>3, <2>1, <2>2 DEF Unread
<1> QED BY <1>2, <1>3

LEMMA StopKeeps ==
    ASSUME ParseInv, Stop
    PROVE  ParseInv'
<1>1. stage' = "parse" /\ UNCHANGED <<tracer, flushed, unread, footer, lastG, lastP, lastTs, lastGs, timerGoids, ticksPerSec, batches>>
  BY DEF Stop, file, parser
<1>2. TracerTypeOK' /\ Idle' /\ batch' = batch /\ \A run : History(run) => History(run)'
  BY <1>1, TracerKept
<1>3. ParseTypeOK' /\ Finished' /\ Waits'
  BY <1>1, <1>2 DEF ParseInv, ParseTypeOK, Finished, Waits
<1>4. \E run \in Histories : History(run)' /\ Resumes(run)'
  BY <1>1, <1>2 DEF ParseInv, Resumes
<1>5. Faithful'
  BY <1>1, <1>2 DEF ParseInv, Faithful
<1>6. Unread'
  BY <1>1, <1>2 DEF ParseInv, Unread, UpToDate
<1> QED BY <1>2, <1>3, <1>4, <1>5, <1>6 DEF ParseInv

LEMMA FlushKeeps ==
    ASSUME ParseInv, NEW p \in Proc, NEW k \in 1..MaxEvents, Flush(p, k)
    PROVE  ParseInv'
<1> DEFINE k1   == flushed[p]
           prev == IF k1 = 0 THEN 0 ELSE batch[p][k1].ts
<1>0. k \in Nat /\ k >= 1 /\ ParseTypeOK /\ Faithful
  BY TracerAssumption DEF ParseInv
<1>1. /\ stage = "parse" /\ unread = <<>> /\ ~footer /\ k1 + k <= Len(batch[p])
      /\ flushed' = [flushed EXCEPT ![p] = k1 + k]
      /\ UNCHANGED <<tracer, footer, stage, lastG, lastP, lastTs, lastGs, timerGoids, ticksPerSec, batches>>
  BY DEF Flush, parser
<1>2. PICK ts \in {prev, batch[p][k1 + 1].ts} : unread' = Batch(p, k1, k, ts)
  BY DEF Flush
<1>3. TracerTypeOK' /\ Idle' /\ batch' = batch /\ \A run : History(run) => History(run)'
  BY <1>1, TracerKept
<1>4. \A q \in Proc : /\ Len(batches[q]) = flushed[q] /\ Len(batches[q]) \in Nat
                      /\ flushed[q] \in Nat /\ Len(batch[q]) \in Nat /\ flushed[q] <= Len(batch[q])
  BY <1>0, <1>1, AllRead, Lengths DEF UpToDate
<1>5. flushed' \in [Proc -> Nat] /\ flushed'[p] = k1 + k /\ k1 \in Nat
      /\ \A q \in Proc \ {p} : flushed'[q] = flushed[q]
  BY <1>0, <1>1, <1>4 DEF ParseTypeOK
<1>6. ParseTypeOK'
  BY <1>0, <1>1, <1>3, <1>5 DEF ParseTypeOK
<1>7. \E run \in Histories : History(run)' /\ Resumes(run)'
  BY <1>1, <1>3 DEF ParseInv, Resumes
<1>8. Faithful'
  <2>1. ASSUME NEW q \in Proc PROVE Len(batches[q]) <= flushed'[q] /\ flushed'[q] <= Len(batch[q])
    BY <1>0, <1>1, <1>4, <1>5
  <2> QED BY <1>0, <1>1, <1>3, <2>1 DEF Faithful
<1>9. ts \in Nat
  <2>1. batch[p] \in Seq(Event) /\ k1 + 1 \in 1..Len(batch[p]) /\ (k1 # 0 => k1 \in 1..Len(batch[p]))
    BY <1>0, <1>1, <1>4, <1>5 DEF ParseTypeOK, TracerTypeOK
  <2>2. batch[p][k1 + 1] \in Event /\ (k1 # 0 => batch[p][k1] \in Event)
    BY <2>1
  <2> QED BY <2>2 DEF Event
<1>10. unread' = <<BatchRecord(p, ts)>> \o Records(batch[p], Len(batches[p]), k1 + k, ts)
  <2>1. Len(batches[p]) = k1 /\ (k1 + k) - k1 = k
    BY <1>0, <1>4, <1>5
  <2>2. Batch(p, k1, k, ts) = <<BatchRecord(p, ts)>> \o Records(batch[p], k1, k1 + k, ts)
    <3> DEFINE F(m) == [i \in 1..m |-> EventRecord(batch[p][k1 + i],
                                              IF i = 1 THEN ts ELSE batch[p][k1 + i - 1].ts)]
    <3>1. Batch(p, k1, k, ts) = <<BatchRecord(p, ts)>> \o F(k)
      BY DEF Batch
    <3>2. Records(batch[p], k1, k1 + k, ts) = F((k1 + k) - k1)
      BY DEF Records
    <3> HIDE DEF F
    <3> QED BY <2>1, <3>1, <3>2
  <2> QED BY <1>2, <2>1, <2>2
<1>11. Unread'
  <2>1. unread' = <<BatchRecord(p, ts)>> \o Records(batch'[p], Len(batches'[p]), flushed'[p], ts)
    BY <1>1, <1>3, <1>5, <1>10
  <2>2. \A q \in Proc \ {p} : UpToDate(q)'
    BY <1>1, <1>4, <1>5 DEF UpToDate
  <2> QED BY <1>1, <1>9, <2>1, <2>2 DEF Unread, BatchRecord
<1>12. Finished' /\ Waits'
  BY <1>1 DEF ParseInv, Finished, Waits
<1> QED BY <1>3, <1>6, <1>7, <1>8, <1>11, <1>12 DEF ParseInv

\* The footer, and what may follow it.
LEMMA FooterKeeps ==
    ASSUME ParseInv, Footer \/ \E g \in Timers : TimerGoroutine(g)
    PROVE  ParseInv'
<1>1. /\ stage = "parse" /\ unread = <<>> /\ footer' /\ footer' \in BOOLEAN
      /\ UNCHANGED <<tracer, flushed, stage, lastG, lastP, lastTs, lastGs, timerGoids, ticksPerSec, batches>>
      /\ (\E v \in Frequencies : unread' = <<Frequency(v)>>) \/ \E g \in Timers : unread' = <<TimerRecord(g)>>
  BY DEF Footer, TimerGoroutine, parser, ParseInv, ParseTypeOK
<1>2. \A p \in Proc : flushed[p] = Len(batch[p])
  BY DEF Footer, TimerGoroutine, ParseInv, Finished
<1>3. TracerTypeOK' /\ Idle' /\ batch' = batch /\ \A run : History(run) => History(run)'
  BY <1>1, TracerKept
<1>4. ParseTypeOK'
  BY <1>1, <1>3 DEF ParseInv, ParseTypeOK
<1>5. \E run \in Histories : History(run)' /\ Resumes(run)'
  BY <1>1, <1>3 DEF ParseInv, Resumes
<1>6. Faithful'
  BY <1>1, <1>3 DEF ParseInv, Faithful
<1>7. Unread'
  <2>1. \A p \in Proc : UpToDate(p)'
    BY <1>1, AllRead DEF UpToDate
  <2> QED BY <1>1, <2>1 DEF Unread, Frequency, TimerRecord
<1>8. Finished' /\ Waits'
  BY <1>1, <1>2, <1>3 DEF ParseInv, Finished, Waits
<1> QED BY <1>3, <1>4, <1>5, <1>6, <1>7, <1>8 DEF ParseInv
-----------------------------------------------------------------------------
(***************************************************************************)
(* Reading                                                                 *)
(***************************************************************************)
\* The record the parser reads next, and what it leaves: the footer's records,
\* the header of a batch, or the next event of the P whose batch it is in.
FooterNext ==
    /\ footer /\ Tail(unread) = <<>>
    /\ Head(unread).kind \in {"Frequency", "TimerGoroutine"}
    /\ Head(unread).kind = "Frequency" => Head(unread).value \in Nat
    /\ \A q \in Proc : UpToDate(q)

BatchNext ==
    LET r == Head(unread)
    IN  /\ ~footer /\ r.kind = "Batch" /\ r.p \in Proc /\ r.ts \in Nat
        /\ Tail(unread) = Records(batch[r.p], Len(batches[r.p]), flushed[r.p], r.ts)
        /\ \A q \in Proc \ {r.p} : UpToDate(q)

EventNext ==
    LET k == Len(batches[lastP]) + 1
        e == batch[lastP][k]
    IN  /\ ~footer /\ k <= flushed[lastP]
        /\ Head(unread) = EventRecord(e, lastTs)
        /\ Tail(unread) = Records(batch[lastP], k, flushed[lastP], e.ts)
        /\ \A q \in Proc \ {lastP} : UpToDate(q)

LEMMA RecordNext ==
    ASSUME ParseInv, unread # <<>>
    PROVE  FooterNext \/ BatchNext \/ EventNext
<1>1. ParseTypeOK /\ Faithful /\ Unread /\ lastP \in Proc
  BY DEF ParseInv, ParseTypeOK
<1>2. ASSUME footer, \A q \in Proc : UpToDate(q), NEW r, unread = <<r>>,
             r.kind \in {"Frequency", "TimerGoroutine"}, r.kind = "Frequency" => r.value \in Nat
      PROVE  FooterNext
  <2>1. Head(unread) = r /\ Tail(unread) = <<>>
    BY <1>2
  <2> QED BY <1>2, <2>1 DEF FooterNext
<1>3. CASE footer /\ (\A q \in Proc : UpToDate(q)) /\ \E v \in Frequencies : unread = <<Frequency(v)>>
  <2>1. PICK v \in Frequencies : unread = <<Frequency(v)>>
    BY <1>3
  <2>2. Frequency(v).kind = "Frequency" /\ Frequency(v).value \in Nat
    BY ParseAssumption DEF Frequency
  <2> QED BY <1>2, <1>3, <2>1, <2>2
<1>4. CASE footer /\ (\A q \in Proc : UpToDate(q)) /\ \E g \in Timers : unread = <<TimerRecord(g)>>
  <2>1. PICK g \in Timers : unread = <<TimerRecord(g)>>
    BY <1>4
  <2>2. TimerRecord(g).kind = "TimerGoroutine"
    BY DEF TimerRecord
  <2> QED BY <1>2, <1>4, <2>1, <2>2
<1>5. ASSUME ~footer, NEW p \in Proc, NEW ts \in Nat, \A q \in Proc \ {p} : UpToDate(q),
             unread = <<BatchRecord(p, ts)>> \o Records(batch[p], Len(batches[p]), flushed[p], ts)
      PROVE  BatchNext
  <2>1. \E S : Records(batch[p], Len(batches[p]), flushed[p], ts) \in Seq(S)
    BY <1>1, Lengths, RecordsRead
  <2>2. /\ Head(unread) = BatchRecord(p, ts)
        /\ Tail(unread) = Records(batch[p], Len(batches[p]), flushed[p], ts)
    BY <1>5, <2>1, Prepended
  <2>3. Head(unread).kind = "Batch" /\ Head(unread).p = p /\ Head(unread).ts = ts
    BY <2>2 DEF BatchRecord
  <2> QED BY <1>5, <2>2, <2>3 DEF BatchNext
<1>6. ASSUME ~footer, \A q \in Proc \ {lastP} : UpToDate(q),
             unread = Records(batch[lastP], Len(batches[lastP]), flushed[lastP], lastTs)
      PROVE  EventNext
  <2> DEFINE k == Len(batches[lastP])
  <2>1. k \in Nat /\ flushed[lastP] \in Nat /\ k <= flushed[lastP]
    BY <1>1, Lengths
  <2>2. /\ k = flushed[lastP] => unread = <<>>
        /\ k < flushed[lastP] =>
             /\ Head(unread) = EventRecord(batch[lastP][k + 1], lastTs)
             /\ Tail(unread) = Records(batch[lastP], k + 1, flushed[lastP], batch[lastP][k + 1].ts)
    <3>1. unread = Records(batch[lastP], k, flushed[lastP], lastTs)
      BY <1>6
    <3> HIDE DEF k
    <3>2. LET s == Records(batch[lastP], k, flushed[lastP], lastTs)
          IN  /\ k = flushed[lastP] => s = <<>>
              /\ k < flushed[lastP] =>
                   /\ Head(s) = EventRecord(batch[lastP][k + 1], lastTs)
                   /\ Tail(s) = Records(batch[lastP], k + 1, flushed[lastP], batch[lastP][k + 1].ts)
      BY <2>1, RecordsRead
    <3> QED BY <3>1, <3>2
  <2>3. k < flushed[lastP] /\ k + 1 <= flushed[lastP]
    BY <2>1, <2>2
  <2> QED BY <1>6, <2>2, <2>3 DEF EventNext
<1> QED BY <1>1, <1>3, <1>4, <1>5, <1>6 DEF Unread

\* What all the reading steps leave alone, and keep.
Reading ==
    /\ stage = "parse" /\ unread # <<>> /\ unread' = Tail(unread)
    /\ UNCHANGED <<tracer, flushed, footer>>

LEMMA FooterReadKeeps ==
    ASSUME ParseInv, Reading, FooterNext,
           ReadFrequency(Head(unread)) \/ ReadTimer(Head(unread))
    PROVE  ParseInv'
<1>1. /\ UNCHANGED <<tracer, flushed, footer, lastG, lastP, lastTs, lastGs, batches>>
      /\ unread' = <<>> /\ footer /\ (ticksPerSec' = ticksPerSec \/ ticksPerSec' \in Nat)
      /\ stage = "parse" /\ stage' \in {stage, "timeOrder"} /\ \A q \in Proc : UpToDate(q)
  BY DEF Reading, FooterNext, ReadFrequency, ReadTimer
<1>2. TracerTypeOK' /\ Idle' /\ batch' = batch /\ \A run : History(run) => History(run)'
  BY <1>1, TracerKept
<1>3. ParseTypeOK'
  BY <1>1, <1>2 DEF ParseInv, ParseTypeOK
<1>4. \E run \in Histories : History(run)' /\ Resumes(run)'
  BY <1>1, <1>2 DEF ParseInv, Resumes
<1>5. Faithful'
  BY <1>1, <1>2 DEF ParseInv, Faithful
<1>6. Unread' /\ Finished' /\ Waits'
  BY <1>1, <1>2 DEF ParseInv, Unread, UpToDate, Finished, Waits
<1> QED BY <1>2, <1>3, <1>4, <1>5, <1>6 DEF ParseInv

\* The P of the last batch is put away, and that of the next is taken up.
LEMMA BatchReadKeeps ==
    ASSUME ParseInv, Reading, BatchNext, ReadBatch(Head(unread))
    PROVE  ParseInv'
<1>1. PICK r : r = Head(unread)
  OBVIOUS
<1>2. /\ UNCHANGED <<tracer, flushed, footer, stage, ticksPerSec, batches>>
      /\ lastGs' = [lastGs EXCEPT ![lastP] = lastG] /\ lastP' = r.p
      /\ lastG' = [lastGs EXCEPT ![lastP] = lastG][r.p] /\ lastTs' = r.ts
      /\ stage = "parse" /\ ~footer /\ r.p \in Proc /\ r.ts \in Nat
      /\ unread' = Records(batch[r.p], Len(batches[r.p]), flushed[r.p], r.ts)
      /\ \A q \in Proc \ {r.p} : UpToDate(q)
  BY <1>1 DEF Reading, BatchNext, ReadBatch, Saved
<1>3. TracerTypeOK' /\ Idle' /\ batch' = batch /\ \A run : History(run) => History(run)'
  BY <1>2, TracerKept
<1>4. ParseTypeOK
  BY DEF ParseInv
<1>5. ParseTypeOK'
  BY <1>2, <1>3, <1>4 DEF ParseTypeOK
<1>6. \E run \in Histories : History(run)' /\ Resumes(run)'
  <2>1. PICK run \in Histories : History(run) /\ Resumes(run)
    BY DEF ParseInv
  <2>2. \A p \in Proc : [lastGs EXCEPT ![lastP] = lastG][p] = run[p][Len(batches[p])]
    BY <1>4, <2>1 DEF Resumes, ParseTypeOK
  <2>3. Resumes(run)'
    BY <1>2, <2>2 DEF Resumes
  <2> QED BY <1>3, <2>1, <2>3
<1>7. Faithful'
  BY <1>2, <1>3 DEF ParseInv, Faithful
<1>8. Unread'
  <2>1. unread' = Records(batch'[lastP'], Len(batches'[lastP']), flushed'[lastP'], lastTs')
    BY <1>2, <1>3
  <2>2. \A q \in Proc \ {lastP'} : UpToDate(q)'
    BY <1>2 DEF UpToDate
  <2> QED BY <1>2, <2>1, <2>2 DEF Unread
<1>9. Finished' /\ Waits'
  BY <1>2 DEF ParseInv, Finished, Waits
<1> QED BY <1>3, <1>5, <1>6, <1>7, <1>8, <1>9 DEF ParseInv

\* An event is read as it was written: the parser ran through the same history.
LEMMA EventAsRead ==
    ASSUME ParseTypeOK, NEW e \in Event, e.p = lastP, e.g = Owns(e, lastG)
    PROVE  /\ AsRead(e) \in Event
           /\ AsRead(e) = LET r == EventRecord(e, lastTs)
                          IN  [typ |-> r.typ, p |-> lastP, g |-> Owner(r), arg |-> r.arg,
                               seq |-> r.seq, real |-> r.real, ts |-> lastTs + r.delta,
                               n |-> r.n, pre |-> r.pre, post |-> r.post]
           /\ NowRunning(EventRecord(e, lastTs)) = RunsThen(e, lastG)
           /\ lastTs + EventRecord(e, lastTs).delta = e.ts
           /\ EventRecord(e, lastTs).kind = "Event"
<1> DEFINE r == EventRecord(e, lastTs)
<1>1. lastTs \in Int /\ e.ts \in Nat /\ e.arg \in G /\ NoG \in G
  BY DEF ParseTypeOK, Event, G
<1>2. /\ r.kind = "Event" /\ r.typ = e.typ /\ r.arg = (IF e.typ \in Naming THEN e.arg ELSE NoG)
      /\ r.seq = e.seq /\ r.real = e.real /\ r.delta = e.ts - lastTs
      /\ r.n = e.n /\ r.pre = e.pre /\ r.post = e.post
  BY DEF EventRecord
<1> HIDE DEF r
<1>3. lastTs + r.delta = e.ts
  BY <1>1, <1>2
<1>4. Owner(r) = e.g /\ NowRunning(r) = RunsThen(e, lastG)
  BY <1>2 DEF Owner, Owns, NowRunning, RunsThen, Naming, LocalTypes
<1>5. AsRead(e) \in Event
  BY <1>1 DEF AsRead, Event, G
<1>6. AsRead(e) = [typ |-> r.typ, p |-> lastP, g |-> Owner(r), arg |-> r.arg,
                   seq |-> r.seq, real |-> r.real, ts |-> lastTs + r.delta,
                   n |-> r.n, pre |-> r.pre, post |-> r.post]
  BY <1>2, <1>3, <1>4 DEF AsRead, Event
<1> QED BY <1>2, <1>3, <1>4, <1>5, <1>6 DEF r

LEMMA EventReadKeeps ==
    ASSUME ParseInv, Reading, EventNext, ReadEvent(Head(unread))
    PROVE  ParseInv'
<1>1. PICK k : k = Len(batches[lastP]) + 1
  OBVIOUS
<1>2. PICK e : e = batch[lastP][k]
  OBVIOUS
<1>3. ParseTypeOK /\ Faithful /\ lastP \in Proc
  BY DEF ParseInv, ParseTypeOK
<1>4. /\ stage = "parse" /\ ~footer /\ k <= flushed[lastP] /\ Head(unread) = EventRecord(e, lastTs)
      /\ unread' = Records(batch[lastP], k, flushed[lastP], e.ts)
      /\ \A q \in Proc \ {lastP} : UpToDate(q)
      /\ UNCHANGED <<tracer, flushed, footer, stage, lastP, lastGs, ticksPerSec>>
  BY <1>1, <1>2 DEF Reading, EventNext, ReadEvent
<1>5. PICK run \in Histories : History(run) /\ Resumes(run)
  BY DEF ParseInv
<1>6. /\ k \in Nat /\ k - 1 = Len(batches[lastP]) /\ k \in 1..Len(batch[lastP])
      /\ flushed[lastP] \in Nat /\ flushed[lastP] <= Len(batch[lastP])
  BY <1>1, <1>3, <1>4, Lengths
<1>7. e \in Event /\ e.p = lastP /\ e.g = Owns(e, lastG) /\ run[lastP][k] = RunsThen(e, lastG)
  <2>1. lastG = run[lastP][k - 1]
    BY <1>5, <1>6 DEF Resumes
  <2>2. batch[lastP] \in Seq(Event)
    BY <1>3 DEF ParseTypeOK, TracerTypeOK
  <2>3. /\ batch[lastP][k].p = lastP /\ batch[lastP][k].g = Owns(batch[lastP][k], run[lastP][k - 1])
        /\ run[lastP][k] = RunsThen(batch[lastP][k], run[lastP][k - 1])
    BY <1>3, <1>5, <1>6 DEF History
  <2>4. e \in Event
    BY <1>2, <1>6, <2>2
  <2> QED BY <1>2, <2>1, <2>3, <2>4
<1>8. /\ batches' = [batches EXCEPT ![lastP] = Append(@, AsRead(e))] /\ lastTs' = e.ts
      /\ lastG' = run[lastP][k] /\ AsRead(e) \in Event /\ e.ts \in Nat
  <2>1. e.ts \in Nat
    BY <1>7 DEF Event
  <2> QED BY <1>3, <1>4, <1>7, <2>1, EventAsRead DEF ReadEvent
<1>9. TracerTypeOK' /\ Idle' /\ batch' = batch /\ History(run)'
  BY <1>4, <1>5, TracerKept
<1>10. /\ batches' \in [Proc -> Seq(Event)] /\ Len(batches'[lastP]) = k
       /\ batches'[lastP][k] = AsRead(e)
       /\ \A i \in 1..Len(batches[lastP]) : batches'[lastP][i] = batches[lastP][i]
       /\ \A q \in Proc \ {lastP} : batches'[q] = batches[q]
  <2>1. batches \in [Proc -> Seq(Event)] /\ batches[lastP] \in Seq(Event)
    BY <1>3 DEF ParseTypeOK
  <2>2. /\ batches'[lastP] = Append(batches[lastP], AsRead(e))
        /\ \A q \in Proc \ {lastP} : batches'[q] = batches[q]
    BY <1>3, <1>8, <2>1
  <2>3. batches' \in [Proc -> Seq(Event)]
    BY <1>3, <1>8, <2>1
  <2> QED BY <1>1, <1>8, <2>1, <2>2, <2>3
<1>11. ParseTypeOK'
  <2>1. run[lastP][k] \in G
    BY <1>3, <1>5, <1>6 DEF Histories
  <2> QED BY <1>3, <1>4, <1>8, <1>9, <1>10, <2>1 DEF ParseTypeOK
<1>12. Resumes(run)'
  <2>1. lastG' = run[lastP'][Len(batches'[lastP'])]
    BY <1>4, <1>8, <1>10
  <2>2. \A p \in Proc \ {lastP'} : lastGs'[p] = run[p][Len(batches'[p])]
    BY <1>4, <1>5, <1>10 DEF Resumes
  <2> QED BY <2>1, <2>2 DEF Resumes
<1>13. Faithful'
  <2> SUFFICES ASSUME NEW p \in Proc
               PROVE  /\ Len(batches'[p]) <= flushed'[p] /\ flushed'[p] <= Len(batch'[p])
                      /\ \A i \in 1..Len(batches'[p]) : batches'[p][i] = AsRead(batch'[p][i])
    BY DEF Faithful, AsRead
  <2>1. flushed' = flushed /\ batch' = batch
    BY <1>4, <1>9
  <2>2. CASE p = lastP
    <3>1. ASSUME NEW i \in 1..k PROVE batches'[p][i] = AsRead(batch[p][i])
      <4>1. CASE i = k
        BY <1>2, <1>10, <2>2, <4>1
      <4>2. CASE i # k
        <5>1. i \in 1..Len(batches[lastP])
          BY <1>6, <4>2
        <5> QED BY <1>3, <1>10, <2>2, <5>1 DEF Faithful
      <4> QED BY <4>1, <4>2
    <3> QED BY <1>4, <1>6, <1>10, <2>1, <2>2, <3>1
  <2>3. CASE p # lastP
    BY <1>3, <1>10, <2>1, <2>3 DEF Faithful
  <2> QED BY <2>2, <2>3
<1>14. Unread'
  <2>1. unread' = Records(batch'[lastP'], Len(batches'[lastP']), flushed'[lastP'], lastTs')
    BY <1>4, <1>8, <1>9, <1>10
  <2>2. \A q \in Proc \ {lastP'} : UpToDate(q)'
    BY <1>4, <1>10 DEF UpToDate
  <2> QED BY <1>4, <2>1, <2>2 DEF Unread
<1>15. Finished' /\ Waits'
  BY <1>4 DEF ParseInv, Finished, Waits
<1> QED BY <1>5, <1>9, <1>11, <1>12, <1>13, <1>14, <1>15 DEF ParseInv

LEMMA ReadKeeps ==
    ASSUME ParseInv, Read
    PROVE  ParseInv'
<1> DEFINE r == Head(unread)
<1>1. Reading /\ (ReadBatch(r) \/ ReadFrequency(r) \/ ReadTimer(r) \/ ReadEvent(r))
  BY DEF Read, Reading
<1>2. FooterNext \/ BatchNext \/ EventNext
  BY <1>1, RecordNext DEF Reading
<1>3. ReadBatch(r) => r.kind = "Batch"
  BY DEF ReadBatch
<1>4. ReadFrequency(r) => r.kind = "Frequency"
  BY DEF ReadFrequency
<1>5. ReadTimer(r) => r.kind = "TimerGoroutine"
  BY DEF ReadTimer
<1>6. ReadEvent(r) => r.kind = "Event"
  BY DEF ReadEvent
<1>7. CASE FooterNext
  <2>1. r.kind \in {"Frequency", "TimerGoroutine"}
    BY <1>7 DEF FooterNext
  <2> QED BY <1>1, <1>3, <1>6, <1>7, <2>1, FooterReadKeeps
<1>8. CASE BatchNext
  <2>1. r.kind = "Batch"
    BY <1>8 DEF BatchNext
  <2> QED BY <1>1, <1>4, <1>5, <1>6, <1>8, <2>1, BatchReadKeeps
<1>9. CASE EventNext
  <2>1. r.kind = "Event"
    BY <1>9 DEF EventNext, EventRecord
  <2> QED BY <1>1, <1>3, <1>4, <1>5, <1>9, <2>1, EventReadKeeps
<1> QED BY <1>2, <1>7, <1>8, <1>9

LEMMA EndKeeps ==
    ASSUME ParseInv, EndOfFile
    PROVE  ParseInv'
<1>1. /\ stage' = Verdict /\ stage = "parse"
      /\ UNCHANGED <<tracer, flushed, unread, footer, lastG, lastP, lastTs, lastGs, timerGoids, ticksPerSec, batches>>
  BY DEF EndOfFile, file, parser
<1>2. TracerTypeOK' /\ Idle' /\ batch' = batch /\ \A run : History(run) => History(run)'
  BY <1>1, TracerKept
<1>3. ParseTypeOK'
  BY <1>1, <1>2 DEF ParseInv, ParseTypeOK
<1>4. \E run \in Histories : History(run)' /\ Resumes(run)'
  BY <1>1, <1>2 DEF ParseInv, Resumes
<1>5. Faithful'
  BY <1>1, <1>2 DEF ParseInv, Faithful
<1>6. Unread'
  BY <1>1, <1>2 DEF ParseInv, Unread, UpToDate
<1>7. /\ stage' # "trace"
      /\ stage' = "parsed" => ticksPerSec # 0 /\ \E p \in Proc : batches[p] # <<>>
  BY <1>1 DEF Verdict
<1>8. Finished' /\ Waits'
  BY <1>1, <1>2, <1>7 DEF ParseInv, Finished, Waits
<1> QED BY <1>2, <1>3, <1>4, <1>5, <1>6, <1>8 DEF ParseInv

LEMMA ParseStutter ==
    ASSUME ParseInv, UNCHANGED vars
    PROVE  ParseInv'
<1>1. UNCHANGED <<tracer, flushed, unread, footer, stage, lastG, lastP, lastTs, lastGs, timerGoids, ticksPerSec, batches>>
  BY DEF vars, file, parser
<1>2. TracerTypeOK' /\ Idle' /\ batch' = batch /\ \A run : History(run) => History(run)'
  BY <1>1, TracerKept
<1>3. ParseTypeOK' /\ Finished' /\ Waits'
  BY <1>1, <1>2 DEF ParseInv, ParseTypeOK, Finished, Waits
<1>4. \E run \in Histories : History(run)' /\ Resumes(run)'
  BY <1>1, <1>2 DEF ParseInv, Resumes
<1>5. Faithful'
  BY <1>1, <1>2 DEF ParseInv, Faithful
<1>6. Unread'
  BY <1>1, <1>2 DEF ParseInv, Unread, UpToDate
<1> QED BY <1>2, <1>3, <1>4, <1>5, <1>6 DEF ParseInv

LEMMA ParseNext == ParseInv /\ [Next]_vars => ParseInv'
<1> SUFFICES ASSUME ParseInv, [Next]_vars PROVE ParseInv'
  OBVIOUS
<1>1. CASE Trace
  BY <1>1, TraceKeepsParse
<1>2. CASE Stop
  BY <1>2, StopKeeps
<1>3. CASE \E p \in Proc, k \in 1..MaxEvents : Flush(p, k)
  BY <1>3, FlushKeeps
<1>4. CASE Footer \/ \E g \in Timers : TimerGoroutine(g)
  BY <1>4, FooterKeeps
<1>5. CASE Read
  BY <1>5, ReadKeeps
<1>6. CASE EndOfFile
  BY <1>6, EndKeeps
<1>7. CASE Done \/ UNCHANGED vars
  BY <1>7, ParseStutter DEF Done
<1> QED BY <1>1, <1>2, <1>3, <1>4, <1>5, <1>6, <1>7 DEF Next
-----------------------------------------------------------------------------
(***************************************************************************)
(* Theorems                                                                *)
(***************************************************************************)
\* The parser's lastG and lastGs follow the goroutines the Ps ran, batch by
\* batch (parser.go:339-341, 415-442).
THEOREM ParseInductive == Spec => []ParseInv
<1>1. Init => ParseInv
  BY ParseInit
<1>2. ParseInv /\ [Next]_vars => ParseInv'
  BY ParseNext
<1> QED BY <1>1, <1>2, PTL DEF Spec

\* Every event is attributed to the goroutine and the time it was written for,
\* however the batches are cut up and mixed.
THEOREM EventsAreAttributed == Spec => []AsWritten
<1>1. ParseInv => AsWritten
  <2> SUFFICES ASSUME ParseInv, NEW p \in Proc, NEW i \in 1..MaxEvents, i <= Len(batches[p])
               PROVE  batches[p][i] = AsRead(batch[p][i])
    BY DEF AsWritten, AsRead
  <2>1. i \in 1..Len(batches[p])
    BY TracerAssumption, Lengths DEF ParseInv
  <2> QED BY <2>1 DEF ParseInv, Faithful
<1> QED BY <1>1, ParseInductive, PTL

\* A file that was cut off is not accepted, nor is an empty one.
THEOREM AcceptedIsComplete == Spec => []AcceptedComplete
<1>1. ParseInv => AcceptedComplete
  <2> SUFFICES ASSUME ParseInv, stage = "parsed"
               PROVE  n > 0 /\ \A p \in Proc : Len(batches[p]) = Len(batch[p])
    BY DEF AcceptedComplete
  <2>1. footer /\ (\E p \in Proc : batches[p] # <<>>) /\ \A p \in Proc : flushed[p] = Len(batch[p])
    BY DEF ParseInv, Finished
  <2>2. \A p \in Proc : Len(batches[p]) = Len(batch[p])
    BY <2>1, AllRead DEF UpToDate
  <2>3. \E p \in Proc : batch[p] # <<>>
    <3>1. PICK p \in Proc : batches[p] # <<>>
      BY <2>1
    <3>2. batches[p] \in Seq(Event) /\ batch[p] \in Seq(Event)
      BY DEF ParseInv, ParseTypeOK, TracerTypeOK
    <3> QED BY <2>2, <3>1, <3>2
  <2>4. n \in Nat /\ n # 0
    BY <2>3 DEF ParseInv, ParseTypeOK, TracerTypeOK, Idle
  <2> QED BY <2>2, <2>4
<1> QED BY <1>1, ParseInductive, PTL
=============================================================================
