---------------------------- MODULE PipelineProofs ----------------------------
(***************************************************************************)
(* What becomes of the trace of a real program on its way through parse:   *)
(* timestamps are found in order, exactly the futile wakeups disappear,    *)
(* and postProcessTrace refuses nothing of what is left.                   *)
(*                                                                         *)
(* The runtime's state is gone when the parser reads the trace, so the     *)
(* proof keeps a history of it: for every event written, a view of what    *)
(* the runtime knew before and after it.  What the parser's descriptors    *)
(* hold is then what the view held at the last event that touched them.    *)
(***************************************************************************)
EXTENDS Pipeline, OrderProofs

USE DEF gState

(***************************************************************************)
(* What an event says of the runtime that writes it                        *)
(***************************************************************************)
\* The types whose events change what a goroutine does, and which one's.
MoveTypes  == {"GoCreate", "GoUnblock", "GoSysExit"} \cup SnapTypes \cup StartTypes \cup LeaveTypes
Subject(d) == CASE d.typ \in {"GoCreate", "GoUnblock", "GoSysExit"}       -> d.arg
                [] d.typ \in SnapTypes \cup StartTypes \cup LeaveTypes    -> d.g
                [] OTHER                                                  -> NoG

\* d is an event of goroutine g, or about it.
Of(d, g) == d.g = g \/ Subject(d) = g

\* What the goroutine did before, and does then.
Needs(typ) == CASE typ = "GoCreate"                       -> "gDead"
                [] typ \in SnapTypes \cup StartTypes      -> "gRunnable"
                [] typ \in LeaveTypes                     -> "gRunning"
                [] typ \in {"GoUnblock", "GoSysExit"}     -> "gWaiting"
Gets(typ)  == CASE typ \in StartTypes                                          -> "gRunning"
                [] typ \in {"GoCreate", "GoUnblock", "GoSysExit"} \cup YieldTypes -> "gRunnable"
                [] typ \in SnapTypes \cup ParkTypes \cup {"GoSysBlock"}        -> "gWaiting"
                [] typ \in EndTypes                                            -> "gDead"

\* What is told of an event once it is settled, whenever it is dated.
Tale(e) == [typ |-> Delocalized(e.typ), p |-> e.p, g |-> e.g, arg |-> e.arg, n |-> e.n]
Tales   == [typ : EventTypes \ LocalTypes, p : Proc, g : Goroutine \cup {NoG},
            arg : Goroutine \cup {NoG}, n : Nat]

\* The runtime's view: what each P runs, what each goroutine does, which were
\* created, and the bookkeeping of wakeups, spans and Ps.
Made  == {g \in Goroutine : rg[g].status # "gDead"}
Doing == [g \in Goroutine |-> IF rg[g].status = "gRunning" /\ \A p \in Proc : cur[p] # g
                              THEN "gDead" ELSE rg[g].status]
View  == [run |-> cur, st |-> Doing, made |-> Made, mode |-> mode, open |-> open, on |-> on]

\* Views v and w before and after event d.
ActTypes == LeaveTypes \cup OwnSpans \cup {"FutileWakeup", "GoSysCall"}
ForTypes == {"GoCreate", "GoUnblock"} \cup SweepTypes

RunsBy(v, d, w) ==
    /\ w.run = CASE d.typ = "GoStart"      -> [v.run EXCEPT ![d.p] = d.g]
                 [] d.typ \in LeaveTypes   -> [v.run EXCEPT ![d.p] = NoG]
                 [] OTHER                  -> v.run
    /\ d.typ \in {"GoStart", "ProcStop"} => v.run[d.p] = NoG
    /\ d.typ \in ActTypes => d.g = v.run[d.p] /\ d.g # NoG
    /\ d.typ \in ForTypes => d.g = v.run[d.p]
    /\ d.typ = "GoSysExit" => d.g \in {NoG, d.arg} /\ (~LocalExits => d.g = d.arg)
    /\ d.typ \notin ActTypes \cup ForTypes \cup {"GoSysExit"} \cup SnapTypes \cup StartTypes => d.g = NoG

MovesBy(v, d, w) ==
    /\ d.typ \in MoveTypes =>
         /\ Subject(d) \in Goroutine
         /\ v.st[Subject(d)] = Needs(d.typ)
         /\ w.st = [v.st EXCEPT ![Subject(d)] = Gets(d.typ)]
         /\ d.typ = "GoCreate" => Subject(d) \notin v.made
         /\ w.made = IF d.typ = "GoCreate" THEN v.made \cup {Subject(d)} ELSE v.made
    /\ d.typ \notin MoveTypes => w.st = v.st /\ w.made = v.made

ModesBy(v, d, w) ==
    \A h \in Goroutine :
        /\ w.mode[h] = "wakeup" =>
             \/ d.typ = "GoUnblock" /\ d.arg = h
             \/ d.typ = "GoCreate" /\ d.arg = h /\ MidWakeup
             \/ v.mode[h] = "wakeup" /\ (Of(d, h) => d.typ \in {"GoStart", "GoPreempt"} \cup SweepTypes)
        /\ w.mode[h] = "futile" =>
             \/ d.typ = "FutileWakeup" /\ d.g = h
             \/ v.mode[h] = "futile" /\ ~Of(d, h)
        /\ v.mode[h] = "futile" => IF Of(d, h) THEN d.typ \in FutileParks /\ d.g = h
                                   ELSE w.mode[h] = "futile"
        /\ d.typ = "FutileWakeup" /\ d.g = h => v.mode[h] = "wakeup" /\ w.mode[h] = "futile"

\* A goroutine is in a system call from its GoSysCall, or the snapshot, until
\* it does anything but block there; only its exit ends a blocked call.
CallsBy(v, d, w) ==
    \A h \in Goroutine :
        /\ d.typ \in {"GoSysCall", "GoInSyscall"} /\ d.g = h => w.mode[h] = "syscall"
        /\ d.typ = "GoSysBlock" /\ d.g = h => v.mode[h] = "syscall" /\ w.mode[h] = "syscall"
        /\ d.typ = "GoSysExit" /\ d.arg = h => v.mode[h] = "syscall"
        /\ d.typ = "GoUnblock" /\ d.arg = h => v.mode[h] # "syscall"
        /\ w.mode[h] = "syscall" /\ Of(d, h) => d.typ \in {"GoSysCall", "GoInSyscall", "GoSysBlock"}
        /\ ~Of(d, h) => w.mode[h] = v.mode[h]

Key(d) == CASE d.typ \in {"GCStart", "GCDone"}                         -> GCSpan
            [] d.typ \in {"GCSTWStart", "GCSTWDone"}                   -> STWSpan
            [] d.typ \in SweepTypes                                    -> SweepOf(d.p)
            [] d.typ \in {"GCMarkAssistStart", "GCMarkAssistDone"}     -> AssistOf(d.g)
            [] d.typ \in {"UserRegionStart", "UserRegionEnd"}          -> RegionOf(d.g)
            [] d.typ \in {"UserTaskCreate", "UserTaskEnd"}             -> TaskSpan
Openers == SpanOpens \cup {"GCStart"}

SpansBy(v, d, w) ==
    /\ d.typ \in Openers    => Key(d) \notin v.open /\ w.open = v.open \cup {Key(d)}
    /\ d.typ \in SpanCloses => Key(d) \in v.open /\ w.open = v.open \ {Key(d)}
    /\ d.typ \notin Openers \cup SpanCloses => w.open = v.open

OnBy(v, d, w) ==
    /\ d.typ = "ProcStart" => d.p \notin v.on /\ w.on = v.on \cup {d.p}
    /\ d.typ = "ProcStop"  => d.p \in v.on /\ w.on = v.on \ {d.p}
    /\ d.typ \notin {"ProcStart", "ProcStop"} => w.on = v.on

Did(v, d, w) ==
    /\ d \in Tales /\ d.typ \in Emits
    /\ RunsBy(v, d, w) /\ MovesBy(v, d, w) /\ ModesBy(v, d, w) /\ CallsBy(v, d, w)
    /\ SpansBy(v, d, w) /\ OnBy(v, d, w)

\* What the runtime's bookkeeping keeps to, besides TracerInv.
Rules ==
    /\ starting /\ "ProcStart" \in Emits => on = {}
    /\ \A g \in Goroutine : mode[g] = "futile" => \E p \in Proc : cur[p] = g
    /\ \A g \in Goroutine : mode[g] = "wakeup" => g \in Made
    /\ \A g \in Goroutine : mode[g] = "syscall" => Doing[g] \in {"gRunning", "gWaiting"}

DidIt == \E e \in Event : Emit(e) /\ e.n = n + 1 /\ Did(View, Tale(e), View')
-----------------------------------------------------------------------------
\* What a step that moves goroutine c changes of the view: c is created or made
\* runnable, started on P, or leaves it, for good or not.
LEMMA StatusSets ==
    ASSUME TracerTypeOK, NEW c \in Goroutine, NEW status \in gStatus \ {"gRunning"}, NEW s \in Nat,
           rg' = [rg EXCEPT ![c] = gState(s, status)], cur' = cur
    PROVE  /\ Doing' = [Doing EXCEPT ![c] = status]
           /\ Made' = (Made \ {c}) \cup {h \in {c} : status # "gDead"}
<1>1. /\ \A h \in Chain : rg'[h] = IF h = c THEN gState(s, status) ELSE rg[h]
      /\ Goroutine \subseteq Chain
  BY DEF TracerTypeOK, Chain
<1>2. \A h \in Goroutine : Doing'[h] = IF h = c THEN status ELSE Doing[h]
  BY <1>1 DEF Doing
<1>0. Doing = [h \in Goroutine |-> Doing[h]] /\ Doing' = [h \in Goroutine |-> Doing'[h]]
  BY DEF Doing
<1>3. Doing' = [Doing EXCEPT ![c] = status]
  BY <1>0, <1>2
<1>4. Made' = (Made \ {c}) \cup {h \in {c} : status # "gDead"}
  BY <1>1 DEF Made
<1> QED BY <1>3, <1>4

LEMMA StatusStarts ==
    ASSUME TracerTypeOK, TracerInv, NEW c \in Goroutine, NEW p \in Proc, NEW s \in Nat,
           rg[c].status = "gRunnable", cur[p] = NoG,
           rg' = [rg EXCEPT ![c] = gState(s, "gRunning")], cur' = [cur EXCEPT ![p] = c]
    PROVE  Doing' = [Doing EXCEPT ![c] = "gRunning"] /\ Made' = Made
<1>1. /\ \A h \in Chain : rg'[h] = IF h = c THEN gState(s, "gRunning") ELSE rg[h]
      /\ Goroutine \subseteq Chain
  BY DEF TracerTypeOK, Chain
<1>2. \A q \in Proc : cur'[q] = IF q = p THEN c ELSE cur[q]
  BY DEF TracerTypeOK
<1>3. \A h \in Goroutine \ {c} : (\A q \in Proc : cur'[q] # h) <=> (\A q \in Proc : cur[q] # h)
  BY <1>2, Sentinels
<1>4. \A h \in Goroutine : Doing'[h] = IF h = c THEN "gRunning" ELSE Doing[h]
  BY <1>1, <1>2, <1>3 DEF Doing
<1>5. Doing' = [Doing EXCEPT ![c] = "gRunning"]
  BY <1>4 DEF Doing
<1>6. Made' = Made
  BY <1>1 DEF Made
<1> QED BY <1>5, <1>6

LEMMA StatusLeaves ==
    ASSUME TracerTypeOK, TracerInv, NEW c \in Goroutine, NEW p \in Proc, NEW s \in Nat,
           NEW status \in gStatus \ {"gRunning"}, cur[p] = c, cur' = [cur EXCEPT ![p] = NoG],
           \/ rg' = [rg EXCEPT ![c] = gState(s, status)] /\ status # "gDead"
           \/ rg' = rg /\ status = "gDead"
    PROVE  Doing[c] = "gRunning" /\ Doing' = [Doing EXCEPT ![c] = status] /\ Made' = Made
<1>1. /\ \A h \in Chain \ {c} : rg'[h] = rg[h]
      /\ Goroutine \subseteq Chain
      /\ \/ rg'[c] = gState(s, status) /\ status # "gDead"
         \/ rg'[c] = rg[c] /\ status = "gDead"
  BY DEF TracerTypeOK, Chain
<1>2. \A q \in Proc : cur'[q] = IF q = p THEN NoG ELSE cur[q]
  BY DEF TracerTypeOK
<1>3. \A q \in Proc : cur[q] = c => q = p
  BY Sentinels DEF TracerInv
<1>4. rg[c].status = "gRunning" /\ \A q \in Proc : cur'[q] # c
  BY <1>2, <1>3, Sentinels DEF TracerInv
<1>5. \A h \in Goroutine \ {c} : (\A q \in Proc : cur'[q] # h) <=> (\A q \in Proc : cur[q] # h)
  BY <1>2, Sentinels
<1>6. \A h \in Goroutine : Doing'[h] = IF h = c THEN status ELSE Doing[h]
  BY <1>1, <1>4, <1>5 DEF Doing
<1>7. Doing' = [Doing EXCEPT ![c] = status] /\ Doing[c] = "gRunning"
  BY <1>4, <1>6 DEF Doing
<1>8. Made' = Made
  BY <1>1, <1>4 DEF Made
<1> QED BY <1>7, <1>8

LEMMA StatusKept ==
    ASSUME UNCHANGED <<rg, cur>>
    PROVE  Doing' = Doing /\ Made' = Made
BY DEF Doing, Made

\* A goroutine that is not running does what its chain says.
LEMMA StatusShows ==
    ASSUME NEW c \in Goroutine, rg[c].status # "gRunning"
    PROVE  Doing[c] = rg[c].status
BY DEF Doing

LEMMA TaleTyped ==
    ASSUME NEW e \in Event
    PROVE  Tale(e) \in Tales
<1>1. Delocalized(e.typ) \in EventTypes \ LocalTypes
  BY DEF Event, Delocalized, EventTypes, LocalTypes, LeaveTypes, ParkTypes, YieldTypes, EndTypes,
         StartTypes, SnapTypes, PlainTypes, GoatTypes
<1> QED BY <1>1 DEF Tale, Tales, Event

LEMMA Assembled ==
    ASSUME NEW e \in Event, Emit(e), e.n = n + 1, Tale(e).typ \in Emits,
           RunsBy(View, Tale(e), View'), MovesBy(View, Tale(e), View'),
           ModesBy(View, Tale(e), View'), SpansBy(View, Tale(e), View'),
           OnBy(View, Tale(e), View'), CallsBy(View, Tale(e), View')
    PROVE  DidIt
BY TaleTyped DEF Did, DidIt

LEMMA ViewFields ==
    /\ View.run = cur /\ View.st = Doing /\ View.made = Made /\ View.mode = mode
    /\ View.open = open /\ View.on = on
    /\ View'.run = cur' /\ View'.st = Doing' /\ View'.made = Made' /\ View'.mode = mode'
    /\ View'.open = open' /\ View'.on = on'
BY DEF View

\* Events of the goroutine a P runs, or of none, but for the futile wakeup.
ActorModes(d) ==
    /\ \A h \in Goroutine \ {cur[d.p]} : mode'[h] = mode[h]
    /\ cur[d.p] # NoG /\ ~Of(d, cur[d.p]) => mode'[cur[d.p]] = mode[cur[d.p]]
    /\ cur[d.p] # NoG =>
         \/ mode'[cur[d.p]] \in {"user", "syscall"}
         \/ /\ mode'[cur[d.p]] = mode[cur[d.p]]
            /\ Of(d, cur[d.p]) => d.typ \in {"GoPreempt"} \cup SweepTypes
    /\ d.g \in {cur[d.p], NoG} /\ Subject(d) \in {cur[d.p], NoG} /\ d.typ # "FutileWakeup"
    /\ cur[d.p] # NoG /\ mode[cur[d.p]] = "futile" /\ Of(d, cur[d.p])
          => d.typ \in FutileParks /\ d.g = cur[d.p] /\ mode'[cur[d.p]] # "futile"

LEMMA ActorKeeps ==
    ASSUME TracerTypeOK, NEW d \in Tales, ActorModes(d)
    PROVE  ModesBy(View, d, View')
<1>1. cur[d.p] \in Goroutine \cup {NoG} /\ d.p \in Proc /\ NoG \notin Goroutine
  BY Sentinels DEF TracerTypeOK, Tales
<1>2. \A h \in Goroutine \ {cur[d.p]} : mode'[h] = mode[h] /\ ~Of(d, h)
  BY <1>1 DEF ActorModes, Of
<1> QED BY <1>1, <1>2, ViewFields DEF ModesBy, ActorModes

\* The classes of types used here, told apart.
LEMMA MoveClasses ==
    /\ \A typ \in ParkTypes \cup YieldTypes \cup EndTypes \cup {"GoSysBlock"} :
         /\ typ \in LeaveTypes /\ typ \in MoveTypes /\ typ \in ActTypes /\ Needs(typ) = "gRunning"
         /\ typ \notin Openers \cup SpanCloses
                       \cup {"GoCreate", "GoUnblock", "GoSysExit", "GoStart", "ProcStart", "ProcStop",
                             "FutileWakeup"}
                       \cup StartTypes \cup SnapTypes \cup LocalTypes
         /\ Delocalized(typ) = typ /\ typ \in EventTypes
         /\ Gets(typ) = IF typ \in YieldTypes THEN "gRunnable"
                        ELSE IF typ \in EndTypes THEN "gDead" ELSE "gWaiting"
    /\ \A typ \in SnapTypes \cup {"GoCreate", "GoStart", "GoUnblock", "GoSysExit"} :
         /\ typ \in MoveTypes
         /\ typ \notin Openers \cup SpanCloses \cup {"ProcStart", "ProcStop", "FutileWakeup"}
                       \cup LeaveTypes \cup LocalTypes \cup ActTypes \cup FutileParks \cup SweepTypes
         /\ Delocalized(typ) = typ /\ typ \in EventTypes
BY DEF ParkTypes, YieldTypes, EndTypes, LeaveTypes, MoveTypes, ActTypes, OwnSpans, Needs, Gets,
       Openers, SpanOpens, SpanCloses, SnapTypes, StartTypes, LocalTypes, Delocalized, EventTypes,
       FutileParks, SweepTypes

LEMMA LeaveDid ==
    ASSUME TracerTypeOK, TracerInv, NEW p \in Proc, NEW typ \in LeaveTypes, NEW s \in Nat,
           NEW e \in Event, Emit(e), e.n = n + 1, e.typ = typ, e.p = p, e.g = cur[p], typ \in Emits,
           cur[p] # NoG, cur' = [cur EXCEPT ![p] = NoG], UNCHANGED <<open, on>>,
           IF typ \in EndTypes THEN rg' = rg
           ELSE rg' = [rg EXCEPT ![cur[p]] = gState(s, Gets(typ))],
           ActorModes(Tale(e)), CallsBy(View, Tale(e), View')
    PROVE  DidIt
<1> DEFINE d == Tale(e)
<1>1. typ \in ParkTypes \cup YieldTypes \cup EndTypes \cup {"GoSysBlock"}
  BY DEF LeaveTypes
<1>2. /\ d.typ = typ /\ d.p = p /\ d.g = cur[p] /\ d \in Tales
  BY <1>1, MoveClasses, TaleTyped DEF Tale
<1>3. cur[p] \in Goroutine
  BY DEF TracerTypeOK
<1>4. Subject(d) = cur[p]
  BY <1>1, <1>2, MoveClasses DEF Subject
<1>5. Gets(typ) \in gStatus \ {"gRunning"} /\ (typ \in EndTypes <=> Gets(typ) = "gDead")
  BY <1>1, MoveClasses DEF gStatus, YieldTypes, EndTypes
<1>6. Doing[cur[p]] = "gRunning" /\ Doing' = [Doing EXCEPT ![cur[p]] = Gets(typ)] /\ Made' = Made
  BY <1>3, <1>5, StatusLeaves
<1> HIDE DEF d
<1>7. RunsBy(View, d, View')
  BY <1>1, <1>2, MoveClasses, ViewFields DEF RunsBy, ForTypes, SweepTypes, LeaveTypes
<1>8. MovesBy(View, d, View')
  BY <1>1, <1>2, <1>3, <1>4, <1>6, MoveClasses, ViewFields DEF MovesBy
<1>9. ModesBy(View, d, View')
  BY <1>2, ActorKeeps DEF d
<1>10. SpansBy(View, d, View') /\ OnBy(View, d, View')
  BY <1>1, <1>2, MoveClasses, ViewFields DEF SpansBy, OnBy
<1> QED BY <1>2, <1>7, <1>8, <1>9, <1>10, Assembled DEF d

\* What Traced says of the P's goroutine.
LEMMA TracedSays ==
    ASSUME TracerTypeOK, NEW p \in Proc, NEW typ, Traced(p, typ)
    PROVE  /\ typ \in Emits /\ ~starting /\ p \in on
           /\ cur[p] \in Goroutine /\ mode[cur[p]] = "futile" => typ \in FutileParks
BY DEF Traced, Unsettled

LEMMA LeavesDid ==
    ASSUME TracerTypeOK, TracerInv, NEW p \in Proc, NEW t \in Now(p), NEW typ \in LeaveTypes,
           GoPark(p, typ, t) \/ GoYield(p, typ, t) \/ GoEnd(p, typ, t)
                \/ (typ = "GoSysBlock" /\ GoSysBlock(p, t))
    PROVE  DidIt
<1>0. /\ t \in Nat /\ typ \in EventTypes /\ Delocalized(typ) = typ
      /\ cur[p] \in Goroutine \cup {NoG} /\ NoG \notin Goroutine /\ mode \in [Goroutine -> Modes]
  BY NowTyped, MoveClasses, Sentinels DEF LeaveTypes, TracerTypeOK
<1>1. cur[p] \in Goroutine /\ Traced(p, typ)
  BY <1>0 DEF GoPark, GoYield, GoEnd, GoSysBlock, Acts
<1>2. \A h \in Goroutine \ {cur[p]} : mode'[h] = mode[h]
  BY <1>0 DEF GoPark, GoYield, GoEnd, GoSysBlock, Busy
<1>3. \/ mode'[cur[p]] \in {"user", "syscall"}
      \/ mode'[cur[p]] = mode[cur[p]] /\ typ = "GoPreempt" /\ mode[cur[p]] = "wakeup"
  BY <1>0, <1>1 DEF GoPark, GoYield, GoEnd, GoSysBlock, Busy
<1>4. mode[cur[p]] = "futile" => typ \in FutileParks
  BY <1>1, TracedSays
<1>5. typ \in Emits /\ UNCHANGED <<open, on>> /\ cur' = [cur EXCEPT ![p] = NoG]
  BY <1>1, TracedSays DEF GoPark, GoYield, GoEnd, GoSysBlock
<1>6. ASSUME NEW e \in Event, e.typ = typ, e.p = p, e.g = cur[p]
      PROVE  ActorModes(Tale(e))
  <2>1. Tale(e).typ = typ /\ Tale(e).p = p /\ Tale(e).g = cur[p]
    BY <1>0, <1>6 DEF Tale
  <2>2. Subject(Tale(e)) = cur[p]
    BY <2>1, MoveClasses DEF Subject, LeaveTypes
  <2>3. typ # "FutileWakeup"
    BY MoveClasses DEF LeaveTypes
  <2> QED BY <1>1, <1>2, <1>3, <1>4, <2>1, <2>2, <2>3 DEF ActorModes, Of
<1>60. ASSUME NEW e \in Event, e.typ = typ, e.p = p, e.g = cur[p]
       PROVE  CallsBy(View, Tale(e), View')
  <2>1. Tale(e).typ = typ /\ Tale(e).p = p /\ Tale(e).g = cur[p]
    BY <1>0, <1>60 DEF Tale
  <2>2. Subject(Tale(e)) = cur[p]
    BY <2>1, MoveClasses DEF Subject, LeaveTypes
  <2>3. \A h \in Goroutine : Of(Tale(e), h) <=> h = cur[p]
    BY <2>1, <2>2 DEF Of
  <2>4. typ \notin {"GoSysCall", "GoInSyscall", "GoSysExit", "GoUnblock"}
    BY DEF LeaveTypes, ParkTypes, YieldTypes, EndTypes
  <2>5. typ = "GoSysBlock" => mode[cur[p]] = "syscall" /\ mode'[cur[p]] = "syscall"
    BY <1>0, <1>1 DEF GoPark, GoYield, GoEnd, GoSysBlock, ParkTypes, YieldTypes, EndTypes
  <2>6. typ # "GoSysBlock" => mode'[cur[p]] # "syscall"
    BY <1>0, <1>1 DEF GoPark, GoYield, GoEnd, GoSysBlock, Busy
  <2> QED BY <1>1, <1>2, <2>1, <2>3, <2>4, <2>5, <2>6, ViewFields DEF CallsBy
<1>7. ASSUME typ \in EndTypes
      PROVE  DidIt
  <2> DEFINE e == Plain(typ, p, t, cur[p])
  <2>1. Emit(e) /\ rg' = rg
    BY <1>7, MoveClasses DEF GoPark, GoYield, GoEnd, GoSysBlock, EndTypes, ParkTypes, YieldTypes
  <2>2. e \in Event /\ e.n = n + 1 /\ e.typ = typ /\ e.p = p /\ e.g = cur[p]
    BY <1>0, PlainTyped DEF Plain
  <2> HIDE DEF e
  <2> QED BY <1>0, <1>1, <1>5, <1>6, <1>60, <1>7, <2>1, <2>2, LeaveDid
<1>8. ASSUME typ \notin EndTypes
      PROVE  DidIt
  <2> DEFINE e == Moving(typ, p, t, cur[p], cur[p], 0, Gets(typ))
  <2>0. typ \in ParkTypes => Gets(typ) = "gWaiting"
    BY MoveClasses DEF ParkTypes, YieldTypes, EndTypes
  <2>00. typ \in YieldTypes => Gets(typ) = "gRunnable"
    BY MoveClasses
  <2>000. typ = "GoSysBlock" => Gets(typ) = "gWaiting"
    BY MoveClasses DEF YieldTypes, EndTypes
  <2>1. Emit(e) /\ rg' = [rg EXCEPT ![cur[p]] = e.post]
    BY <1>8, <2>0, <2>00, <2>000 DEF GoPark, GoYield, GoEnd, GoSysBlock
  <2>2. cur[p] \in Chain /\ Gets(typ) \in gStatus /\ 0 \in Nat
    BY <1>1, <1>8, <2>0, <2>00, <2>000 DEF Chain, gStatus, LeaveTypes
  <2>3. e \in Event
    BY <1>0, <2>2, MovingTyped
  <2>4. e.n = n + 1 /\ e.typ = typ /\ e.p = p /\ e.g = cur[p]
        /\ e.post = gState(rg[cur[p]].seq + 0, Gets(typ))
    BY DEF Moving
  <2>5. rg[cur[p]].seq + 0 \in Nat
    BY <2>2 DEF TracerTypeOK, GState
  <2> HIDE DEF e
  <2>6. PICK s \in Nat : s = rg[cur[p]].seq + 0
    BY <2>5
  <2>7. rg' = [rg EXCEPT ![cur[p]] = gState(s, Gets(typ))]
    BY <2>1, <2>4, <2>6
  <2>8. ActorModes(Tale(e)) /\ CallsBy(View, Tale(e), View')
    BY <1>6, <1>60, <2>3, <2>4
  <2>9. cur[p] # NoG
    BY <1>0, <1>1
  <2> QED BY <1>5, <1>8, <2>1, <2>3, <2>4, <2>7, <2>8, <2>9, LeaveDid
<1> QED BY <1>7, <1>8

\* A goroutine is created, announced as blocked or made runnable, by a P that
\* goes on with what it does.
LEMMA SetDid ==
    ASSUME TracerTypeOK, NEW c \in Goroutine, NEW e \in Event, Emit(e), e.n = n + 1,
           NEW typ \in SnapTypes \cup {"GoCreate", "GoUnblock", "GoSysExit"}, NEW s \in Nat,
           Delocalized(e.typ) = typ, typ \in Emits, rg[c].status = Needs(typ),
           rg' = [rg EXCEPT ![c] = gState(s, Gets(typ))], UNCHANGED <<cur, open, on>>,
           IF typ \in SnapTypes THEN e.g = c ELSE e.arg = c,
           typ \in {"GoCreate", "GoUnblock"} => e.g = cur[e.p],
           typ = "GoSysExit" => e.g \in {NoG, c} /\ (~LocalExits => e.g = c),
           ModesBy(View, Tale(e), View'), CallsBy(View, Tale(e), View')
    PROVE  DidIt
<1> DEFINE d == Tale(e)
<1>1. d.typ = typ /\ d.p = e.p /\ d.g = e.g /\ d.arg = e.arg /\ d \in Tales
  BY TaleTyped DEF Tale
<1>2. Subject(d) = c
  BY <1>1 DEF Subject, SnapTypes, StartTypes, LeaveTypes, ParkTypes, YieldTypes, EndTypes
<1>3. /\ Gets(typ) = IF typ \in SnapTypes THEN "gWaiting" ELSE "gRunnable"
      /\ Needs(typ) = IF typ = "GoCreate" THEN "gDead"
                      ELSE IF typ \in SnapTypes THEN "gRunnable" ELSE "gWaiting"
  BY DEF Gets, Needs, SnapTypes, StartTypes, LeaveTypes, ParkTypes, YieldTypes, EndTypes
<1>4. Gets(typ) \in gStatus \ {"gRunning", "gDead"} /\ Needs(typ) # "gRunning"
  BY <1>3 DEF gStatus
<1>5. Doing' = [Doing EXCEPT ![c] = Gets(typ)] /\ Made' = Made \cup {c}
  BY <1>4, StatusSets
<1>6. Doing[c] = Needs(typ) /\ (c \in Made <=> typ # "GoCreate")
  BY <1>3, <1>4, StatusShows DEF Made
<1>7. typ \notin ActTypes \cup LeaveTypes \cup Openers \cup SpanCloses \cup SweepTypes
                 \cup {"GoStart", "ProcStart", "ProcStop"} /\ typ \in MoveTypes
  BY MoveClasses DEF SnapTypes
<1> HIDE DEF d
<1>11. "GoSysExit" \notin SnapTypes
  BY DEF SnapTypes
<1>8. RunsBy(View, d, View')
  BY <1>1, <1>7, <1>11, ViewFields DEF RunsBy, ForTypes
<1>9. MovesBy(View, d, View')
  BY <1>1, <1>2, <1>5, <1>6, <1>7, ViewFields DEF MovesBy
<1>10. SpansBy(View, d, View') /\ OnBy(View, d, View')
  BY <1>1, <1>7, ViewFields DEF SpansBy, OnBy
<1> QED BY <1>1, <1>8, <1>9, <1>10, Assembled DEF d

\* An event that moves no goroutine.
LEMMA StaysDid ==
    ASSUME TracerTypeOK, NEW e \in Event, Emit(e), e.n = n + 1, e.typ \in Emits,
           e.typ \notin MoveTypes \cup LocalTypes \cup SnapTypes \cup StartTypes,
           \A g \in Goroutine : rg'[g] = rg[g], UNCHANGED cur,
           e.typ = "ProcStop" => cur[e.p] = NoG,
           e.typ \in ActTypes => e.g = cur[e.p] /\ e.g # NoG,
           e.typ \in SweepTypes => e.g = cur[e.p],
           e.typ \notin ActTypes \cup SweepTypes => e.g = NoG,
           ModesBy(View, Tale(e), View'), SpansBy(View, Tale(e), View'),
           OnBy(View, Tale(e), View'), CallsBy(View, Tale(e), View')
    PROVE  DidIt
<1> DEFINE d == Tale(e)
<1>1. d.typ = e.typ /\ d.p = e.p /\ d.g = e.g
  BY DEF Tale, Delocalized, LocalTypes
<1>2. Doing' = Doing /\ Made' = Made
  BY DEF Doing, Made
<1> HIDE DEF d
<1>3. d.typ \notin MoveTypes /\ d.typ \notin LeaveTypes
      /\ d.typ \notin {"GoStart", "GoCreate", "GoUnblock", "GoSysExit"}
  BY <1>1 DEF MoveTypes, StartTypes
<1>4. RunsBy(View, d, View')
  BY <1>1, <1>3, ViewFields DEF RunsBy, ForTypes, ActTypes
<1>5. MovesBy(View, d, View')
  BY <1>2, <1>3, ViewFields DEF MovesBy
<1> QED BY <1>1, <1>4, <1>5, Assembled DEF d

LEMMA SnapDid ==
    ASSUME TracerTypeOK, TracerInv, Rules, NEW t \in Now(Boot), NEW g \in Goroutine,
           SnapCreate(g, t) \/ \E typ \in SnapTypes : SnapBlocked(g, typ, t)
    PROVE  DidIt
<1>0. /\ Boot \in Proc /\ NoG \in Goroutine \cup {NoG} /\ t \in Nat /\ g \in Chain /\ NoG \notin Goroutine
      /\ {"gRunnable", "gWaiting", "gDead"} \subseteq gStatus /\ 1 \in Nat /\ rg[g].seq + 1 \in Nat
  BY TracerAssumption, NowTyped, Sentinels DEF Chain, gStatus, TracerTypeOK, GState
<1>1. CASE SnapCreate(g, t)
  <2> DEFINE e == Moving("GoCreate", Boot, t, NoG, g, 1, "gRunnable")
  <2>1. /\ Emit(e) /\ rg' = [rg EXCEPT ![g] = e.post] /\ UNCHANGED <<cur, open, on>>
        /\ "GoCreate" \in Emits /\ rg[g].status = "gDead" /\ starting
        /\ \E m \in {"user", "wakeup"} : mode' = [mode EXCEPT ![g] = m] /\ (m = "wakeup" => MidWakeup)
    BY <1>1 DEF SnapCreate
  <2>2. e \in Event
    BY <1>0, MovingTyped DEF EventTypes
  <2>3. e.n = n + 1 /\ e.typ = "GoCreate" /\ e.p = Boot /\ e.g = NoG /\ e.arg = g
        /\ e.post = gState(rg[g].seq + 1, "gRunnable")
    BY Sentinels DEF Moving
  <2> HIDE DEF e
  <2>4. Tale(e).typ = "GoCreate" /\ Tale(e).p = Boot /\ Tale(e).g = NoG /\ Tale(e).arg = g
    BY <2>3 DEF Tale, Delocalized
  <2>5. Subject(Tale(e)) = g
    BY <2>4 DEF Subject, SnapTypes, StartTypes, LeaveTypes, ParkTypes, YieldTypes, EndTypes
  <2>6. mode[g] # "futile"
    BY <2>1, Sentinels DEF Rules, TracerInv
  <2>7. \A h \in Goroutine : Of(Tale(e), h) <=> h = g
    BY <1>0, <2>4, <2>5 DEF Of
  <2>8. ModesBy(View, Tale(e), View')
    BY <2>1, <2>4, <2>6, <2>7, ViewFields DEF ModesBy, TracerTypeOK
  <2>80. CallsBy(View, Tale(e), View')
    BY <2>1, <2>4, <2>7, ViewFields DEF CallsBy, TracerTypeOK
  <2>9. Gets("GoCreate") = "gRunnable" /\ Needs("GoCreate") = "gDead" /\ cur[Boot] = NoG
    BY <1>0, <2>1
       DEF Gets, Needs, TracerInv, StartTypes, SnapTypes, LeaveTypes, ParkTypes, YieldTypes, EndTypes
  <2>10. Delocalized(e.typ) = "GoCreate" /\ "GoCreate" \notin SnapTypes
    BY <2>3 DEF Delocalized, SnapTypes
  <2>11. PICK s \in Nat : s = rg[g].seq + 1
    BY <1>0
  <2>12. PICK typ \in SnapTypes \cup {"GoCreate", "GoUnblock", "GoSysExit"} : typ = "GoCreate"
    OBVIOUS
  <2>13. rg' = [rg EXCEPT ![g] = gState(s, Gets(typ))] /\ e.g = cur[e.p] /\ typ \notin SnapTypes
         /\ typ # "GoSysExit" /\ typ \in Emits /\ Delocalized(e.typ) = typ
         /\ rg[g].status = Needs(typ)
    BY <2>1, <2>3, <2>9, <2>10, <2>11, <2>12
  <2>14. Emit(e) /\ UNCHANGED <<cur, open, on>> /\ e.n = n + 1 /\ e.arg = g
    BY <2>1, <2>3
  <2> QED BY <2>2, <2>8, <2>80, <2>13, <2>14, SetDid
<1>2. ASSUME NEW typ \in SnapTypes, SnapBlocked(g, typ, t)
      PROVE  DidIt
  <2> DEFINE e == Moving(typ, Boot, t, g, g, 1, "gWaiting")
  <2>1. /\ Emit(e) /\ rg' = [rg EXCEPT ![g] = e.post] /\ UNCHANGED <<cur, open, on>>
        /\ typ \in Emits /\ rg[g].status = "gRunnable"
        /\ mode' = [mode EXCEPT ![g] = IF typ = "GoInSyscall" THEN "syscall" ELSE "user"]
    BY <1>2 DEF SnapBlocked
  <2>2. e \in Event
    BY <1>0, MovingTyped DEF EventTypes
  <2>3. e.n = n + 1 /\ e.typ = typ /\ e.p = Boot /\ e.g = g
        /\ e.post = gState(rg[g].seq + 1, "gWaiting")
    BY DEF Moving
  <2> HIDE DEF e
  <2>4. Tale(e).typ = typ /\ Tale(e).g = g
    BY <2>3 DEF Tale, Delocalized, SnapTypes
  <2>5. Subject(Tale(e)) = g
    BY <2>4 DEF Subject, SnapTypes
  <2>6. mode[g] # "futile"
    BY <2>1, Sentinels DEF Rules, TracerInv
  <2>7. \A h \in Goroutine : Of(Tale(e), h) <=> h = g
    BY <2>4, <2>5 DEF Of
  <2>8. ModesBy(View, Tale(e), View')
    BY <2>1, <2>4, <2>6, <2>7, ViewFields DEF ModesBy, TracerTypeOK, SnapTypes
  <2>80. CallsBy(View, Tale(e), View')
    BY <2>1, <2>4, <2>7, ViewFields DEF CallsBy, TracerTypeOK, SnapTypes
  <2>9. Gets(typ) = "gWaiting" /\ Needs(typ) = "gRunnable" /\ Delocalized(e.typ) = typ
        /\ typ \notin {"GoCreate", "GoUnblock", "GoSysExit"}
    BY <2>3 DEF Gets, Needs, StartTypes, SnapTypes, LeaveTypes, ParkTypes, YieldTypes, EndTypes, Delocalized
  <2> QED BY <1>0, <2>1, <2>2, <2>3, <2>8, <2>80, <2>9, SetDid
<1> QED BY <1>1, <1>2

LEMMA CreateDid ==
    ASSUME TracerTypeOK, TracerInv, Rules, NEW p \in Proc, NEW t \in Now(p), NEW g \in Goroutine,
           GoCreate(p, g, t)
    PROVE  DidIt
<1> DEFINE e == Moving("GoCreate", p, t, cur[p], g, 1, "gRunnable")
<1>0. /\ t \in Nat /\ g \in Chain /\ NoG \notin Goroutine /\ cur[p] \in Goroutine \cup {NoG}
      /\ "gRunnable" \in gStatus /\ 1 \in Nat /\ rg[g].seq + 1 \in Nat /\ g # Garbage
  BY NowTyped, Sentinels DEF Chain, gStatus, TracerTypeOK, GState
<1>1. /\ Emit(e) /\ rg' = [rg EXCEPT ![g] = e.post] /\ UNCHANGED <<cur, open, on>>
      /\ Traced(p, "GoCreate") /\ Acts(p) /\ rg[g].status = "gDead"
      /\ mode' = [mode EXCEPT ![cur[p]] = "user"]
  BY DEF GoCreate, Busy, Acts
<1>2. e \in Event
  BY <1>0, MovingTyped DEF EventTypes
<1>3. e.n = n + 1 /\ e.typ = "GoCreate" /\ e.p = p /\ e.g = cur[p] /\ e.arg = g
      /\ e.post = gState(rg[g].seq + 1, "gRunnable")
  BY <1>0 DEF Moving
<1> HIDE DEF e
<1>4. Tale(e).typ = "GoCreate" /\ Tale(e).p = p /\ Tale(e).g = cur[p] /\ Tale(e).arg = g
  BY <1>3 DEF Tale, Delocalized
<1>5. Subject(Tale(e)) = g
  BY <1>4 DEF Subject, SnapTypes, StartTypes, LeaveTypes, ParkTypes, YieldTypes, EndTypes
<1>6. g # cur[p] /\ mode[g] \notin {"futile", "wakeup"} /\ cur[p] \in Goroutine /\ mode[cur[p]] # "futile"
  BY <1>0, <1>1 DEF Rules, TracerInv, Acts, Made
<1>7. \A h \in Goroutine : mode'[h] = IF h = cur[p] THEN "user" ELSE mode[h]
  BY <1>1, <1>6 DEF TracerTypeOK
<1>8. \A h \in Goroutine : Of(Tale(e), h) <=> h = g \/ h = cur[p]
  BY <1>4, <1>5 DEF Of
<1>9. ModesBy(View, Tale(e), View')
  BY <1>4, <1>6, <1>7, <1>8, ViewFields DEF ModesBy
<1>90. mode[g] # "syscall"
  <2>1. Doing[g] = "gDead"
    BY <1>1, StatusShows
  <2> QED BY <2>1 DEF Rules
<1>91. CallsBy(View, Tale(e), View')
  BY <1>4, <1>7, <1>8, <1>90, ViewFields DEF CallsBy
<1>10. Gets("GoCreate") = "gRunnable" /\ Needs("GoCreate") = "gDead" /\ "GoCreate" \notin SnapTypes
       /\ Delocalized("GoCreate") = "GoCreate"
  BY DEF Gets, Needs, StartTypes, SnapTypes, LeaveTypes, ParkTypes, YieldTypes, EndTypes, Delocalized
<1>11. PICK s \in Nat : s = rg[g].seq + 1
  BY <1>0
<1>12. PICK typ \in SnapTypes \cup {"GoCreate", "GoUnblock", "GoSysExit"} : typ = "GoCreate"
  OBVIOUS
<1>13. rg' = [rg EXCEPT ![g] = gState(s, Gets(typ))] /\ e.g = cur[e.p] /\ typ \notin SnapTypes
       /\ typ # "GoSysExit" /\ typ \in Emits /\ Delocalized(e.typ) = typ
       /\ rg[g].status = Needs(typ)
  BY <1>1, <1>3, <1>10, <1>11, <1>12, TracedSays
<1>14. Emit(e) /\ UNCHANGED <<cur, open, on>> /\ e.n = n + 1 /\ e.arg = g
  BY <1>1, <1>3
<1> QED BY <1>2, <1>9, <1>91, <1>13, <1>14, SetDid

LEMMA UnblockDid ==
    ASSUME TracerTypeOK, TracerInv, Rules, NEW p \in Proc, NEW t \in Now(p), NEW g \in Goroutine,
           GoUnblock(p, g, t)
    PROVE  DidIt
<1> DEFINE old == IF lastp[g] = p THEN "GoUnblockLocal" ELSE "GoUnblock"
           e == Moving(old, p, t, cur[p], g, 1, "gRunnable")
<1>0. /\ t \in Nat /\ g \in Chain /\ NoG \notin Goroutine /\ cur[p] \in Goroutine \cup {NoG}
      /\ "gRunnable" \in gStatus /\ 1 \in Nat /\ rg[g].seq + 1 \in Nat /\ g # Garbage
  BY NowTyped, Sentinels DEF Chain, gStatus, TracerTypeOK, GState
<1>1. /\ Emit(e) /\ rg' = [rg EXCEPT ![g] = e.post] /\ UNCHANGED <<cur, open, on>>
      /\ Traced(p, "GoUnblock") /\ (cur[p] = NoG \/ Acts(p)) /\ rg[g].status = "gWaiting"
      /\ mode[g] # "syscall"
      /\ mode' = [h \in Goroutine |-> IF h = g THEN "wakeup"
                                      ELSE IF h = cur[p] THEN "user" ELSE mode[h]]
  BY DEF GoUnblock
<1>2. e \in Event
  BY <1>0, MovingTyped DEF EventTypes, LocalTypes
<1>3. e.n = n + 1 /\ e.typ = old /\ e.p = p /\ e.g = cur[p] /\ e.arg = g
      /\ e.post = gState(rg[g].seq + 1, "gRunnable") /\ Delocalized(old) = "GoUnblock"
  BY <1>0 DEF Moving, Delocalized
<1> HIDE DEF e, old
<1>4. Tale(e).typ = "GoUnblock" /\ Tale(e).p = p /\ Tale(e).g = cur[p] /\ Tale(e).arg = g
  BY <1>3 DEF Tale
<1>5. Subject(Tale(e)) = g
  BY <1>4 DEF Subject, SnapTypes, StartTypes, LeaveTypes, ParkTypes, YieldTypes, EndTypes
<1>6. g # cur[p] /\ mode[g] # "futile" /\ (cur[p] # NoG => mode[cur[p]] # "futile")
  BY <1>0, <1>1 DEF Rules, TracerInv, Acts
<1>7. \A h \in Goroutine : mode'[h] = IF h = g THEN "wakeup" ELSE IF h = cur[p] THEN "user" ELSE mode[h]
  BY <1>1
<1>8. \A h \in Goroutine : Of(Tale(e), h) <=> h = g \/ h = cur[p]
  BY <1>4, <1>5 DEF Of
<1>9. ModesBy(View, Tale(e), View')
  BY <1>0, <1>4, <1>6, <1>7, <1>8, ViewFields DEF ModesBy
<1>91. CallsBy(View, Tale(e), View')
  BY <1>0, <1>1, <1>4, <1>7, <1>8, ViewFields DEF CallsBy
<1>10. Gets("GoUnblock") = "gRunnable" /\ Needs("GoUnblock") = "gWaiting" /\ "GoUnblock" \notin SnapTypes
  BY DEF Gets, Needs, StartTypes, SnapTypes, LeaveTypes, ParkTypes, YieldTypes, EndTypes
<1>11. PICK s \in Nat : s = rg[g].seq + 1
  BY <1>0
<1>12. PICK typ \in SnapTypes \cup {"GoCreate", "GoUnblock", "GoSysExit"} : typ = "GoUnblock"
  OBVIOUS
<1>13. rg' = [rg EXCEPT ![g] = gState(s, Gets(typ))] /\ e.g = cur[e.p] /\ typ \notin SnapTypes
       /\ typ # "GoSysExit" /\ typ \in Emits /\ Delocalized(e.typ) = typ
       /\ rg[g].status = Needs(typ)
  BY <1>1, <1>3, <1>10, <1>11, <1>12, TracedSays
<1>14. Emit(e) /\ UNCHANGED <<cur, open, on>> /\ e.n = n + 1 /\ e.arg = g
  BY <1>1, <1>3
<1> QED BY <1>2, <1>9, <1>91, <1>13, <1>14, SetDid

LEMMA ExitDid ==
    ASSUME TracerTypeOK, TracerInv, Rules, NEW p \in Proc, NEW t \in Now(p), NEW g \in Goroutine,
           NEW r \in Past, GoSysExit(p, g, r, t)
    PROVE  DidIt
<1> DEFINE local == LocalExits /\ lastp[g] = p
           old == IF local THEN "GoSysExitLocal" ELSE "GoSysExit"
           who == IF local THEN NoG ELSE g
           m == Moving(old, p, t, who, g, 1, "gRunnable")
           e == [m EXCEPT !.real = IF local THEN 0 ELSE r]
<1>0. /\ t \in Nat /\ g \in Chain /\ NoG \notin Goroutine /\ who \in Goroutine \cup {NoG}
      /\ "gRunnable" \in gStatus /\ 1 \in Nat /\ rg[g].seq + 1 \in Nat /\ g # Garbage
      /\ r \in Nat /\ (IF local THEN 0 ELSE r) \in Nat
  BY NowTyped, Sentinels, TracerAssumption DEF Chain, gStatus, TracerTypeOK, GState, Past
<1>1. /\ Emit(e) /\ rg' = [rg EXCEPT ![g] = e.post] /\ UNCHANGED <<cur, open, on>>
      /\ Traced(p, "GoSysExit") /\ rg[g].status = "gWaiting" /\ mode[g] = "syscall"
      /\ mode' = [mode EXCEPT ![g] = "user"]
  BY DEF GoSysExit
<1>2. m \in Event
  BY <1>0, MovingTyped DEF EventTypes, LocalTypes
<1>20. e \in Event
  BY <1>0, <1>2 DEF Event
<1>30. m.n = n + 1 /\ m.typ = old /\ m.p = p /\ m.g = who /\ m.arg = g
       /\ m.post = gState(rg[g].seq + 1, "gRunnable")
  BY <1>0 DEF Moving
<1>3. e.n = n + 1 /\ e.typ = old /\ e.p = p /\ e.g = who /\ e.arg = g
      /\ e.post = gState(rg[g].seq + 1, "gRunnable")
  BY <1>2, <1>30 DEF Event
<1>31. Delocalized(old) = "GoSysExit" /\ who \in {NoG, g} /\ (~LocalExits => who = g)
  BY DEF Delocalized
<1> HIDE DEF e, m, old, who
<1>4. Tale(e).typ = "GoSysExit" /\ Tale(e).p = p /\ Tale(e).g = who /\ Tale(e).arg = g
  BY <1>3, <1>31 DEF Tale
<1>5. Subject(Tale(e)) = g
  BY <1>4 DEF Subject, SnapTypes, StartTypes, LeaveTypes, ParkTypes, YieldTypes, EndTypes
<1>6. mode[g] # "futile"
  BY <1>0, <1>1 DEF Rules, TracerInv
<1>7. \A h \in Goroutine : mode'[h] = IF h = g THEN "user" ELSE mode[h]
  BY <1>1 DEF TracerTypeOK
<1>8. \A h \in Goroutine : Of(Tale(e), h) <=> h = g
  BY <1>0, <1>4, <1>5, <1>31 DEF Of
<1>9. ModesBy(View, Tale(e), View')
  BY <1>0, <1>4, <1>6, <1>7, <1>8, ViewFields DEF ModesBy
<1>91. CallsBy(View, Tale(e), View')
  BY <1>0, <1>1, <1>4, <1>7, <1>8, ViewFields DEF CallsBy
<1>10. Gets("GoSysExit") = "gRunnable" /\ Needs("GoSysExit") = "gWaiting" /\ "GoSysExit" \notin SnapTypes
  BY DEF Gets, Needs, StartTypes, SnapTypes, LeaveTypes, ParkTypes, YieldTypes, EndTypes
<1>11. PICK s \in Nat : s = rg[g].seq + 1
  BY <1>0
<1>12. PICK typ \in SnapTypes \cup {"GoCreate", "GoUnblock", "GoSysExit"} : typ = "GoSysExit"
  OBVIOUS
<1>13. rg' = [rg EXCEPT ![g] = gState(s, Gets(typ))] /\ typ \notin SnapTypes
       /\ typ \notin {"GoCreate", "GoUnblock"} /\ typ \in Emits /\ Delocalized(e.typ) = typ
       /\ rg[g].status = Needs(typ)
  BY <1>1, <1>3, <1>10, <1>11, <1>12, <1>31, TracedSays
<1>14. Emit(e) /\ UNCHANGED <<cur, open, on>> /\ e.n = n + 1 /\ e.arg = g
       /\ e.g \in {NoG, g} /\ (~LocalExits => e.g = g)
  BY <1>1, <1>3, <1>31
<1> QED BY <1>20, <1>9, <1>91, <1>13, <1>14, SetDid

LEMMA StartDid ==
    ASSUME TracerTypeOK, TracerInv, Rules, NEW p \in Proc, NEW t \in Now(p), NEW g \in Goroutine,
           GoStart(p, g, t)
    PROVE  DidIt
<1> DEFINE old == IF lastp[g] = p THEN "GoStartLocal" ELSE "GoStart"
           e == Moving(old, p, t, g, g, 1, "gRunning")
<1>0. /\ t \in Nat /\ g \in Chain /\ NoG \notin Goroutine
      /\ "gRunning" \in gStatus /\ 1 \in Nat /\ rg[g].seq + 1 \in Nat /\ g # Garbage
  BY NowTyped, Sentinels DEF Chain, gStatus, TracerTypeOK, GState
<1>1. /\ Emit(e) /\ rg' = [rg EXCEPT ![g] = e.post] /\ UNCHANGED <<mode, open, on>>
      /\ Traced(p, "GoStart") /\ cur[p] = NoG /\ rg[g].status = "gRunnable"
      /\ cur' = [cur EXCEPT ![p] = g]
  BY DEF GoStart
<1>2. e \in Event
  BY <1>0, MovingTyped DEF EventTypes, LocalTypes, StartTypes
<1>3. e.n = n + 1 /\ e.typ = old /\ e.p = p /\ e.g = g
      /\ e.post = gState(rg[g].seq + 1, "gRunning") /\ Delocalized(old) = "GoStart"
  BY <1>0 DEF Moving, Delocalized
<1> HIDE DEF e, old
<1>4. Tale(e).typ = "GoStart" /\ Tale(e).p = p /\ Tale(e).g = g
  BY <1>3 DEF Tale
<1>40. /\ "GoStart" \in StartTypes /\ "GoStart" \in MoveTypes
       /\ "GoStart" \notin Openers \cup SpanCloses \cup {"ProcStart", "ProcStop", "GoCreate"}
                   \cup LeaveTypes \cup ActTypes \cup ForTypes \cup SnapTypes
       /\ Needs("GoStart") = "gRunnable" /\ Gets("GoStart") = "gRunning"
  BY MoveClasses DEF StartTypes, ForTypes, Needs, Gets, SnapTypes, ParkTypes, YieldTypes, EndTypes, LeaveTypes
<1>5. Subject(Tale(e)) = g
  BY <1>4 DEF Subject, SnapTypes, StartTypes, LeaveTypes, ParkTypes, YieldTypes, EndTypes
<1>6. mode[g] # "futile"
  BY <1>0, <1>1 DEF Rules, TracerInv
<1>8. \A h \in Goroutine : Of(Tale(e), h) <=> h = g
  BY <1>4, <1>5 DEF Of
<1>9. ModesBy(View, Tale(e), View')
  BY <1>0, <1>1, <1>4, <1>6, <1>8, ViewFields DEF ModesBy
<1>10. PICK s \in Nat : s = rg[g].seq + 1
  BY <1>0
<1>11. rg' = [rg EXCEPT ![g] = gState(s, "gRunning")]
  BY <1>1, <1>3, <1>10
<1>12. Doing' = [Doing EXCEPT ![g] = "gRunning"] /\ Made' = Made /\ Doing[g] = "gRunnable"
  BY <1>1, <1>11, StatusStarts, StatusShows
<1>121. CallsBy(View, Tale(e), View')
  <2>1. mode[g] # "syscall"
    BY <1>12 DEF Rules
  <2> QED BY <1>1, <1>4, <1>8, <2>1, ViewFields DEF CallsBy
<1>13. RunsBy(View, Tale(e), View')
  BY <1>0, <1>1, <1>4, <1>40, ViewFields DEF RunsBy
<1>14. MovesBy(View, Tale(e), View')
  BY <1>4, <1>5, <1>12, <1>40, ViewFields DEF MovesBy
<1>15. SpansBy(View, Tale(e), View') /\ OnBy(View, Tale(e), View')
  BY <1>1, <1>4, <1>40, ViewFields DEF SpansBy, OnBy
<1>16. Tale(e).typ \in Emits
  BY <1>1, <1>4, TracedSays
<1> QED BY <1>1, <1>2, <1>3, <1>9, <1>121, <1>13, <1>14, <1>15, <1>16, Assembled

LEMMA ProcsDid ==
    ASSUME TracerTypeOK, TracerInv, Rules, NEW p \in Proc, NEW t \in Now(p),
           ProcStart(p, t) \/ ProcStop(p, t) \/ (p = Boot /\ StartWorld(t) /\ "ProcStart" \in Emits)
    PROVE  DidIt
<1> DEFINE typ == IF ProcStop(p, t) THEN "ProcStop" ELSE "ProcStart"
           e == Plain(typ, p, t, NoG)
<1>0. t \in Nat /\ NoG \notin Goroutine
  BY NowTyped, Sentinels
<1>1. /\ UNCHANGED <<rg, cur, mode, open>> /\ Emit(e) /\ typ \in Emits
      /\ typ = "ProcStop" => p \in on /\ on' = on \ {p} /\ cur[p] = NoG
      /\ typ = "ProcStart" => p \notin on /\ on' = on \cup {p}
  BY TracedSays DEF ProcStart, ProcStop, StartWorld, Rules
<1>2. e \in Event
  BY <1>0, PlainTyped DEF EventTypes, PlainTypes
<1>3. e.n = n + 1 /\ e.typ = typ /\ e.p = p /\ e.g = NoG
  BY DEF Plain
<1>4. typ \in {"ProcStart", "ProcStop"}
  OBVIOUS
<1> HIDE DEF e, typ
<1>5. /\ typ \notin MoveTypes \cup LocalTypes \cup SnapTypes \cup StartTypes \cup ActTypes \cup SweepTypes
                    \cup Openers \cup SpanCloses \cup {"FutileWakeup"} \cup LeaveTypes
      /\ Delocalized(typ) = typ
  BY <1>4 DEF MoveTypes, LocalTypes, SnapTypes, StartTypes, ActTypes, SweepTypes, Openers, SpanOpens,
              SpanCloses, OwnSpans, LeaveTypes, ParkTypes, YieldTypes, EndTypes, Delocalized
<1>6. Tale(e).typ = typ /\ Tale(e).p = p /\ Tale(e).g = NoG /\ Tale(e) \in Tales
  BY <1>2, <1>3, <1>5, TaleTyped DEF Tale
<1>7. Subject(Tale(e)) = NoG
  BY <1>4, <1>5, <1>6 DEF Subject
<1>8. ActorModes(Tale(e))
  BY <1>0, <1>1, <1>5, <1>6, <1>7 DEF ActorModes, Of, TracerTypeOK
<1>9. ModesBy(View, Tale(e), View')
  BY <1>6, <1>8, ActorKeeps
<1>91. CallsBy(View, Tale(e), View')
  BY <1>0, <1>1, <1>4, <1>6, <1>7, ViewFields DEF CallsBy, Of
<1>10. SpansBy(View, Tale(e), View')
  BY <1>1, <1>5, <1>6, ViewFields DEF SpansBy
<1>11. OnBy(View, Tale(e), View')
  BY <1>1, <1>4, <1>6, ViewFields DEF OnBy
<1>12. \A g \in Goroutine : rg'[g] = rg[g]
  BY <1>1
<1> QED BY <1>1, <1>2, <1>3, <1>5, <1>9, <1>91, <1>10, <1>11, <1>12, StaysDid

LEMMA CallDid ==
    ASSUME TracerTypeOK, TracerInv, Rules, NEW p \in Proc, NEW t \in Now(p),
           NEW typ \in {"FutileWakeup", "GoSysCall"},
           typ = "FutileWakeup" => FutileWakeup(p, t), typ = "GoSysCall" => GoSysCall(p, t)
    PROVE  DidIt
<1> DEFINE e == Plain(typ, p, t, cur[p])
           m == IF typ = "FutileWakeup" THEN "futile" ELSE "syscall"
<1>0. t \in Nat /\ NoG \notin Goroutine /\ cur[p] \in Goroutine \cup {NoG}
  BY NowTyped, Sentinels DEF TracerTypeOK
<1>1. /\ UNCHANGED <<rg, cur, open, on>> /\ Emit(e) /\ Traced(p, typ) /\ Acts(p)
      /\ mode' = [mode EXCEPT ![cur[p]] = m]
      /\ typ = "FutileWakeup" => mode[cur[p]] = "wakeup"
  BY DEF FutileWakeup, GoSysCall
<1>2. e \in Event
  BY <1>0, PlainTyped DEF EventTypes, PlainTypes
<1>3. e.n = n + 1 /\ e.typ = typ /\ e.p = p /\ e.g = cur[p]
  BY DEF Plain
<1> HIDE DEF e
<1>5. /\ typ \notin MoveTypes \cup LocalTypes \cup SnapTypes \cup StartTypes \cup SweepTypes
                    \cup Openers \cup SpanCloses \cup LeaveTypes \cup {"ProcStart", "ProcStop"}
      /\ Delocalized(typ) = typ /\ typ \in ActTypes
  BY DEF MoveTypes, LocalTypes, SnapTypes, StartTypes, ActTypes, SweepTypes, Openers, SpanOpens,
         SpanCloses, OwnSpans, LeaveTypes, ParkTypes, YieldTypes, EndTypes, Delocalized
<1>6. Tale(e).typ = typ /\ Tale(e).p = p /\ Tale(e).g = cur[p] /\ Tale(e) \in Tales
  BY <1>2, <1>3, <1>5, TaleTyped DEF Tale
<1>7. Subject(Tale(e)) = NoG
  BY <1>5, <1>6 DEF Subject
<1>8. cur[p] \in Goroutine /\ mode[cur[p]] # "futile"
  BY <1>0, <1>1 DEF Acts
<1>9. \A h \in Goroutine : mode'[h] = IF h = cur[p] THEN m ELSE mode[h]
  BY <1>1, <1>8 DEF TracerTypeOK
<1>10. \A h \in Goroutine : Of(Tale(e), h) <=> h = cur[p]
  BY <1>0, <1>6, <1>7 DEF Of
<1>11. ModesBy(View, Tale(e), View')
  BY <1>1, <1>6, <1>8, <1>9, <1>10, ViewFields DEF ModesBy
<1>111. CallsBy(View, Tale(e), View')
  BY <1>1, <1>6, <1>8, <1>9, <1>10, ViewFields DEF CallsBy
<1>12. SpansBy(View, Tale(e), View') /\ OnBy(View, Tale(e), View')
  BY <1>1, <1>5, <1>6, ViewFields DEF SpansBy, OnBy
<1>13. typ \in Emits /\ \A g \in Goroutine : rg'[g] = rg[g]
  BY <1>1, TracedSays
<1> HIDE DEF m
<1> QED BY <1>0, <1>1, <1>2, <1>3, <1>5, <1>8, <1>11, <1>111, <1>12, <1>13, StaysDid

LEMMA SpanDid ==
    ASSUME TracerTypeOK, TracerInv, Rules, NEW p \in Proc, NEW t \in Now(p),
           NEW typ \in Openers \cup SpanCloses,
           IF typ = "GCStart" THEN GCStart(p, t)
           ELSE OpenSpan(p, typ, t) \/ CloseSpan(p, typ, t)
    PROVE  DidIt
<1> DEFINE who == IF typ \in {"GCStart", "GCDone", "GCSTWStart", "GCSTWDone"} THEN NoG ELSE cur[p]
<1>0. t \in Nat /\ NoG \notin Goroutine /\ cur[p] \in Goroutine \cup {NoG}
      /\ Garbage \in Chain /\ 1 \in Nat /\ "gDead" \in gStatus /\ Garbage \notin Goroutine
  BY NowTyped, Sentinels DEF TracerTypeOK, Chain, gStatus
<1>1. PICK e \in Event : e.n = n + 1 /\ e.typ = typ /\ e.p = p /\ e.g = who /\ Emit(e)
                         /\ \A g \in Goroutine : rg'[g] = rg[g]
  <2>1. CASE typ = "GCStart"
    <3> DEFINE e == Moving("GCStart", p, t, NoG, Garbage, 1, "gDead")
    <3>1. e \in Event
      BY <1>0, MovingTyped DEF EventTypes
    <3>2. e.n = n + 1 /\ e.typ = typ /\ e.p = p /\ e.g = who
      BY <2>1 DEF Moving
    <3>3. Emit(e) /\ rg' = [rg EXCEPT ![Garbage] = e.post]
      BY <2>1 DEF GCStart
    <3> HIDE DEF e
    <3>4. \A g \in Goroutine : rg'[g] = rg[g]
      BY <1>0, <3>3 DEF TracerTypeOK, Chain
    <3> QED BY <3>1, <3>2, <3>3, <3>4
  <2>2. CASE typ # "GCStart"
    <3> DEFINE e == SpanEvent(p, typ, t)
    <3>1. e = Plain(typ, p, t, who)
      BY <2>2 DEF SpanEvent
    <3>0. typ \in EventTypes /\ who \in Goroutine \cup {NoG}
      BY <1>0, <2>2 DEF EventTypes, PlainTypes, Openers, SpanOpens, SpanCloses
    <3>2. e \in Event
      BY <1>0, <3>0, <3>1, PlainTyped
    <3>3. e.n = n + 1 /\ e.typ = typ /\ e.p = p /\ e.g = who
      BY <3>1 DEF Plain
    <3>4. Emit(e) /\ rg' = rg
      BY <2>2 DEF OpenSpan, CloseSpan
    <3> QED BY <3>2, <3>3, <3>4
  <2> QED BY <2>1, <2>2
<1>2. /\ UNCHANGED <<cur, on>> /\ Traced(p, typ)
      /\ typ \in OwnSpans => Acts(p)
      /\ typ # "GCStart" /\ ShowsBusy(p, typ) => mode' = [mode EXCEPT ![cur[p]] = "user"]
      /\ typ # "GCStart" /\ ~ShowsBusy(p, typ) => mode' = mode
      /\ typ = "GCStart" => mode' = mode
  <2>1. CASE typ = "GCStart"
    BY <2>1 DEF GCStart, OwnSpans
  <2>2. CASE OpenSpan(p, typ, t) /\ typ # "GCStart"
    BY <2>2 DEF OpenSpan, Acts, Busy, ShowsBusy
  <2>3. CASE CloseSpan(p, typ, t) /\ typ # "GCStart"
    BY <2>3 DEF CloseSpan, Acts, Busy, ShowsBusy
  <2> QED BY <2>1, <2>2, <2>3
<1>20. ~ShowsBusy(p, "GCStart") /\ (typ \in OwnSpans => cur[p] # NoG)
       /\ (typ \in OwnSpans => ShowsBusy(p, typ)) /\ (ShowsBusy(p, typ) => cur[p] # NoG)
       /\ (typ \in SweepTypes /\ cur[p] # NoG /\ mode[cur[p]] = "syscall" => ShowsBusy(p, typ))
       /\ (ShowsBusy(p, typ) => typ \in OwnSpans \/ (typ \in SweepTypes /\ mode[cur[p]] = "syscall"))
  BY <1>2 DEF ShowsBusy, OwnSpans, Acts, SweepTypes
<1>3. /\ typ \notin MoveTypes \cup LocalTypes \cup SnapTypes \cup StartTypes
                    \cup LeaveTypes \cup {"ProcStart", "ProcStop", "FutileWakeup", "GoSysCall"}
      /\ Delocalized(typ) = typ /\ (typ \in ActTypes <=> typ \in OwnSpans)
      /\ typ \notin FutileParks
      /\ (typ \in Openers => typ \notin SpanCloses)
      /\ (typ \notin OwnSpans \cup SweepTypes => who = NoG) /\ (typ \in OwnSpans \cup SweepTypes => who = cur[p])
  BY DEF MoveTypes, LocalTypes, SnapTypes, StartTypes, ActTypes, SweepTypes, Openers, SpanOpens, FutileParks,
         SpanCloses, OwnSpans, LeaveTypes, ParkTypes, YieldTypes, EndTypes, Delocalized
<1>4. /\ typ \in Openers    => Key([typ |-> typ, p |-> p, g |-> who]) \notin open
                               /\ open' = open \cup {Key([typ |-> typ, p |-> p, g |-> who])}
      /\ typ \in SpanCloses => Key([typ |-> typ, p |-> p, g |-> who]) \in open
                               /\ open' = open \ {Key([typ |-> typ, p |-> p, g |-> who])}
  <2>1. typ # "GCStart" => Key([typ |-> typ, p |-> p, g |-> who]) = SpanKey(typ, p)
    BY DEF Key, SpanKey, Openers, SpanOpens, SpanCloses, SweepTypes
  <2>2. typ = "GCStart" => Key([typ |-> typ, p |-> p, g |-> who]) = GCSpan
    BY DEF Key, SweepTypes
  <2>3. typ = "GCStart" => GCSpan \notin open /\ open' = open \cup {GCSpan}
    BY DEF GCStart
  <2>4. typ # "GCStart" => /\ typ \in SpanOpens => SpanKey(typ, p) \notin open /\ open' = open \cup {SpanKey(typ, p)}
                           /\ typ \in SpanCloses => SpanKey(typ, p) \in open /\ open' = open \ {SpanKey(typ, p)}
    BY DEF OpenSpan, CloseSpan, SpanOpens, SpanCloses
  <2>5. "GCStart" \notin SpanCloses
    BY DEF SpanCloses
  <2> QED BY <2>1, <2>2, <2>3, <2>4, <2>5 DEF Openers
<1> HIDE DEF who
<1>6. Tale(e).typ = typ /\ Tale(e).p = p /\ Tale(e).g = who /\ Tale(e) \in Tales
  BY <1>1, <1>3, TaleTyped DEF Tale
<1>7. Subject(Tale(e)) = NoG
  BY <1>3, <1>6 DEF Subject, MoveTypes
<1>8. who \in {cur[p], NoG} /\ (cur[p] \in Goroutine => mode[cur[p]] # "futile" \/ typ \in FutileParks)
  BY <1>2, <1>3, TracedSays
<1>9. \A h \in Goroutine : mode'[h] = IF h = cur[p] /\ ShowsBusy(p, typ) THEN "user" ELSE mode[h]
  BY <1>2, <1>20 DEF TracerTypeOK
<1>10. ActorModes(Tale(e))
  BY <1>0, <1>3, <1>6, <1>7, <1>8, <1>9, <1>20 DEF ActorModes, Of
<1>11. ModesBy(View, Tale(e), View')
  BY <1>6, <1>10, ActorKeeps
<1>111. CallsBy(View, Tale(e), View')
  <2>1. \A h \in Goroutine : Of(Tale(e), h) <=> h = who
    BY <1>0, <1>6, <1>7 DEF Of
  <2>2. typ \notin {"GoSysBlock", "GoSysExit", "GoInSyscall", "GoUnblock", "GoSysCall"}
    BY DEF Openers, SpanOpens, SpanCloses
  <2>3. ASSUME who # NoG
        PROVE  who = cur[p] /\ cur[p] \in Goroutine /\ mode'[cur[p]] # "syscall"
    <3>1. who = cur[p] /\ cur[p] \in Goroutine /\ typ \in OwnSpans \cup SweepTypes
      BY <1>0, <1>3, <1>8, <2>3
    <3>2. CASE ShowsBusy(p, typ)
      BY <1>9, <3>1, <3>2
    <3>3. CASE ~ShowsBusy(p, typ)
      BY <1>0, <1>9, <1>20, <3>1, <3>3
    <3> QED BY <3>1, <3>2, <3>3
  <2>4. \A h \in Goroutine : h # who => mode'[h] = mode[h]
    BY <1>0, <1>3, <1>9, <1>20
  <2> QED BY <1>0, <1>6, <2>1, <2>2, <2>3, <2>4, ViewFields DEF CallsBy
<1>12. Key(Tale(e)) = Key([typ |-> typ, p |-> p, g |-> who])
  BY <1>6 DEF Key
<1>13. SpansBy(View, Tale(e), View') /\ OnBy(View, Tale(e), View')
  BY <1>2, <1>3, <1>4, <1>6, <1>12, ViewFields DEF SpansBy, OnBy
<1>14. typ \in Emits /\ (typ \in OwnSpans => cur[p] # NoG)
  BY <1>2, TracedSays DEF Acts
<1> QED BY <1>0, <1>1, <1>2, <1>3, <1>11, <1>111, <1>13, <1>14, StaysDid

\* Every step of the runtime writes one event, which says what it did, or only
\* ends the snapshot.
LEMMA TracerDid ==
    ASSUME TracerTypeOK, TracerInv, Rules, TracerNext
    PROVE  DidIt \/ UNCHANGED <<batch, n, View>>
<1>0. Boot \in Proc
  BY TracerAssumption
<1>1. ASSUME NEW t \in Now(Boot), Snapshot(t)
      PROVE  DidIt \/ UNCHANGED <<batch, n, View>>
  <2>1. CASE \E g \in Goroutine : SnapCreate(g, t) \/ \E typ \in SnapTypes : SnapBlocked(g, typ, t)
    BY <2>1, SnapDid
  <2>2. CASE StartWorld(t) /\ "ProcStart" \in Emits
    BY <1>0, <2>2, ProcsDid
  <2>3. CASE StartWorld(t) /\ "ProcStart" \notin Emits
    BY <2>3, StatusKept, ViewFields DEF StartWorld, View
  <2> QED BY <1>1, <2>1, <2>2, <2>3 DEF Snapshot
<1>2. ASSUME NEW p \in Proc, NEW t \in Now(p), Write(p, t)
      PROVE  DidIt
  <2>1. CASE ProcStart(p, t) \/ ProcStop(p, t)
    BY <2>1, ProcsDid
  <2>2. CASE \E g \in Goroutine : GoCreate(p, g, t) \/ GoStart(p, g, t) \/ GoUnblock(p, g, t)
    BY <2>2, CreateDid, StartDid, UnblockDid
  <2>3. CASE \E g \in Goroutine, r \in Past : GoSysExit(p, g, r, t)
    BY <2>3, ExitDid
  <2>4. CASE \E typ \in ParkTypes : GoPark(p, typ, t)
    BY <2>4, LeavesDid DEF LeaveTypes
  <2>5. CASE \E typ \in YieldTypes : GoYield(p, typ, t)
    BY <2>5, LeavesDid DEF LeaveTypes
  <2>6. CASE \E typ \in EndTypes : GoEnd(p, typ, t)
    BY <2>6, LeavesDid DEF LeaveTypes
  <2>7. CASE GoSysBlock(p, t)
    <3>1. PICK typ \in LeaveTypes : typ = "GoSysBlock"
      BY DEF LeaveTypes
    <3> QED BY <2>7, <3>1, LeavesDid
  <2>8. CASE FutileWakeup(p, t)
    <3>1. PICK typ \in {"FutileWakeup", "GoSysCall"} : typ = "FutileWakeup"
      OBVIOUS
    <3> QED BY <2>8, <3>1, CallDid
  <2>9. CASE GoSysCall(p, t)
    <3>1. PICK typ \in {"FutileWakeup", "GoSysCall"} : typ = "GoSysCall"
      OBVIOUS
    <3> QED BY <2>9, <3>1, CallDid
  <2>10. CASE GCStart(p, t)
    <3>1. PICK typ \in Openers \cup SpanCloses : typ = "GCStart"
      BY DEF Openers
    <3> QED BY <2>10, <3>1, SpanDid
  <2>11. ASSUME NEW typ \in SpanOpens \cup SpanCloses, OpenSpan(p, typ, t) \/ CloseSpan(p, typ, t)
         PROVE  DidIt
    <3>1. typ # "GCStart" /\ typ \in Openers \cup SpanCloses
      BY DEF Openers, SpanOpens, SpanCloses
    <3> QED BY <2>11, <3>1, SpanDid
  <2> QED BY <1>2, <2>1, <2>2, <2>3, <2>4, <2>5, <2>6, <2>7, <2>8, <2>9, <2>10, <2>11 DEF Write
<1> QED BY <1>1, <1>2 DEF TracerNext

\* The rules are kept.
LEMMA RulesKept ==
    ASSUME TracerTypeOK, TracerInv, Rules, TracerNext
    PROVE  Rules'
<1>1. (starting /\ "ProcStart" \in Emits => on = {}) => (starting /\ "ProcStart" \in Emits => on = {})'
  <2>1. ASSUME NEW p \in Proc, NEW t \in Now(p), Write(p, t)
        PROVE  starting' = starting /\ ~starting
    BY <2>1 DEF Write, ProcStart, ProcStop, Traced, GoCreate, GoStart, GoUnblock, GoSysExit, GoPark,
                GoYield, GoEnd, FutileWakeup, GoSysCall, GoSysBlock, GCStart, OpenSpan, CloseSpan
  <2>2. ASSUME NEW t \in Now(Boot), Snapshot(t), starting'
        PROVE  starting /\ on' = on
    BY <2>2 DEF Snapshot, SnapCreate, SnapBlocked, StartWorld
  <2> QED BY <2>1, <2>2 DEF TracerNext
<1>2. CASE UNCHANGED <<batch, n, View>>
  <2>1. cur' = cur /\ mode' = mode /\ Made' = Made /\ Doing' = Doing
    BY <1>2, ViewFields
  <2> QED BY <1>1, <2>1 DEF Rules
<1>3. CASE DidIt
  <2>1. PICK e \in Event : Did(View, Tale(e), View')
    BY <1>3 DEF DidIt
  <2> DEFINE d == Tale(e)
  <2>2. /\ d \in Tales /\ d.p \in Proc /\ NoG \notin Goroutine /\ cur \in [Proc -> Goroutine \cup {NoG}]
        /\ mode \in [Goroutine -> Modes]
    BY <2>1, Sentinels DEF Did, Tales, TracerTypeOK
  <2>3. RunsBy(View, d, View') /\ MovesBy(View, d, View') /\ ModesBy(View, d, View') /\ CallsBy(View, d, View')
    BY <2>1 DEF Did
  <2> HIDE DEF d
  <2>4. ASSUME NEW g \in Goroutine, mode'[g] = "futile"
        PROVE  \E p \in Proc : cur'[p] = g
    <3>1. \/ d.typ = "FutileWakeup" /\ d.g = g
          \/ mode[g] = "futile" /\ ~Of(d, g)
      BY <2>3, <2>4, ViewFields DEF ModesBy
    <3>2. PICK p \in Proc : cur[p] = g
      BY <2>2, <2>3, <3>1, ViewFields DEF RunsBy, ActTypes, Rules
    <3>3. d.typ = "GoStart" => cur[d.p] = NoG
      BY <2>3, ViewFields DEF RunsBy
    <3>4. d.typ \in LeaveTypes => d.g = cur[d.p]
      BY <2>3, ViewFields DEF RunsBy, ActTypes
    <3>5. cur' = CASE d.typ = "GoStart"      -> [cur EXCEPT ![d.p] = d.g]
                   [] d.typ \in LeaveTypes   -> [cur EXCEPT ![d.p] = NoG]
                   [] OTHER                  -> cur
      BY <2>3, ViewFields DEF RunsBy
    <3>6. d.typ \in LeaveTypes => d.g # g
      BY <3>1 DEF Of, LeaveTypes, ParkTypes, YieldTypes, EndTypes
    <3>7. "GoStart" \notin LeaveTypes
      BY DEF LeaveTypes, ParkTypes, YieldTypes, EndTypes
    <3>8. cur'[p] = g
      BY <2>2, <3>2, <3>3, <3>4, <3>5, <3>6, <3>7
    <3> QED BY <3>8
  <2>5. ASSUME NEW g \in Goroutine, mode'[g] = "wakeup"
        PROVE  g \in Made'
    <3>1. \/ d.typ = "GoUnblock" /\ d.arg = g
          \/ d.typ = "GoCreate" /\ d.arg = g
          \/ mode[g] = "wakeup"
      BY <2>3, <2>5, ViewFields DEF ModesBy
    <3>2. mode[g] = "wakeup" => g \in Made
      BY DEF Rules
    <3>3. Made \subseteq Made'
      BY <2>3, ViewFields DEF MovesBy
    <3>4. d.typ = "GoCreate" /\ d.arg = g => g \in Made'
      BY <2>3, ViewFields DEF MovesBy, Subject, MoveTypes, SnapTypes, StartTypes, LeaveTypes, ParkTypes, YieldTypes, EndTypes
    <3>5. ASSUME d.typ = "GoUnblock", d.arg = g
          PROVE  g \in Made
      <4>1. Subject(d) = g /\ d.typ \in MoveTypes /\ Needs(d.typ) = "gWaiting"
        BY <3>5 DEF Subject, MoveTypes, Needs, SnapTypes, StartTypes, LeaveTypes, ParkTypes, YieldTypes, EndTypes
      <4>2. Doing[g] = "gWaiting"
        BY <2>3, <4>1, ViewFields DEF MovesBy
      <4> QED BY <4>2 DEF Doing, Made
    <3> QED BY <3>1, <3>2, <3>3, <3>4, <3>5
  <2>6. ASSUME NEW g \in Goroutine, mode'[g] = "syscall"
        PROVE  Doing'[g] \in {"gRunning", "gWaiting"}
    <3>0. Doing' = [h \in Goroutine |-> Doing'[h]] /\ Doing = [h \in Goroutine |-> Doing[h]]
      BY DEF Doing
    <3>1. CASE ~Of(d, g)
      <4>1. mode[g] = "syscall" /\ Subject(d) # g
        BY <2>3, <2>6, <3>1, ViewFields DEF CallsBy, Of
      <4>2. Doing'[g] = Doing[g]
        BY <2>3, <3>0, <4>1, ViewFields DEF MovesBy
      <4> QED BY <4>1, <4>2 DEF Rules
    <3>2. CASE Of(d, g)
      <4>1. d.typ \in {"GoSysCall", "GoInSyscall", "GoSysBlock"}
        BY <2>3, <2>6, <3>2, ViewFields DEF CallsBy
      <4>2. CASE d.typ = "GoSysCall"
        <5>1. d.typ \notin MoveTypes /\ Subject(d) = NoG /\ d.typ \in ActTypes
          BY <4>2 DEF MoveTypes, Subject, ActTypes, SnapTypes, StartTypes, LeaveTypes, ParkTypes, YieldTypes, EndTypes
        <5>2. Doing' = Doing /\ g = cur[d.p]
          BY <2>2, <2>3, <3>2, <5>1, ViewFields DEF MovesBy, RunsBy, Of
        <5>3. rg[g].status = "gRunning"
          BY <2>2, <5>2 DEF TracerInv
        <5> QED BY <2>2, <5>2, <5>3 DEF Doing
      <4>3. CASE d.typ # "GoSysCall"
        <5>1. Subject(d) = d.g /\ d.typ \in MoveTypes /\ Gets(d.typ) = "gWaiting"
          BY <4>1, <4>3 DEF MoveTypes, Subject, Gets, SnapTypes, StartTypes, LeaveTypes, ParkTypes, YieldTypes, EndTypes
        <5> QED BY <2>3, <3>0, <3>2, <5>1, ViewFields DEF MovesBy, Of
      <4> QED BY <4>2, <4>3
    <3> QED BY <3>1, <3>2
  <2> QED BY <1>1, <2>4, <2>5, <2>6 DEF Rules
<1> QED BY <1>2, <1>3, TracerDid
-----------------------------------------------------------------------------
(***************************************************************************)
(* The chronicle of a trace: its tales, and a view after each              *)
(***************************************************************************)
\* Who runs is where the view says, and who does anything was created.
ViewOK(v) ==
    /\ v.run \in [Proc -> Goroutine \cup {NoG}] /\ v.st \in [Goroutine -> gStatus]
    /\ v.made \subseteq Goroutine /\ v.mode \in [Goroutine -> Modes]
    /\ \A g \in Goroutine : v.st[g] = "gRunning" <=> \E p \in Proc : v.run[p] = g
    /\ \A p, q \in Proc : v.run[p] = v.run[q] /\ v.run[p] # NoG => p = q
    /\ \A g \in Goroutine : v.st[g] # "gDead" \/ v.mode[g] = "wakeup" => g \in v.made

First(v) ==
    /\ v.run = [p \in Proc |-> NoG] /\ v.st = [g \in Goroutine |-> "gDead"] /\ v.made = {}
    /\ v.mode = [g \in Goroutine |-> "user"] /\ v.open = {}
    /\ v.on = IF "ProcStart" \in Emits THEN {} ELSE Proc

Chronicle(H, V, m) ==
    /\ First(V[0])
    /\ \A k \in 0..m : ViewOK(V[k])
    /\ \A k \in 1..m : H[k].n = k /\ Did(V[k - 1], H[k], V[k])

\* Event x of the stream is the one the chronicle tells of.
Matches(x, H) == H[x.n] = [typ |-> x.typ, p |-> x.p, g |-> x.g, arg |-> x.arg, n |-> x.n]

\* What the merged stream never turns around, if the clocks agree: events of
\* one P, but for syscall exits, and the events that move one goroutine.
Tied(d, e) ==
    \/ d.typ # "GoSysExit" /\ e.typ # "GoSysExit" /\ (d.p = e.p \/ Clocks = "exact")
    \/ {d.typ, e.typ} \subseteq MoveTypes \ EndTypes /\ Subject(d) = Subject(e)

StreamOf(H, s) ==
    /\ s \in Seq(Event) /\ Len(s) = n
    /\ \A i \in 1..n : s[i].n \in 1..n /\ Matches(s[i], H)
    /\ \A k \in 1..n : \E i \in 1..n : s[i].n = k
    /\ \A i, j \in 1..n : i < j => s[i].n # s[j].n
    /\ Monotone => \A i, j \in 1..n : i < j /\ Tied(H[s[i].n], H[s[j].n]) => s[i].n < s[j].n

Ledger ==
    \E H, V : /\ Chronicle(H, V, n) /\ V[n] = View
              /\ pc # "ordered" => \A x \in Written : Matches(x, H)
              /\ pc = "ordered" => StreamOf(H, events)

LEMMA ViewFits ==
    ASSUME TracerTypeOK, TracerInv, Rules
    PROVE  ViewOK(View)
<1>1. NoG \notin Goroutine /\ Goroutine \subseteq Chain
  BY Sentinels DEF Chain
<1>2. Doing \in [Goroutine -> gStatus] /\ Made \subseteq Goroutine
  BY <1>1 DEF Doing, Made, TracerTypeOK, GState, gStatus
<1>3. ASSUME NEW g \in Goroutine
      PROVE  Doing[g] = "gRunning" <=> \E p \in Proc : cur[p] = g
  <2>1. \A p \in Proc : cur[p] = g => rg[g].status = "gRunning"
    BY <1>1 DEF TracerInv
  <2>2. Doing[g] = IF rg[g].status = "gRunning" /\ \A p \in Proc : cur[p] # g
                   THEN "gDead" ELSE rg[g].status
    BY DEF Doing
  <2> QED BY <2>1, <2>2
<1>4. \A p, q \in Proc : cur[p] = cur[q] /\ cur[p] # NoG => p = q
  BY DEF TracerInv
<1>5. \A g \in Goroutine : Doing[g] # "gDead" \/ mode[g] = "wakeup" => g \in Made
  BY DEF Doing, Made, Rules
<1> QED BY <1>2, <1>3, <1>4, <1>5, ViewFields DEF ViewOK, TracerTypeOK

LEMMA LedgerBegins ==
    ASSUME Init
    PROVE  Rules /\ Ledger
<1>1. /\ n = 0 /\ pc = "trace" /\ starting /\ cur = [p \in Proc |-> NoG]
      /\ rg = [c \in Chain |-> gZero] /\ mode = [g \in Goroutine |-> "user"] /\ open = {}
      /\ on = IF "ProcStart" \in Emits THEN {} ELSE Proc
  BY DEF Init, TracerInit, OrderInit
<1>2. Rules
  BY <1>1 DEF Rules
<1>3. IInv /\ Written = {}
  <2>1. IInv
    BY InitHolds
  <2>2. \A p \in Proc : batch[p] = <<>>
    BY DEF Init, TracerInit
  <2>3. frontier = {} /\ events = <<>>
    BY DEF Init, OrderInit
  <2>4. Unmerged = {} /\ Written = Merged
    BY <2>2, <2>3, NothingPends
  <2> QED BY <2>1, <2>3, <2>4 DEF Merged
<1>4. ViewOK(View)
  BY <1>2, <1>3, ViewFits DEF IInv, OrderTypeOK
<1>5. First(View)
  <2>1. Goroutine \subseteq Chain
    BY DEF Chain
  <2>2. Doing = [g \in Goroutine |-> "gDead"] /\ Made = {}
    BY <1>1, <2>1 DEF Doing, Made, gZero
  <2> QED BY <1>1, <2>2, ViewFields DEF First
<1> DEFINE V == [k \in {0} |-> View]
           H == <<>>
<1>6. V[0] = View
  OBVIOUS
<1> HIDE DEF V, H
<1>7. Chronicle(H, V, n) /\ V[n] = View
  <2>1. (\A k \in 0..n : k = 0) /\ 1..n = {}
    BY <1>1
  <2>2. First(V[0]) /\ ViewOK(V[0]) /\ V[n] = View
    BY <1>1, <1>4, <1>5, <1>6
  <2> QED BY <2>1, <2>2 DEF Chronicle
<1> QED BY <1>1, <1>2, <1>3, <1>7 DEF Ledger

\* The chronicle is continued.
LEMMA Continued ==
    ASSUME NEW H, NEW V, NEW m \in Nat, Chronicle(H, V, m),
           NEW d, NEW w, d.n = m + 1, Did(V[m], d, w), ViewOK(w)
    PROVE  LET I == [k \in 1..(m + 1) |-> IF k = m + 1 THEN d ELSE H[k]]
               W == [k \in 0..(m + 1) |-> IF k = m + 1 THEN w ELSE V[k]]
           IN  /\ Chronicle(I, W, m + 1) /\ W[m + 1] = w /\ I[m + 1] = d
               /\ \A k \in 1..m : I[k] = H[k]
<1> DEFINE I == [k \in 1..(m + 1) |-> IF k = m + 1 THEN d ELSE H[k]]
           W == [k \in 0..(m + 1) |-> IF k = m + 1 THEN w ELSE V[k]]
<1>1. /\ W[m + 1] = w /\ I[m + 1] = d
      /\ \A k \in 1..m : I[k] = H[k] /\ W[k] = V[k] /\ W[k - 1] = V[k - 1]
      /\ W[m] = V[m] /\ W[0] = V[0]
  OBVIOUS
<1> HIDE DEF I, W
<1>2. \A k \in 0..(m + 1) : ViewOK(W[k])
  <2>1. \A k \in 0..(m + 1) : k = m + 1 \/ k = 0 \/ k \in 1..m
    OBVIOUS
  <2> QED BY <1>1, <2>1 DEF Chronicle
<1>3. \A k \in 1..(m + 1) : I[k].n = k /\ Did(W[k - 1], I[k], W[k])
  <2>1. \A k \in 1..(m + 1) : k = m + 1 \/ k \in 1..m
    OBVIOUS
  <2>2. (m + 1) - 1 = m
    OBVIOUS
  <2> QED BY <1>1, <2>1, <2>2 DEF Chronicle
<1>4. Chronicle(I, W, m + 1)
  BY <1>1, <1>2, <1>3 DEF Chronicle
<1> QED BY <1>1, <1>4 DEF I, W

LEMMA LedgerTrace ==
    ASSUME StreamInv, Rules, Ledger, Trace
    PROVE  Rules' /\ Ledger'
<1>1. /\ pc = "trace" /\ TracerNext /\ pc' = pc /\ UNCHANGED <<frontier, events>>
      /\ IInv /\ Numbering /\ OrderTypeOK /\ TracerTypeOK /\ TracerInv /\ IInv'
  BY TraceKeeps DEF Trace, order, StreamInv, History, IInv, OrderTypeOK
<1>2. Rules'
  BY <1>1, RulesKept
<1>3. ViewOK(View')
  <2>1. (TracerTypeOK /\ TracerInv /\ Rules)'
    BY <1>1, <1>2 DEF IInv, OrderTypeOK
  <2>2. ViewOK(View)'
    BY <2>1, ViewFits, PTL
  <2> QED BY <2>2
<1>4. PICK H, V : Chronicle(H, V, n) /\ V[n] = View /\ \A x \in Written : Matches(x, H)
  BY <1>1 DEF Ledger
<1>5. CASE UNCHANGED <<batch, n, View>>
  <2>1. Written' = Written /\ n' = n /\ View' = View
    BY <1>1, <1>5, NothingSettles
  <2> QED BY <1>1, <1>2, <1>4, <2>1 DEF Ledger
<1>6. CASE DidIt
  <2>1. PICK e \in Event : Emit(e) /\ e.n = n + 1 /\ Did(View, Tale(e), View')
    BY <1>6 DEF DidIt
  <2> DEFINE d == Tale(e)
             I == [k \in 1..(n + 1) |-> IF k = n + 1 THEN d ELSE H[k]]
             W == [k \in 0..(n + 1) |-> IF k = n + 1 THEN View' ELSE V[k]]
  <2>2. n \in Nat /\ n' = n + 1 /\ d.n = n + 1
    BY <1>1, <2>1 DEF TracerTypeOK, Emit, Tale
  <2>3. Chronicle(I, W, n + 1) /\ W[n + 1] = View' /\ I[n + 1] = d /\ \A k \in 1..n : I[k] = H[k]
    BY <1>3, <1>4, <2>1, <2>2, Continued
  <2>4. Written' = Written \cup {Settled(e)}
    BY <1>1, <2>1, EmitSettles
  <2>5. Matches(Settled(e), I)
    <3>1. Settled(e).n = n + 1 /\ Settled(e).typ = d.typ /\ Settled(e).p = d.p /\ Settled(e).g = d.g
          /\ Settled(e).arg = d.arg
      BY <2>1, SettledTyped DEF Tale, Settled, Event
    <3>2. d = [typ |-> d.typ, p |-> d.p, g |-> d.g, arg |-> d.arg, n |-> n + 1]
      BY <2>1 DEF Tale
    <3> QED BY <2>3, <3>1, <3>2 DEF Matches
  <2>6. \A x \in Written : Matches(x, I)
    BY <1>1, <1>4, <2>3 DEF Matches, Numbering
  <2> HIDE DEF I, W, d
  <2>7. Chronicle(I, W, n') /\ W[n'] = View' /\ \A x \in Written' : Matches(x, I)
    BY <2>2, <2>3, <2>4, <2>5, <2>6
  <2> QED BY <1>1, <1>2, <2>7 DEF Ledger
<1> QED BY <1>1, <1>5, <1>6, TracerDid
-----------------------------------------------------------------------------
(***************************************************************************)
(* Time                                                                    *)
(***************************************************************************)
\* If the clocks agree, merged events are in the order of time, and none of
\* those still to be merged is older.
Timely ==
    /\ Monotone /\ pc # "ordered" =>
         /\ \A i, j \in 1..Len(events) : i < j => events[i].ts <= events[j].ts
         /\ \A i \in 1..Len(events) : \A d \in Unmerged : events[i].ts <= d.ts
    /\ Clocks = "exact" /\ pc # "ordered" => \A x \in Written : x.ts = x.n
    /\ pc = "exits" => IsSorted(events)
    /\ Monotone => pc # "timeOrder"
    /\ pc # "trace" => \A g \in Goroutine : mode[g] # "futile"

\* A call did not return before it blocked.
LEMMA NothingEarly ==
    ASSUME Numbering, Clocking, Exits, Raw, Monotone, Written = Merged, events \in Seq(Event)
    PROVE  Early = {}
<1> SUFFICES ASSUME NEW i \in Early PROVE FALSE
  OBVIOUS
<1>1. i \in 1..Len(events) /\ Len(events) \in Nat /\ DOMAIN events = 1..Len(events)
      /\ events[i].typ = "GoSysExit" /\ events[i].real # 0
      /\ lastSysBlock(i) # 0 /\ events[i].real < lastSysBlock(i)
  BY DEF Moved, Early
<1>2. events[i] \in Written /\ events[i] \in Event /\ events[i].real \in Nat /\ events[i].n \in Nat
  <2>1. events[i] \in Written
    BY <1>1 DEF Merged
  <2>2. events[i] \in Event
    BY <1>1
  <2> QED BY <2>1, <2>2 DEF Event
<1>3. PICK b \in Written : BlockedBy(b, events[i].g, events[i].n, Written) /\ b.ts <= events[i].real
  BY <1>1, <1>2 DEF Exits
<1>4. events[i].g \in Goroutine /\ ChainOf(events[i]) = events[i].g
  BY <1>1, <1>2 DEF Exits
<1> DEFINE Blocks == {k \in 1..(i - 1) : events[k].typ \in {"GoSysBlock", "GoInSyscall"}
                                         /\ events[k].g = events[i].g}
           m == CHOOSE k \in Blocks : \A l \in Blocks : l <= k
<1>5. Blocks # {} /\ lastSysBlock(i) = events[m].ts
  <2>1. lastSysBlock(i) = IF Blocks = {} THEN 0 ELSE events[m].ts
    BY DEF lastSysBlock
  <2> HIDE DEF Blocks, m
  <2> QED BY <1>1, <2>1
<1>6. m \in Blocks
  <2>1. i - 1 \in Nat /\ Blocks \in SUBSET (1..(i - 1)) /\ Blocks # {}
    BY <1>1, <1>5
  <2> HIDE DEF Blocks
  <2>2. \E k \in Blocks : \A l \in Blocks : l <= k
    BY <2>1, HasGreatest
  <2> QED BY <2>2
<1>7. m \in 1..(i - 1) /\ events[m].typ \in SysBlocks /\ events[m].g = events[i].g
  BY <1>6 DEF SysBlocks
<1> HIDE DEF m, Blocks
<1>8. m \in 1..Len(events) /\ m < i
  BY <1>1, <1>7
<1>9. events[m] \in Written /\ events[m] \in Event
  <2>1. events[m] \in Written
    BY <1>8 DEF Merged
  <2> QED BY <1>8, <2>1
<1>10. ChainOf(events[m]) = events[m].g
  BY <1>7 DEF SysBlocks, ChainOf, stateTransition, Transition, SnapTypes, StartTypes, ParkTypes,
              YieldTypes
<1>11. SameChain(events[m], events[i])
  BY <1>4, <1>7, <1>10, Sentinels DEF SameChain
<1>12. events[m].n < events[i].n
  BY <1>1, <1>8, <1>11 DEF Raw
<1>13. events[m].n <= b.n
  BY <1>3, <1>4, <1>7, <1>9, <1>10, <1>12 DEF BlockedBy
<1>14. b \in Event /\ b.ts \in Nat /\ b.n \in Nat /\ events[m].n \in Nat /\ events[m].ts \in Nat
  BY <1>3, <1>9 DEF Numbering, Event
<1>15. events[m].ts <= b.ts
  <2>1. CASE events[m].n = b.n
    BY <1>3, <1>9, <1>14, <2>1 DEF Numbering
  <2>2. CASE events[m].n < b.n
    BY <1>3, <1>9, <2>2 DEF Clocking
  <2> QED BY <1>13, <1>14, <2>1, <2>2
<1> QED BY <1>1, <1>2, <1>3, <1>5, <1>14, <1>15

LEMMA TimelyBegins == Init => Timely
<1> SUFFICES ASSUME Init PROVE Timely
  OBVIOUS
<1>1. events = <<>> /\ pc = "trace" /\ frontier = {} /\ \A p \in Proc : batch[p] = <<>>
  BY DEF Init, OrderInit, TracerInit
<1>2. Len(events) = 0 /\ Written = {}
  BY <1>1, NothingPends DEF Merged
<1> QED BY <1>1, <1>2 DEF Timely

LEMMA TimelyTrace ==
    ASSUME StreamInv, Timely, Trace
    PROVE  Timely'
<1>1. /\ pc = "trace" /\ TracerNext /\ pc' = pc /\ UNCHANGED <<frontier, events>>
      /\ IInv /\ Numbering /\ OrderTypeOK /\ TracerTypeOK /\ TracerInv /\ events = <<>>
  BY DEF Trace, order, StreamInv, History, Drained, IInv, OrderTypeOK
<1>2. Clocks = "exact" => \A x \in Written' : x.ts = x.n
  <2>1. CASE Quiet
    <3>1. Written' = Written
      BY <1>1, <2>1, NothingSettles DEF Quiet
    <3> QED BY <1>1, <3>1 DEF Timely
  <2>2. ASSUME NEW e \in Event, Notes(e), Clocks = "exact"
        PROVE  \A x \in Written' : x.ts = x.n
    <3>1. Written' = Written \cup {Settled(e)} /\ Settled(e).n = n + 1 /\ Settled(e).ts = e.ts
      BY <1>1, <2>2, NewEvent
    <3>2. e.ts = n + 1
      BY <2>2 DEF Notes, Now
    <3> QED BY <1>1, <2>2, <3>1, <3>2 DEF Timely
  <2> QED BY <1>1, <2>1, <2>2, TracerNotes
<1>3. Len(events') = 0
  BY <1>1
<1> QED BY <1>1, <1>2, <1>3 DEF Timely

\* Of a frontier's earliest events none is later than what is pending.
LEMMA EarliestLeads ==
    ASSUME StreamInv, pc = "merge", Monotone, NEW f \in frontier, Earliest(f), NEW d \in Unmerged
    PROVE  f.ev.ts <= d.ts
<1>1. PICK h \in frontier : \A x \in Unmerged : h.ev.n <= x.n
  BY DEF StreamInv, Leading
<1>2. Clocking /\ Numbering /\ h.ev \in Unmerged /\ f.ev \in Unmerged
  BY UnmergedMembers DEF StreamInv, History
<1>3. /\ h.ev \in Written /\ d \in Written /\ f.ev \in Written
      /\ h.ev.ts \in Nat /\ d.ts \in Nat /\ h.ev.n \in Nat /\ d.n \in Nat /\ f.ev.ts \in Nat
  BY <1>2 DEF Written, Numbering, Event
<1>4. h.ev.ts <= d.ts
  <2>1. CASE h.ev.n = d.n
    BY <1>2, <1>3, <2>1 DEF Numbering
  <2>2. CASE h.ev.n < d.n
    BY <1>2, <1>3, <2>2 DEF Clocking
  <2>3. h.ev.n <= d.n
    BY <1>1
  <2> QED BY <1>3, <2>1, <2>2, <2>3
<1>5. f.ev.ts <= h.ev.ts
  BY DEF Earliest
<1> QED BY <1>3, <1>4, <1>5

LEMMA TimelyReorder ==
    ASSUME StreamInv, StreamInv', Timely, Reorder
    PROVE  Timely'
<1>0. UNCHANGED <<mode, starting, n>>
  BY DEF Reorder, Begin, Scan, Merge, CheckOrder, FixSysExits, tracer
<1>1. CASE Begin
  <2>1. /\ pc = "trace" /\ pc' = "scan" /\ UNCHANGED <<batch, frontier, events>>
        /\ \A g \in Goroutine : mode[g] # "futile"
    BY <1>1 DEF Begin, tracer, Stoppable
  <2>2. Unmerged' = Unmerged /\ Written' = Written
    BY <2>1, NothingSettles
  <2> QED BY <1>0, <2>1, <2>2 DEF Timely, Monotone
<1>2. CASE Scan
  <2>1. pc = "scan" /\ pc' \in {"noOrder", "merge"} /\ events' = events
    BY <1>2 DEF Scan
  <2>2. Unmerged' = Unmerged /\ Written' = Written
    BY <1>2, ScanSettles DEF StreamInv
  <2> QED BY <1>0, <2>1, <2>2 DEF Timely, Monotone
<1>3. ASSUME NEW f \in frontier, Merge(f) PROVE Timely'
  <2>1. /\ pc = "merge" /\ Earliest(f) /\ IInv /\ events \in Seq(Event) /\ Len(events) \in Nat
    BY <1>3 DEF Merge, StreamInv, IInv, OrderTypeOK
  <2>2. pc' = "scan"
    BY <1>3, <2>1, MergeMoves
  <2>3. /\ f.ev \in Unmerged /\ Unmerged' = Unmerged \ {f.ev} /\ Written' = Written
        /\ Len(events') = Len(events) + 1 /\ events'[Len(events) + 1] = f.ev
        /\ \A i \in 1..Len(events) : events'[i] = events[i]
    BY <1>3, <2>1, MergeSettles
  <2>4. ASSUME Monotone
        PROVE  /\ \A i, j \in 1..Len(events') : i < j => events'[i].ts <= events'[j].ts
               /\ \A i \in 1..Len(events') : \A d \in Unmerged' : events'[i].ts <= d.ts
    <3>1. \A d \in Unmerged : f.ev.ts <= d.ts
      BY <1>3, <2>1, <2>4, EarliestLeads
    <3>2. \A i \in 1..Len(events) : events[i].ts <= f.ev.ts
      BY <2>1, <2>3, <2>4 DEF Timely
    <3>3. \A i \in 1..(Len(events) + 1) : i = Len(events) + 1 \/ i \in 1..Len(events)
      BY <2>1
    <3>4. /\ \A i, j \in 1..Len(events) : i < j => events[i].ts <= events[j].ts
          /\ \A i \in 1..Len(events) : \A d \in Unmerged : events[i].ts <= d.ts
      BY <2>1, <2>4 DEF Timely
    <3>5. ASSUME NEW i \in 1..Len(events'), NEW j \in 1..Len(events'), i < j
          PROVE  events'[i].ts <= events'[j].ts
      <4>1. i \in 1..Len(events)
        BY <2>1, <2>3, <3>3, <3>5
      <4> QED BY <2>3, <3>2, <3>3, <3>4, <3>5, <4>1
    <3>6. ASSUME NEW i \in 1..Len(events'), NEW d \in Unmerged'
          PROVE  events'[i].ts <= d.ts
      BY <2>3, <3>1, <3>3, <3>4
    <3> QED BY <3>5, <3>6
  <2> QED BY <1>0, <2>1, <2>2, <2>3, <2>4 DEF Timely, Monotone
<1>4. CASE CheckOrder
  <2>1. /\ pc = "scan" /\ pc' = (IF IsSorted(events) THEN "exits" ELSE "timeOrder")
        /\ UNCHANGED <<batch, frontier, events>>
    BY <1>4 DEF CheckOrder, tracer
  <2>2. Unmerged' = Unmerged /\ Written' = Written
    BY <2>1, NothingSettles
  <2>3. Monotone => IsSorted(events)
    <3>1. DOMAIN events = 1..Len(events)
      BY <2>1 DEF StreamInv, IInv, OrderTypeOK
    <3> QED BY <2>1, <3>1 DEF Timely, IsSorted
  <2> QED BY <1>0, <2>1, <2>2, <2>3 DEF Timely, Monotone, IsSorted
<1>5. CASE FixSysExits
  <2>1. /\ pc = "exits" /\ UNCHANGED <<batch, frontier>> /\ pc' \in {"ordered", "stray", "timeOrder"}
        /\ pc' # "ordered" => events' = events
        /\ Stray \cup Early = {} => pc' = "ordered"
    BY <1>5 DEF FixSysExits, tracer
  <2>2. /\ events \in Seq(Event) /\ Written = Merged /\ History
    BY <2>1, NothingPends DEF StreamInv, IInv, OrderTypeOK, Drained
  <2>3. Monotone => Early = {}
    BY <2>2, NothingEarly DEF History
  <2>4. Stray = {}
    BY <2>2, BlockIsSeen DEF Stray, History
  <2>5. pc' # "ordered" => Unmerged' = Unmerged /\ Written' = Written
    BY <2>1, NothingSettles
  <2> QED BY <1>0, <2>1, <2>3, <2>4, <2>5 DEF Timely, Monotone
<1> QED BY <1>1, <1>2, <1>3, <1>4, <1>5 DEF Reorder

\* order.go orders an event with those that move the same goroutine.
LEMMA SubjectsChain ==
    ASSUME NEW e, e.typ \in MoveTypes \ EndTypes
    PROVE  ChainOf(e) = Subject(e)
BY DEF ChainOf, Subject, stateTransition, Transition, MoveTypes, SnapTypes, StartTypes, LeaveTypes,
       ParkTypes, YieldTypes, EndTypes

LEMMA CorrectedMatches ==
    ASSUME events \in Seq(Event), NEW i \in DOMAIN events
    PROVE  /\ Corrected[i].typ = events[i].typ /\ Corrected[i].p = events[i].p
           /\ Corrected[i].g = events[i].g /\ Corrected[i].arg = events[i].arg
           /\ Corrected[i].n = events[i].n
<1>1. events[i] \in Event
  BY Elements
<1> QED BY <1>1 DEF Corrected, Event

LEMMA SortMatches ==
    ASSUME StreamInv, Timely, pc = "exits", NEW H, NEW V, Chronicle(H, V, n),
           \A x \in Written : Matches(x, H)
    PROVE  StreamOf(H, StableSort(Corrected))
<1> DEFINE s == StableSort(Corrected)
           c == Corrected
           D == DOMAIN events
           o(k) == Origin(c, k)
<1>1. /\ IInv /\ History /\ events \in Seq(Event) /\ Written = Merged /\ Unmerged = {} /\ IsSorted(events)
      /\ Numbering /\ Raw /\ n \in Nat
  BY NothingPends DEF StreamInv, IInv, OrderTypeOK, TracerTypeOK, Drained, Timely, History
<1>2. c \in Seq(Event) /\ DOMAIN c = D
      /\ \A i \in D : c[i].ts = IF i \in Moved THEN events[i].real ELSE events[i].ts
  BY <1>1, CorrectedFits
<1>3. D = 1..n /\ Len(events) = n
  BY <1>1, Complete DEF History
<1>4. s = [k \in D |-> c[o(k)]]
  BY <1>2, SortByPlace
<1>5. \A k \in D : o(k) \in D
  BY <1>2, SortPermutes
<1>6. \A i \in D : events[i] \in Written
  BY <1>1, <1>3 DEF Merged
<1>7. \A k \in D : s[k].n = events[o(k)].n /\ Matches(s[k], H)
  <2> SUFFICES ASSUME NEW k \in D PROVE s[k].n = events[o(k)].n /\ Matches(s[k], H)
    OBVIOUS
  <2>1. PICK i \in D : i = o(k)
    BY <1>5
  <2>2. s[k] = c[i]
    BY <1>4, <2>1
  <2> HIDE DEF s, c, o
  <2>3. Matches(events[i], H)
    BY <1>6
  <2>4. /\ c[i].typ = events[i].typ /\ c[i].p = events[i].p
        /\ c[i].g = events[i].g /\ c[i].arg = events[i].arg /\ c[i].n = events[i].n
    BY <1>1, CorrectedMatches DEF c
  <2> QED BY <2>1, <2>2, <2>3, <2>4 DEF Matches
<1>8. /\ Len(s) = n /\ {s[k].n : k \in DOMAIN s} = 1..n
      /\ Monotone => \A k, l \in DOMAIN s :
            k < l /\ ChainOf(s[k]) = ChainOf(s[l]) /\ ChainOf(s[k]) # Unordered
                => s[k].n < s[l].n
  BY <1>1, SortKeeps
<1>9. s \in Seq(Event)
  <2>1. \A k \in D : c[o(k)] \in Event
    BY <1>2, <1>5
  <2>2. s = [k \in 1..n |-> c[o(k)]]
    BY <1>3, <1>4
  <2> HIDE DEF s, c, o
  <2> QED BY <1>1, <1>3, <2>1, <2>2
<1>10. DOMAIN s = 1..n
  BY <1>3, <1>4
<1>11. \A i \in D : events[i].ts \in Nat /\ events[i].n \in Nat
  BY <1>1, Elements
<1>12. ASSUME NEW k \in D, NEW l \in D, k < l
       PROVE  \/ c[o(k)].ts < c[o(l)].ts
              \/ c[o(k)].ts = c[o(l)].ts /\ o(k) < o(l)
  BY <1>2, <1>12, SortSorts
<1>13. \A k, l \in D : k < l => s[k].n # s[l].n
  <2> SUFFICES ASSUME NEW k \in D, NEW l \in D, k < l, s[k].n = s[l].n PROVE FALSE
    OBVIOUS
  <2>1. PICK i \in D : i = o(k)
    BY <1>5
  <2>2. PICK j \in D : j = o(l)
    BY <1>5
  <2>3. i # j
    BY <1>12, <2>1, <2>2, <1>2, Elements
  <2>4. events[i].n = events[j].n
    BY <1>7, <2>1, <2>2
  <2> QED BY <1>1, <1>3, <1>11, <2>3, <2>4 DEF Raw
<1> HIDE DEF s, c, o, D
<1>14. ASSUME Monotone, NEW k \in D, NEW l \in D, k < l, Tied(H[s[k].n], H[s[l].n])
       PROVE  s[k].n < s[l].n
  <2>1. PICK i \in D : i = o(k)
    BY <1>5
  <2>2. PICK j \in D : j = o(l)
    BY <1>5
  <2>3. s[k].n = events[i].n /\ s[l].n = events[j].n /\ events[i] \in Written /\ events[j] \in Written
    BY <1>6, <1>7, <2>1, <2>2
  <2>4. /\ H[s[k].n].typ = events[i].typ /\ H[s[l].n].typ = events[j].typ
        /\ H[s[k].n].p = events[i].p /\ H[s[l].n].p = events[j].p
    <3>1. Matches(events[i], H) /\ Matches(events[j], H)
      BY <2>3
    <3> QED BY <2>3, <3>1 DEF Matches
  <2>5. CASE events[i].typ # "GoSysExit" /\ events[j].typ # "GoSysExit"
             /\ (events[i].p = events[j].p \/ Clocks = "exact")
    <3>1. i \notin Moved /\ j \notin Moved
      BY <2>5 DEF Moved
    <3>2. events[i].ts < events[j].ts \/ (events[i].ts = events[j].ts /\ i < j)
      BY <1>2, <1>12, <1>14, <2>1, <2>2, <3>1
    <3>3. i \in 1..n /\ j \in 1..n /\ (j < i => events[j].ts <= events[i].ts)
          /\ (i < j => events[i].ts <= events[j].ts)
      BY <1>1, <1>3 DEF IsSorted, D
    <3>4. i < j
      BY <1>11, <3>2, <3>3
    <3>5. CASE events[i].p = events[j].p
      BY <1>1, <1>3, <2>3, <3>3, <3>4, <3>5 DEF Raw
    <3>6. CASE Clocks = "exact"
      <4>1. events[i].ts = events[i].n /\ events[j].ts = events[j].n
        BY <2>3, <3>6 DEF Timely
      <4>2. events[i].n # events[j].n
        BY <1>1, <1>3, <3>3, <3>4 DEF Raw
      <4> QED BY <1>11, <2>3, <3>3, <3>4, <4>1, <4>2
    <3> QED BY <2>5, <3>5, <3>6
  <2>6. CASE {events[i].typ, events[j].typ} \subseteq MoveTypes \ EndTypes
             /\ Subject(H[s[k].n]) = Subject(H[s[l].n])
    <3>1. Matches(s[k], H) /\ Matches(s[l], H) /\ s[k].n \in 1..n
      BY <1>3, <1>7, <1>8, <1>10
    <3>2. H[s[k].n].g = s[k].g /\ H[s[k].n].arg = s[k].arg /\ H[s[k].n].typ = s[k].typ
          /\ H[s[l].n].g = s[l].g /\ H[s[l].n].arg = s[l].arg /\ H[s[l].n].typ = s[l].typ
      BY <3>1 DEF Matches
    <3>3. Subject(s[k]) = Subject(H[s[k].n]) /\ Subject(s[l]) = Subject(H[s[l].n])
      BY <3>2 DEF Subject
    <3>4. ChainOf(s[k]) = Subject(s[k]) /\ ChainOf(s[l]) = Subject(s[l])
      BY <2>4, <2>6, <3>2, SubjectsChain
    <3>5. Subject(H[s[k].n]) \in Goroutine
      BY <2>4, <2>6, <3>1 DEF Chronicle, Did, MovesBy
    <3> QED BY <1>3, <1>8, <1>10, <1>14, <2>6, <3>3, <3>4, <3>5, Sentinels
  <2> QED BY <1>14, <2>4, <2>5, <2>6 DEF Tied
<1>15. StreamOf(H, s)
  <2>1. \A i \in 1..n : s[i].n \in 1..n /\ Matches(s[i], H)
    BY <1>3, <1>7, <1>8, <1>10
  <2>2. \A k \in 1..n : \E i \in 1..n : s[i].n = k
    BY <1>8, <1>10
  <2> QED BY <1>3, <1>8, <1>9, <1>13, <1>14, <2>1, <2>2 DEF StreamOf
<1> QED BY <1>15 DEF s

LEMMA LedgerReorder ==
    ASSUME StreamInv, Timely, Rules, Ledger, Reorder
    PROVE  Rules' /\ Ledger'
<1>1. UNCHANGED <<n, View>> /\ Rules' /\ pc # "ordered"
  <2>1. UNCHANGED <<n, rg, cur, mode, open, on, starting>> /\ pc # "ordered"
    BY DEF Reorder, Begin, Scan, Merge, CheckOrder, FixSysExits, tracer
  <2>2. Doing' = Doing /\ Made' = Made
    BY <2>1, StatusKept
  <2> QED BY <2>1, <2>2 DEF Rules, View
<1>2. PICK H, V : Chronicle(H, V, n) /\ V[n] = View /\ \A x \in Written : Matches(x, H)
  BY <1>1 DEF Ledger
<1>3. CASE Written' = Written /\ pc' # "ordered"
  BY <1>1, <1>2, <1>3 DEF Ledger
<1>4. CASE FixSysExits /\ pc' = "ordered"
  <2>1. pc = "exits" /\ events' = StableSort(Corrected)
    BY <1>4 DEF FixSysExits
  <2>2. StreamOf(H, StableSort(Corrected))
    BY <1>2, <2>1, SortMatches
  <2> DEFINE s == StableSort(Corrected)
  <2>3. events' = s /\ StreamOf(H, s)
    BY <2>1, <2>2
  <2> HIDE DEF s
  <2>4. Monotone' <=> Monotone
    BY DEF Monotone
  <2>5. StreamOf(H, events)'
    <3>1. events' = s /\ n' = n
      BY <1>1, <2>3
    <3>2. /\ events' \in Seq(Event) /\ Len(events') = n'
          /\ \A i \in 1..n' : events'[i].n \in 1..n'
          /\ \A k \in 1..n' : \E i \in 1..n' : events'[i].n = k
          /\ \A i, j \in 1..n' : i < j => events'[i].n # events'[j].n
      BY <2>3, <3>1 DEF StreamOf
    <3>3. \A i \in 1..n' : Matches(events'[i], H)
      BY <2>3, <3>1 DEF StreamOf
    <3>4. Monotone => \A i, j \in 1..n' : i < j /\ Tied(H[events'[i].n], H[events'[j].n])
                                            => events'[i].n < events'[j].n
      BY <2>3, <3>1 DEF StreamOf
    <3> QED BY <2>4, <3>2, <3>3, <3>4 DEF StreamOf
  <2> QED BY <1>1, <1>2, <1>4, <2>5 DEF Ledger
<1>5. pc' # "ordered" => Written' = Written
  <2>1. CASE Scan
    BY <2>1, ScanSettles DEF StreamInv
  <2>2. ASSUME NEW f \in frontier, Merge(f) PROVE Written' = Written
    <3>1. events \in Seq(Event) /\ Len(events) \in Nat /\ IInv
      BY <2>2 DEF Merge, StreamInv, IInv, OrderTypeOK
    <3> QED BY <2>2, <3>1, MergeSettles
  <2>3. CASE Begin \/ CheckOrder
    BY <2>3, NothingSettles DEF Begin, CheckOrder, tracer
  <2>4. CASE FixSysExits
    BY <2>4, NothingSettles DEF FixSysExits, tracer
  <2> QED BY <2>1, <2>2, <2>3, <2>4 DEF Reorder
<1>6. pc' = "ordered" => FixSysExits
  BY DEF Reorder, Begin, Scan, Merge, CheckOrder, Verdicts
<1> QED BY <1>3, <1>4, <1>5, <1>6
-----------------------------------------------------------------------------
(***************************************************************************)
(* The events of one goroutine                                             *)
(***************************************************************************)
\* An event of goroutine g, or about it, is one g writes while it runs, or one
\* that moves a g that does not run.
LEMMA OfCases ==
    ASSUME NEW v, NEW d, NEW w, ViewOK(v), ViewOK(w), Did(v, d, w), NEW g \in Goroutine, Of(d, g)
    PROVE  \/ /\ v.run[d.p] = g /\ v.st[g] = "gRunning" /\ d.typ # "GoSysExit" /\ d.g = g
              /\ d.typ \in LeaveTypes => Subject(d) = g /\ w.st[g] = Gets(d.typ)
              /\ d.typ \notin LeaveTypes => w.run[d.p] = g /\ w.st[g] = "gRunning"
           \/ /\ d.typ \in MoveTypes \ LeaveTypes /\ Subject(d) = g /\ v.st[g] = Needs(d.typ)
              /\ v.st[g] # "gRunning" /\ w.st[g] = Gets(d.typ)
              /\ IF d.typ \in StartTypes THEN d.typ = "GoStart" /\ w.run[d.p] = g
                 ELSE w.st[g] # "gRunning"
<1>1. d \in Tales /\ d.p \in Proc /\ RunsBy(v, d, w) /\ MovesBy(v, d, w)
  BY DEF Did, Tales
<1>2. /\ v.run \in [Proc -> Goroutine \cup {NoG}] /\ v.st \in [Goroutine -> gStatus]
      /\ \A h \in Goroutine : v.st[h] = "gRunning" <=> \E p \in Proc : v.run[p] = h
      /\ \A h \in Goroutine : w.st[h] = "gRunning" <=> \E p \in Proc : w.run[p] = h
      /\ g # NoG
  BY Sentinels DEF ViewOK
<1>3. PICK typ \in EventTypes \ LocalTypes : typ = d.typ
  BY <1>1 DEF Tales
<1>4. CASE typ \in LeaveTypes
  <2>1. Subject(d) = d.g /\ typ \in MoveTypes /\ typ \in ActTypes /\ typ # "GoSysExit"
    BY <1>3, <1>4 DEF Subject, MoveTypes, ActTypes, LeaveTypes, ParkTypes, YieldTypes, EndTypes
  <2>2. d.g = g /\ v.run[d.p] = g
    BY <1>1, <1>3, <2>1 DEF Of, RunsBy
  <2>3. w.st = [v.st EXCEPT ![g] = Gets(typ)]
    BY <1>1, <1>3, <2>1, <2>2 DEF MovesBy
  <2> QED BY <1>1, <1>2, <1>3, <1>4, <2>1, <2>2, <2>3
<1>5. CASE typ \in MoveTypes \ LeaveTypes /\ Subject(d) = g
  <2>1. v.st[g] = Needs(typ) /\ w.st = [v.st EXCEPT ![g] = Gets(typ)]
    BY <1>1, <1>3, <1>5 DEF MovesBy
  <2>2. w.st[g] = Gets(typ)
    BY <1>2, <2>1
  <2>3. Needs(typ) # "gRunning"
    BY <1>5 DEF Needs, MoveTypes, SnapTypes, StartTypes
  <2>4. CASE typ \in StartTypes
    <3>1. Gets(typ) = "gRunning" /\ Subject(d) = d.g /\ typ \notin LeaveTypes
      BY <1>3, <2>4, <1>5 DEF Gets, Subject, StartTypes, SnapTypes, LeaveTypes, ParkTypes, YieldTypes, EndTypes
    <3>2. PICK q \in Proc : w.run[q] = g
      BY <1>2, <2>2, <3>1
    <3>3. v.run[q] # g
      BY <1>2, <2>1, <2>3
    <3>4. typ = "GoStart"
      BY <1>1, <1>3, <3>1, <3>2, <3>3 DEF RunsBy
    <3>5. w.run = [v.run EXCEPT ![d.p] = d.g]
      BY <1>1, <1>3, <3>4 DEF RunsBy, LeaveTypes, ParkTypes, YieldTypes, EndTypes
    <3>6. d.g = g /\ w.run[d.p] = g
      BY <1>1, <1>2, <1>5, <3>1, <3>5
    <3>7. typ # "GoSysExit" /\ Gets(typ) = "gRunning"
      BY <3>1, <3>4
    <3> HIDE DEF Subject, Gets, Needs
    <3> QED BY <1>2, <1>3, <1>5, <2>1, <2>2, <2>3, <2>4, <3>4, <3>6, <3>7
  <2>5. CASE typ \notin StartTypes
    <3>1. Gets(typ) # "gRunning"
      BY <1>5, <2>5 DEF Gets, MoveTypes, SnapTypes, YieldTypes, EndTypes, LeaveTypes
    <3> QED BY <1>3, <1>5, <2>1, <2>2, <2>3, <2>5, <3>1
  <2> QED BY <2>4, <2>5
<1>6. CASE typ \notin LeaveTypes /\ ~(typ \in MoveTypes /\ Subject(d) = g)
  <2>0. d.g = g
    <3>1. Subject(d) = g => typ \in MoveTypes
      BY <1>2, <1>3 DEF Subject, MoveTypes
    <3> QED BY <1>6, <3>1 DEF Of
  <2>1. typ \notin SnapTypes \cup StartTypes
    BY <1>3, <1>6, <2>0 DEF Subject, MoveTypes, SnapTypes, StartTypes
  <2>2. typ # "GoSysExit"
    <3>1. typ = "GoSysExit" => d.g \in {NoG, d.arg} /\ Subject(d) = d.arg
      BY <1>1, <1>3 DEF RunsBy, Subject, SnapTypes, StartTypes, LeaveTypes, ParkTypes, YieldTypes, EndTypes
    <3> QED BY <1>2, <1>6, <2>0, <3>1 DEF MoveTypes
  <2>3. typ \in ActTypes \cup ForTypes
    BY <1>1, <1>2, <1>3, <2>0, <2>1, <2>2 DEF RunsBy
  <2>4. v.run[d.p] = g
    BY <1>1, <1>3, <2>0, <2>3 DEF RunsBy
  <2>5. w.run = v.run
    BY <1>1, <1>3, <1>6, <2>1 DEF RunsBy, StartTypes
  <2> QED BY <1>1, <1>2, <1>3, <1>6, <2>0, <2>2, <2>4, <2>5
<1> QED BY <1>4, <1>5, <1>6

\* Other events leave it as it is.
LEMMA OthersKeep ==
    ASSUME NEW v, NEW d, NEW w, ViewOK(v), Did(v, d, w), NEW g \in Goroutine, ~Of(d, g)
    PROVE  /\ w.st[g] = v.st[g] /\ (g \in w.made <=> g \in v.made)
           /\ \A p \in Proc : w.run[p] = g <=> v.run[p] = g
<1>1. d \in Tales /\ d.p \in Proc /\ RunsBy(v, d, w) /\ MovesBy(v, d, w) /\ d.g # g /\ Subject(d) # g
  BY DEF Did, Tales, Of
<1>2. /\ v.run \in [Proc -> Goroutine \cup {NoG}] /\ v.st \in [Goroutine -> gStatus] /\ g # NoG
  BY Sentinels DEF ViewOK
<1>3. w.st[g] = v.st[g] /\ (g \in w.made <=> g \in v.made)
  <2>1. CASE d.typ \in MoveTypes
    BY <1>1, <1>2, <2>1 DEF MovesBy
  <2>2. CASE d.typ \notin MoveTypes
    BY <1>1, <2>2 DEF MovesBy
  <2> QED BY <2>1, <2>2
<1>4. \A p \in Proc : w.run[p] = g <=> v.run[p] = g
  <2>1. CASE d.typ = "GoStart"
    <3>1. w.run = [v.run EXCEPT ![d.p] = d.g] /\ v.run[d.p] = NoG
      BY <1>1, <2>1 DEF RunsBy, LeaveTypes, ParkTypes, YieldTypes, EndTypes
    <3> QED BY <1>1, <1>2, <3>1
  <2>2. CASE d.typ \in LeaveTypes
    <3>1. d.typ # "GoStart" /\ d.typ \in ActTypes
      BY <2>2 DEF LeaveTypes, ParkTypes, YieldTypes, EndTypes, ActTypes
    <3>2. w.run = [v.run EXCEPT ![d.p] = NoG] /\ v.run[d.p] = d.g
      BY <1>1, <2>2, <3>1 DEF RunsBy
    <3> QED BY <1>1, <1>2, <3>2
  <2>3. CASE d.typ \notin LeaveTypes /\ d.typ # "GoStart"
    BY <1>1, <2>3 DEF RunsBy
  <2> QED BY <2>1, <2>2, <2>3
<1> QED BY <1>3, <1>4

\* Whatever happens, a goroutine that was created stays so.
LEMMA MadeGrows ==
    ASSUME NEW v, NEW d, NEW w, Did(v, d, w)
    PROVE  v.made \subseteq w.made
BY DEF Did, MovesBy

\* So nothing about g changes between two of its events.
LEMMA StillBetween ==
    ASSUME NEW H, NEW V, NEW m \in Nat, Chronicle(H, V, m), NEW g \in Goroutine,
           NEW a \in 0..m, NEW b \in 0..m, a <= b, \A k \in (a + 1)..b : ~Of(H[k], g)
    PROVE  /\ V[b].st[g] = V[a].st[g] /\ (g \in V[b].made <=> g \in V[a].made)
           /\ \A p \in Proc : V[b].run[p] = g <=> V[a].run[p] = g
<1> DEFINE Same(k) == /\ V[k].st[g] = V[a].st[g] /\ (g \in V[k].made <=> g \in V[a].made)
                      /\ \A p \in Proc : V[k].run[p] = g <=> V[a].run[p] = g
           S == {k \in a..b : ~Same(k)}
<1> SUFFICES ASSUME S # {} PROVE FALSE
  <2>1. b \in a..b
    OBVIOUS
  <2> QED BY <2>1
<1>1. PICK k \in S : \A j \in S : k <= j
  <2>1. S \in SUBSET Nat
    OBVIOUS
  <2> HIDE DEF S
  <2> QED BY <2>1, HasLeast
<1>2. k \in a..b /\ ~Same(k)
  OBVIOUS
<1>3. k # a
  BY <1>2
<1>4. k - 1 \in a..b /\ k - 1 < k /\ k \in (a + 1)..b /\ k \in 1..m /\ k - 1 \in 0..m
  BY <1>2, <1>3
<1>5. Same(k - 1)
  BY <1>1, <1>4
<1>6. Did(V[k - 1], H[k], V[k]) /\ ViewOK(V[k - 1]) /\ ~Of(H[k], g)
  BY <1>4 DEF Chronicle
<1>7. /\ V[k].st[g] = V[k - 1].st[g] /\ (g \in V[k].made <=> g \in V[k - 1].made)
      /\ \A p \in Proc : V[k].run[p] = g <=> V[k - 1].run[p] = g
  BY <1>6, OthersKeep
<1> QED BY <1>2, <1>5, <1>7

\* Two events of g with none in between are never turned around: one P wrote
\* both, or both move g.
LEMMA Adjacent ==
    ASSUME NEW H, NEW V, NEW m \in Nat, Chronicle(H, V, m), NEW g \in Goroutine,
           NEW a \in 1..m, NEW b \in 1..m, a < b, Of(H[a], g), Of(H[b], g),
           \A k \in (a + 1)..(b - 1) : ~Of(H[k], g)
    PROVE  Tied(H[a], H[b])
<1>1. a \in 0..m /\ b - 1 \in 0..m /\ a <= b - 1 /\ a - 1 \in 0..m /\ b \in 0..m
  OBVIOUS
<1>2. /\ V[b - 1].st[g] = V[a].st[g] /\ (g \in V[b - 1].made <=> g \in V[a].made)
      /\ \A p \in Proc : V[b - 1].run[p] = g <=> V[a].run[p] = g
  BY <1>1, StillBetween
<1>3. /\ Did(V[a - 1], H[a], V[a]) /\ ViewOK(V[a - 1]) /\ ViewOK(V[a])
      /\ Did(V[b - 1], H[b], V[b]) /\ ViewOK(V[b - 1]) /\ ViewOK(V[b])
  BY <1>1 DEF Chronicle
<1>4. H[a].p \in Proc /\ H[b].p \in Proc
  BY <1>3 DEF Did, Tales
<1> DEFINE Own(v, d, w) == /\ v.run[d.p] = g /\ v.st[g] = "gRunning" /\ d.typ # "GoSysExit" /\ d.g = g
                           /\ d.typ \in LeaveTypes => Subject(d) = g /\ w.st[g] = Gets(d.typ)
                           /\ d.typ \notin LeaveTypes => w.run[d.p] = g /\ w.st[g] = "gRunning"
           Handed(v, d, w) == /\ d.typ \in MoveTypes \ LeaveTypes /\ Subject(d) = g /\ v.st[g] = Needs(d.typ)
                              /\ v.st[g] # "gRunning" /\ w.st[g] = Gets(d.typ)
                              /\ IF d.typ \in StartTypes THEN d.typ = "GoStart" /\ w.run[d.p] = g
                                 ELSE w.st[g] # "gRunning"
<1>5. Own(V[a - 1], H[a], V[a]) \/ Handed(V[a - 1], H[a], V[a])
  BY <1>3, OfCases
<1>6. Own(V[b - 1], H[b], V[b]) \/ Handed(V[b - 1], H[b], V[b])
  BY <1>3, OfCases
<1>7. \A p, q \in Proc : V[a].run[p] = g /\ V[a].run[q] = g => p = q
  BY <1>3, Sentinels DEF ViewOK
<1>8. \A p \in Proc : V[a].run[p] = g => V[a].st[g] = "gRunning"
  BY <1>3 DEF ViewOK
<1>9. \A typ \in LeaveTypes : Gets(typ) # "gRunning" /\ typ \in MoveTypes
  BY MoveClasses DEF Gets, LeaveTypes, ParkTypes, YieldTypes, EndTypes, StartTypes, SnapTypes, MoveTypes
<1>10. CASE Own(V[b - 1], H[b], V[b])
  <2>1. V[a].run[H[b].p] = g /\ V[a].st[g] = "gRunning"
    BY <1>2, <1>4, <1>10
  <2>2. CASE Own(V[a - 1], H[a], V[a])
    <3>1. H[a].typ \notin LeaveTypes
      BY <1>9, <2>1, <2>2
    <3>2. H[a].p = H[b].p
      BY <1>4, <1>7, <2>1, <2>2, <3>1
    <3> QED BY <1>10, <2>2, <3>2 DEF Tied
  <2>3. CASE Handed(V[a - 1], H[a], V[a])
    <3>1. H[a].typ = "GoStart" /\ V[a].run[H[a].p] = g
      BY <2>1, <2>3
    <3>2. H[a].p = H[b].p
      BY <1>4, <1>7, <2>1, <3>1
    <3> QED BY <1>10, <3>1, <3>2 DEF Tied
  <2> QED BY <1>5, <2>2, <2>3
<1>11. CASE Handed(V[b - 1], H[b], V[b])
  <2>1. V[a].st[g] # "gRunning" /\ V[a].st[g] = Needs(H[b].typ)
    BY <1>2, <1>11
  <2>2. H[a].typ \in MoveTypes /\ Subject(H[a]) = g /\ V[a].st[g] = Gets(H[a].typ)
    BY <1>4, <1>5, <1>8, <1>9, <2>1
  <2>3. H[b].typ \in MoveTypes \ EndTypes
    BY <1>11 DEF LeaveTypes
  <2>4. H[a].typ \notin EndTypes
    <3> SUFFICES ASSUME H[a].typ \in EndTypes PROVE FALSE
      OBVIOUS
    <3>1. H[a].typ \in LeaveTypes /\ Gets(H[a].typ) = "gDead"
      BY MoveClasses DEF Gets, LeaveTypes, ParkTypes, YieldTypes, EndTypes, StartTypes, SnapTypes
    <3>2. Own(V[a - 1], H[a], V[a])
      BY <1>5, <3>1
    <3>3. g \in V[a - 1].made
      BY <1>3, <3>2 DEF ViewOK
    <3>4. g \in V[b - 1].made
      BY <1>2, <1>3, <3>3, MadeGrows
    <3>5. Needs(H[b].typ) = "gDead"
      BY <2>1, <2>2, <3>1
    <3>6. H[b].typ = "GoCreate"
      BY <1>11, <3>5 DEF Needs, MoveTypes, SnapTypes, StartTypes
    <3> QED BY <1>3, <1>11, <3>4, <3>6 DEF Did, MovesBy, MoveTypes
  <2> QED BY <1>11, <2>2, <2>3, <2>4 DEF Tied
<1> QED BY <1>6, <1>10, <1>11

LEMMA TiedBoth ==
    ASSUME NEW d, NEW e, Tied(d, e)
    PROVE  Tied(e, d)
BY DEF Tied

\* If the clocks agree, the stream has the events of g as they were written.
LEMMA OwnOrder ==
    ASSUME Monotone, n \in Nat, NEW H, NEW V, Chronicle(H, V, n), NEW s, StreamOf(H, s),
           NEW g \in Goroutine, NEW i \in 1..n, NEW j \in 1..n, i < j,
           Of(H[s[i].n], g), Of(H[s[j].n], g)
    PROVE  s[i].n < s[j].n
<1> DEFINE a == s[j].n
           S == {k \in (a + 1)..n : Of(H[k], g) /\ \E l \in 1..n : l < j /\ s[l].n = k}
<1>1. /\ \A k \in 1..n : s[k].n \in 1..n
      /\ \A k, l \in 1..n : k < l => s[k].n # s[l].n
      /\ \A k, l \in 1..n : k < l /\ Tied(H[s[k].n], H[s[l].n]) => s[k].n < s[l].n
      /\ \A k \in 1..n : \E l \in 1..n : s[l].n = k
  BY DEF StreamOf
<1>2. a \in 1..n /\ s[i].n \in 1..n /\ s[i].n # a
  BY <1>1
<1> SUFFICES ASSUME s[i].n > a PROVE FALSE
  BY <1>2
<1>3. s[i].n \in S
  BY <1>2
<1>4. PICK b \in S : \A k \in S : b <= k
  <2>1. S \in SUBSET Nat /\ S # {}
    BY <1>2, <1>3
  <2> HIDE DEF S
  <2> QED BY <2>1, HasLeast
<1>5. b \in (a + 1)..n /\ Of(H[b], g) /\ b \in 1..n
  BY <1>2
<1>6. PICK l \in 1..n : l < j /\ s[l].n = b
  OBVIOUS
<1> DEFINE T == {k \in a..(b - 1) : Of(H[k], g)}
<1>7. PICK c \in T : \A k \in T : k <= c
  <2>1. a \in T /\ T \in SUBSET (1..n) /\ n \in Nat
    BY <1>2, <1>5
  <2> HIDE DEF T
  <2> QED BY <2>1, HasGreatest
<1>8. c \in 1..n /\ c < b /\ c >= a /\ Of(H[c], g)
  BY <1>2, <1>5, <1>7
<1>9. \A k \in (c + 1)..(b - 1) : ~Of(H[k], g)
  <2> SUFFICES ASSUME NEW k \in (c + 1)..(b - 1), Of(H[k], g) PROVE FALSE
    OBVIOUS
  <2>1. k \in T /\ k > c
    BY <1>2, <1>5, <1>8
  <2> QED BY <1>7, <1>8, <2>1
<1>10. Tied(H[c], H[b]) /\ Tied(H[b], H[c])
  BY <1>5, <1>8, <1>9, Adjacent, TiedBoth
<1>11. PICK x \in 1..n : s[x].n = c
  BY <1>1, <1>8
<1>12. x >= j
  <2>1. CASE c = a
    <3>1. ~(x < j)
      BY <1>1, <1>11, <2>1
    <3> QED BY <3>1
  <2>2. CASE c # a
    <3>1. c \notin S
      BY <1>4, <1>8, <1>5
    <3>2. c \in (a + 1)..n
      BY <1>2, <1>8, <2>2
    <3> QED BY <1>8, <1>11, <3>1, <3>2
  <2> QED BY <2>1, <2>2
<1>13. l < x
  BY <1>6, <1>12
<1> QED BY <1>1, <1>6, <1>8, <1>10, <1>11, <1>13, <1>5

-----------------------------------------------------------------------------
(***************************************************************************)
(* Futile wakeups                                                          *)
(***************************************************************************)
LEMMA Subjects ==
    ASSUME NEW d
    PROVE  /\ d.typ \in {"GoCreate", "GoUnblock", "GoSysExit"} => Subject(d) = d.arg
           /\ d.typ \in SnapTypes \cup StartTypes \cup LeaveTypes => Subject(d) = d.g
           /\ d.typ \notin MoveTypes => Subject(d) = NoG
BY DEF Subject, MoveTypes, SnapTypes, StartTypes, LeaveTypes, ParkTypes, YieldTypes, EndTypes

LEMMA CreatesNew ==
    ASSUME NEW v, NEW d, NEW w, Did(v, d, w), d.typ = "GoCreate"
    PROVE  Subject(d) = d.arg /\ d.arg \in Goroutine /\ v.st[d.arg] = "gDead" /\ d.arg \notin v.made
<1>1. d.typ \in MoveTypes /\ Subject(d) = d.arg /\ Needs(d.typ) = "gDead"
  BY Subjects DEF Needs, MoveTypes, SnapTypes, StartTypes, LeaveTypes, ParkTypes, YieldTypes, EndTypes
<1> QED BY <1>1 DEF Did, MovesBy

\* Before its creation, nothing is of a goroutine.
LEMMA NothingBefore ==
    ASSUME NEW H, NEW V, NEW m \in Nat, Chronicle(H, V, m), NEW g \in Goroutine,
           NEW a \in 1..m, NEW b \in 1..m, a < b, H[b].typ = "GoCreate", H[b].arg = g
    PROVE  ~Of(H[a], g)
<1> SUFFICES ASSUME Of(H[a], g) PROVE FALSE
  OBVIOUS
<1> DEFINE T == {k \in a..(b - 1) : Of(H[k], g)}
<1>1. PICK c \in T : \A k \in T : k <= c
  <2>1. a \in T /\ T \in SUBSET (1..m)
    OBVIOUS
  <2> HIDE DEF T
  <2> QED BY <2>1, HasGreatest
<1>2. c \in 1..m /\ c <= b - 1 /\ b - 1 \in 0..m /\ c \in 0..m /\ c - 1 \in 0..m /\ b \in 0..m /\ Of(H[c], g)
  BY <1>1
<1>3. \A k \in (c + 1)..(b - 1) : ~Of(H[k], g)
  <2> SUFFICES ASSUME NEW k \in (c + 1)..(b - 1), Of(H[k], g) PROVE FALSE
    OBVIOUS
  <2>1. k \in T /\ k > c
    BY <1>2
  <2> QED BY <1>1, <1>2, <2>1
<1>4. g \in V[b - 1].made <=> g \in V[c].made
  BY <1>2, <1>3, StillBetween
<1>5. /\ Did(V[c - 1], H[c], V[c]) /\ ViewOK(V[c - 1]) /\ ViewOK(V[c])
      /\ Did(V[b - 1], H[b], V[b])
  BY <1>2 DEF Chronicle
<1>6. g \notin V[b - 1].made
  BY <1>5, CreatesNew
<1>7. g \notin V[c].made /\ g \notin V[c - 1].made
  BY <1>4, <1>5, <1>6, MadeGrows
<1>8. V[c - 1].st[g] = "gDead" /\ V[c].st[g] = "gDead"
  BY <1>5, <1>7 DEF ViewOK
<1>9. H[c].typ \in MoveTypes \ LeaveTypes /\ Needs(H[c].typ) = "gDead" /\ Gets(H[c].typ) = "gDead"
  BY <1>2, <1>5, <1>8, OfCases
<1> QED BY <1>9 DEF Needs, Gets, MoveTypes, SnapTypes, StartTypes, YieldTypes, LeaveTypes

\* A goroutine that was woken, and has not acted since, was unblocked at u, or
\* before tracing started, and has only been started, preempted and made to
\* sweep since.
Woke(H, g, u) == u # 0 => H[u].typ = "GoUnblock" /\ H[u].arg = g
Idles(H, g, u, k) ==
    \A l \in (u + 1)..k : Of(H[l], g) =>
        /\ H[l].typ \in {"GoStart", "GoPreempt", "GoCreate"} \cup SweepTypes
        /\ H[l].g = g => H[l].typ # "GoCreate"

LEMMA IdleSince ==
    ASSUME NEW H, NEW V, NEW m \in Nat, Chronicle(H, V, m), NEW g \in Goroutine,
           NEW k \in 0..m, V[k].mode[g] = "wakeup"
    PROVE  \E u \in 0..k : Woke(H, g, u) /\ Idles(H, g, u, k)
<1> DEFINE U == {u \in 1..k : H[u].typ = "GoUnblock" /\ H[u].arg = g}
           u == CHOOSE v \in {0} \cup U : \A x \in U : x <= v
<1>1. u \in {0} \cup U /\ \A x \in U : x <= u
  <2>1. \E v \in {0} \cup U : \A x \in U : x <= v
    <3>1. CASE U = {}
      BY <3>1
    <3>2. CASE U # {}
      <4>1. U \in SUBSET (1..k) /\ k \in Nat
        OBVIOUS
      <4> HIDE DEF U
      <4> QED BY <3>2, <4>1, HasGreatest
    <3> QED BY <3>1, <3>2
  <2> HIDE DEF U
  <2> QED BY <2>1
<1>2. u \in 0..k /\ Woke(H, g, u)
  BY <1>1 DEF Woke
<1> HIDE DEF u
<1> DEFINE Eases(l) ==
               \/ H[l].typ \in {"GoStart", "GoPreempt"} \cup SweepTypes /\ V[l - 1].mode[g] = "wakeup"
               \/ H[l].typ = "GoCreate" /\ H[l].arg = g /\ H[l].g # g
<1>3. ASSUME NEW l \in (u + 1)..k, V[l].mode[g] = "wakeup", Of(H[l], g)
      PROVE  Eases(l)
  <2>1. l \in 1..m /\ l - 1 \in 0..m /\ l \in 0..m /\ l \in 1..k /\ l > u
    BY <1>2
  <2>2. Did(V[l - 1], H[l], V[l]) /\ ViewOK(V[l - 1]) /\ ViewOK(V[l])
    BY <2>1 DEF Chronicle
  <2>3. l \notin U
    BY <1>1, <1>2, <2>1
  <2>4. ~(H[l].typ = "GoUnblock" /\ H[l].arg = g)
    BY <2>1, <2>3
  <2>5. CASE H[l].typ = "GoCreate" /\ H[l].arg = g
    <3>1. Subject(H[l]) = g /\ V[l - 1].st[g] = "gDead"
      BY <2>2, <2>5, CreatesNew
    <3>2. \A p \in Proc : V[l - 1].run[p] # g
      BY <2>2, <3>1 DEF ViewOK
    <3>3. H[l].g = V[l - 1].run[H[l].p] /\ H[l].p \in Proc
      BY <2>2, <2>5 DEF Did, RunsBy, Tales, ForTypes
    <3> QED BY <2>5, <3>2, <3>3
  <2>6. CASE ~(H[l].typ = "GoCreate" /\ H[l].arg = g)
    BY <1>3, <2>2, <2>4, <2>6 DEF Did, ModesBy
  <2> QED BY <2>5, <2>6
<1>4. ASSUME NEW l \in (u + 1)..k, V[l].mode[g] = "wakeup", ~Of(H[l], g)
      PROVE  V[l - 1].mode[g] = "wakeup"
  <2>1. l \in 1..m
    BY <1>2
  <2>2. Did(V[l - 1], H[l], V[l])
    BY <2>1 DEF Chronicle
  <2>3. ~(H[l].typ \in {"GoUnblock", "GoCreate"} /\ H[l].arg = g)
    <3>1. H[l].typ \in {"GoUnblock", "GoCreate"} => Subject(H[l]) = H[l].arg
      BY Subjects
    <3> QED BY <1>4, <3>1 DEF Of
  <2> QED BY <1>4, <2>2, <2>3 DEF Did, ModesBy
\* the last point after u at which g was not woken yet
<1> DEFINE S == {l \in (u + 1)..k : V[l].mode[g] = "wakeup" /\ V[l - 1].mode[g] # "wakeup"}
           Fine(l) == Of(H[l], g) => /\ H[l].typ \in {"GoStart", "GoPreempt", "GoCreate"} \cup SweepTypes
                                     /\ H[l].g = g => H[l].typ # "GoCreate"
<1>5. ASSUME NEW l \in S PROVE H[l].typ = "GoCreate" /\ H[l].arg = g
  BY <1>3, <1>4
<1>6. ASSUME NEW l \in (u + 1)..k, V[l].mode[g] = "wakeup" PROVE Fine(l)
  BY <1>3, <1>6 DEF SweepTypes
<1>7. ASSUME NEW l \in (u + 1)..k, V[l].mode[g] # "wakeup" PROVE Fine(l)
  <2> DEFINE R == {x \in l..k : V[x].mode[g] = "wakeup"}
  <2>1. PICK x \in R : \A y \in R : x <= y
    <3>1. R \in SUBSET Nat /\ k \in R
      BY <1>2
    <3> HIDE DEF R
    <3> QED BY <3>1, HasLeast
  <2>2. x \in l..k /\ V[x].mode[g] = "wakeup" /\ x # l /\ x - 1 \in l..k /\ x - 1 < x
    BY <1>2, <1>7, <2>1
  <2>3. V[x - 1].mode[g] # "wakeup"
    BY <2>1, <2>2, <1>2
  <2>4. x \in S /\ x \in 1..m /\ l \in 1..m /\ l < x
    BY <1>2, <2>2, <2>3
  <2>5. ~Of(H[l], g)
    BY <1>5, <2>4, NothingBefore
  <2> QED BY <2>5
<1>8. Idles(H, g, u, k)
  BY <1>6, <1>7 DEF Idles
<1> QED BY <1>2, <1>8

\* A futile wakeup ends with the next event of its goroutine, which blocks it.
LEMMA FutileEnds ==
    ASSUME NEW H, NEW V, NEW m \in Nat, Chronicle(H, V, m), NEW f \in 1..m,
           H[f].typ = "FutileWakeup", NEW g \in Goroutine, H[f].g = g, V[m].mode[g] # "futile"
    PROVE  /\ V[f - 1].mode[g] = "wakeup"
           /\ \E l \in (f + 1)..m : /\ H[l].typ \in FutileParks /\ H[l].g = g
                                    /\ \A x \in (f + 1)..(l - 1) : ~Of(H[x], g)
<1>1. \A x \in 1..m : ModesBy(V[x - 1], H[x], V[x])
  BY DEF Chronicle, Did
<1>2. V[f - 1].mode[g] = "wakeup" /\ V[f].mode[g] = "futile"
  BY <1>1 DEF ModesBy
<1> DEFINE S == {l \in f..m : V[l].mode[g] # "futile"}
<1>3. PICK l \in S : \A x \in S : l <= x
  <2>1. S \in SUBSET Nat /\ m \in S
    OBVIOUS
  <2> HIDE DEF S
  <2> QED BY <2>1, HasLeast
<1>4. l \in f..m /\ V[l].mode[g] # "futile" /\ l # f /\ \A x \in f..(l - 1) : V[x].mode[g] = "futile"
  BY <1>2, <1>3
<1>5. l \in (f + 1)..m /\ l - 1 \in f..(l - 1) /\ l \in 1..m
  BY <1>4
<1>6. H[l].typ \in FutileParks /\ H[l].g = g
  BY <1>1, <1>4, <1>5 DEF ModesBy
<1>7. ASSUME NEW x \in (f + 1)..(l - 1) PROVE ~Of(H[x], g)
  <2>1. x \in f..(l - 1) /\ x - 1 \in f..(l - 1) /\ x \in 1..m
    BY <1>5
  <2>2. V[x].mode[g] = "futile" /\ V[x - 1].mode[g] = "futile"
    BY <1>4, <2>1
  <2>3. ~(H[x].typ = "FutileWakeup" /\ H[x].g = g)
    BY <1>1, <2>1, <2>2 DEF ModesBy
  <2> QED BY <1>1, <2>1, <2>2, <2>3 DEF ModesBy
<1> QED BY <1>2, <1>5, <1>6, <1>7

\* The events removeFutile looks at: those that unblock g, those that say what
\* it did once woken, that it was to no avail among them, and its parking.
Unblocks(H, g) == {k \in 1..n : H[k].typ = "GoUnblock" /\ H[k].arg = g}
Acting(H, g)   == {k \in 1..n : H[k].typ \in WakeupTypes /\ H[k].g = g}
Denies(H, g)   == {k \in 1..n : H[k].typ = "FutileWakeup" /\ H[k].g = g}
Halts(H, g)    == {k \in 1..n : H[k].typ \in FutileParks /\ H[k].g = g}

\* What it knows once it has seen the events in S: the wakeup under way of g,
\* whether it is futile, and what is to be removed.
Awake(H, S, g)  == {x \in S \cap (Unblocks(H, g) \cup Acting(H, g)) :
                      \A y \in S \cap (Unblocks(H, g) \cup Halts(H, g)) : y <= x}
Denied(H, S, g) == \E f \in S \cap Denies(H, g) : \A y \in S \cap Halts(H, g) : y <= f

\* The wakeup that ends with q was futile, and x belongs to it.
Vain(H, S, g, q)   == \E f \in S \cap Denies(H, g) :
                         f < q /\ \A y \in S \cap Halts(H, g) : y < q => y <= f
In(H, S, g, q, x)  == \/ x = q
                      \/ /\ x < q /\ x \in S \cap (Unblocks(H, g) \cup Acting(H, g))
                         /\ \A y \in S \cap (Unblocks(H, g) \cup Halts(H, g)) : y < q => y <= x
Dropped(H, S) == {x \in S : \E g \in Goroutine : \E q \in S \cap Halts(H, g) :
                                Vain(H, S, g, q) /\ In(H, S, g, q, x)}

\* What m, which parks its goroutine, adds to that.
Adds(H, S, m) == {x \in S \cup {m} : \E g \in Goroutine :
                     m \in Halts(H, g) /\ Denied(H, S, g) /\ (x = m \/ x \in Awake(H, S, g))}

Known(H, S) == [gs     |-> [g \in Goroutine |-> [futile |-> Denied(H, S, g), wakeup |-> Awake(H, S, g)]],
                futile |-> Dropped(H, S)]

LEMMA LooksAt ==
    ASSUME NEW H, NEW g \in Goroutine
    PROVE  /\ \A k \in Unblocks(H, g) \cup Acting(H, g) \cup Halts(H, g) : k \in 1..n /\ Of(H[k], g)
           /\ Denies(H, g) \subseteq Acting(H, g)
           /\ Unblocks(H, g) \cap (Acting(H, g) \cup Halts(H, g)) = {}
           /\ Acting(H, g) \cap Halts(H, g) = {}
<1>1. \A k \in Unblocks(H, g) : Subject(H[k]) = g
  BY Subjects DEF Unblocks
<1> QED BY <1>1 DEF Unblocks, Acting, Halts, Denies, Of, WakeupTypes, FutileParks

\* One more event, the last so far of its goroutine.
LEMMA LearnsAwake ==
    ASSUME n \in Nat, NEW H, NEW S \in SUBSET (1..n), NEW m \in (1..n) \ S, NEW g \in Goroutine,
           \A y \in S : Of(H[y], g) /\ Of(H[m], g) => y < m
    PROVE  /\ m \in Unblocks(H, g) =>
                /\ Awake(H, S \cup {m}, g) = {m}
                /\ Denied(H, S \cup {m}, g) <=> Denied(H, S, g)
           /\ m \in Halts(H, g) => Awake(H, S \cup {m}, g) = {} /\ ~Denied(H, S \cup {m}, g)
           /\ m \in Acting(H, g) =>
                /\ Awake(H, S \cup {m}, g) = Awake(H, S, g) \cup {m}
                /\ Denied(H, S \cup {m}, g) <=> Denied(H, S, g) \/ m \in Denies(H, g)
           /\ m \notin Unblocks(H, g) \cup Halts(H, g) \cup Acting(H, g) =>
                /\ Awake(H, S \cup {m}, g) = Awake(H, S, g)
                /\ Denied(H, S \cup {m}, g) <=> Denied(H, S, g)
<1> DEFINE U == Unblocks(H, g)
           R == Acting(H, g)
           F == Denies(H, g)
           P == Halts(H, g)
<1>1. /\ U \subseteq 1..n /\ R \subseteq 1..n /\ P \subseteq 1..n /\ F \subseteq R
      /\ U \cap R = {} /\ U \cap P = {} /\ R \cap P = {}
  BY LooksAt
<1>2. \A y \in S : y \in U \cup R \cup P /\ m \in U \cup R \cup P => y < m
  BY LooksAt
<1>3. \A y \in S : y \in Nat
  OBVIOUS
<1>4. m \in Nat
  OBVIOUS
<1>5. /\ Awake(H, S, g) = {x \in S \cap (U \cup R) : \A y \in S \cap (U \cup P) : y <= x}
      /\ Awake(H, S \cup {m}, g)
            = {x \in (S \cup {m}) \cap (U \cup R) : \A y \in (S \cup {m}) \cap (U \cup P) : y <= x}
  BY DEF Awake
<1>6. /\ Denied(H, S, g) <=> \E f \in S \cap F : \A y \in S \cap P : y <= f
      /\ Denied(H, S \cup {m}, g) <=> \E f \in (S \cup {m}) \cap F : \A y \in (S \cup {m}) \cap P : y <= f
  BY DEF Denied
<1> HIDE DEF U, R, F, P
<1> DEFINE T == S \cup {m}
<1>11. /\ S \cap P = T \cap P <=> m \notin P
       /\ S \cap F = T \cap F <=> m \notin F
  BY <1>1
<1>7. CASE m \in U
  <2>1. m \notin R /\ m \notin P /\ m \notin F
    BY <1>1, <1>7
  <2>2. Denied(H, T, g) <=> Denied(H, S, g)
    BY <1>6, <1>11, <2>1
  <2>3. \A x \in T \cap (U \cup R) : (\A y \in T \cap (U \cup P) : y <= x) <=> x = m
    BY <1>2, <1>3, <1>4, <1>7
  <2>4. Awake(H, T, g) = {m}
    BY <1>5, <1>7, <2>3
  <2>5. m \in Unblocks(H, g) /\ m \notin Halts(H, g) /\ m \notin Acting(H, g)
    BY <1>7, <2>1 DEF U, R, P
  <2>6. Awake(H, S \cup {m}, g) = {m}
    BY <2>4
  <2>7. Denied(H, S \cup {m}, g) <=> Denied(H, S, g)
    BY <2>2
  <2> QED BY <2>5, <2>6, <2>7
<1>8. CASE m \in P
  BY <1>1, <1>2, <1>3, <1>4, <1>5, <1>6, <1>8 DEF U, R, F, P
<1>9. CASE m \in R
  <2>1. m \notin U /\ m \notin P
    BY <1>1, <1>9
  <2>2. T \cap (U \cup P) = S \cap (U \cup P) /\ \A y \in S \cap (U \cup P) : y <= m
    BY <1>2, <1>3, <1>4, <1>9, <2>1
  <2>3. Awake(H, T, g) = Awake(H, S, g) \cup {m}
    BY <1>5, <1>9, <2>2
  <2>4. Denied(H, T, g) <=> \E f \in T \cap F : \A y \in S \cap P : y <= f
    BY <1>6, <1>11, <2>1
  <2>5. Denied(H, T, g) <=> Denied(H, S, g) \/ m \in F
    BY <1>6, <2>2, <2>4
  <2>6. m \in Acting(H, g) /\ m \notin Unblocks(H, g) /\ m \notin Halts(H, g)
    BY <1>9, <2>1 DEF U, R, P
  <2>7. Awake(H, S \cup {m}, g) = Awake(H, S, g) \cup {m}
    BY <2>3
  <2>8. Denied(H, S \cup {m}, g) <=> Denied(H, S, g) \/ m \in Denies(H, g)
    BY <2>5 DEF F
  <2> QED BY <2>6, <2>7, <2>8
<1>10. CASE m \notin U \cup R \cup P
  BY <1>1, <1>2, <1>3, <1>4, <1>5, <1>6, <1>10 DEF U, R, F, P
<1> QED BY <1>7, <1>8, <1>9, <1>10

LEMMA LearnsDropped ==
    ASSUME n \in Nat, NEW H, NEW S \in SUBSET (1..n), NEW m \in (1..n) \ S,
           \A g \in Goroutine : \A y \in S : Of(H[y], g) /\ Of(H[m], g) => y < m
    PROVE  Dropped(H, S \cup {m}) = Dropped(H, S) \cup Adds(H, S, m)
<1> DEFINE T == S \cup {m}
<1>1. ASSUME NEW g \in Goroutine, NEW q \in S \cap Halts(H, g)
      PROVE  /\ Vain(H, T, g, q) <=> Vain(H, S, g, q)
             /\ \A x \in S : In(H, T, g, q, x) <=> In(H, S, g, q, x)
             /\ ~In(H, T, g, q, m)
  <2>1. \A y \in Unblocks(H, g) \cup Acting(H, g) \cup Halts(H, g) : y = m => q < m
    BY LooksAt
  <2>2. Denies(H, g) \subseteq Acting(H, g)
    BY LooksAt
  <2>3. q \in Nat /\ m \in Nat /\ q # m /\ \A x \in S : x \in Nat /\ x # m
    OBVIOUS
  <2>4. m \in Unblocks(H, g) \cup Acting(H, g) \cup Halts(H, g) \cup Denies(H, g) => ~(m < q)
    BY <2>1, <2>2, <2>3
  <2>5. Vain(H, T, g, q) <=> Vain(H, S, g, q)
    BY <2>3, <2>4 DEF Vain
  <2>6. \A x \in S : In(H, T, g, q, x) <=> In(H, S, g, q, x)
    BY <2>3, <2>4 DEF In
  <2>7. ~In(H, T, g, q, m)
    BY <2>3, <2>4 DEF In
  <2> QED BY <2>5, <2>6, <2>7
<1>2. ASSUME NEW g \in Goroutine, m \in Halts(H, g)
      PROVE  /\ Vain(H, T, g, m) <=> Denied(H, S, g)
             /\ \A x \in T : In(H, T, g, m, x) <=> (x = m \/ x \in Awake(H, S, g))
  <2>1. /\ \A y \in S \cap (Unblocks(H, g) \cup Acting(H, g) \cup Halts(H, g)) : y < m
        /\ Denies(H, g) \subseteq Acting(H, g) /\ m \notin Acting(H, g) /\ m \notin Unblocks(H, g)
    BY <1>2, LooksAt
  <2>2. m \in Nat /\ \A x \in S : x \in Nat /\ x # m
    OBVIOUS
  <2>3. Vain(H, T, g, m) <=> Denied(H, S, g)
    BY <2>1, <2>2 DEF Vain, Denied
  <2>4. \A x \in T : In(H, T, g, m, x) <=> (x = m \/ x \in Awake(H, S, g))
    BY <2>1, <2>2 DEF In, Awake
  <2> QED BY <2>3, <2>4
<1> DEFINE New == Adds(H, S, m)
<1>3. ASSUME NEW x \in T
      PROVE  x \in Dropped(H, T) <=> x \in Dropped(H, S) \cup New
  <2>1. x \in Dropped(H, T)
           <=> \E g \in Goroutine : \E q \in T \cap Halts(H, g) : Vain(H, T, g, q) /\ In(H, T, g, q, x)
    BY DEF Dropped
  <2>2. x \in Dropped(H, S)
           <=> x \in S /\ \E g \in Goroutine : \E q \in S \cap Halts(H, g) :
                              Vain(H, S, g, q) /\ In(H, S, g, q, x)
    BY DEF Dropped
  <2>3. x \in New <=> \E g \in Goroutine : m \in Halts(H, g) /\ Denied(H, S, g)
                                           /\ (x = m \/ x \in Awake(H, S, g))
    BY DEF Adds
  <2> HIDE DEF New
  <2>4. ASSUME NEW g \in Goroutine, NEW q \in S \cap Halts(H, g)
        PROVE  Vain(H, T, g, q) /\ In(H, T, g, q, x) <=> x \in S /\ Vain(H, S, g, q) /\ In(H, S, g, q, x)
    BY <1>1
  <2>5. ASSUME NEW g \in Goroutine, m \in Halts(H, g)
        PROVE  Vain(H, T, g, m) /\ In(H, T, g, m, x)
                 <=> Denied(H, S, g) /\ (x = m \/ x \in Awake(H, S, g))
    BY <1>2, <2>5
  <2>6. x \in Dropped(H, T) => x \in Dropped(H, S) \cup New
    <3> SUFFICES ASSUME NEW g \in Goroutine, NEW q \in T \cap Halts(H, g),
                        Vain(H, T, g, q), In(H, T, g, q, x)
                 PROVE  x \in Dropped(H, S) \cup New
      BY <2>1
    <3>1. CASE q = m
      BY <2>3, <2>5, <3>1
    <3>2. CASE q # m
      BY <2>2, <2>4, <3>2
    <3> QED BY <3>1, <3>2
  <2>7. x \in Dropped(H, S) => x \in Dropped(H, T)
    BY <2>1, <2>2, <2>4
  <2>8. x \in New => x \in Dropped(H, T)
    BY <2>1, <2>3, <2>5
  <2> QED BY <2>6, <2>7, <2>8
<1>4. Dropped(H, T) \subseteq T /\ Dropped(H, S) \cup New \subseteq T
  BY DEF Dropped, Adds
<1> HIDE DEF New
<1>5. Dropped(H, T) = Dropped(H, S) \cup New
  BY <1>3, <1>4
<1> QED BY <1>5 DEF New

LEMMA LearnsStep ==
    ASSUME n \in Nat, NEW H, NEW S \in SUBSET (1..n), NEW m \in (1..n) \ S,
           \A g \in Goroutine : \A y \in S : Of(H[y], g) /\ Of(H[m], g) => y < m,
           NEW ev, ev.n = m, H[m].typ = ev.typ, H[m].g = ev.g, H[m].arg = ev.arg,
           ev.typ \in WakeupTypes \cup FutileParks => ev.g \in Goroutine,
           ev.typ = "GoUnblock" => ev.arg \in Goroutine
    PROVE  FutileStep(Known(H, S), ev) = Known(H, S \cup {m})
<1> DEFINE T == S \cup {m}
           a == [g \in Goroutine |-> [futile |-> Denied(H, S, g), wakeup |-> Awake(H, S, g)]]
           b == [g \in Goroutine |-> [futile |-> Denied(H, T, g), wakeup |-> Awake(H, T, g)]]
           X == Adds(H, S, m)
<1>1. Known(H, S) = [gs |-> a, futile |-> Dropped(H, S)]
      /\ Known(H, T) = [gs |-> b, futile |-> Dropped(H, S) \cup X]
  <2>1. Dropped(H, T) = Dropped(H, S) \cup X
    BY LearnsDropped
  <2> HIDE DEF X
  <2> QED BY <2>1 DEF Known
<1>2. \A g \in Goroutine :
         /\ m \in Unblocks(H, g) <=> ev.typ = "GoUnblock" /\ ev.arg = g
         /\ m \in Acting(H, g) <=> ev.typ \in WakeupTypes /\ ev.g = g
         /\ m \in Denies(H, g) <=> ev.typ = "FutileWakeup" /\ ev.g = g
         /\ m \in Halts(H, g) <=> ev.typ \in FutileParks /\ ev.g = g
  BY DEF Unblocks, Acting, Denies, Halts
<1>3. \A g \in Goroutine : Denied(H, S, g) \in BOOLEAN /\ Denied(H, T, g) \in BOOLEAN
  BY DEF Denied
<1>4. \A g \in Goroutine :
         /\ m \in Unblocks(H, g) => Awake(H, T, g) = {m} /\ Denied(H, T, g) = Denied(H, S, g)
         /\ m \in Halts(H, g) => Awake(H, T, g) = {} /\ Denied(H, T, g) = FALSE
         /\ m \in Acting(H, g) => /\ Awake(H, T, g) = Awake(H, S, g) \cup {m}
                                  /\ Denied(H, T, g) = (Denied(H, S, g) \/ m \in Denies(H, g))
         /\ m \notin Unblocks(H, g) \cup Halts(H, g) \cup Acting(H, g) =>
                Awake(H, T, g) = Awake(H, S, g) /\ Denied(H, T, g) = Denied(H, S, g)
  BY <1>3, LearnsAwake
<1>5. /\ \A g \in Goroutine : a[g].futile = Denied(H, S, g) /\ a[g].wakeup = Awake(H, S, g)
      /\ \A g \in Goroutine : a[g] = [futile |-> a[g].futile, wakeup |-> a[g].wakeup]
      /\ a = [g \in Goroutine |-> a[g]]
  OBVIOUS
<1>6. b = [g \in Goroutine |-> [futile |-> Denied(H, T, g), wakeup |-> Awake(H, T, g)]]
  OBVIOUS
<1>7. ev.typ \notin FutileParks => X = {}
  BY <1>2 DEF Adds
<1>8. ev.typ \in FutileParks => X = IF a[ev.g].futile THEN a[ev.g].wakeup \cup {m} ELSE {}
  <2> SUFFICES ASSUME ev.typ \in FutileParks PROVE X = IF a[ev.g].futile THEN a[ev.g].wakeup \cup {m} ELSE {}
    OBVIOUS
  <2>1. PICK h \in Goroutine : h = ev.g
    OBVIOUS
  <2>2. X = {x \in T : Denied(H, S, h) /\ (x = m \/ x \in Awake(H, S, h))}
    BY <1>2, <2>1 DEF Adds
  <2>3. Awake(H, S, h) \subseteq S
    BY DEF Awake
  <2>4. CASE Denied(H, S, h)
    <3>1. X = Awake(H, S, h) \cup {m}
      BY <2>2, <2>3, <2>4
    <3>2. a[ev.g].futile /\ a[ev.g].wakeup = Awake(H, S, h)
      BY <1>5, <2>1, <2>4
    <3> QED BY <3>1, <3>2
  <2>5. CASE ~Denied(H, S, h)
    <3>1. X = {}
      BY <2>2, <2>5
    <3>2. ~a[ev.g].futile
      BY <1>5, <2>1, <2>5
    <3> QED BY <3>1, <3>2
  <2> QED BY <2>4, <2>5
<1> DEFINE k == [gs |-> a, futile |-> Dropped(H, S)]
<1>9. k.gs = a /\ k.futile = Dropped(H, S) /\ k = [gs |-> k.gs, futile |-> k.futile]
  OBVIOUS
<1> HIDE DEF a, b, X
<1>14. ASSUME NEW g \in Goroutine, m \notin Unblocks(H, g) \cup Halts(H, g) \cup Acting(H, g)
       PROVE  b[g] = a[g]
  <2>1. Awake(H, T, g) = Awake(H, S, g) /\ Denied(H, T, g) = Denied(H, S, g)
    BY <1>4, <1>14
  <2>2. b[g] = [futile |-> Denied(H, T, g), wakeup |-> Awake(H, T, g)]
    BY <1>6
  <2>3. a[g] = [futile |-> Denied(H, S, g), wakeup |-> Awake(H, S, g)]
    BY DEF a
  <2> QED BY <2>1, <2>2, <2>3
<1>10. CASE ev.typ = "GoUnblock"
  <2>1. ev.typ \notin WakeupTypes \cup FutileParks
    BY <1>10 DEF WakeupTypes, FutileParks
  <2>2. PICK h \in Goroutine : h = ev.arg
    BY <1>10
  <2>3. b = [a EXCEPT ![h].wakeup = {m}]
    <3>1. \A g \in Goroutine : b[g] = IF g = h THEN [futile |-> a[g].futile, wakeup |-> {m}]
                                      ELSE a[g]
      BY <1>2, <1>4, <1>5, <1>6, <1>10, <2>1, <2>2
    <3>2. [a[h] EXCEPT !.wakeup = {m}] = [futile |-> a[h].futile, wakeup |-> {m}]
      <4>1. a[h] = [futile |-> a[h].futile, wakeup |-> a[h].wakeup]
        BY <1>5
      <4> QED BY <4>1
    <3>3. b = [a EXCEPT ![h] = [futile |-> a[h].futile, wakeup |-> {m}]]
      BY <1>5, <1>6, <3>1
    <3> QED BY <3>2, <3>3
  <2>4. FutileStep(k, ev) = [k EXCEPT !.gs[h].wakeup = {m}]
    BY <1>10, <2>1, <2>2 DEF FutileStep, Woken
  <2>5. FutileStep(k, ev) = [gs |-> [a EXCEPT ![h].wakeup = {m}], futile |-> Dropped(H, S)]
    BY <2>4 
  <2> QED BY <1>1, <1>7, <2>1, <2>3, <2>5
<1>11. CASE ev.typ \in WakeupTypes
  <2>1. ev.typ \notin FutileParks /\ ev.typ # "GoUnblock"
    BY <1>11 DEF WakeupTypes, FutileParks
  <2>2. PICK h \in Goroutine : h = ev.g
    BY <1>11
  <2> DEFINE r == [futile |-> a[h].futile \/ ev.typ = "FutileWakeup", wakeup |-> a[h].wakeup \cup {m}]
  <2>3. b = [a EXCEPT ![h] = r]
    <3>1. \A g \in Goroutine : b[g] = IF g = h THEN r ELSE a[g]
      <4> SUFFICES ASSUME NEW g \in Goroutine PROVE b[g] = IF g = h THEN r ELSE a[g]
        OBVIOUS
      <4>1. b[g] = [futile |-> Denied(H, T, g), wakeup |-> Awake(H, T, g)]
        BY <1>6
      <4>2. CASE g = h
        <5>1. Awake(H, T, g) = a[h].wakeup \cup {m}
          BY <1>2, <1>4, <1>5, <1>11, <2>2, <4>2
        <5>2. Denied(H, T, g) = (Denied(H, S, g) \/ m \in Denies(H, g))
          BY <1>2, <1>4, <1>11, <2>2, <4>2
        <5>3. Denied(H, T, g) = (a[h].futile \/ ev.typ = "FutileWakeup")
          BY <1>2, <1>3, <1>5, <2>2, <4>2, <5>2
        <5> QED BY <4>1, <4>2, <5>1, <5>3
      <4>3. CASE g # h
        BY <1>2, <1>14, <2>1, <2>2, <4>3
      <4> QED BY <4>2, <4>3
    <3> QED BY <1>5, <1>6, <3>1
  <2>4. FutileStep(k, ev) = [k EXCEPT !.gs[h] = [futile |-> @.futile \/ ev.typ = "FutileWakeup",
                                                 wakeup |-> @.wakeup \cup {m}]]
    BY <1>11, <2>1, <2>2 DEF FutileStep
  <2>5. FutileStep(k, ev) = [gs |-> [a EXCEPT ![h] = r], futile |-> Dropped(H, S)]
    BY <1>9, <2>4
  <2> QED BY <1>1, <1>7, <2>1, <2>3, <2>5
<1>12. CASE ev.typ \in FutileParks
  <2>1. ev.typ \notin WakeupTypes /\ ev.typ # "GoUnblock"
    BY <1>12 DEF WakeupTypes, FutileParks
  <2>2. PICK h \in Goroutine : h = ev.g
    BY <1>12
  <2>3. b = [a EXCEPT ![h] = noWakeup]
    <3>1. \A g \in Goroutine : b[g] = IF g = h THEN noWakeup ELSE a[g]
      BY <1>2, <1>4, <1>5, <1>6, <1>12, <2>1, <2>2 DEF noWakeup
    <3> QED BY <1>5, <1>6, <3>1
  <2>4. FutileStep(k, ev) = [gs     |-> [k.gs EXCEPT ![h] = noWakeup],
                             futile |-> k.futile \cup (IF k.gs[h].futile
                                                       THEN k.gs[h].wakeup \cup {m} ELSE {})]
    BY <1>12, <2>1, <2>2 DEF FutileStep
  <2>5. FutileStep(k, ev) = [gs |-> [a EXCEPT ![h] = noWakeup], futile |-> Dropped(H, S) \cup X]
    BY <1>8, <1>9, <1>12, <2>2, <2>4
  <2> QED BY <1>1, <2>3, <2>5
<1>13. CASE ev.typ \notin WakeupTypes \cup FutileParks /\ ev.typ # "GoUnblock"
  <2>1. \A g \in Goroutine : b[g] = a[g]
    BY <1>2, <1>13, <1>14
  <2>2. b = a
    BY <1>5, <1>6, <2>1
  <2>3. FutileStep(k, ev) = k
    BY <1>13 DEF FutileStep
  <2> QED BY <1>1, <1>7, <1>13, <2>2, <2>3
<1> QED BY <1>10, <1>11, <1>12, <1>13

\* The recursions of both phases, and what the first one finds.
Phase1(V, evs) == V = [k \in 0..Len(evs) |->
                          IF k = 0 THEN [gs |-> [g \in Goroutine |-> noWakeup], futile |-> {}]
                          ELSE FutileStep(V[k - 1], evs[k])]
Phase2(V, evs, removed) == V = [k \in 0..Len(evs) |->
                          IF k = 0 THEN <<>>
                          ELSE IF evs[k].n \in removed THEN V[k - 1] ELSE Append(V[k - 1], evs[k])]

LEMMA Phase1Once ==
    ASSUME NEW evs, Len(evs) \in Nat, NEW V, Phase1(V, evs), NEW W, Phase1(W, evs)
    PROVE  V[Len(evs)] = W[Len(evs)]
<1> DEFINE S == {k \in 0..Len(evs) : V[k] # W[k]}
<1> SUFFICES ASSUME S # {} PROVE FALSE
  OBVIOUS
<1>1. PICK k \in S : \A j \in S : k <= j
  <2>1. S \in SUBSET Nat
    OBVIOUS
  <2> HIDE DEF S
  <2> QED BY <2>1, HasLeast
<1>2. k \in 0..Len(evs) /\ V[k] # W[k]
  BY <1>1
<1>3. /\ V[k] = IF k = 0 THEN [gs |-> [g \in Goroutine |-> noWakeup], futile |-> {}]
                ELSE FutileStep(V[k - 1], evs[k])
      /\ W[k] = IF k = 0 THEN [gs |-> [g \in Goroutine |-> noWakeup], futile |-> {}]
                ELSE FutileStep(W[k - 1], evs[k])
  BY <1>2 DEF Phase1
<1>4. k # 0 => V[k - 1] = W[k - 1]
  <2>1. k # 0 => k - 1 \in 0..Len(evs) /\ k - 1 < k
    BY <1>2
  <2> QED BY <1>1, <1>2, <2>1
<1> QED BY <1>2, <1>3, <1>4

LEMMA Phase2Once ==
    ASSUME NEW evs, Len(evs) \in Nat, NEW removed, NEW V, Phase2(V, evs, removed),
           NEW W, Phase2(W, evs, removed)
    PROVE  V[Len(evs)] = W[Len(evs)]
<1> DEFINE S == {k \in 0..Len(evs) : V[k] # W[k]}
<1> SUFFICES ASSUME S # {} PROVE FALSE
  OBVIOUS
<1>1. PICK k \in S : \A j \in S : k <= j
  <2>1. S \in SUBSET Nat
    OBVIOUS
  <2> HIDE DEF S
  <2> QED BY <2>1, HasLeast
<1>2. k \in 0..Len(evs) /\ V[k] # W[k]
  BY <1>1
<1>3. /\ V[k] = IF k = 0 THEN <<>>
                ELSE IF evs[k].n \in removed THEN V[k - 1] ELSE Append(V[k - 1], evs[k])
      /\ W[k] = IF k = 0 THEN <<>>
                ELSE IF evs[k].n \in removed THEN W[k - 1] ELSE Append(W[k - 1], evs[k])
  BY <1>2 DEF Phase2
<1>4. k # 0 => V[k - 1] = W[k - 1]
  <2>1. k # 0 => k - 1 \in 0..Len(evs) /\ k - 1 < k
    BY <1>2
  <2> QED BY <1>1, <1>2, <2>1
<1> QED BY <1>2, <1>3, <1>4

LEMMA PhasesGive ==
    ASSUME NEW evs, Len(evs) \in Nat
    PROVE  /\ \A W : Phase1(W, evs) => futile(evs) = W[Len(evs)].futile
           /\ \A removed, W : Phase2(W, evs, removed) => Keep(evs, removed) = W[Len(evs)]
<1>1. ASSUME NEW W, Phase1(W, evs) PROVE futile(evs) = W[Len(evs)].futile
  <2> DEFINE V == CHOOSE U : Phase1(U, evs)
  <2>1. Phase1(V, evs)
    BY <1>1
  <2>2. futile(evs) = V[Len(evs)].futile
    BY DEF futile, Phase1
  <2> HIDE DEF V
  <2> QED BY <1>1, <2>1, <2>2, Phase1Once
<1>2. ASSUME NEW removed, NEW W, Phase2(W, evs, removed) PROVE Keep(evs, removed) = W[Len(evs)]
  <2> DEFINE V == CHOOSE U : Phase2(U, evs, removed)
  <2>1. Phase2(V, evs, removed)
    BY <1>2
  <2>2. Keep(evs, removed) = V[Len(evs)]
    BY DEF Keep, Phase2
  <2> HIDE DEF V
  <2> QED BY <1>2, <2>1, <2>2, Phase2Once
<1> QED BY <1>1, <1>2

\* Fake Ps are all that distinguishes the separated stream.
LEMMA SeparatedSame ==
    ASSUME n \in Nat, NEW H, NEW s, StreamOf(H, s)
    PROVE  /\ Len(Separated(s)) = n /\ DOMAIN Separated(s) = 1..n
           /\ \A i \in 1..n : LET ev == Separated(s)[i] IN
                /\ ev.n = s[i].n /\ ev.n \in 1..n
                /\ H[ev.n].typ = ev.typ /\ H[ev.n].g = ev.g /\ H[ev.n].arg = ev.arg
                /\ s[i] \in Event /\ s[i].typ = ev.typ /\ s[i].g = ev.g /\ s[i].arg = ev.arg
                /\ ev.p = FakeP(s[i]) /\ H[ev.n].p = s[i].p
<1>1. /\ s \in Seq(Event) /\ Len(s) = n /\ DOMAIN s = 1..n
      /\ \A i \in 1..n : s[i].n \in 1..n /\ Matches(s[i], H)
  BY DEF StreamOf
<1>2. DOMAIN Separated(s) = 1..n /\ \A i \in 1..n : Separated(s)[i] = [s[i] EXCEPT !.p = FakeP(s[i])]
  BY <1>1 DEF Separated
<1>3. Len(Separated(s)) = n
  <2>1. Separated(s) = [i \in 1..n |-> [s[i] EXCEPT !.p = FakeP(s[i])]]
    BY <1>1 DEF Separated
  <2> QED BY <2>1
<1>4. ASSUME NEW i \in 1..n
      PROVE  LET ev == Separated(s)[i] IN
                /\ ev.n = s[i].n /\ ev.n \in 1..n
                /\ H[ev.n].typ = ev.typ /\ H[ev.n].g = ev.g /\ H[ev.n].arg = ev.arg
                /\ s[i] \in Event /\ s[i].typ = ev.typ /\ s[i].g = ev.g /\ s[i].arg = ev.arg
                /\ ev.p = FakeP(s[i]) /\ H[ev.n].p = s[i].p
  <2> DEFINE ev == Separated(s)[i]
  <2>1. s[i] \in Event /\ Matches(s[i], H) /\ s[i].n \in 1..n
    BY <1>1
  <2>2. ev = [s[i] EXCEPT !.p = FakeP(s[i])]
    BY <1>2
  <2> HIDE DEF ev
  <2>3. /\ ev.n = s[i].n /\ ev.typ = s[i].typ /\ ev.g = s[i].g /\ ev.arg = s[i].arg
        /\ ev.p = FakeP(s[i])
    BY <2>1, <2>2 DEF Event
  <2>4. /\ H[s[i].n].typ = s[i].typ /\ H[s[i].n].g = s[i].g /\ H[s[i].n].arg = s[i].arg
        /\ H[s[i].n].p = s[i].p
    BY <2>1 DEF Matches
  <2> QED BY <2>1, <2>3, <2>4 DEF ev
<1> QED BY <1>2, <1>3, <1>4

LEMMA WakersNamed ==
    ASSUME NEW v, NEW d, NEW w, ViewOK(v), Did(v, d, w)
    PROVE  /\ d.typ \in WakeupTypes \cup FutileParks => d.g \in Goroutine
           /\ d.typ = "GoUnblock" => d.arg \in Goroutine
<1>1. d \in Tales /\ RunsBy(v, d, w) /\ MovesBy(v, d, w)
  BY DEF Did
<1>2. CASE d.typ = "GoUnblock"
  <2>1. Subject(d) = d.arg /\ d.typ \in MoveTypes
    BY <1>2, Subjects DEF MoveTypes
  <2> QED BY <1>1, <1>2, <2>1 DEF MovesBy, WakeupTypes, FutileParks
<1>3. CASE d.typ = "GoStart"
  <2>1. Subject(d) = d.g /\ d.typ \in MoveTypes
    BY <1>3, Subjects DEF MoveTypes, StartTypes
  <2> QED BY <1>1, <1>3, <2>1 DEF MovesBy
<1>4. CASE d.typ \in {"GoPreempt", "FutileWakeup"} \cup FutileParks
  <2>1. d.typ \in ActTypes
    BY <1>4 DEF ActTypes, LeaveTypes, ParkTypes, YieldTypes, FutileParks
  <2>2. d.g # NoG /\ d.g \in Goroutine \cup {NoG}
    BY <1>1, <2>1 DEF RunsBy, Tales
  <2> QED BY <1>4, <2>2 DEF FutileParks
<1>5. CASE d.typ \notin {"GoUnblock"} \cup WakeupTypes \cup FutileParks
  BY <1>5
<1> QED BY <1>2, <1>3, <1>4, <1>5 DEF WakeupTypes

LEMMA FutileFound ==
    ASSUME Monotone, n \in Nat, NEW H, NEW V, Chronicle(H, V, n), NEW s, StreamOf(H, s)
    PROVE  \E W : Phase1(W, Separated(s)) /\ W[n].futile = Dropped(H, 1..n)
<1> DEFINE evs == Separated(s)
           Seen(k) == {s[i].n : i \in 1..k}
           W == [k \in 0..n |-> Known(H, Seen(k))]
<1>1. /\ Len(evs) = n
      /\ \A i \in 1..n : /\ evs[i].n = s[i].n /\ evs[i].n \in 1..n
                         /\ H[evs[i].n].typ = evs[i].typ /\ H[evs[i].n].g = evs[i].g
                         /\ H[evs[i].n].arg = evs[i].arg
  BY SeparatedSame
<1>2. /\ \A i, j \in 1..n : i < j => s[i].n # s[j].n
      /\ \A k \in 1..n : \E i \in 1..n : s[i].n = k
  BY DEF StreamOf
<1>3. W[0] = [gs |-> [g \in Goroutine |-> noWakeup], futile |-> {}]
  <2>1. Seen(0) = {} /\ W[0] = Known(H, Seen(0))
    OBVIOUS
  <2>2. \A g \in Goroutine : Denied(H, {}, g) = FALSE /\ Awake(H, {}, g) = {}
    BY DEF Denied, Awake
  <2>3. Dropped(H, {}) = {}
    BY DEF Dropped
  <2>4. Known(H, {}) = [gs |-> [g \in Goroutine |-> noWakeup], futile |-> {}]
    BY <2>2, <2>3 DEF Known, noWakeup
  <2> QED BY <2>1, <2>4
<1>4. ASSUME NEW k \in 1..n
      PROVE  W[k] = FutileStep(W[k - 1], evs[k])
  <2> DEFINE S == Seen(k - 1)
             m == s[k].n
  <2>1. k - 1 \in 0..n /\ k \in 0..n /\ \A i \in 1..(k - 1) : i \in 1..n /\ i < k
    OBVIOUS
  <2>2. S \in SUBSET (1..n) /\ m \in (1..n) \ S /\ Seen(k) = S \cup {m}
    <3>1. Seen(k) = S \cup {m}
      <4>1. 1..k = (1..(k - 1)) \cup {k}
        OBVIOUS
      <4> QED BY <4>1
    <3>2. \A i \in 1..n : s[i].n \in 1..n
      BY <1>1
    <3>3. m \notin S
      BY <1>2, <2>1
    <3>4. S \subseteq 1..n
      BY <2>1, <3>2
    <3> HIDE DEF S, m
    <3>5. m \in 1..n
      BY <3>2 DEF m
    <3> QED BY <3>1, <3>3, <3>4, <3>5
  <2>3. W[k] = Known(H, S \cup {m}) /\ W[k - 1] = Known(H, S)
    BY <2>1, <2>2
  <2>4. ASSUME NEW g \in Goroutine, NEW y \in S, Of(H[y], g), Of(H[m], g)
        PROVE  y < m
    <3>1. PICK i \in 1..(k - 1) : s[i].n = y
      OBVIOUS
    <3>2. i \in 1..n /\ i < k
      BY <2>1
    <3> QED BY <2>4, <3>1, <3>2, OwnOrder
  <2>5. \A g \in Goroutine : \A y \in S : Of(H[y], g) /\ Of(H[m], g) => y < m
    BY <2>4
  <2>6. evs[k].n = m /\ H[m].typ = evs[k].typ /\ H[m].g = evs[k].g /\ H[m].arg = evs[k].arg
        /\ m \in 1..n
    BY <1>1
  <2>7. Did(V[m - 1], H[m], V[m]) /\ ViewOK(V[m - 1])
    <3>1. m - 1 \in 0..n
      BY <2>6
    <3> QED BY <2>6, <3>1 DEF Chronicle
  <2>8. /\ evs[k].typ \in WakeupTypes \cup FutileParks => evs[k].g \in Goroutine
        /\ evs[k].typ = "GoUnblock" => evs[k].arg \in Goroutine
    BY <2>6, <2>7, WakersNamed
  <2>9. PICK ev : ev = evs[k]
    OBVIOUS
  <2> HIDE DEF S, m, W, evs
  <2>10. FutileStep(Known(H, S), ev) = Known(H, S \cup {m})
    <3>1. S \in SUBSET (1..n) /\ m \in (1..n) \ S
      BY <2>2
    <3>2. /\ ev.n = m /\ H[m].typ = ev.typ /\ H[m].g = ev.g /\ H[m].arg = ev.arg
          /\ ev.typ \in WakeupTypes \cup FutileParks => ev.g \in Goroutine
          /\ ev.typ = "GoUnblock" => ev.arg \in Goroutine
      BY <2>6, <2>8, <2>9
    <3> QED BY <2>5, <3>1, <3>2, LearnsStep
  <2> QED BY <2>3, <2>9, <2>10
<1>5. Phase1(W, evs)
  <2>1. W = [k \in 0..n |-> W[k]]
    OBVIOUS
  <2>2. \A k \in 0..n : W[k] = IF k = 0 THEN [gs |-> [g \in Goroutine |-> noWakeup], futile |-> {}]
                               ELSE FutileStep(W[k - 1], evs[k])
    <3>1. \A k \in 0..n : k = 0 \/ k \in 1..n
      OBVIOUS
    <3> HIDE DEF W, evs
    <3> QED BY <1>3, <1>4, <3>1
  <2> HIDE DEF W, evs
  <2> QED BY <1>1, <2>1, <2>2 DEF Phase1
<1>6. Seen(n) = 1..n
  <2>1. \A i \in 1..n : s[i].n \in 1..n
    BY <1>1
  <2> HIDE DEF evs, W
  <2>2. Seen(n) \subseteq 1..n
    BY <2>1
  <2>3. \A k \in 1..n : k \in Seen(n)
    BY <1>2
  <2> QED BY <2>2, <2>3
<1>7. W[n].futile = Dropped(H, 1..n)
  <2>1. W[n] = Known(H, Seen(n))
    OBVIOUS
  <2>2. W[n] = Known(H, 1..n)
    BY <1>6, <2>1
  <2> HIDE DEF W
  <2> QED BY <2>2 DEF Known
<1> QED BY <1>5, <1>7

\* Sequence t is what is kept of the first k events: in order, and exactly those
\* not removed.
Kept(t, evs, removed, k) ==
    \E r \in [1..Len(t) -> 1..k] :
        /\ \A i, j \in 1..Len(t) : i < j => r[i] < r[j]
        /\ \A i \in 1..Len(t) : t[i] = evs[r[i]] /\ evs[r[i]].n \notin removed
        /\ \A x \in 1..k : evs[x].n \notin removed => \E i \in 1..Len(t) : r[i] = x

LEMMA KeepsOne ==
    ASSUME NEW E, NEW t \in Seq(E), NEW evs, NEW removed, NEW k \in Nat, Kept(t, evs, removed, k),
           NEW x, x = evs[k + 1], x \in E
    PROVE  IF x.n \in removed THEN Kept(t, evs, removed, k + 1)
           ELSE Kept(Append(t, x), evs, removed, k + 1)
<1>1. PICK r \in [1..Len(t) -> 1..k] :
        /\ \A i, j \in 1..Len(t) : i < j => r[i] < r[j]
        /\ \A i \in 1..Len(t) : t[i] = evs[r[i]] /\ evs[r[i]].n \notin removed
        /\ \A y \in 1..k : evs[y].n \notin removed => \E i \in 1..Len(t) : r[i] = y
  BY DEF Kept
<1>2. \A y \in 1..(k + 1) : y \in 1..k \/ y = k + 1
  OBVIOUS
<1>3. Len(t) \in Nat
  OBVIOUS
<1>4. CASE x.n \in removed
  <2>1. r \in [1..Len(t) -> 1..(k + 1)]
    <3>1. \A i \in 1..Len(t) : r[i] \in 1..(k + 1)
      BY <1>1
    <3> QED BY <1>1, <3>1
  <2>2. \A y \in 1..(k + 1) : evs[y].n \notin removed => \E i \in 1..Len(t) : r[i] = y
    BY <1>1, <1>2, <1>4
  <2> QED BY <1>1, <1>4, <2>1, <2>2 DEF Kept
<1>5. CASE x.n \notin removed
  <2> DEFINE u == Append(t, x)
             q == [i \in 1..(Len(t) + 1) |-> IF i = Len(t) + 1 THEN k + 1 ELSE r[i]]
  <2>1. Len(u) = Len(t) + 1 /\ u[Len(t) + 1] = x /\ \A i \in 1..Len(t) : u[i] = t[i]
    OBVIOUS
  <2>2. \A i \in 1..(Len(t) + 1) : i \in 1..Len(t) \/ i = Len(t) + 1
    BY <1>3
  <2>3. /\ q[Len(t) + 1] = k + 1 /\ \A i \in 1..Len(t) : q[i] = r[i] /\ r[i] \in 1..k
    BY <1>1, <1>3
  <2>4. q \in [1..Len(u) -> 1..(k + 1)]
    <3>1. \A i \in 1..Len(u) : q[i] \in 1..(k + 1)
      BY <2>1, <2>2, <2>3
    <3>2. q = [i \in 1..Len(u) |-> q[i]]
      BY <2>1
    <3> HIDE DEF q, u
    <3> QED BY <3>1, <3>2
  <2> HIDE DEF u, q
  <2>5. \A i, j \in 1..Len(u) : i < j => q[i] < q[j]
    <3> SUFFICES ASSUME NEW i \in 1..Len(u), NEW j \in 1..Len(u), i < j PROVE q[i] < q[j]
      OBVIOUS
    <3>1. i \in 1..Len(t)
      BY <1>3, <2>1
    <3>2. CASE j \in 1..Len(t)
      BY <1>1, <2>3, <3>1, <3>2
    <3>3. CASE j = Len(t) + 1
      BY <2>3, <3>1, <3>3
    <3> QED BY <2>1, <2>2, <3>2, <3>3
  <2>6. \A i \in 1..Len(u) : u[i] = evs[q[i]] /\ evs[q[i]].n \notin removed
    BY <1>1, <1>5, <2>1, <2>2, <2>3
  <2>7. \A y \in 1..(k + 1) : evs[y].n \notin removed => \E i \in 1..Len(u) : q[i] = y
    <3> SUFFICES ASSUME NEW y \in 1..(k + 1), evs[y].n \notin removed PROVE \E i \in 1..Len(u) : q[i] = y
      OBVIOUS
    <3>1. Len(t) + 1 \in 1..Len(u) /\ \A i \in 1..Len(t) : i \in 1..Len(u)
      BY <1>3, <2>1
    <3>2. CASE y = k + 1
      BY <2>3, <3>1, <3>2
    <3>3. CASE y \in 1..k
      BY <1>1, <2>3, <3>1, <3>3
    <3> QED BY <1>2, <3>2, <3>3
  <2>8. Kept(u, evs, removed, k + 1)
    BY <2>4, <2>5, <2>6, <2>7 DEF Kept
  <2> QED BY <1>5, <2>8 DEF u
<1> QED BY <1>4, <1>5

LEMMA KeptExist ==
    ASSUME NEW E, NEW evs \in Seq(E), NEW removed
    PROVE  \E W : /\ Phase2(W, evs, removed) /\ W[Len(evs)] \in Seq(E)
                  /\ Kept(W[Len(evs)], evs, removed, Len(evs))
<1> DEFINE Pre(W, m) == W = [k \in 0..m |->
                          IF k = 0 THEN <<>>
                          ELSE IF evs[k].n \in removed THEN W[k - 1] ELSE Append(W[k - 1], evs[k])]
           Good(m) == \E W : Pre(W, m) /\ W[m] \in Seq(E) /\ Kept(W[m], evs, removed, m)
           S == {m \in 0..Len(evs) : ~Good(m)}
<1>1. S = {} => Good(Len(evs))
  <2>1. Len(evs) \in 0..Len(evs)
    OBVIOUS
  <2> HIDE DEF Good
  <2> QED BY <2>1
<1>2. Good(Len(evs)) => \E W : /\ Phase2(W, evs, removed) /\ W[Len(evs)] \in Seq(E)
                               /\ Kept(W[Len(evs)], evs, removed, Len(evs))
  BY DEF Phase2
<1> SUFFICES ASSUME S # {} PROVE FALSE
  BY <1>1, <1>2
<1>3. PICK m \in S : \A j \in S : m <= j
  <2>1. S \in SUBSET Nat
    OBVIOUS
  <2> HIDE DEF S
  <2> QED BY <2>1, HasLeast
<1>4. m \in 0..Len(evs) /\ ~Good(m)
  BY <1>3
<1>5. m # 0
  <2> DEFINE W == [k \in 0..0 |-> <<>>]
  <2>1. W[0] = <<>> /\ <<>> \in Seq(E) /\ Len(<<>>) = 0
    OBVIOUS
  <2>2. Pre(W, 0)
    OBVIOUS
  <2>3. Kept(<<>>, evs, removed, 0)
    <3> DEFINE r == [i \in 1..0 |-> i]
    <3>1. r \in [1..Len(<<>>) -> 1..0] /\ 1..0 = {} /\ 1..Len(<<>>) = {}
      OBVIOUS
    <3> HIDE DEF r
    <3> QED BY <3>1 DEF Kept
  <2>4. Good(0)
    <3> HIDE DEF W
    <3>1. W[0] \in Seq(E) /\ Kept(W[0], evs, removed, 0)
      BY <2>1, <2>3
    <3> QED BY <2>2, <3>1
  <2> HIDE DEF Good
  <2> QED BY <1>4, <2>4
<1>6. PICK l \in Nat : m = l + 1 /\ l \in 0..Len(evs) /\ m \in 1..Len(evs)
  <2>1. m - 1 \in Nat /\ m = (m - 1) + 1 /\ m - 1 \in 0..Len(evs)
    BY <1>4, <1>5
  <2> QED BY <2>1, <1>4
<1>7. PICK W : Pre(W, l) /\ W[l] \in Seq(E) /\ Kept(W[l], evs, removed, l)
  <2>1. l \notin S /\ Good(l)
    <3> HIDE DEF Good
    <3> QED BY <1>3, <1>6
  <2> QED BY <2>1
<1> DEFINE x == evs[m]
           last == IF x.n \in removed THEN W[l] ELSE Append(W[l], x)
           X == [k \in 0..m |-> IF k = m THEN last ELSE W[k]]
<1>8. x \in E /\ x = evs[l + 1]
  BY <1>6
<1>9. last \in Seq(E) /\ Kept(last, evs, removed, m)
  <2>1. x.n \in removed => Kept(W[l], evs, removed, l + 1)
    BY <1>6, <1>7, <1>8, KeepsOne
  <2>2. x.n \notin removed => Kept(Append(W[l], x), evs, removed, l + 1)
    BY <1>6, <1>7, <1>8, KeepsOne
  <2>3. Append(W[l], x) \in Seq(E)
    BY <1>7, <1>8
  <2> HIDE DEF x
  <2> QED BY <1>6, <1>7, <2>1, <2>2, <2>3
<1>10. ASSUME NEW k \in 0..m
       PROVE  X[k] = IF k = 0 THEN <<>>
                     ELSE IF evs[k].n \in removed THEN X[k - 1] ELSE Append(X[k - 1], evs[k])
  <2> HIDE DEF last
  <2>1. CASE k = m
    <3>1. X[k] = last
      BY <2>1
    <3>2. k - 1 = l /\ l \in 0..m /\ l # m /\ k # 0
      BY <1>5, <1>6, <2>1
    <3>3. X[l] = W[l]
      BY <3>2
    <3> QED BY <2>1, <3>1, <3>2, <3>3 DEF last
  <2>2. CASE k # m
    <3>1. k \in 0..l
      BY <1>6, <2>2
    <3>2. X[k] = W[k]
      BY <2>2
    <3>3. W[k] = IF k = 0 THEN <<>>
                 ELSE IF evs[k].n \in removed THEN W[k - 1] ELSE Append(W[k - 1], evs[k])
      BY <1>7, <3>1
    <3>4. k # 0 => k - 1 \in 0..m /\ k - 1 # m
      BY <1>6, <3>1
    <3>5. k # 0 => X[k - 1] = W[k - 1]
      BY <3>4
    <3> HIDE DEF X
    <3> QED BY <3>2, <3>3, <3>5
  <2> QED BY <2>1, <2>2
<1>11. Pre(X, m)
  <2>1. X = [k \in 0..m |-> X[k]]
    OBVIOUS
  <2> HIDE DEF X
  <2> QED BY <1>10, <2>1
<1>12. X[m] = last
  BY <1>4
<1>13. Good(m)
  <2> HIDE DEF X, last
  <2> QED BY <1>9, <1>11, <1>12
<1> HIDE DEF Good
<1> QED BY <1>4, <1>13

\* What postProcessTrace is given, whatever is removed, and what is removed if
\* the clocks agree.
LEMMA InputKept ==
    ASSUME n \in Nat, NEW H, NEW s, StreamOf(H, s)
    PROVE  LET evs == Separated(s) IN
           /\ Len(removeFutile(evs)) \in Nat
           /\ DOMAIN removeFutile(evs) = 1..Len(removeFutile(evs))
           /\ Kept(removeFutile(evs), evs, futile(evs), n)
<1> DEFINE evs == Separated(s)
           E == {evs[i] : i \in 1..n}
           R == futile(evs)
<1>1. Len(evs) = n /\ DOMAIN evs = 1..n
  BY SeparatedSame
<1>2. evs \in Seq(E)
  <2>1. evs = [i \in 1..n |-> evs[i]]
    BY <1>1 DEF Separated
  <2> HIDE DEF evs
  <2> QED BY <2>1
<1> HIDE DEF evs, E, R
<1>3. PICK W : Phase2(W, evs, R) /\ W[Len(evs)] \in Seq(E) /\ Kept(W[Len(evs)], evs, R, Len(evs))
  BY <1>2, KeptExist
<1>4. Keep(evs, R) = W[n]
  BY <1>1, <1>3, PhasesGive
<1>5. removeFutile(evs) = W[n]
  BY <1>4 DEF removeFutile, R
<1>6. W[n] \in Seq(E) /\ Kept(W[n], evs, R, n)
  BY <1>1, <1>3
<1>7. Len(W[n]) \in Nat /\ DOMAIN W[n] = 1..Len(W[n])
  BY <1>6
<1> QED BY <1>5, <1>6, <1>7 DEF evs, R

LEMMA FutileIs ==
    ASSUME Monotone, n \in Nat, NEW H, NEW V, Chronicle(H, V, n), NEW s, StreamOf(H, s)
    PROVE  futile(Separated(s)) = Dropped(H, 1..n)
<1>1. PICK W : Phase1(W, Separated(s)) /\ W[n].futile = Dropped(H, 1..n)
  BY FutileFound
<1>2. Len(Separated(s)) = n
  BY SeparatedSame
<1> QED BY <1>1, <1>2, PhasesGive

\* A futile wakeup, from what it began with to what ended it.
LEMMA WakeupSpans ==
    ASSUME n \in Nat, NEW H, NEW V, Chronicle(H, V, n), NEW g \in Goroutine,
           NEW f \in Denies(H, g), V[n].mode[g] # "futile"
    PROVE  \E u \in 0..(f - 1), l \in (f + 1)..n :
              /\ f \in 1..n /\ u \in {0} \cup Unblocks(H, g) /\ l \in Halts(H, g)
              /\ \A y \in Unblocks(H, g) \cup Halts(H, g) : y < l => y <= u
              /\ \A x \in (u + 1)..(l - 1) : H[x].g = g /\ H[x].typ \notin SweepTypes => x \in Acting(H, g)
<1>1. f \in 1..n /\ H[f].typ = "FutileWakeup" /\ H[f].g = g
  BY DEF Denies
<1>2. PICK l \in (f + 1)..n : /\ H[l].typ \in FutileParks /\ H[l].g = g
                              /\ \A x \in (f + 1)..(l - 1) : ~Of(H[x], g)
  BY <1>1, FutileEnds
<1>3. V[f - 1].mode[g] = "wakeup"
  BY <1>1, FutileEnds
<1>4. f - 1 \in 0..n
  BY <1>1
<1>5. PICK u \in 0..(f - 1) : Woke(H, g, u) /\ Idles(H, g, u, f - 1)
  BY <1>3, <1>4, IdleSince
<1>6. u \in {0} \cup Unblocks(H, g) /\ l \in Halts(H, g)
  BY <1>1, <1>2, <1>4, <1>5 DEF Woke, Unblocks, Halts
<1>7. \A x \in (u + 1)..(l - 1) : x \in (u + 1)..(f - 1) \/ x = f \/ x \in (f + 1)..(l - 1)
  BY <1>1, <1>2, <1>5
<1>8. \A x \in (u + 1)..(f - 1) : Of(H[x], g) =>
         /\ H[x].typ \in {"GoStart", "GoPreempt", "GoCreate"} \cup SweepTypes
         /\ H[x].g = g => H[x].typ # "GoCreate"
  BY <1>5 DEF Idles
<1>9. ASSUME NEW y \in Unblocks(H, g) \cup Halts(H, g), y < l PROVE y <= u
  <2> SUFFICES ASSUME y > u PROVE FALSE
    BY <1>1, <1>4, <1>5 DEF Unblocks, Halts
  <2>1. Of(H[y], g) /\ y \in 1..n /\ H[y].typ \in {"GoUnblock"} \cup FutileParks
    BY LooksAt DEF Unblocks, Halts
  <2>2. y \in (u + 1)..(l - 1)
    BY <1>2, <1>5, <1>9, <2>1
  <2>3. y \notin (u + 1)..(f - 1)
    BY <1>8, <2>1 DEF FutileParks, SweepTypes
  <2>4. y # f
    BY <1>1, <2>1 DEF FutileParks
  <2> QED BY <1>2, <1>7, <2>1, <2>2, <2>3, <2>4
<1>10. ASSUME NEW x \in (u + 1)..(l - 1), H[x].g = g, H[x].typ \notin SweepTypes
       PROVE  x \in Acting(H, g)
  <2>1. x \in 1..n /\ Of(H[x], g)
    BY <1>2, <1>5, <1>10 DEF Of
  <2>2. x \in (u + 1)..(f - 1) \/ x = f
    BY <1>2, <1>7, <2>1
  <2>3. H[x].typ \in {"GoStart", "GoPreempt", "FutileWakeup"}
    BY <1>1, <1>8, <1>10, <2>1, <2>2
  <2> QED BY <1>10, <2>1, <2>3 DEF Acting, WakeupTypes
<1> QED BY <1>1, <1>6, <1>9, <1>10

\* What is told of the trace is what the chronicle tells.
LEMMA ToldIs ==
    ASSUME Drained, pc = "ordered", n \in Nat, NEW H, StreamOf(H, events), NEW k \in 1..n
    PROVE  Told[k].typ = H[k].typ /\ Told[k].g = H[k].g /\ Told[k].arg = H[k].arg
<1>1. /\ DOMAIN events = 1..n
      /\ \A i \in 1..n : Matches(events[i], H)
      /\ \E i \in 1..n : events[i].n = k
  BY DEF StreamOf
<1>2. Emitted = {events[i] : i \in DOMAIN events}
  BY DEF Drained, Emitted
<1> DEFINE ev == CHOOSE x \in Emitted : x.n = k
<1>3. ev \in Emitted /\ ev.n = k
  BY <1>1, <1>2
<1>4. Told[k] = ev
  BY DEF Told
<1> HIDE DEF ev
<1>5. Matches(ev, H)
  BY <1>1, <1>2, <1>3
<1> QED BY <1>3, <1>4, <1>5 DEF Matches

LEMMA WakeupIs ==
    ASSUME Drained, pc = "ordered", n \in Nat, NEW H, NEW V, Chronicle(H, V, n), StreamOf(H, events),
           NEW g \in Goroutine, NEW f \in Denies(H, g), V[n].mode[g] # "futile", NEW x \in 1..n
    PROVE  x \in Wakeup(f) <=> \E q \in Halts(H, g) :
              /\ f < q /\ \A y \in Halts(H, g) : y < q => y <= f
              /\ In(H, 1..n, g, q, x)
<1>1. PICK u \in 0..(f - 1), l \in (f + 1)..n :
         /\ f \in 1..n /\ u \in {0} \cup Unblocks(H, g) /\ l \in Halts(H, g)
         /\ \A y \in Unblocks(H, g) \cup Halts(H, g) : y < l => y <= u
         /\ \A y \in (u + 1)..(l - 1) : H[y].g = g /\ H[y].typ \notin SweepTypes => y \in Acting(H, g)
  BY WakeupSpans
<1>2. \A k \in 1..n : Told[k].typ = H[k].typ /\ Told[k].g = H[k].g /\ Told[k].arg = H[k].arg
  BY ToldIs
<1>3. Wakes(g) = Unblocks(H, g) /\ Parks(g) = Halts(H, g) /\ Told[f].g = g
  BY <1>1, <1>2 DEF Wakes, Parks, Unblocks, Halts, Denies
<1>4. /\ Unblocks(H, g) \subseteq 1..n /\ Halts(H, g) \subseteq 1..n /\ Acting(H, g) \subseteq 1..n
      /\ Unblocks(H, g) \cap Acting(H, g) = {}
  BY LooksAt
<1> DEFINE first == CHOOSE k \in {0} \cup Unblocks(H, g) :
                        k < f /\ \A j \in Unblocks(H, g) : j < f => j <= k
           last  == CHOOSE k \in Halts(H, g) : k > f /\ \A j \in Halts(H, g) : j > f => k <= j
<1>5. u < f /\ f < l /\ f \in Nat /\ u \in Nat /\ l \in Nat
  BY <1>1
<1>6. first = u
  <2>1. u \in {0} \cup Unblocks(H, g) /\ u < f /\ \A j \in Unblocks(H, g) : j < f => j <= u
    BY <1>1, <1>4, <1>5
  <2>2. /\ first \in {0} \cup Unblocks(H, g) /\ first < f
        /\ \A j \in Unblocks(H, g) : j < f => j <= first
    BY <2>1
  <2> HIDE DEF first
  <2> QED BY <1>4, <1>5, <2>1, <2>2
<1>7. last = l
  <2>1. l \in Halts(H, g) /\ l > f /\ \A j \in Halts(H, g) : j > f => l <= j
    BY <1>1, <1>4, <1>5
  <2>2. last \in Halts(H, g) /\ last > f /\ \A j \in Halts(H, g) : j > f => last <= j
    BY <2>1
  <2> HIDE DEF last
  <2> QED BY <1>4, <1>5, <2>1, <2>2
<1>8. Wakeup(f) = {u} \cup {k \in (u + 1)..l : Told[k].g = g /\ Told[k].typ \notin SweepTypes}
  <2>1. Wakeup(f) = {first} \cup {k \in (first + 1)..last : Told[k].g = g /\ Told[k].typ \notin SweepTypes}
    BY <1>3 DEF Wakeup
  <2> HIDE DEF first, last
  <2> QED BY <1>6, <1>7, <2>1
<1> HIDE DEF first, last
<1>9. x \in Wakeup(f) <=> x = u \/ (x \in (u + 1)..l /\ H[x].g = g /\ H[x].typ \notin SweepTypes)
  BY <1>2, <1>8
<1>10. In(H, 1..n, g, l, x)
         <=> x = l \/ /\ x < l /\ x \in Unblocks(H, g) \cup Acting(H, g)
                      /\ \A y \in Unblocks(H, g) \cup Halts(H, g) : y < l => y <= x
  BY <1>4 DEF In
<1>11. x \in Wakeup(f) <=> In(H, 1..n, g, l, x)
  <2>1. CASE x = l
    <3>1. H[x].g = g /\ H[x].typ \in FutileParks
      BY <1>1, <2>1 DEF Halts
    <3> QED BY <1>5, <1>9, <1>10, <2>1, <3>1 DEF FutileParks, SweepTypes
  <2>2. CASE x > l
    BY <1>5, <1>9, <1>10, <2>2
  <2>3. CASE x < l
    <3>1. CASE x = u
      BY <1>1, <1>5, <1>9, <1>10, <2>3, <3>1
    <3>2. CASE x < u
      <4>1. u \in Unblocks(H, g)
        BY <1>1, <3>2
      <4> QED BY <1>5, <1>9, <1>10, <2>3, <3>2, <4>1
    <3>3. CASE x > u
      <4>1. x \in (u + 1)..(l - 1) /\ x \in (u + 1)..l
        BY <1>5, <2>3, <3>3
      <4>2. x \notin Unblocks(H, g)
        BY <1>1, <1>5, <2>3, <3>3
      <4>3. x \in Acting(H, g) => H[x].g = g /\ H[x].typ \notin SweepTypes
        BY DEF Acting, WakeupTypes, SweepTypes
      <4>4. \A y \in Unblocks(H, g) \cup Halts(H, g) : y < l => y <= x
        BY <1>1, <1>4, <1>5, <3>3
      <4>5. x \in Wakeup(f) <=> x \in Acting(H, g)
        BY <1>1, <1>9, <3>3, <1>5, <4>1, <4>3
      <4> QED BY <1>10, <2>3, <4>2, <4>4, <4>5
    <3> QED BY <1>5, <3>1, <3>2, <3>3
  <2> QED BY <1>5, <2>1, <2>2, <2>3
<1>12. ASSUME NEW q \in Halts(H, g) PROVE (f < q /\ \A y \in Halts(H, g) : y < q => y <= f) <=> q = l
  BY <1>1, <1>4, <1>5
<1> QED BY <1>1, <1>11, <1>12

\* So what removeFutile finds are the futile wakeups.
LEMMA FutileIsDropped ==
    ASSUME Drained, pc = "ordered", n \in Nat, NEW H, NEW V, Chronicle(H, V, n), StreamOf(H, events),
           \A g \in Goroutine : V[n].mode[g] # "futile", NEW x \in 1..n
    PROVE  x \in Futile <=> x \in Dropped(H, 1..n)
<1>1. \A k \in 1..n : Told[k].typ = H[k].typ /\ Told[k].g = H[k].g /\ Told[k].arg = H[k].arg
  BY ToldIs
<1>2. ASSUME NEW f \in 1..n, H[f].typ = "FutileWakeup"
      PROVE  H[f].g \in Goroutine /\ f \in Denies(H, H[f].g)
  <2>1. f - 1 \in 0..n
    OBVIOUS
  <2>2. Did(V[f - 1], H[f], V[f]) /\ ViewOK(V[f - 1])
    BY <2>1 DEF Chronicle
  <2>3. H[f].g \in Goroutine
    BY <1>2, <2>2, WakersNamed DEF WakeupTypes
  <2> QED BY <1>2, <2>3 DEF Denies
<1>3. \A g \in Goroutine : Halts(H, g) \subseteq 1..n /\ Denies(H, g) \subseteq 1..n
  BY LooksAt DEF Denies
<1>4. x \in Futile => x \in Dropped(H, 1..n)
  <2> SUFFICES ASSUME NEW f \in 1..n, Told[f].typ = "FutileWakeup", x \in Wakeup(f)
               PROVE  x \in Dropped(H, 1..n)
    BY DEF Futile
  <2>1. PICK g \in Goroutine : g = H[f].g /\ f \in Denies(H, g)
    BY <1>1, <1>2
  <2>2. PICK q \in Halts(H, g) :
              /\ f < q /\ \A y \in Halts(H, g) : y < q => y <= f
              /\ In(H, 1..n, g, q, x)
    BY <2>1, WakeupIs
  <2>3. Vain(H, 1..n, g, q)
    BY <1>3, <2>1, <2>2 DEF Vain
  <2>4. q \in (1..n) \cap Halts(H, g)
    BY <1>3
  <2> QED BY <2>2, <2>3, <2>4 DEF Dropped
<1>5. x \in Dropped(H, 1..n) => x \in Futile
  <2> SUFFICES ASSUME NEW g \in Goroutine, NEW q \in (1..n) \cap Halts(H, g),
                      Vain(H, 1..n, g, q), In(H, 1..n, g, q, x)
               PROVE  x \in Futile
    BY DEF Dropped
  <2>1. PICK f \in Denies(H, g) : f < q /\ \A y \in Halts(H, g) : y < q => y <= f
    BY <1>3 DEF Vain
  <2>2. f \in 1..n /\ H[f].typ = "FutileWakeup"
    BY DEF Denies
  <2>3. x \in Wakeup(f)
    BY <2>1, WakeupIs
  <2>4. Told[f].typ = "FutileWakeup"
    BY <1>1, <2>2
  <2> QED BY <2>2, <2>3, <2>4 DEF Futile
<1> QED BY <1>4, <1>5

LEMMA InputIs ==
    ASSUME Monotone, Drained, pc = "ordered", n \in Nat, NEW H, NEW V, Chronicle(H, V, n),
           StreamOf(H, events), \A g \in Goroutine : V[n].mode[g] # "futile",
           NEW t, t = removeFutile(Separated(events))
    PROVE  {t[k].n : k \in DOMAIN t} = (1..n) \ Futile
<1> DEFINE evs == Separated(events)
           R == Dropped(H, 1..n)
<1>1. /\ Len(t) \in Nat /\ DOMAIN t = 1..Len(t) /\ Kept(t, evs, R, n)
  BY InputKept, FutileIs
<1>2. \A i \in 1..n : evs[i].n = events[i].n /\ events[i].n \in 1..n
  BY SeparatedSame
<1>3. \A k \in 1..n : \E i \in 1..n : events[i].n = k
  BY DEF StreamOf
<1> HIDE DEF evs
<1>4. PICK r \in [1..Len(t) -> 1..n] :
        /\ \A i \in 1..Len(t) : t[i] = evs[r[i]] /\ evs[r[i]].n \notin R
        /\ \A x \in 1..n : evs[x].n \notin R => \E i \in 1..Len(t) : r[i] = x
  BY <1>1 DEF Kept
<1>5. \A x \in 1..n : x \in Futile <=> x \in R
  BY FutileIsDropped
<1> HIDE DEF R
<1>6. ASSUME NEW k \in 1..Len(t) PROVE t[k].n \in (1..n) \ Futile
  <2>1. r[k] \in 1..n
    BY <1>4
  <2> QED BY <1>2, <1>4, <1>5, <2>1
<1>7. ASSUME NEW x \in (1..n) \ Futile PROVE \E k \in 1..Len(t) : t[k].n = x
  <2>1. PICK i \in 1..n : events[i].n = x
    BY <1>3
  <2>2. evs[i].n \notin R
    BY <1>2, <1>5, <2>1
  <2>3. PICK k \in 1..Len(t) : r[k] = i
    BY <1>4, <2>2
  <2> QED BY <1>2, <1>4, <2>1, <2>3
<1> QED BY <1>1, <1>6, <1>7

-----------------------------------------------------------------------------
(***************************************************************************)
(* What postProcessTrace is given                                          *)
(***************************************************************************)
\* It begins once the stream is merged, and with what is left of it.
Given == /\ next \in Nat
         /\ next = 0 => input = <<>>
         /\ next # 0 => pc = "ordered" /\ input = removeFutile(Separated(events))

PipeInv == StreamInv /\ Rules /\ Ledger /\ Timely /\ Given

LEMMA PipeBegins == PipeInit => PipeInv
<1> SUFFICES ASSUME PipeInit PROVE PipeInv
  OBVIOUS
<1>1. Init /\ Given
  BY DEF PipeInit, Given
<1> QED BY <1>1, StreamInit, LedgerBegins, TimelyBegins DEF PipeInv

LEMMA LedgerStays ==
    ASSUME Rules, Ledger, Timely, UNCHANGED vars
    PROVE  Rules' /\ Ledger' /\ Timely'
<1>1. UNCHANGED <<batch, n, clock, rg, lastp, cur, mode, blockTs, open, on, starting>>
      /\ UNCHANGED <<pc, frontier, events>>
  BY DEF vars, tracer, order
<1>2. Doing' = Doing /\ Made' = Made
  BY <1>1, StatusKept
<1>3. Rules' /\ View' = View
  BY <1>1, <1>2 DEF Rules, View
<1>4. Written' = Written /\ Unmerged' = Unmerged
  BY <1>1 DEF Written, Merged, Unmerged, Waiting
<1>5. Ledger'
  <2>1. PICK H, V : Chronicle(H, V, n) /\ V[n] = View /\ (pc # "ordered" => \A x \in Written : Matches(x, H))
                    /\ (pc = "ordered" => StreamOf(H, events))
    BY DEF Ledger
  <2>2. StreamOf(H, events)' <=> StreamOf(H, events)
    BY <1>1 DEF StreamOf, Monotone
  <2> QED BY <1>1, <1>3, <1>4, <2>1, <2>2 DEF Ledger
<1>6. Timely'
  BY <1>1, <1>4 DEF Timely, Monotone, IsSorted
<1> QED BY <1>3, <1>5, <1>6

LEMMA PipeStep == PipeInv /\ [PipeNext]_pvars => PipeInv'
<1> SUFFICES ASSUME PipeInv, [PipeNext]_pvars PROVE PipeInv'
  OBVIOUS
<1>1. StreamInv /\ Rules /\ Ledger /\ Timely /\ Given
  BY DEF PipeInv
<1>2. CASE Trace /\ UNCHANGED pipe
  <2>1. StreamInv'
    BY <1>1, <1>2, StreamTrace
  <2>2. Rules' /\ Ledger' /\ Timely'
    BY <1>1, <1>2, LedgerTrace, TimelyTrace
  <2>3. Given'
    <3>1. pc = "trace" /\ next' = next /\ input' = input
      BY <1>2 DEF Trace, pipe
    <3> QED BY <1>1, <3>1 DEF Given
  <2> QED BY <2>1, <2>2, <2>3 DEF PipeInv
<1>3. CASE Reorder /\ UNCHANGED pipe
  <2>1. StreamInv'
    <3>1. Next
      BY <1>3 DEF Next
    <3> QED BY <1>1, <3>1, StreamNext
  <2>2. Rules' /\ Ledger' /\ Timely'
    BY <1>1, <1>3, <2>1, LedgerReorder, TimelyReorder
  <2>3. Given'
    <3>1. pc # "ordered" /\ next' = next /\ input' = input
      BY <1>3 DEF Reorder, Begin, Scan, Merge, CheckOrder, FixSysExits, pipe
    <3> QED BY <1>1, <3>1 DEF Given
  <2> QED BY <2>1, <2>2, <2>3 DEF PipeInv
<1>4. ASSUME UNCHANGED vars, Given' PROVE PipeInv'
  <2>1. StreamInv'
    BY <1>1, <1>4, StreamStutter
  <2>2. Rules' /\ Ledger' /\ Timely'
    BY <1>1, <1>4, LedgerStays
  <2> QED BY <1>4, <2>1, <2>2 DEF PipeInv
<1>5. CASE Prepare
  <2>1. UNCHANGED vars /\ Given'
    <3>1. pc' = pc /\ events' = events /\ UNCHANGED vars
      BY <1>5 DEF Prepare, vars, order
    <3> QED BY <1>1, <1>5, <3>1 DEF Prepare, Given
  <2> QED BY <1>4, <2>1
<1>6. CASE Check
  <2>1. UNCHANGED vars /\ Given'
    <3>1. next' = next + 1 /\ input' = input /\ UNCHANGED vars /\ next \in DOMAIN input
      BY <1>6 DEF Check
    <3>2. next # 0
      <4>1. DOMAIN <<>> = {}
        OBVIOUS
      <4> QED BY <1>1, <3>1, <4>1 DEF Given
    <3>3. pc' = pc /\ events' = events
      BY <3>1 DEF vars, order
    <3> QED BY <1>1, <3>1, <3>2, <3>3 DEF Given
  <2> QED BY <1>4, <2>1
<1>7. CASE UNCHANGED pvars
  <2>1. UNCHANGED vars /\ Given'
    <3>1. pc' = pc /\ events' = events /\ UNCHANGED <<vars, next, input>>
      BY <1>7 DEF pvars, pipe, vars, order
    <3> QED BY <1>1, <3>1 DEF Given
  <2> QED BY <1>4, <2>1
<1> QED BY <1>2, <1>3, <1>5, <1>6, <1>7 DEF PipeNext, Parse, Return

THEOREM PipeInductive == PipeSpec => []PipeInv
<1> QED BY PipeBegins, PipeStep, PTL DEF PipeSpec

\* Exactly the futile wakeups disappear before postProcessTrace, if the clocks
\* agree, whatever readings they give and wherever tracing begins or ends
\* (parser.go:499-566).
THEOREM FutileDisappears == Monotone => (PipeSpec => []FutileInvisible)
<1>1. Monotone /\ PipeInv => FutileInvisible
  <2> SUFFICES ASSUME Monotone, PipeInv, next = 1
               PROVE  {input[k].n : k \in DOMAIN input} = (1..n) \ Futile
    BY DEF FutileInvisible
  <2>1. /\ Drained /\ pc = "ordered" /\ n \in Nat /\ input = removeFutile(Separated(events))
        /\ \A g \in Goroutine : mode[g] # "futile"
    BY DEF PipeInv, Given, StreamInv, IInv, OrderTypeOK, TracerTypeOK, Timely
  <2>2. PICK H, V : Chronicle(H, V, n) /\ V[n] = View /\ StreamOf(H, events)
    BY <2>1 DEF PipeInv, Ledger
  <2>3. \A g \in Goroutine : V[n].mode[g] # "futile"
    BY <2>1, <2>2, ViewFields
  <2> QED BY <2>1, <2>2, <2>3, InputIs
<1>2. SUFFICES ASSUME Monotone PROVE PipeSpec => []FutileInvisible
  OBVIOUS
<1>3. PipeInv => FutileInvisible
  BY <1>1, <1>2
<1> QED BY <1>3, PipeInductive, PTL

\* With clocks that agree, parse never finds events with timestamps out of
\* order, also not once it has dated syscall exits anew (order.go:103-105).
THEOREM TimeInOrder == Monotone => (PipeSpec => [](pc # "timeOrder"))
<1> SUFFICES ASSUME Monotone PROVE PipeSpec => [](pc # "timeOrder")
  OBVIOUS
<1>1. PipeInv => pc # "timeOrder"
  BY DEF PipeInv, Timely
<1> QED BY <1>1, PipeInductive, PTL

\* The vocabulary of the instance is this module's.
LEMMA PostSame ==
    /\ Post!EventTypes = EventTypes /\ Post!LocalTypes = LocalTypes
    /\ Post!TimerP = TimerP /\ Post!SyscallP = SyscallP
    /\ Post!LeaveTypes = LeaveTypes /\ Post!ParkTypes = ParkTypes /\ Post!YieldTypes = YieldTypes
    /\ Post!EndTypes = EndTypes /\ Post!StartTypes = StartTypes /\ Post!SnapTypes = SnapTypes
<1>1. /\ Post!LocalTypes = LocalTypes /\ Post!TimerP = TimerP /\ Post!SyscallP = SyscallP
      /\ Post!ParkTypes = ParkTypes /\ Post!YieldTypes = YieldTypes
      /\ Post!EndTypes = EndTypes /\ Post!StartTypes = StartTypes /\ Post!SnapTypes = SnapTypes
      /\ Post!PlainTypes = PlainTypes /\ Post!GoatTypes = GoatTypes
  BY DEF Post!LocalTypes, LocalTypes, Post!TimerP, TimerP, Post!SyscallP, SyscallP,
         Post!ParkTypes, ParkTypes, Post!YieldTypes, YieldTypes, Post!EndTypes, EndTypes,
         Post!StartTypes, StartTypes, Post!SnapTypes, SnapTypes, Post!PlainTypes, PlainTypes,
         Post!GoatTypes, GoatTypes
<1>2. Post!LeaveTypes = LeaveTypes
  BY <1>1 DEF Post!LeaveTypes, LeaveTypes
<1>3. Post!EventTypes = EventTypes
  BY <1>1, <1>2 DEF Post!EventTypes, EventTypes
<1> QED BY <1>1, <1>2, <1>3

\* What postProcessTrace is given are events it knows, with the syscall exits,
\* and nothing else, on their fake P (parser.go:119, 490-497).
LEMMA AssumedKept ==
    ASSUME n \in Nat, NEW H, NEW V, Chronicle(H, V, n), NEW s, StreamOf(H, s),
           NEW i \in 1..n
    PROVE  Entry(Separated(s)[i]) \in Post!InputEvents
<1> DEFINE ev == Separated(s)[i]
<1>1. /\ ev.n \in 1..n /\ H[ev.n].typ = ev.typ /\ H[ev.n].g = ev.g /\ H[ev.n].arg = ev.arg
      /\ s[i] \in Event /\ s[i].typ = ev.typ /\ s[i].g = ev.g /\ s[i].arg = ev.arg
      /\ ev.p = FakeP(s[i])
  BY SeparatedSame
<1> HIDE DEF ev
<1>2. H[ev.n] \in Tales
  BY <1>1 DEF Chronicle, Did
<1>3. PICK typ \in EventTypes \ LocalTypes : typ = ev.typ
  BY <1>1, <1>2 DEF Tales
<1>4. /\ ev.g \in Goroutine \cup {NoG} /\ ev.arg \in Goroutine \cup {NoG} /\ s[i].p \in Proc
  BY <1>1 DEF Event
<1>5. SyscallP \notin Proc /\ TimerP \notin Proc /\ TimerP # SyscallP
  BY FakePsAreNotReal DEF FakePs, TimerP, SyscallP
<1>6. FakeP(s[i]) = IF typ = "GoSysExit" THEN SyscallP
                    ELSE IF typ = "GoUnblock" /\ ev.g \in TimerGs THEN TimerP ELSE s[i].p
  BY <1>1, <1>3 DEF FakeP
<1>7. /\ ev.p \in Proc \cup {TimerP, SyscallP}
      /\ typ = "GoSysExit" <=> ev.p = SyscallP
      /\ ev.p = TimerP => typ = "GoUnblock"
  BY <1>1, <1>4, <1>5, <1>6
<1>8. Entry(ev) = [typ |-> typ, p |-> ev.p, g |-> ev.g, arg |-> ev.arg, seq |-> 1]
  BY <1>3 DEF Entry, Task
<1>9. Entry(ev) \in Post!InputEvents
  <2>1. Entry(ev) \in [typ : (EventTypes \ LocalTypes) \cup {Post!BadRegion}, p : Proc \cup {TimerP, SyscallP},
                       g : Goroutine \cup {NoG}, arg : Goroutine \cup {NoG}, seq : Nat]
    BY <1>3, <1>4, <1>7, <1>8
  <2>3. /\ Post!EventTypes = EventTypes /\ Post!LocalTypes = LocalTypes
        /\ Post!TimerP = TimerP /\ Post!SyscallP = SyscallP
    BY PostSame
  <2>2. Entry(ev).typ = typ /\ Entry(ev).p = ev.p
    BY <1>8
  <2> QED BY <1>7, <2>1, <2>2, <2>3 DEF Post!InputEvents
<1> QED BY <1>9 DEF ev

THEOREM InputIsAsAssumed == PipeSpec => []AssumedInput
<1>1. PipeInv => AssumedInput
  <2> SUFFICES ASSUME PipeInv, NEW k \in DOMAIN input PROVE Entry(input[k]) \in Post!InputEvents
    BY DEF AssumedInput
  <2>1. next # 0 /\ n \in Nat
    <3>1. DOMAIN <<>> = {}
      OBVIOUS
    <3> QED BY <3>1 DEF PipeInv, Given, StreamInv, IInv, OrderTypeOK, TracerTypeOK
  <2>2. pc = "ordered" /\ input = removeFutile(Separated(events))
    BY <2>1 DEF PipeInv, Given
  <2>3. PICK H, V : Chronicle(H, V, n) /\ StreamOf(H, events)
    BY <2>2 DEF PipeInv, Ledger
  <2>4. DOMAIN input = 1..Len(input) /\ Kept(input, Separated(events), futile(Separated(events)), n)
    BY <2>1, <2>2, <2>3, InputKept
  <2>5. PICK i \in 1..n : input[k] = Separated(events)[i]
    BY <2>4 DEF Kept
  <2> QED BY <2>1, <2>3, <2>5, AssumedKept
<1> QED BY <1>1, PipeInductive, PTL

=============================================================================
