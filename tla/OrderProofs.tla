----------------------------- MODULE OrderProofs -----------------------------
(***************************************************************************)
(* order1007 merges every trace the runtime can write: for any number of   *)
(* Ps, goroutines and events, and any clocks, the merge loop neither runs  *)
(* out of ready events nor panics.                                         *)
(*                                                                         *)
(* The argument: along one chain the measure M below grows with every      *)
(* event, so the pending events of a chain form a line whose first element *)
(* starts in the state the merge has reached.  An event without a sequence *)
(* number is, if it is not first on its chain, preceded by an event of the *)
(* same chain in the same batch, so it cannot be the head of its batch     *)
(* before its turn.  Hence a ready head is first on its chain, stays so    *)
(* until it is merged, and the oldest pending event is always ready.       *)
(***************************************************************************)
EXTENDS Order, TracerProofs, FiniteSetTheorems, WellFoundedInduction

\* Every event of a chain makes this grow.
M(st) == 2 * st.seq + (IF st.status = "gRunning" THEN 0 ELSE 1)

\* What the proof needs to know of an event; settling a Local form keeps it.
Core(e)   == [n |-> e.n, c |-> ChainOf(e), p |-> e.p, pre |-> e.pre, post |-> e.post]
CoreSet   == [n : Nat \ {0}, c : Chain \cup {Unordered}, p : Proc,
              pre : GState, post : GState]

\* The events not merged yet.
Waiting(p) == {batch[p][i] : i \in 1..Len(batch[p])}
Cores(p)   == {Core(e) : e \in Waiting(p)}
Advanced   == {Core(f.ev) : f \in frontier}
Pending    == (UNION {Cores(p) : p \in Proc}) \cup Advanced

\* On(S, c): the pending events of one chain.
On(S, c) == {d \in S : d.c = c}

\* The pending events S lead every chain from the merged state st to the
\* runtime's state real.
Line(S, st, real) ==
    /\ \A d \in S, e \in S : d.n = e.n => d = e
    /\ \A c \in Chain : \A d \in On(S, c) :
         /\ M(st[c]) <= M(d.pre) /\ M(d.pre) < M(d.post) /\ M(d.post) <= M(real[c])
         /\ \A e \in On(S, c) : d.n < e.n => M(d.post) <= M(e.pre)
         /\ d.post = real[c] \/ \E e \in On(S, c) : e.pre = d.post
    /\ \A c \in Chain : st[c] = real[c] \/ \E d \in On(S, c) : d.pre = st[c]

Chains == [Chain -> GState]
-----------------------------------------------------------------------------
LEMMA MNat == \A s \in GState : M(s) \in Nat
BY DEF M, GState, gStatus

\* The oldest pending event of a chain starts where the merge has got to.
LEMMA FirstIsNext ==
    ASSUME NEW S \in SUBSET CoreSet, NEW st \in Chains, NEW real \in Chains,
           Line(S, st, real), NEW c \in Chain, NEW d \in On(S, c),
           \A e \in On(S, c) : d.n <= e.n
    PROVE  d.pre = st[c]
<1>0. On(S, c) \subseteq S /\ S \subseteq CoreSet
  BY DEF On
<1>1. st[c] # real[c]
  <2>1. M(st[c]) <= M(d.pre) /\ M(d.pre) < M(d.post) /\ M(d.post) <= M(real[c])
    BY DEF Line
  <2>2. M(st[c]) \in Nat /\ M(d.pre) \in Nat /\ M(d.post) \in Nat /\ M(real[c]) \in Nat
    BY <1>0, MNat DEF CoreSet, Chains
  <2> QED BY <2>1, <2>2
<1>2. PICK e \in On(S, c) : e.pre = st[c]
  BY <1>1 DEF Line
<1>3. d.n = e.n
  <2>1. M(d.pre) \in Nat /\ M(d.post) \in Nat /\ M(e.pre) \in Nat /\ d.n \in Nat /\ e.n \in Nat
    BY <1>0, MNat DEF CoreSet
  <2>2. M(st[c]) <= M(d.pre) /\ M(d.pre) < M(d.post) /\ (d.n < e.n => M(d.post) <= M(e.pre))
    BY DEF Line
  <2> QED BY <1>2, <2>1, <2>2
<1> QED BY <1>0, <1>2, <1>3 DEF Line

\* Conversely an event that starts there is the oldest of its chain.
LEMMA NextIsFirst ==
    ASSUME NEW S \in SUBSET CoreSet, NEW st \in Chains, NEW real \in Chains,
           Line(S, st, real), NEW c \in Chain, NEW d \in On(S, c), d.pre = st[c],
           NEW e \in On(S, c), e # d
    PROVE  d.n < e.n /\ M(d.post) <= M(e.pre) /\ e.pre # st[c]
<1>0. On(S, c) \subseteq S /\ S \subseteq CoreSet
  BY DEF On
<1>1. /\ M(d.pre) \in Nat /\ M(d.post) \in Nat /\ M(e.pre) \in Nat /\ M(e.post) \in Nat
      /\ d.n \in Nat /\ e.n \in Nat
  BY <1>0, MNat DEF CoreSet
<1>2. d.n # e.n
  BY <1>0 DEF Line
<1>3. /\ M(d.pre) < M(d.post) /\ M(e.pre) < M(e.post) /\ M(d.pre) <= M(e.pre)
      /\ d.n < e.n => M(d.post) <= M(e.pre)
      /\ e.n < d.n => M(e.post) <= M(d.pre)
  BY DEF Line
<1> QED BY <1>1, <1>2, <1>3

\* Writing an event of chain c extends its line at the far end.
LEMMA LineGrows ==
    ASSUME NEW S \in SUBSET CoreSet, NEW st \in Chains, NEW real \in Chains,
           Line(S, st, real), NEW c \in Chain, NEW x \in CoreSet, x.c = c,
           \A d \in S : d.n < x.n, x.pre = real[c], M(x.pre) < M(x.post),
           \A b \in Chain : M(st[b]) <= M(real[b])
    PROVE  Line(S \cup {x}, st, [real EXCEPT ![c] = x.post])
<1> DEFINE T == S \cup {x}
           R == [real EXCEPT ![c] = x.post]
<1>0. S \subseteq CoreSet /\ T \subseteq CoreSet
  OBVIOUS
<1>1. \A d \in T, e \in T : d.n = e.n => d = e
  BY <1>0 DEF Line, CoreSet
<1>2. On(T, c) = On(S, c) \cup {x} /\ \A b \in Chain : b # c => On(T, b) = On(S, b)
  BY DEF On
<1>3. R[c] = x.post /\ \A b \in Chain : b # c => R[b] = real[b]
  BY DEF Chains
<1>4. \A d \in CoreSet : M(d.pre) \in Nat /\ M(d.post) \in Nat /\ d.n \in Nat
  BY MNat DEF CoreSet
<1>5. \A b \in Chain : M(st[b]) \in Nat /\ M(real[b]) \in Nat
  BY MNat DEF Chains
<1>6. ASSUME NEW b \in Chain, NEW d \in On(T, b)
      PROVE  /\ M(st[b]) <= M(d.pre) /\ M(d.pre) < M(d.post) /\ M(d.post) <= M(R[b])
             /\ \A e \in On(T, b) : d.n < e.n => M(d.post) <= M(e.pre)
             /\ d.post = R[b] \/ \E e \in On(T, b) : e.pre = d.post
  <2>1. CASE b # c
    <3>1. On(T, b) = On(S, b) /\ R[b] = real[b] /\ d \in On(S, b)
      BY <2>1, <1>2, <1>3
    <3> QED BY <3>1 DEF Line
  <2>2. CASE b = c /\ d = x
    <3>1. ASSUME NEW e \in On(T, c) PROVE ~(x.n < e.n)
      <4>1. e = x \/ e \in S
        BY DEF On
      <4>2. e.n \in Nat /\ x.n \in Nat
        BY <4>1, <1>0 DEF CoreSet
      <4> QED BY <4>1, <4>2
    <3>2. M(st[c]) <= M(x.pre)
      OBVIOUS
    <3>3. M(x.post) <= M(R[c])
      BY <1>3, <1>4
    <3>4. x.post = R[c]
      BY <1>3
    <3> QED BY <2>2, <3>1, <3>2, <3>3, <3>4
  <2>3. CASE b = c /\ d # x
    <3>1. d \in On(S, c) /\ d \in S
      BY <2>3, <1>2 DEF On
    <3>2. /\ M(st[c]) <= M(d.pre) /\ M(d.pre) < M(d.post) /\ M(d.post) <= M(real[c])
          /\ \A e \in On(S, c) : d.n < e.n => M(d.post) <= M(e.pre)
          /\ d.post = real[c] \/ \E e \in On(S, c) : e.pre = d.post
      BY <3>1 DEF Line
    <3>3. M(d.post) <= M(R[c])
      BY <3>1, <3>2, <1>0, <1>3, <1>4, <1>5
    <3> QED BY <2>3, <3>2, <3>3, <1>2
  <2> QED BY <2>1, <2>2, <2>3
<1>7. ASSUME NEW b \in Chain
      PROVE  st[b] = R[b] \/ \E d \in On(T, b) : d.pre = st[b]
  <2>1. st[b] = real[b] \/ \E d \in On(S, b) : d.pre = st[b]
    BY DEF Line
  <2> QED BY <2>1, <1>2, <1>3
<1> QED BY <1>1, <1>6, <1>7 DEF Line

\* Merging the next event of chain c shortens its line at the near end.
LEMMA LineShrinks ==
    ASSUME NEW S \in SUBSET CoreSet, NEW st \in Chains, NEW real \in Chains,
           Line(S, st, real), NEW c \in Chain, NEW x \in On(S, c), x.pre = st[c]
    PROVE  Line(S \ {x}, [st EXCEPT ![c] = x.post], real)
<1> DEFINE T == S \ {x}
           P == [st EXCEPT ![c] = x.post]
<1>0. x \in S /\ S \subseteq CoreSet
  BY DEF On
<1>1. \A d \in T, e \in T : d.n = e.n => d = e
  BY DEF Line
<1>2. On(T, c) = On(S, c) \ {x} /\ \A b \in Chain : b # c => On(T, b) = On(S, b)
  BY DEF On
<1>3. P[c] = x.post /\ \A b \in Chain : b # c => P[b] = st[b]
  BY DEF Chains
<1>4. \A d \in On(S, c) : M(d.pre) \in Nat /\ M(d.post) \in Nat
  BY MNat DEF CoreSet, On
<1>5. M(x.pre) < M(x.post)
  BY DEF Line
<1>6. ASSUME NEW b \in Chain, NEW d \in On(T, b)
      PROVE  /\ M(P[b]) <= M(d.pre) /\ M(d.pre) < M(d.post) /\ M(d.post) <= M(real[b])
             /\ \A e \in On(T, b) : d.n < e.n => M(d.post) <= M(e.pre)
             /\ d.post = real[b] \/ \E e \in On(T, b) : e.pre = d.post
  <2>1. CASE b # c
    <3>1. On(T, b) = On(S, b) /\ P[b] = st[b] /\ d \in On(S, b)
      BY <2>1, <1>2, <1>3
    <3> QED BY <3>1 DEF Line
  <2>2. CASE b = c
    <3>1. d \in On(S, c) /\ d # x
      BY <2>2, <1>2
    <3>2. M(x.post) <= M(d.pre)
      BY <3>1, NextIsFirst
    <3>3. /\ M(d.pre) < M(d.post) /\ M(d.post) <= M(real[c])
          /\ \A e \in On(S, c) : d.n < e.n => M(d.post) <= M(e.pre)
          /\ d.post = real[c] \/ \E e \in On(S, c) : e.pre = d.post
      BY <3>1 DEF Line
    <3>4. x.pre # d.post
      BY <3>1, <3>2, <3>3, <1>4, <1>5
    <3> QED BY <2>2, <3>2, <3>3, <3>4, <1>2, <1>3
  <2> QED BY <2>1, <2>2
<1>7. ASSUME NEW b \in Chain
      PROVE  P[b] = real[b] \/ \E d \in On(T, b) : d.pre = P[b]
  <2>1. CASE b # c
    BY <2>1, <1>2, <1>3 DEF Line
  <2>2. CASE b = c
    <3>1. x.post = real[c] \/ \E e \in On(S, c) : e.pre = x.post
      BY DEF Line
    <3>2. \A e \in On(S, c) : e.pre = x.post => e # x
      BY <1>4, <1>5
    <3> QED BY <2>2, <3>1, <3>2, <1>2, <1>3
  <2> QED BY <2>1, <2>2
<1> QED BY <1>1, <1>6, <1>7 DEF Line
-----------------------------------------------------------------------------
(***************************************************************************)
(* What the runtime writes                                                 *)
(***************************************************************************)
\* Why the Local forms are sound: a running goroutine's last numbered event
\* is in the batch of its P.
TracerInv ==
    /\ \A p \in Proc : cur[p] # NoG =>
         lastp[cur[p]] = p /\ rg[cur[p]].status = "gRunning"
    /\ starting => /\ \A g \in Goroutine : lastp[g] = Boot
                   /\ \A p \in Proc : cur[p] = NoG
    /\ \A g \in Goroutine : rg[g].status = "gDead" => rg[g].seq = 0
    /\ rg[Garbage].status = "gDead"

\* An event's transition, as order.go reads it, is the one that happened.
Fits(tr, e) ==
    tr.g # Unordered => /\ tr.init.seq \in {NoSeq, e.pre.seq}
                        /\ tr.init.status = e.pre.status
                        /\ Resolve(e.pre, tr.next) = e.post

Unnumbered(e) == stateTransition(e).g # Unordered /\ stateTransition(e).init.seq = NoSeq

EmitsPlain ==
    /\ \E e \in Event : Emit(e) /\ e.n = n + 1 /\ ChainOf(e) = Unordered
    /\ UNCHANGED <<rg, lastp>>

EmitsMove ==
    \E e \in Event, c \in Chain :
        /\ Emit(e) /\ e.n = n + 1 /\ ChainOf(e) = c
        /\ e.pre = rg[c] /\ M(e.pre) < M(e.post) /\ Fits(stateTransition(e), e)
        /\ rg' = [rg EXCEPT ![c] = e.post]
        /\ lastp' = IF c = Garbage THEN lastp ELSE [lastp EXCEPT ![c] = e.p]
        /\ Unnumbered(e) => c # Garbage /\ lastp[c] = e.p

USE DEF gState

\* Three kinds of event whose transition is the one the runtime made: those
\* that carry the number, the Local ones, and those that do not count.
LEMMA NumberFits ==
    ASSUME NEW e \in Event, NEW c \in Chain, NEW status \in gStatus,
           stateTransition(e) = Transition(c, e.pre.seq, e.pre.status, e.pre.seq + 1, status),
           e.post = [seq |-> e.pre.seq + 1, status |-> status]
    PROVE  /\ M(e.pre) < M(e.post) /\ Fits(stateTransition(e), e) /\ ChainOf(e) = c
           /\ ~Unnumbered(e)
<1>1. e.pre.seq \in Nat
  BY DEF Event, GState
<1>2. M(e.pre) < M(e.post)
  BY <1>1 DEF M
<1>3. Resolve(e.pre, [seq |-> e.pre.seq + 1, status |-> status]) = e.post
  BY <1>1 DEF Resolve, NoSeq, SeqInc
<1> QED BY <1>1, <1>2, <1>3 DEF Fits, ChainOf, Unnumbered, Transition, NoSeq

LEMMA LocalFits ==
    ASSUME NEW e \in Event, NEW c \in Chain, NEW status \in gStatus,
           stateTransition(e) = Transition(c, NoSeq, e.pre.status, SeqInc, status),
           e.post = [seq |-> e.pre.seq + 1, status |-> status]
    PROVE  M(e.pre) < M(e.post) /\ Fits(stateTransition(e), e) /\ ChainOf(e) = c
<1>1. e.pre.seq \in Nat
  BY DEF Event, GState
<1>2. M(e.pre) < M(e.post)
  BY <1>1 DEF M
<1>3. Resolve(e.pre, [seq |-> SeqInc, status |-> status]) = e.post
  BY <1>1 DEF Resolve, NoSeq, SeqInc
<1> QED BY <1>2, <1>3 DEF Fits, ChainOf, Transition

LEMMA KeepFits ==
    ASSUME NEW e \in Event, NEW c \in Chain, NEW status \in gStatus \ {"gRunning"},
           stateTransition(e) = Transition(c, NoSeq, "gRunning", NoSeq, status),
           e.pre.status = "gRunning",
           e.post = [seq |-> e.pre.seq, status |-> status]
    PROVE  M(e.pre) < M(e.post) /\ Fits(stateTransition(e), e) /\ ChainOf(e) = c
<1>1. e.pre.seq \in Nat
  BY DEF Event, GState
<1>2. M(e.pre) < M(e.post)
  BY <1>1 DEF M
<1>3. Resolve(e.pre, [seq |-> NoSeq, status |-> status]) = e.post
  BY <1>1 DEF Resolve, NoSeq, SeqInc
<1> QED BY <1>2, <1>3 DEF Fits, ChainOf, Transition

\* Each way of writing a numbered or Local event is an EmitsMove.
LEMMA GoStartMoves ==
    ASSUME TracerTypeOK, TracerInv, NEW p \in Proc, NEW g \in Goroutine, NEW t \in Nat,
           GoStart(p, g, t)
    PROVE  TracerTypeOK' /\ TracerInv' /\ EmitsMove
<1> DEFINE typ == IF lastp[g] = p THEN "GoStartLocal" ELSE "GoStart"
           e == Moving(typ, p, t, g, g, 1, "gRunning")
<1>1. typ \in EventTypes /\ g \in Chain /\ g # Garbage /\ g # NoG /\ rg[g] \in GState
  BY Sentinels DEF EventTypes, LocalTypes, StartTypes, Chain, TracerTypeOK
<1>2. e \in Event
  BY <1>1, MovingTyped DEF gStatus
<1>3. Emit(e) /\ rg' = [rg EXCEPT ![g] = e.post] /\ rg[g].status = "gRunnable"
      /\ lastp' = [lastp EXCEPT ![g] = p] /\ cur' = [cur EXCEPT ![p] = g] /\ cur[p] = NoG
      /\ ~starting /\ UNCHANGED <<mode, blockTs, open, on, starting>>
  BY DEF GoStart, Traced
<1>4. e.post = [seq |-> rg[g].seq + 1, status |-> "gRunning"] /\ e.post \in GState
  BY <1>2 DEF Moving, Event
<1>5. TracerTypeOK'
  BY <1>1, <1>2, <1>3, <1>4, EmitTyped DEF TracerTypeOK
<1>6. TracerInv'
  BY <1>1, <1>3, <1>4 DEF TracerInv, TracerTypeOK, Chain
<1>7. e.typ = typ /\ e.g = g /\ e.p = p /\ e.n = n + 1 /\ e.pre = rg[g]
      /\ (lastp[g] # p => e.seq = rg[g].seq)
  BY DEF Moving, Numbered, StartTypes
<1>8. EmitsMove
  <2>. HIDE DEF e
  <2>1. rg[g].seq \in Nat /\ rg[g].seq # NoSeq /\ e.pre.status = "gRunnable"
    BY <1>1, <1>3, <1>7 DEF GState, NoSeq
  <2>2. /\ M(e.pre) < M(e.post) /\ Fits(stateTransition(e), e) /\ ChainOf(e) = g
        /\ Unnumbered(e) => lastp[g] = p
    <3>1. CASE lastp[g] = p
      <4>1. stateTransition(e) = Transition(g, NoSeq, e.pre.status, SeqInc, "gRunning")
        BY <1>7, <2>1, <3>1 DEF stateTransition, SnapTypes, StartTypes, ParkTypes, YieldTypes
      <4> QED BY <1>1, <1>2, <1>4, <1>7, <3>1, <4>1, LocalFits DEF gStatus
    <3>2. CASE lastp[g] # p
      <4>1. stateTransition(e) = Transition(g, e.pre.seq, e.pre.status, e.pre.seq + 1, "gRunning")
        BY <1>7, <2>1, <3>2 DEF stateTransition, SnapTypes, StartTypes, ParkTypes, YieldTypes
      <4> QED BY <1>1, <1>2, <1>4, <1>7, <2>1, <3>2, <4>1, NumberFits DEF gStatus
    <3> QED BY <3>1, <3>2
  <2> QED BY <1>1, <1>2, <1>3, <1>7, <2>2 DEF EmitsMove
<1> QED BY <1>5, <1>6, <1>8

LEMMA GoUnblockMoves ==
    ASSUME TracerTypeOK, TracerInv, NEW p \in Proc, NEW g \in Goroutine, NEW t \in Nat,
           GoUnblock(p, g, t)
    PROVE  TracerTypeOK' /\ TracerInv' /\ EmitsMove
<1> DEFINE typ == IF lastp[g] = p THEN "GoUnblockLocal" ELSE "GoUnblock"
           e == Moving(typ, p, t, cur[p], g, 1, "gRunnable")
<1>1. typ \in EventTypes /\ g \in Chain /\ g # Garbage /\ g # NoG /\ rg[g] \in GState
      /\ cur[p] \in Goroutine \cup {NoG}
  BY Sentinels DEF EventTypes, LocalTypes, Chain, TracerTypeOK
<1>2. e \in Event
  BY <1>1, MovingTyped DEF gStatus
<1>3. Emit(e) /\ rg' = [rg EXCEPT ![g] = e.post] /\ rg[g].status = "gWaiting"
      /\ lastp' = [lastp EXCEPT ![g] = p] /\ mode' \in [Goroutine -> Modes]
      /\ ~starting /\ UNCHANGED <<cur, blockTs, open, on, starting>>
  BY DEF GoUnblock, Traced, TracerTypeOK, Modes
<1>4. e.post = [seq |-> rg[g].seq + 1, status |-> "gRunnable"] /\ e.post \in GState
  BY <1>2 DEF Moving, Event
<1>5. TracerTypeOK'
  BY <1>1, <1>2, <1>3, <1>4, EmitTyped DEF TracerTypeOK
<1>6. TracerInv'
  BY <1>1, <1>3, <1>4 DEF TracerInv, TracerTypeOK, Chain, GState
<1>7. e.typ = typ /\ e.arg = g /\ e.p = p /\ e.n = n + 1 /\ e.pre = rg[g]
      /\ (lastp[g] # p => e.seq = rg[g].seq)
  BY <1>1 DEF Moving, Numbered, StartTypes
<1>8. EmitsMove
  <2>. HIDE DEF e
  <2>1. rg[g].seq \in Nat /\ rg[g].seq # NoSeq /\ e.pre.status = "gWaiting"
    BY <1>1, <1>3, <1>7 DEF GState, NoSeq
  <2>2. /\ M(e.pre) < M(e.post) /\ Fits(stateTransition(e), e) /\ ChainOf(e) = g
        /\ Unnumbered(e) => lastp[g] = p
    <3>1. CASE lastp[g] = p
      <4>1. stateTransition(e) = Transition(g, NoSeq, e.pre.status, SeqInc, "gRunnable")
        BY <1>7, <2>1, <3>1 DEF stateTransition, SnapTypes, StartTypes, ParkTypes, YieldTypes
      <4> QED BY <1>1, <1>2, <1>4, <1>7, <3>1, <4>1, LocalFits DEF gStatus
    <3>2. CASE lastp[g] # p
      <4>1. stateTransition(e) = Transition(g, e.pre.seq, e.pre.status, e.pre.seq + 1, "gRunnable")
        BY <1>7, <2>1, <3>2 DEF stateTransition, SnapTypes, StartTypes, ParkTypes, YieldTypes
      <4> QED BY <1>1, <1>2, <1>4, <1>7, <2>1, <3>2, <4>1, NumberFits DEF gStatus
    <3> QED BY <3>1, <3>2
  <2> QED BY <1>1, <1>2, <1>3, <1>7, <2>2 DEF EmitsMove
<1> QED BY <1>5, <1>6, <1>8

LEMMA GoSysExitMoves ==
    ASSUME TracerTypeOK, TracerInv, NEW p \in Proc, NEW g \in Goroutine, NEW t \in Nat,
           NEW r \in Nat, GoSysExit(p, g, r, t)
    PROVE  TracerTypeOK' /\ TracerInv' /\ EmitsMove
<1> DEFINE local == LocalExits /\ lastp[g] = p
           typ == IF local THEN "GoSysExitLocal" ELSE "GoSysExit"
           m == Moving(typ, p, t, IF local THEN NoG ELSE g, g, 1, "gRunnable")
           e == [m EXCEPT !.real = IF local THEN 0 ELSE r]
<1>1. typ \in EventTypes /\ g \in Chain /\ g # Garbage /\ g # NoG /\ rg[g] \in GState
      /\ (IF local THEN NoG ELSE g) \in Goroutine \cup {NoG}
  BY Sentinels DEF EventTypes, LocalTypes, Chain, TracerTypeOK
<1>2. m \in Event
  BY <1>1, MovingTyped DEF gStatus
<1>3. Emit(e) /\ rg' = [rg EXCEPT ![g] = e.post] /\ rg[g].status = "gWaiting"
      /\ lastp' = [lastp EXCEPT ![g] = p] /\ mode' = [mode EXCEPT ![g] = "user"]
      /\ ~starting /\ UNCHANGED <<cur, blockTs, open, on, starting>>
  BY DEF GoSysExit, Traced
<1>4. m.post = [seq |-> rg[g].seq + 1, status |-> "gRunnable"] /\ m.post \in GState
  BY <1>2 DEF Moving, Event
<1>7. m.typ = typ /\ m.arg = g /\ m.p = p /\ m.n = n + 1 /\ m.pre = rg[g]
      /\ (~local => m.seq = rg[g].seq)
  BY <1>1 DEF Moving, Numbered, StartTypes
<1> HIDE DEF m
<1>9. /\ e \in Event /\ e.post = m.post /\ e.typ = m.typ /\ e.arg = m.arg /\ e.p = m.p
      /\ e.n = m.n /\ e.pre = m.pre /\ e.seq = m.seq
  BY <1>2 DEF Event
<1>5. TracerTypeOK'
  <2>. HIDE DEF e
  <2> QED BY <1>1, <1>9, <1>3, <1>4, EmitTyped DEF TracerTypeOK, Modes
<1>6. TracerInv'
  <2>. HIDE DEF e
  <2> QED BY <1>1, <1>3, <1>4, <1>9 DEF TracerInv, TracerTypeOK, Chain, GState
<1>8. EmitsMove
  <2>. HIDE DEF e
  <2>1. rg[g].seq \in Nat /\ rg[g].seq # NoSeq /\ e.pre.status = "gWaiting"
    BY <1>1, <1>3, <1>7, <1>9 DEF GState, NoSeq
  <2>2. /\ M(e.pre) < M(e.post) /\ Fits(stateTransition(e), e) /\ ChainOf(e) = g
        /\ Unnumbered(e) => lastp[g] = p
    <3>1. CASE local
      <4>1. stateTransition(e) = Transition(g, NoSeq, e.pre.status, SeqInc, "gRunnable")
        BY <1>7, <1>9, <2>1, <3>1 DEF stateTransition, SnapTypes, StartTypes, ParkTypes, YieldTypes
      <4> QED BY <1>1, <1>9, <1>4, <1>7, <3>1, <4>1, LocalFits DEF gStatus
    <3>2. CASE ~local
      <4>1. stateTransition(e) = Transition(g, e.pre.seq, e.pre.status, e.pre.seq + 1, "gRunnable")
        BY <1>7, <1>9, <2>1, <3>2 DEF stateTransition, SnapTypes, StartTypes, ParkTypes, YieldTypes
      <4> QED BY <1>1, <1>9, <1>4, <1>7, <2>1, <3>2, <4>1, NumberFits DEF gStatus
    <3> QED BY <3>1, <3>2
  <2> QED BY <1>1, <1>9, <1>3, <1>7, <2>2 DEF EmitsMove
<1> QED BY <1>5, <1>6, <1>8

LEMMA GoParkMoves ==
    ASSUME TracerTypeOK, TracerInv, NEW p \in Proc, NEW t \in Nat, NEW typ \in ParkTypes,
           GoPark(p, typ, t)
    PROVE  TracerTypeOK' /\ TracerInv' /\ EmitsMove
<1> DEFINE g == cur[p]
           e == Moving(typ, p, t, g, g, 0, "gWaiting")
<1>1. typ \in EventTypes /\ g \in Goroutine /\ g \in Chain /\ g # Garbage /\ rg[g] \in GState
  BY Sentinels DEF GoPark, Traced, Acts, EventTypes, LeaveTypes, Chain, TracerTypeOK
<1>2. e \in Event
  BY <1>1, MovingTyped DEF gStatus
<1>3. Emit(e) /\ rg' = [rg EXCEPT ![g] = e.post] /\ rg[g].status = "gRunning"
      /\ lastp' = lastp /\ lastp[g] = p /\ cur' = [cur EXCEPT ![p] = NoG]
      /\ mode' \in [Goroutine -> Modes] /\ blockTs' \in [Goroutine -> Nat]
      /\ ~starting /\ UNCHANGED <<open, on, starting>>
  BY <1>1 DEF GoPark, Traced, Busy, Acts, TracerTypeOK, TracerInv, Modes
<1>4. e.post = [seq |-> rg[g].seq, status |-> "gWaiting"] /\ e.post \in GState
  <2>1. rg[g].seq + 0 = rg[g].seq
    BY <1>1 DEF GState
  <2> QED BY <1>2, <2>1 DEF Moving, Event
<1>5. TracerTypeOK'
  BY <1>1, <1>2, <1>3, <1>4, EmitTyped DEF TracerTypeOK
<1>6. TracerInv'
  BY <1>1, <1>3, <1>4 DEF TracerInv, TracerTypeOK, Chain
<1>7. e.typ = typ /\ e.g = g /\ e.p = p /\ e.n = n + 1 /\ e.pre = rg[g]
  BY <1>1 DEF Moving
<1>8. EmitsMove
  <2>. HIDE DEF e
  <2>1. stateTransition(e) = Transition(g, NoSeq, "gRunning", NoSeq, "gWaiting")
    BY <1>3, <1>7 DEF GoPark, stateTransition, SnapTypes, StartTypes, ParkTypes, YieldTypes
  <2>2. M(e.pre) < M(e.post) /\ Fits(stateTransition(e), e) /\ ChainOf(e) = g
    BY <1>1, <1>2, <1>3, <1>4, <1>7, <2>1, KeepFits DEF gStatus
  <2>3. lastp' = [lastp EXCEPT ![g] = e.p]
    BY <1>3, <1>7 DEF TracerTypeOK
  <2> QED BY <1>1, <1>2, <1>3, <1>7, <2>2, <2>3 DEF EmitsMove
<1> QED BY <1>5, <1>6, <1>8

LEMMA GoYieldMoves ==
    ASSUME TracerTypeOK, TracerInv, NEW p \in Proc, NEW t \in Nat, NEW typ \in YieldTypes,
           GoYield(p, typ, t)
    PROVE  TracerTypeOK' /\ TracerInv' /\ EmitsMove
<1> DEFINE g == cur[p]
           e == Moving(typ, p, t, g, g, 0, "gRunnable")
<1>1. typ \in EventTypes /\ g \in Goroutine /\ g \in Chain /\ g # Garbage /\ rg[g] \in GState
  BY Sentinels DEF GoYield, Traced, Acts, EventTypes, LeaveTypes, Chain, TracerTypeOK
<1>2. e \in Event
  BY <1>1, MovingTyped DEF gStatus
<1>3. Emit(e) /\ rg' = [rg EXCEPT ![g] = e.post] /\ rg[g].status = "gRunning"
      /\ lastp' = lastp /\ lastp[g] = p /\ cur' = [cur EXCEPT ![p] = NoG]
      /\ mode' \in [Goroutine -> Modes] /\ blockTs' \in [Goroutine -> Nat]
      /\ ~starting /\ UNCHANGED <<open, on, starting>>
  BY <1>1 DEF GoYield, Traced, Busy, Acts, TracerTypeOK, TracerInv, Modes
<1>4. e.post = [seq |-> rg[g].seq, status |-> "gRunnable"] /\ e.post \in GState
  <2>1. rg[g].seq + 0 = rg[g].seq
    BY <1>1 DEF GState
  <2> QED BY <1>2, <2>1 DEF Moving, Event
<1>5. TracerTypeOK'
  BY <1>1, <1>2, <1>3, <1>4, EmitTyped DEF TracerTypeOK
<1>6. TracerInv'
  BY <1>1, <1>3, <1>4 DEF TracerInv, TracerTypeOK, Chain
<1>7. e.typ = typ /\ e.g = g /\ e.p = p /\ e.n = n + 1 /\ e.pre = rg[g]
  BY <1>1 DEF Moving
<1>8. EmitsMove
  <2>. HIDE DEF e
  <2>1. stateTransition(e) = Transition(g, NoSeq, "gRunning", NoSeq, "gRunnable")
    BY <1>3, <1>7 DEF GoYield, stateTransition, SnapTypes, StartTypes, ParkTypes, YieldTypes
  <2>2. M(e.pre) < M(e.post) /\ Fits(stateTransition(e), e) /\ ChainOf(e) = g
    BY <1>1, <1>2, <1>3, <1>4, <1>7, <2>1, KeepFits DEF gStatus
  <2>3. lastp' = [lastp EXCEPT ![g] = e.p]
    BY <1>3, <1>7 DEF TracerTypeOK
  <2> QED BY <1>1, <1>2, <1>3, <1>7, <2>2, <2>3 DEF EmitsMove
<1> QED BY <1>5, <1>6, <1>8

LEMMA GoSysBlockMoves ==
    ASSUME TracerTypeOK, TracerInv, NEW p \in Proc, NEW t \in Nat,
           GoSysBlock(p, t)
    PROVE  TracerTypeOK' /\ TracerInv' /\ EmitsMove
<1> DEFINE g == cur[p]
           e == Moving("GoSysBlock", p, t, g, g, 0, "gWaiting")
<1>1. "GoSysBlock" \in EventTypes /\ g \in Goroutine /\ g \in Chain /\ g # Garbage /\ rg[g] \in GState
  BY Sentinels DEF GoSysBlock, Traced, Acts, EventTypes, LeaveTypes, Chain, TracerTypeOK
<1>2. e \in Event
  BY <1>1, MovingTyped DEF gStatus
<1>3. Emit(e) /\ rg' = [rg EXCEPT ![g] = e.post] /\ rg[g].status = "gRunning"
      /\ lastp' = lastp /\ lastp[g] = p /\ cur' = [cur EXCEPT ![p] = NoG]
      /\ mode' \in [Goroutine -> Modes] /\ blockTs' \in [Goroutine -> Nat]
      /\ ~starting /\ UNCHANGED <<open, on, starting>>
  BY <1>1 DEF GoSysBlock, Traced, Busy, Acts, TracerTypeOK, TracerInv, Modes
<1>4. e.post = [seq |-> rg[g].seq, status |-> "gWaiting"] /\ e.post \in GState
  <2>1. rg[g].seq + 0 = rg[g].seq
    BY <1>1 DEF GState
  <2> QED BY <1>2, <2>1 DEF Moving, Event
<1>5. TracerTypeOK'
  BY <1>1, <1>2, <1>3, <1>4, EmitTyped DEF TracerTypeOK
<1>6. TracerInv'
  BY <1>1, <1>3, <1>4 DEF TracerInv, TracerTypeOK, Chain
<1>7. e.typ = "GoSysBlock" /\ e.g = g /\ e.p = p /\ e.n = n + 1 /\ e.pre = rg[g]
  BY <1>1 DEF Moving
<1>8. EmitsMove
  <2>. HIDE DEF e
  <2>1. stateTransition(e) = Transition(g, NoSeq, "gRunning", NoSeq, "gWaiting")
    BY <1>3, <1>7 DEF GoSysBlock, stateTransition, SnapTypes, StartTypes, ParkTypes, YieldTypes
  <2>2. M(e.pre) < M(e.post) /\ Fits(stateTransition(e), e) /\ ChainOf(e) = g
    BY <1>1, <1>2, <1>3, <1>4, <1>7, <2>1, KeepFits DEF gStatus
  <2>3. lastp' = [lastp EXCEPT ![g] = e.p]
    BY <1>3, <1>7 DEF TracerTypeOK
  <2> QED BY <1>1, <1>2, <1>3, <1>7, <2>2, <2>3 DEF EmitsMove
<1> QED BY <1>5, <1>6, <1>8

LEMMA GoCreateMoves ==
    ASSUME TracerTypeOK, TracerInv, NEW p \in Proc, NEW g \in Goroutine, NEW t \in Nat,
           GoCreate(p, g, t)
    PROVE  TracerTypeOK' /\ TracerInv' /\ EmitsMove
<1> DEFINE e == Moving("GoCreate", p, t, cur[p], g, 1, "gRunnable")
<1>1. /\ "GoCreate" \in EventTypes /\ g \in Chain /\ g # Garbage /\ rg[g] \in GState
      /\ p \in Proc /\ cur[p] \in Goroutine \cup {NoG}
  BY Sentinels, TracerAssumption DEF EventTypes, Chain, TracerTypeOK
<1>2. e \in Event
  BY <1>1, MovingTyped DEF gStatus
<1>3. Emit(e) /\ rg' = [rg EXCEPT ![g] = e.post] /\ rg[g].status = "gDead"
      /\ lastp' = [lastp EXCEPT ![g] = p] /\ mode' \in [Goroutine -> Modes]
      /\ ~starting /\ UNCHANGED <<cur, blockTs, open, on, starting>>
  BY DEF GoCreate, Traced, Busy, TracerTypeOK, Modes
<1>4. /\ e.post = [seq |-> rg[g].seq + 1, status |-> "gRunnable"] /\ e.post \in GState
      /\ rg[g].seq = 0
  BY <1>2, <1>3 DEF Moving, Event, TracerInv
<1>5. TracerTypeOK'
  BY <1>1, <1>2, <1>3, <1>4, EmitTyped DEF TracerTypeOK
<1>6. TracerInv'
  BY <1>1, <1>3, <1>4 DEF TracerInv, TracerTypeOK, Chain
<1>7. e.typ = "GoCreate" /\ e.arg = g /\ e.p = p /\ e.n = n + 1 /\ e.pre = rg[g]
  BY <1>1 DEF Moving
<1>8. EmitsMove
  <2>. HIDE DEF e
  <2>1. stateTransition(e) = Transition(g, e.pre.seq, e.pre.status, e.pre.seq + 1, "gRunnable")
    BY <1>3, <1>4, <1>7 DEF stateTransition, SnapTypes, StartTypes, ParkTypes, YieldTypes
  <2>2. /\ M(e.pre) < M(e.post) /\ Fits(stateTransition(e), e) /\ ChainOf(e) = g
        /\ ~Unnumbered(e)
    BY <1>1, <1>2, <1>4, <1>7, <2>1, NumberFits DEF gStatus
  <2>3. lastp' = [lastp EXCEPT ![g] = e.p]
    BY <1>3, <1>7 DEF TracerTypeOK, TracerInv
  <2> QED BY <1>1, <1>2, <1>3, <1>7, <2>2, <2>3 DEF EmitsMove
<1> QED BY <1>5, <1>6, <1>8

LEMMA SnapCreateMoves ==
    ASSUME TracerTypeOK, TracerInv, NEW g \in Goroutine, NEW t \in Nat,
           SnapCreate(g, t)
    PROVE  TracerTypeOK' /\ TracerInv' /\ EmitsMove
<1> DEFINE e == Moving("GoCreate", Boot, t, NoG, g, 1, "gRunnable")
<1>1. /\ "GoCreate" \in EventTypes /\ g \in Chain /\ g # Garbage /\ rg[g] \in GState
      /\ Boot \in Proc /\ NoG \in Goroutine \cup {NoG}
  BY Sentinels, TracerAssumption DEF EventTypes, Chain, TracerTypeOK
<1>2. e \in Event
  BY <1>1, MovingTyped DEF gStatus
<1>3. Emit(e) /\ rg' = [rg EXCEPT ![g] = e.post] /\ rg[g].status = "gDead"
      /\ lastp' = lastp /\ mode' \in [Goroutine -> Modes]
      /\ starting /\ UNCHANGED <<cur, blockTs, open, on, starting>>
  BY DEF SnapCreate, Traced, Busy, TracerTypeOK, Modes
<1>4. /\ e.post = [seq |-> rg[g].seq + 1, status |-> "gRunnable"] /\ e.post \in GState
      /\ rg[g].seq = 0
  BY <1>2, <1>3 DEF Moving, Event, TracerInv
<1>5. TracerTypeOK'
  BY <1>1, <1>2, <1>3, <1>4, EmitTyped DEF TracerTypeOK
<1>6. TracerInv'
  BY <1>1, <1>3, <1>4 DEF TracerInv, TracerTypeOK, Chain
<1>7. e.typ = "GoCreate" /\ e.arg = g /\ e.p = Boot /\ e.n = n + 1 /\ e.pre = rg[g]
  BY <1>1 DEF Moving
<1>8. EmitsMove
  <2>. HIDE DEF e
  <2>1. stateTransition(e) = Transition(g, e.pre.seq, e.pre.status, e.pre.seq + 1, "gRunnable")
    BY <1>3, <1>4, <1>7 DEF stateTransition, SnapTypes, StartTypes, ParkTypes, YieldTypes
  <2>2. /\ M(e.pre) < M(e.post) /\ Fits(stateTransition(e), e) /\ ChainOf(e) = g
        /\ ~Unnumbered(e)
    BY <1>1, <1>2, <1>4, <1>7, <2>1, NumberFits DEF gStatus
  <2>3. lastp' = [lastp EXCEPT ![g] = e.p]
    BY <1>3, <1>7 DEF TracerTypeOK, TracerInv
  <2> QED BY <1>1, <1>2, <1>3, <1>7, <2>2, <2>3 DEF EmitsMove
<1> QED BY <1>5, <1>6, <1>8

LEMMA SnapBlockedMoves ==
    ASSUME TracerTypeOK, TracerInv, NEW g \in Goroutine, NEW t \in Nat, NEW typ \in SnapTypes,
           SnapBlocked(g, typ, t)
    PROVE  TracerTypeOK' /\ TracerInv' /\ EmitsMove
<1> DEFINE e == Moving(typ, Boot, t, g, g, 1, "gWaiting")
<1>1. /\ typ \in EventTypes /\ g \in Chain /\ g # Garbage /\ rg[g] \in GState
      /\ Boot \in Proc /\ typ \in {"GoWaiting", "GoInSyscall"}
  BY Sentinels, TracerAssumption DEF EventTypes, SnapTypes, Chain, TracerTypeOK
<1>2. e \in Event
  BY <1>1, MovingTyped DEF gStatus
<1>3. Emit(e) /\ rg' = [rg EXCEPT ![g] = e.post] /\ rg[g] = gState(1, "gRunnable")
      /\ lastp' = lastp /\ mode' \in [Goroutine -> Modes] /\ blockTs' \in [Goroutine -> Nat]
      /\ starting /\ UNCHANGED <<cur, open, on, starting>>
  BY DEF SnapBlocked, TracerTypeOK, Modes
<1>4. e.post = [seq |-> rg[g].seq + 1, status |-> "gWaiting"] /\ e.post \in GState
  BY <1>2 DEF Moving, Event
<1>5. TracerTypeOK'
  BY <1>1, <1>2, <1>3, <1>4, EmitTyped DEF TracerTypeOK
<1>6. TracerInv'
  BY <1>1, <1>3, <1>4 DEF TracerInv, TracerTypeOK, Chain
<1>7. e.typ = typ /\ e.g = g /\ e.p = Boot /\ e.n = n + 1 /\ e.pre = rg[g]
  BY <1>1 DEF Moving
<1>8. EmitsMove
  <2>. HIDE DEF e
  <2>1. stateTransition(e) = Transition(g, e.pre.seq, e.pre.status, e.pre.seq + 1, "gWaiting")
    BY <1>1, <1>3, <1>7 DEF stateTransition, SnapTypes, StartTypes, ParkTypes, YieldTypes
  <2>2. /\ M(e.pre) < M(e.post) /\ Fits(stateTransition(e), e) /\ ChainOf(e) = g
        /\ ~Unnumbered(e)
    BY <1>1, <1>2, <1>4, <1>7, <2>1, NumberFits DEF gStatus
  <2>3. lastp' = [lastp EXCEPT ![g] = e.p]
    BY <1>3, <1>7 DEF TracerTypeOK, TracerInv
  <2> QED BY <1>1, <1>2, <1>3, <1>7, <2>2, <2>3 DEF EmitsMove
<1> QED BY <1>5, <1>6, <1>8

LEMMA GCStartMoves ==
    ASSUME TracerTypeOK, TracerInv, NEW p \in Proc, NEW t \in Nat, GCStart(p, t)
    PROVE  TracerTypeOK' /\ TracerInv' /\ EmitsMove
<1> DEFINE e == Moving("GCStart", p, t, NoG, Garbage, 1, "gDead")
<1>1. "GCStart" \in EventTypes /\ Garbage \in Chain /\ rg[Garbage] \in GState
      /\ Garbage \notin Goroutine
  BY Sentinels DEF EventTypes, Chain, TracerTypeOK
<1>2. e \in Event
  BY <1>1, MovingTyped DEF gStatus
<1>3. Emit(e) /\ rg' = [rg EXCEPT ![Garbage] = e.post] /\ ~starting
      /\ UNCHANGED <<lastp, cur, mode, blockTs, on, starting>>
  BY DEF GCStart, Traced
<1>4. e.post = [seq |-> rg[Garbage].seq + 1, status |-> "gDead"] /\ e.post \in GState
  BY <1>2 DEF Moving, Event
<1>5. TracerTypeOK'
  BY <1>1, <1>2, <1>3, <1>4, EmitTyped DEF TracerTypeOK
<1>6. TracerInv'
  BY <1>1, <1>3, <1>4 DEF TracerInv, TracerTypeOK, Chain
<1>7. /\ e.typ = "GCStart" /\ e.p = p /\ e.n = n + 1 /\ e.pre = rg[Garbage]
      /\ e.seq = rg[Garbage].seq
  BY <1>1 DEF Moving, Numbered
<1>8. EmitsMove
  <2>. HIDE DEF e
  <2>1. e.pre.status = "gDead"
    BY <1>7 DEF TracerInv
  <2>2. stateTransition(e) = Transition(Garbage, e.pre.seq, e.pre.status, e.pre.seq + 1, "gDead")
    BY <1>7, <2>1 DEF stateTransition, SnapTypes, StartTypes, ParkTypes, YieldTypes
  <2>3. /\ M(e.pre) < M(e.post) /\ Fits(stateTransition(e), e) /\ ChainOf(e) = Garbage
        /\ ~Unnumbered(e)
    BY <1>1, <1>2, <1>4, <1>7, <2>2, NumberFits DEF gStatus
  <2> QED BY <1>1, <1>2, <1>3, <1>7, <2>3 DEF EmitsMove
<1> QED BY <1>5, <1>6, <1>8

\* Events outside every chain.
LEMMA PlainStep ==
    ASSUME TracerTypeOK, TracerInv, NEW p \in Proc, NEW t \in Nat,
           NEW typ \in PlainTypes \cup EndTypes, NEW g \in Goroutine \cup {NoG},
           Emit(Plain(typ, p, t, g)), UNCHANGED <<rg, lastp, blockTs>>,
           mode' \in [Goroutine -> Modes], on' \subseteq Proc, starting' \in BOOLEAN,
           starting' => starting,
           cur' = cur \/ cur' = [cur EXCEPT ![p] = NoG]
    PROVE  TracerTypeOK' /\ TracerInv' /\ EmitsPlain
<1> DEFINE e == Plain(typ, p, t, g)
<1>1. typ \in EventTypes
  BY DEF EventTypes, LeaveTypes
<1>2. e \in Event
  BY <1>1, PlainTyped
<1>3. TracerTypeOK'
  BY <1>2, EmitTyped DEF TracerTypeOK
<1>4. TracerInv'
  BY DEF TracerInv, TracerTypeOK
<1>5. e.typ = typ /\ e.n = n + 1
  BY DEF Plain
<1>6. ChainOf(e) = Unordered
  <2>. HIDE DEF e
  <2> QED BY <1>5 DEF ChainOf, Transition, stateTransition, SnapTypes, StartTypes, ParkTypes, YieldTypes, PlainTypes, EndTypes
<1> QED BY <1>2, <1>3, <1>4, <1>5, <1>6 DEF EmitsPlain

\* One step of the runtime, whatever it is.
EmitsNothing == UNCHANGED <<batch, n, rg, lastp>>

LEMMA TracerStep ==
    ASSUME TracerTypeOK, TracerInv, TracerNext
    PROVE  TracerTypeOK' /\ TracerInv' /\ (EmitsPlain \/ EmitsMove \/ EmitsNothing)
<1>n. n \in Nat /\ n + 1 \in Nat
  BY DEF TracerTypeOK
<1>0. Boot \in Proc /\ \A p \in Proc : \A t \in Now(p) : t \in Nat
  BY <1>n, TracerAssumption DEF Now
<1>1. ASSUME NEW t \in Now(Boot), Snapshot(t)
      PROVE  TracerTypeOK' /\ TracerInv' /\ (EmitsPlain \/ EmitsMove \/ EmitsNothing)
  <2>0. t \in Nat
    BY <1>0
  <2>1. CASE \E g \in Goroutine : SnapCreate(g, t)
    BY <2>0, <2>1, SnapCreateMoves
  <2>2. CASE \E g \in Goroutine, typ \in SnapTypes : SnapBlocked(g, typ, t)
    BY <2>0, <2>2, SnapBlockedMoves
  <2>3. CASE StartWorld(t)
    <3>1. CASE "ProcStart" \in Emits
      <4>1. /\ Emit(Plain("ProcStart", Boot, t, NoG)) /\ UNCHANGED <<rg, lastp, blockTs, cur, mode>>
            /\ on' = {Boot} /\ starting' = FALSE
        BY <2>3, <3>1 DEF StartWorld
      <4>2. "ProcStart" \in PlainTypes \cup EndTypes /\ mode' \in [Goroutine -> Modes]
        BY <4>1 DEF PlainTypes, TracerTypeOK
      <4> QED BY <1>0, <2>0, <4>1, <4>2, PlainStep
    <3>2. CASE "ProcStart" \notin Emits
      BY <2>3, <3>2 DEF StartWorld, TracerTypeOK, TracerInv, EmitsNothing
    <3> QED BY <3>1, <3>2
  <2> QED BY <1>1, <2>1, <2>2, <2>3 DEF Snapshot
<1>2. ASSUME NEW p \in Proc, NEW t \in Now(p), Write(p, t)
      PROVE  TracerTypeOK' /\ TracerInv' /\ (EmitsPlain \/ EmitsMove \/ EmitsNothing)
  <2>0. t \in Nat /\ NoG \in Goroutine \cup {NoG} /\ cur[p] \in Goroutine \cup {NoG}
    BY <1>0 DEF TracerTypeOK
  <2>00. mode \in [Goroutine -> Modes] /\ on \subseteq Proc /\ starting \in BOOLEAN
    BY DEF TracerTypeOK
  <2>1. CASE ProcStart(p, t)
    <3>1. Emit(Plain("ProcStart", p, t, NoG)) /\ on' = on \cup {p}
          /\ UNCHANGED <<rg, lastp, cur, mode, blockTs, starting>>
      BY <2>1 DEF ProcStart
    <3> QED BY <2>0, <2>00, <3>1, PlainStep DEF PlainTypes
  <2>2. CASE ProcStop(p, t)
    <3>1. Emit(Plain("ProcStop", p, t, NoG)) /\ on' = on \ {p}
          /\ UNCHANGED <<rg, lastp, cur, mode, blockTs, starting>>
      BY <2>2 DEF ProcStop
    <3> QED BY <2>0, <2>00, <3>1, PlainStep DEF PlainTypes
  <2>3. CASE \E g \in Goroutine : GoCreate(p, g, t)
    BY <2>0, <2>3, GoCreateMoves
  <2>4. CASE \E g \in Goroutine : GoStart(p, g, t)
    BY <2>0, <2>4, GoStartMoves
  <2>5. CASE \E g \in Goroutine : GoUnblock(p, g, t)
    BY <2>0, <2>5, GoUnblockMoves
  <2>6. CASE \E g \in Goroutine, r \in Past : GoSysExit(p, g, r, t)
    <3>1. \A r \in Past : r \in Nat
      BY <1>n, TracerAssumption DEF Past
    <3> QED BY <2>0, <2>6, <3>1, GoSysExitMoves
  <2>7. CASE \E typ \in ParkTypes : GoPark(p, typ, t)
    BY <2>0, <2>7, GoParkMoves
  <2>8. CASE \E typ \in YieldTypes : GoYield(p, typ, t)
    BY <2>0, <2>8, GoYieldMoves
  <2>9. CASE \E typ \in EndTypes : GoEnd(p, typ, t)
    <3>1. PICK typ \in EndTypes : GoEnd(p, typ, t)
      BY <2>9
    <3>2. Emit(Plain(typ, p, t, cur[p])) /\ cur' = [cur EXCEPT ![p] = NoG]
          /\ UNCHANGED <<rg, lastp, blockTs, on, starting>> /\ Busy(p)
      BY <3>1 DEF GoEnd
    <3>3. mode' \in [Goroutine -> Modes]
      BY <2>00, <3>2 DEF Busy, Modes
    <3> QED BY <2>0, <2>00, <3>2, <3>3, PlainStep
  <2>10. CASE FutileWakeup(p, t)
    <3>1. Emit(Plain("FutileWakeup", p, t, cur[p])) /\ mode' = [mode EXCEPT ![cur[p]] = "futile"]
          /\ UNCHANGED <<rg, lastp, cur, blockTs, on, starting>>
      BY <2>10 DEF FutileWakeup
    <3>2. mode' \in [Goroutine -> Modes]
      BY <2>00, <3>1 DEF Modes
    <3> QED BY <2>0, <2>00, <3>1, <3>2, PlainStep DEF PlainTypes
  <2>11. CASE GoSysCall(p, t)
    <3>1. Emit(Plain("GoSysCall", p, t, cur[p])) /\ mode' = [mode EXCEPT ![cur[p]] = "syscall"]
          /\ UNCHANGED <<rg, lastp, cur, blockTs, on, starting>>
      BY <2>11 DEF GoSysCall
    <3>2. mode' \in [Goroutine -> Modes]
      BY <2>00, <3>1 DEF Modes
    <3> QED BY <2>0, <2>00, <3>1, <3>2, PlainStep DEF PlainTypes
  <2>12. CASE GoSysBlock(p, t)
    BY <2>0, <2>12, GoSysBlockMoves
  <2>13. CASE GCStart(p, t)
    BY <2>0, <2>13, GCStartMoves
  <2>14. CASE \E typ \in SpanOpens : OpenSpan(p, typ, t)
    <3>1. PICK typ \in SpanOpens : OpenSpan(p, typ, t)
      BY <2>14
    <3>2. Emit(SpanEvent(p, typ, t)) /\ UNCHANGED <<rg, lastp, cur, blockTs, on, starting>>
          /\ (Busy(p) \/ UNCHANGED mode)
      BY <3>1 DEF OpenSpan
    <3>3. mode' \in [Goroutine -> Modes]
      BY <2>00, <3>2 DEF Busy, Modes
    <3> QED BY <2>0, <2>00, <3>2, <3>3, PlainStep DEF SpanEvent, SpanOpens, PlainTypes
  <2>15. CASE \E typ \in SpanCloses : CloseSpan(p, typ, t)
    <3>1. PICK typ \in SpanCloses : CloseSpan(p, typ, t)
      BY <2>15
    <3>2. Emit(SpanEvent(p, typ, t)) /\ UNCHANGED <<rg, lastp, cur, blockTs, on, starting>>
          /\ (Busy(p) \/ UNCHANGED mode)
      BY <3>1 DEF CloseSpan
    <3>3. mode' \in [Goroutine -> Modes]
      BY <2>00, <3>2 DEF Busy, Modes
    <3> QED BY <2>0, <2>00, <3>2, <3>3, PlainStep DEF SpanEvent, SpanCloses, PlainTypes
  <2> QED BY <1>2, <2>1, <2>2, <2>3, <2>4, <2>5, <2>6, <2>7, <2>8, <2>9, <2>10, <2>11,
             <2>12, <2>13, <2>14, <2>15 DEF Write
<1> QED BY <1>1, <1>2 DEF TracerNext
-----------------------------------------------------------------------------
(***************************************************************************)
(* The inductive invariant of the merge                                    *)
(***************************************************************************)
\* The batches hold events in the order of emission; a pending event that
\* comes before an unnumbered one on its chain is followed, up to it, by one
\* of the same batch.
BatchInv ==
    \A p \in Proc : \A i \in 1..Len(batch[p]) :
        /\ batch[p][i].p = p /\ batch[p][i].n <= n
        /\ ChainOf(batch[p][i]) \in Chain \cup {Unordered}
        /\ Fits(stateTransition(batch[p][i]), batch[p][i])
        /\ \A j \in 1..Len(batch[p]) : i < j => batch[p][i].n < batch[p][j].n

Covered(p, e, S) ==
    Unnumbered(e) =>
        \A d \in On(S, ChainOf(e)) : d.n < e.n =>
            \E x \in On(S, ChainOf(e)) : x.p = p /\ d.n <= x.n /\ x.n < e.n

CoverInv == \A p \in Proc : \A e \in Waiting(p) : Covered(p, e, Pending)

\* What is in the frontier stays ready, and stands for one selected batch.
FrontierInv ==
    /\ \A f \in frontier :
         /\ f.batch = f.ev.p /\ f.batch \in selected /\ f.ev.n <= n
         /\ Fits(f.tr, f.ev) /\ f.tr.g = ChainOf(f.ev)
         /\ f.tr.g # Unordered => gs[f.tr.g] = f.ev.pre
         /\ \A h \in frontier : h.batch = f.batch => h = f
         /\ \A i \in 1..Len(batch[f.batch]) : f.ev.n < batch[f.batch][i].n
    /\ \A p \in selected : \E f \in frontier : f.batch = p

\* While the runtime writes nothing is merged, and the last pending event of
\* a goroutine is in the batch of the P that touched it last.
Newest(S) == \A c \in Goroutine : \A d \in On(S, c) :
                \E x \in On(S, c) : x.p = lastp[c] /\ d.n <= x.n

PhaseInv == pc = "trace" => frontier = {} /\ selected = {} /\ Newest(Pending)

Behind == \A c \in Chain : M(gs[c]) <= M(rg[c])

IInv == /\ OrderTypeOK /\ TracerInv
        /\ Line(Pending, gs, rg) /\ Behind
        /\ BatchInv /\ CoverInv /\ FrontierInv /\ PhaseInv
        /\ NoBrokenMerge
-----------------------------------------------------------------------------
\* Settling a Local form changes nothing the proof knows of an event.
LEMMA DelocalizedCore ==
    ASSUME NEW e \in Event
    PROVE  /\ [e EXCEPT !.typ = Delocalized(@)] \in Event
           /\ Core([e EXCEPT !.typ = Delocalized(@)]) = Core(e)
<1> DEFINE d == [e EXCEPT !.typ = Delocalized(@)]
<1>1. Delocalized(e.typ) \in EventTypes
  <2>1. Delocalized(e.typ) \in {"GoStart", "GoUnblock", "GoSysExit", e.typ}
    BY DEF Delocalized
  <2>2. {"GoStart", "GoUnblock", "GoSysExit", e.typ} \subseteq EventTypes
    BY DEF Event, EventTypes, StartTypes
  <2> QED BY <2>1, <2>2
<1>2. /\ d \in Event /\ d.typ = Delocalized(e.typ) /\ d.g = e.g /\ d.arg = e.arg
      /\ d.n = e.n /\ d.p = e.p /\ d.pre = e.pre /\ d.post = e.post
  BY <1>1 DEF Event
<1>3. ChainOf(d) = ChainOf(e)
  <2>. HIDE DEF d
  <2>1. CASE e.typ \notin LocalTypes
    <3>1. d.typ = e.typ
      BY <1>2, <2>1 DEF Delocalized, LocalTypes
    <3> QED BY <1>2, <3>1 DEF ChainOf, stateTransition, Transition
  <2>2. CASE e.typ \in LocalTypes
    BY <1>2, <2>2 DEF ChainOf, stateTransition, Transition, Delocalized, LocalTypes, SnapTypes,
                      StartTypes, ParkTypes, YieldTypes
  <2> QED BY <2>1, <2>2
<1> QED BY <1>2, <1>3 DEF Core

LEMMA TransitionTyped ==
    ASSUME NEW e \in Event, ChainOf(e) \in Chain \cup {Unordered}
    PROVE  stateTransition(e) \in TransitionSet
<1>1. e.seq \in Nat /\ e.seq + 1 \in Nat
  BY DEF Event
<1> QED BY <1>1 DEF ChainOf, stateTransition, Transition, TransitionSet, SeqArgs, NoSeq, SeqInc,
                    gStatus

LEMMA CoreTyped ==
    ASSUME NEW e \in Event, ChainOf(e) \in Chain \cup {Unordered}
    PROVE  Core(e) \in CoreSet
BY DEF Core, CoreSet, Event

LEMMA PendingMembers ==
    ASSUME NEW x
    PROVE  x \in Pending <=> (\E p \in Proc : x \in Cores(p)) \/ x \in Advanced
<1> DEFINE All == {Cores(p) : p \in Proc}
<1>1. x \in UNION All <=> \E p \in Proc : x \in Cores(p)
  OBVIOUS
<1> QED BY <1>1 DEF Pending

LEMMA PendingTyped ==
    ASSUME OrderTypeOK, BatchInv, FrontierInv
    PROVE  Pending \in SUBSET CoreSet
<1>1. ASSUME NEW p \in Proc, NEW e \in Waiting(p) PROVE Core(e) \in CoreSet
  <2>1. PICK k \in DOMAIN batch[p] : e = batch[p][k]
    BY DEF Waiting
  <2>2. batch[p] \in Seq(Event)
    BY DEF OrderTypeOK, TracerTypeOK
  <2>3. e \in Event
    BY <2>1, <2>2
  <2>4. ChainOf(e) \in Chain \cup {Unordered}
    BY <2>1 DEF BatchInv
  <2> QED BY <2>3, <2>4, CoreTyped
<1>2. ASSUME NEW f \in frontier PROVE Core(f.ev) \in CoreSet
  <2>1. f.ev \in Event /\ ChainOf(f.ev) \in Chain \cup {Unordered}
    BY DEF OrderTypeOK, FrontierInv, TransitionSet
  <2> QED BY <2>1, CoreTyped
<1>3. (\A p \in Proc : Cores(p) \subseteq CoreSet) /\ Advanced \subseteq CoreSet
  BY <1>1, <1>2 DEF Cores, Advanced
<1> QED BY <1>3, PendingMembers

\* Events outside every chain leave the lines alone.
LEMMA LineIgnores ==
    ASSUME NEW S \in SUBSET CoreSet, NEW T \in SUBSET CoreSet, NEW st \in Chains,
           NEW real \in Chains, Line(S, st, real),
           \A c \in Chain : On(T, c) = On(S, c),
           \A d \in T, e \in T : d.n = e.n => d = e
    PROVE  Line(T, st, real)
BY DEF Line

\* Writing e appends it to its batch and to the pending events.
LEMMA EmitPends ==
    ASSUME OrderTypeOK, NEW e \in Event, Emit(e), UNCHANGED frontier
    PROVE  /\ Pending' = Pending \cup {Core(e)}
           /\ Waiting(e.p)' = Waiting(e.p) \cup {e}
           /\ \A p \in Proc \ {e.p} : Waiting(p)' = Waiting(p) /\ batch'[p] = batch[p]
           /\ Len(batch'[e.p]) = Len(batch[e.p]) + 1
           /\ batch'[e.p][Len(batch[e.p]) + 1] = e
           /\ \A i \in 1..Len(batch[e.p]) : batch'[e.p][i] = batch[e.p][i]
<1>1. e.p \in Proc /\ batch[e.p] \in Seq(Event) /\ batch' = [batch EXCEPT ![e.p] = Append(@, e)]
  BY DEF Event, OrderTypeOK, TracerTypeOK, Emit
<1>2. batch'[e.p] = Append(batch[e.p], e) /\ \A p \in Proc \ {e.p} : batch'[p] = batch[p]
  BY <1>1 DEF OrderTypeOK, TracerTypeOK
<1>3. /\ Len(batch'[e.p]) = Len(batch[e.p]) + 1 /\ batch'[e.p][Len(batch[e.p]) + 1] = e
      /\ \A i \in 1..Len(batch[e.p]) : batch'[e.p][i] = batch[e.p][i]
      /\ Len(batch[e.p]) \in Nat
  BY <1>1, <1>2
<1>4. Waiting(e.p)' = Waiting(e.p) \cup {e}
  <2>1. 1..(Len(batch[e.p]) + 1) = 1..Len(batch[e.p]) \cup {Len(batch[e.p]) + 1}
    BY <1>3
  <2>2. Waiting(e.p)' = {batch'[e.p][i] : i \in 1..(Len(batch[e.p]) + 1)}
    BY <1>3 DEF Waiting
  <2> QED BY <1>3, <2>1, <2>2 DEF Waiting
<1>5. \A p \in Proc \ {e.p} : Waiting(p)' = Waiting(p)
  BY <1>2 DEF Waiting
<1>6. Pending' = Pending \cup {Core(e)}
  <2>1. Cores(e.p)' = Cores(e.p) \cup {Core(e)}
    BY <1>4 DEF Cores
  <2>2. \A p \in Proc \ {e.p} : Cores(p)' = Cores(p)
    BY <1>5 DEF Cores
  <2>3. Advanced' = Advanced
    BY DEF Advanced
  <2>4. Pending' = (UNION {Cores(p)' : p \in Proc}) \cup Advanced'
    BY DEF Pending
  <2> QED BY <1>1, <2>1, <2>2, <2>3, <2>4 DEF Pending
<1> QED BY <1>2, <1>3, <1>4, <1>5, <1>6

\* All pending events are older than one that is written now.
LEMMA PendingOld ==
    ASSUME OrderTypeOK, BatchInv, FrontierInv, NEW d \in Pending
    PROVE  d \in CoreSet /\ d.n \in Nat /\ d.n <= n /\ n \in Nat
<1>1. d \in CoreSet /\ d.n \in Nat /\ n \in Nat
  BY PendingTyped DEF CoreSet, OrderTypeOK, TracerTypeOK
<1>2. CASE \E p \in Proc : d \in Cores(p)
  <2>0. PICK p \in Proc : d \in Cores(p)
    BY <1>2
  <2>1. PICK e \in Waiting(p) : d = Core(e)
    BY <2>0 DEF Cores
  <2>2. PICK i \in 1..Len(batch[p]) : e = batch[p][i]
    BY DEF Waiting
  <2> QED BY <1>1, <2>1, <2>2 DEF Core, BatchInv
<1>3. CASE d \in Advanced
  <2>1. PICK f \in frontier : d = Core(f.ev)
    BY <1>3 DEF Advanced
  <2> QED BY <1>1, <2>1 DEF Core, FrontierInv
<1> QED BY <1>1, <1>2, <1>3, PendingMembers

LEMMA BatchTyped ==
    ASSUME OrderTypeOK, NEW p \in Proc
    PROVE  /\ batch[p] \in Seq(Event) /\ Len(batch[p]) \in Nat
           /\ \A i \in 1..Len(batch[p]) : batch[p][i] \in Event /\ batch[p][i].n \in Nat \ {0}
<1>1. batch[p] \in Seq(Event)
  BY DEF OrderTypeOK, TracerTypeOK
<1>2. \A i \in 1..Len(batch[p]) : batch[p][i] \in Event
  BY <1>1
<1>3. \A e \in Event : e.n \in Nat \ {0}
  BY DEF Event
<1> QED BY <1>1, <1>2, <1>3

\* What writing any event e does to the batches.
LEMMA EmitKeepsBatches ==
    ASSUME IInv, NEW e \in Event, Emit(e), e.n = n + 1, UNCHANGED frontier,
           ChainOf(e) \in Chain \cup {Unordered}, Fits(stateTransition(e), e),
           Unnumbered(e) => \A d \in On(Pending, ChainOf(e)) :
               \E x \in On(Pending, ChainOf(e)) : x.p = e.p /\ d.n <= x.n
    PROVE  BatchInv' /\ CoverInv'
<1>0. e.p \in Proc /\ n \in Nat /\ n' = n + 1
  BY DEF Event, IInv, OrderTypeOK, TracerTypeOK, Emit
<1>1. /\ Pending' = Pending \cup {Core(e)}
      /\ Waiting(e.p)' = Waiting(e.p) \cup {e}
      /\ \A p \in Proc \ {e.p} : Waiting(p)' = Waiting(p) /\ batch'[p] = batch[p]
      /\ Len(batch'[e.p]) = Len(batch[e.p]) + 1
      /\ batch'[e.p][Len(batch[e.p]) + 1] = e
      /\ \A i \in 1..Len(batch[e.p]) : batch'[e.p][i] = batch[e.p][i]
  BY EmitPends DEF IInv
<1>2. \A p \in Proc : Len(batch[p]) \in Nat /\ \A i \in 1..Len(batch[p]) : batch[p][i].n \in Nat
  BY BatchTyped DEF IInv
<1>3. BatchInv'
  <2> SUFFICES ASSUME NEW p \in Proc, NEW i \in 1..Len(batch'[p])
               PROVE  /\ batch'[p][i].p = p /\ batch'[p][i].n <= n'
                      /\ ChainOf(batch'[p][i]) \in Chain \cup {Unordered}
                      /\ Fits(stateTransition(batch'[p][i]), batch'[p][i])
                      /\ \A j \in 1..Len(batch'[p]) : i < j => batch'[p][i].n < batch'[p][j].n
    BY DEF BatchInv, ChainOf, stateTransition, Transition, Fits, Resolve
  <2>1. CASE p # e.p
    BY <1>0, <1>1, <1>2, <2>1 DEF IInv, BatchInv
  <2>2. CASE p = e.p /\ i # Len(batch[e.p]) + 1
    <3>1. i \in 1..Len(batch[e.p]) /\ batch'[p][i] = batch[e.p][i]
      BY <1>0, <1>1, <1>2, <2>2
    <3>2. ASSUME NEW j \in 1..Len(batch'[p]), i < j PROVE batch'[p][i].n < batch'[p][j].n
      <4>1. CASE j = Len(batch[e.p]) + 1
        <5>1. batch'[p][j] = e /\ batch[e.p][i].n <= n /\ batch[e.p][i].n \in Nat
          BY <1>0, <1>1, <1>2, <2>2, <3>1, <4>1 DEF IInv, BatchInv
        <5> QED BY <1>0, <3>1, <5>1
      <4>2. CASE j # Len(batch[e.p]) + 1
        <5>1. j \in 1..Len(batch[e.p]) /\ batch'[p][j] = batch[e.p][j]
          BY <1>0, <1>1, <1>2, <2>2, <4>2
        <5> QED BY <1>0, <2>2, <3>1, <3>2, <5>1 DEF IInv, BatchInv
      <4> QED BY <4>1, <4>2
    <3> QED BY <1>0, <1>2, <2>2, <3>1, <3>2 DEF IInv, BatchInv
  <2>3. CASE p = e.p /\ i = Len(batch[e.p]) + 1
    BY <1>0, <1>1, <1>2, <2>3
  <2> QED BY <2>1, <2>2, <2>3
<1>4. CoverInv'
  <2> SUFFICES ASSUME NEW p \in Proc, NEW y \in Waiting(p)', Unnumbered(y),
                      NEW d \in On(Pending', ChainOf(y)), d.n < y.n
               PROVE  \E x \in On(Pending', ChainOf(y)) : x.p = p /\ d.n <= x.n /\ x.n < y.n
    BY DEF CoverInv, Covered, Unnumbered, ChainOf, stateTransition, Transition
  <2>1. On(Pending, ChainOf(y)) \subseteq On(Pending', ChainOf(y))
    BY <1>1 DEF On
  <2>2. y \in Waiting(p) \/ (p = e.p /\ y = e)
    BY <1>0, <1>1
  <2>3. y.n \in Nat /\ y.n <= n + 1
    <3>1. CASE y \in Waiting(p)
      BY <1>0, <1>2, <3>1 DEF Waiting, IInv, BatchInv
    <3> QED BY <1>0, <2>2, <3>1
  <2>4. d \in On(Pending, ChainOf(y))
    BY <1>0, <1>1, <2>3 DEF On, Core
  <2>5. CASE y \in Waiting(p)
    BY <2>1, <2>4, <2>5 DEF IInv, CoverInv, Covered
  <2>6. CASE p = e.p /\ y = e
    <3>1. PICK x \in On(Pending, ChainOf(e)) : x.p = e.p /\ d.n <= x.n
      BY <2>4, <2>6
    <3>2. x.n < e.n
      BY <1>0, PendingOld DEF On, IInv
    <3> QED BY <2>1, <2>6, <3>1, <3>2
  <2> QED BY <2>2, <2>5, <2>6
<1> QED BY <1>3, <1>4

LEMMA InitHolds == Init => IInv
<1> SUFFICES ASSUME Init PROVE IInv
  OBVIOUS
<1> USE DEF Init, TracerInit, OrderInit
<1>1. TracerTypeOK
  BY TracerAssumption DEF TracerTypeOK, gZero, GState, gStatus, Modes
<1>2. OrderTypeOK
  BY <1>1 DEF OrderTypeOK, gZero, GState, gStatus
<1>3. TracerInv
  BY Sentinels DEF TracerInv, gZero, Chain
<1>4. \A p \in Proc : Waiting(p) = {} /\ Cores(p) = {} /\ Len(batch[p]) = 0
  BY DEF Waiting, Cores
<1>5. Advanced = {}
  BY DEF Advanced
<1>6. Pending = {}
  BY <1>4, <1>5, PendingMembers
<1>7. \A c \in Chain : gs[c] = rg[c] /\ gs[c] = [seq |-> 0, status |-> "gDead"]
  BY DEF gZero
<1>8. Line(Pending, gs, rg) /\ Behind /\ PhaseInv
  BY <1>6, <1>7 DEF Line, On, Behind, M, PhaseInv, Newest
<1>9. BatchInv /\ CoverInv /\ FrontierInv /\ NoBrokenMerge
  BY <1>4 DEF BatchInv, CoverInv, FrontierInv, NoBrokenMerge, Broken
<1> QED BY <1>2, <1>3, <1>8, <1>9 DEF IInv

LEMMA TraceKeeps == IInv /\ Trace => IInv'
<1> SUFFICES ASSUME IInv, Trace PROVE IInv'
  OBVIOUS
<1>1. /\ TracerTypeOK /\ TracerInv /\ OrderTypeOK /\ BatchInv /\ FrontierInv
      /\ Line(Pending, gs, rg) /\ Behind /\ PhaseInv /\ NoBrokenMerge
  BY DEF IInv, OrderTypeOK
<1>2. /\ pc = "trace" /\ TracerNext /\ pc' = pc /\ selected' = selected /\ frontier' = frontier
      /\ gs' = gs /\ events' = events
  BY DEF Trace, order
<1>3. frontier = {} /\ selected = {} /\ Newest(Pending)
  BY <1>1, <1>2 DEF PhaseInv
<1>4. TracerTypeOK' /\ TracerInv' /\ (EmitsPlain \/ EmitsMove \/ EmitsNothing)
  BY <1>1, <1>2, TracerStep
<1>5. OrderTypeOK'
  BY <1>1, <1>2, <1>4 DEF OrderTypeOK
<1>6. FrontierInv' /\ NoBrokenMerge'
  BY <1>1, <1>2, <1>3 DEF FrontierInv, NoBrokenMerge
<1>7. Pending \in SUBSET CoreSet /\ gs \in Chains /\ rg \in Chains
  BY <1>1, PendingTyped DEF OrderTypeOK, TracerTypeOK, Chains
<1>8. \A d \in Pending : d.n \in Nat /\ d.n < n + 1
  BY <1>1, PendingOld
<1>9. CASE EmitsNothing
  <2>1. batch' = batch /\ n' = n /\ rg' = rg /\ lastp' = lastp
    BY <1>9 DEF EmitsNothing
  <2>2. \A p \in Proc : Waiting(p)' = Waiting(p) /\ Cores(p)' = Cores(p)
    BY <2>1 DEF Waiting, Cores
  <2>3. Pending' = Pending
    BY <1>2, <2>1 DEF Pending, Cores, Waiting, Advanced
  <2>4. Line(Pending, gs, rg)' /\ Behind' /\ PhaseInv'
    BY <1>1, <1>2, <2>1, <2>3 DEF Behind, PhaseInv, Newest, Line
  <2>5. BatchInv' /\ CoverInv'
    BY <2>1, <2>2, <2>3 DEF IInv, BatchInv, CoverInv, Covered
  <2> QED BY <1>4, <1>5, <1>6, <2>4, <2>5 DEF IInv
<1>10. CASE EmitsPlain
  <2>1. PICK e \in Event : Emit(e) /\ e.n = n + 1 /\ ChainOf(e) = Unordered
    BY <1>10 DEF EmitsPlain
  <2>2. rg' = rg /\ lastp' = lastp
    BY <1>10 DEF EmitsPlain
  <2>3. ~Unnumbered(e) /\ Fits(stateTransition(e), e)
    BY <2>1 DEF Unnumbered, Fits, ChainOf
  <2>4. BatchInv' /\ CoverInv'
    BY <1>2, <2>1, <2>3, EmitKeepsBatches
  <2>5. Pending' = Pending \cup {Core(e)} /\ Core(e) \in CoreSet
    BY <1>1, <1>2, <2>1, EmitPends, CoreTyped
  <2>6. \A c \in Chain : On(Pending', c) = On(Pending, c)
    BY <2>1, <2>5, Sentinels DEF On, Core, Chain
  <2>7. \A d \in Pending', x \in Pending' : d.n = x.n => d = x
    <3>1. \A d \in Pending, x \in Pending : d.n = x.n => d = x
      BY <1>1 DEF Line
    <3>2. Core(e).n = n + 1
      BY <2>1 DEF Core
    <3> QED BY <1>8, <2>5, <3>1, <3>2
  <2>8. Line(Pending', gs, rg)
    BY <1>1, <1>7, <2>5, <2>6, <2>7, LineIgnores
  <2>9. Line(Pending, gs, rg)' /\ Behind'
    BY <1>1, <1>2, <2>2, <2>8 DEF Behind
  <2>10. PhaseInv'
    BY <1>2, <1>3, <2>2, <2>6 DEF PhaseInv, Newest, Chain
  <2> QED BY <1>4, <1>5, <1>6, <2>4, <2>9, <2>10 DEF IInv
<1>11. CASE EmitsMove
  <2>1. PICK e \in Event, c \in Chain :
          /\ Emit(e) /\ e.n = n + 1 /\ ChainOf(e) = c
          /\ e.pre = rg[c] /\ M(e.pre) < M(e.post) /\ Fits(stateTransition(e), e)
          /\ rg' = [rg EXCEPT ![c] = e.post]
          /\ lastp' = IF c = Garbage THEN lastp ELSE [lastp EXCEPT ![c] = e.p]
          /\ Unnumbered(e) => c # Garbage /\ lastp[c] = e.p
    BY <1>11 DEF EmitsMove
  <2>2. Unnumbered(e) => \A d \in On(Pending, c) : \E x \in On(Pending, c) : x.p = e.p /\ d.n <= x.n
    <3>1. c # Garbage => c \in Goroutine
      BY DEF Chain
    <3> QED BY <1>3, <2>1, <3>1 DEF Newest
  <2>3. BatchInv' /\ CoverInv'
    BY <1>2, <2>1, <2>2, EmitKeepsBatches
  <2> DEFINE x == Core(e)
  <2>4. Pending' = Pending \cup {x} /\ x \in CoreSet
    BY <1>1, <1>2, <2>1, EmitPends, CoreTyped
  <2>5. x.n = n + 1 /\ x.c = c /\ x.p = e.p /\ x.pre = e.pre /\ x.post = e.post
    BY <2>1 DEF Core
  <2> HIDE DEF x
  <2>6. Line(Pending', gs, rg')
    <3>1. \A b \in Chain : M(gs[b]) <= M(rg[b])
      BY <1>1 DEF Behind
    <3>2. \A d \in Pending : d.n < x.n
      BY <1>8, <2>5
    <3>3. x.pre = rg[c] /\ M(x.pre) < M(x.post) /\ rg' = [rg EXCEPT ![c] = x.post]
      BY <2>1, <2>5
    <3>4. Line(Pending \cup {x}, gs, [rg EXCEPT ![c] = x.post])
      BY <1>1, <1>7, <2>4, <2>5, <3>1, <3>2, <3>3, LineGrows
    <3> QED BY <2>4, <3>3, <3>4
  <2>7. Behind'
    <3>1. \A s \in GState : M(s) \in Nat
      BY MNat
    <3>2. e.pre \in GState /\ e.post \in GState /\ \A b \in Chain : gs[b] \in GState /\ rg[b] \in GState
      BY <1>7 DEF Event, Chains
    <3>3. \A b \in Chain : rg'[b] = IF b = c THEN e.post ELSE rg[b]
      BY <1>7, <2>1 DEF Chains
    <3>4. ASSUME NEW b \in Chain PROVE M(gs[b]) <= M(rg'[b])
      <4>1. M(gs[b]) <= M(rg[b])
        BY <1>1 DEF Behind
      <4>2. M(gs[b]) \in Nat /\ M(rg[b]) \in Nat /\ M(e.pre) \in Nat /\ M(e.post) \in Nat
        BY <3>1, <3>2
      <4> QED BY <2>1, <3>3, <4>1, <4>2
    <3> QED BY <1>2, <3>4 DEF Behind
  <2>8. PhaseInv'
    <3> SUFFICES ASSUME NEW b \in Goroutine, NEW d \in On(Pending', b)
                 PROVE  \E y \in On(Pending', b) : y.p = lastp'[b] /\ d.n <= y.n
      BY <1>2, <1>3 DEF PhaseInv, Newest
    <3>1. CASE b = c
      <4>1. c # Garbage /\ lastp'[c] = e.p
        BY <1>1, <2>1, <3>1, Sentinels DEF TracerTypeOK
      <4>2. d.n <= x.n
        BY <1>8, <2>4, <2>5 DEF On, CoreSet
      <4> QED BY <2>4, <2>5, <3>1, <4>1, <4>2 DEF On
    <3>2. CASE b # c
      <4>1. On(Pending', b) = On(Pending, b)
        BY <2>4, <2>5, <3>2 DEF On
      <4>2. lastp'[b] = lastp[b]
        BY <1>1, <2>1, <3>2 DEF TracerTypeOK
      <4> QED BY <1>3, <4>1, <4>2 DEF Newest
    <3> QED BY <3>1, <3>2
  <2>9. Line(Pending, gs, rg)'
    BY <1>2, <2>6
  <2> QED BY <1>4, <1>5, <1>6, <2>3, <2>7, <2>8, <2>9 DEF IInv
<1> QED BY <1>4, <1>9, <1>10, <1>11
-----------------------------------------------------------------------------
(***************************************************************************)
(* The merge loop                                                          *)
(***************************************************************************)
LEMMA HasLeast ==
    ASSUME NEW S \in SUBSET Nat, S # {}
    PROVE  \E k \in S : \A j \in S : k <= j
<1>1. PICK k \in S : \A j \in S : ~(<<j, k>> \in OpToRel(<, Nat))
  BY NatLessThanWellFounded, WFMin
<1>2. \A j \in S : ~(j < k)
  BY <1>1 DEF OpToRel
<1> QED BY <1>2

\* The head of a batch not in the frontier, and its place in Pending.
LEMMA HeadPends ==
    ASSUME IInv, NEW p \in Proc, batch[p] # <<>>
    PROVE  /\ Head(batch[p]) \in Event /\ Head(batch[p]) \in Waiting(p)
           /\ Core(Head(batch[p])) \in Pending
           /\ Head(batch[p]).p = p /\ Head(batch[p]).n <= n
           /\ ChainOf(Head(batch[p])) \in Chain \cup {Unordered}
           /\ Fits(stateTransition(Head(batch[p])), Head(batch[p]))
           /\ \A e \in Waiting(p) : Head(batch[p]).n <= e.n
<1>1. batch[p] \in Seq(Event) /\ Len(batch[p]) \in Nat
  BY BatchTyped DEF IInv
<1>2. 1 \in 1..Len(batch[p]) /\ Head(batch[p]) = batch[p][1]
  BY <1>1
<1>3. Head(batch[p]) \in Event /\ Head(batch[p]) \in Waiting(p)
  BY <1>1, <1>2 DEF Waiting
<1>4. Core(Head(batch[p])) \in Pending
  BY <1>3, PendingMembers DEF Cores
<1>5. ASSUME NEW e \in Waiting(p) PROVE Head(batch[p]).n <= e.n
  <2>1. PICK i \in 1..Len(batch[p]) : e = batch[p][i]
    BY DEF Waiting
  <2>2. batch[p][i].n \in Nat /\ batch[p][1].n \in Nat
    BY <1>2, BatchTyped DEF IInv
  <2>3. 1 < i => batch[p][1].n < batch[p][i].n
    BY <1>2 DEF IInv, BatchInv
  <2> QED BY <1>1, <1>2, <2>1, <2>2, <2>3
<1> QED BY <1>2, <1>3, <1>4, <1>5 DEF IInv, BatchInv

\* A pending event of P's batch is still there if P is not selected.
LEMMA UnselectedWaits ==
    ASSUME IInv, NEW p \in Proc \ selected, NEW d \in Pending, d.p = p
    PROVE  \E e \in Waiting(p) : d.n = e.n
<1>1. CASE d \in Advanced
  <2>1. PICK f \in frontier : d = Core(f.ev)
    BY <1>1 DEF Advanced
  <2>2. f.ev.p = f.batch /\ f.batch \in selected
    BY DEF IInv, FrontierInv
  <2> QED BY <2>1, <2>2 DEF Core
<1>2. CASE \E q \in Proc : d \in Cores(q)
  <2>1. PICK q \in Proc : d \in Cores(q)
    BY <1>2
  <2>2. PICK e \in Waiting(q) : d = Core(e)
    BY <2>1 DEF Cores
  <2>3. e.p = q
    BY DEF Waiting, IInv, BatchInv
  <2> QED BY <2>2, <2>3 DEF Core
<1> QED BY <1>1, <1>2, PendingMembers

LEMMA SameState ==
    ASSUME NEW s \in GState, NEW t \in GState, s.seq = t.seq, s.status = t.status
    PROVE  s = t
BY DEF GState

\* A ready head is next on its chain.
LEMMA ReadyIsNext ==
    ASSUME IInv, NEW p \in Ripe, ChainOf(Head(batch[p])) # Unordered
    PROVE  gs[ChainOf(Head(batch[p]))] = Head(batch[p]).pre
<1> DEFINE e == Head(batch[p])
           c == ChainOf(e)
           tr == stateTransition(e)
<1>1. p \in Proc \ selected /\ batch[p] # <<>> /\ transitionReady(gs, tr)
  BY DEF Ripe
<1>2. /\ e \in Event /\ e \in Waiting(p) /\ Core(e) \in Pending /\ c \in Chain
      /\ Fits(tr, e) /\ \A x \in Waiting(p) : e.n <= x.n
  BY <1>1, HeadPends
<1>3. e.pre \in GState /\ gs[c] \in GState /\ e.n \in Nat
  BY <1>2 DEF Event, IInv, OrderTypeOK
<1>4. tr.g = c
  BY DEF ChainOf
<1> HIDE DEF tr, e, c
<1>5. CASE tr.init.seq # NoSeq
  <2>1. tr.init.seq = e.pre.seq /\ tr.init.status = e.pre.status
    BY <1>2, <1>4, <1>5 DEF Fits, c, e
  <2>2. tr.init.seq = gs[c].seq /\ tr.init.status = gs[c].status
    BY <1>1, <1>4, <1>5 DEF transitionReady, Ready, c, e
  <2>3. gs[c] = e.pre
    BY <1>3, <2>1, <2>2, SameState
  <2> QED BY <2>3 DEF c, e
<1>6. CASE tr.init.seq = NoSeq
  <2>1. Unnumbered(e)
    BY <1>4, <1>6 DEF Unnumbered, tr, c, e
  <2>2. Pending \in SUBSET CoreSet /\ gs \in Chains /\ rg \in Chains /\ Line(Pending, gs, rg)
    BY PendingTyped DEF IInv, OrderTypeOK, TracerTypeOK, Chains
  <2>3. Core(e) \in On(Pending, c) /\ Core(e).pre = e.pre /\ Core(e).n = e.n
    BY <1>2 DEF On, Core, c
  <2>4. ASSUME NEW d \in On(Pending, c) PROVE e.n <= d.n
    <3>1. d.n \in Nat
      BY <2>2 DEF On, CoreSet
    <3>2. SUFFICES ASSUME d.n < e.n PROVE FALSE
      BY <1>3, <3>1
    <3>3. PICK x \in On(Pending, c) : x.p = p /\ x.n < e.n
      BY <1>1, <1>2, <2>1, <3>2 DEF IInv, CoverInv, Covered, c
    <3>4. PICK y \in Waiting(p) : x.n = y.n
      BY <1>1, <3>3, UnselectedWaits DEF On
    <3>5. y.n \in Nat
      BY <1>1, BatchTyped DEF Waiting, IInv
    <3> QED BY <1>2, <1>3, <3>3, <3>4, <3>5
  <2>5. Core(e).pre = gs[c]
    BY <1>2, <2>2, <2>3, <2>4, FirstIsNext
  <2> QED BY <2>3, <2>5 DEF c, e
<1> QED BY <1>5, <1>6

\* The oldest pending event is ready.
LEMMA OldestIsRipe ==
    ASSUME IInv, NEW p \in Proc \ selected, batch[p] # <<>>,
           \A d \in Pending : Head(batch[p]).n <= d.n
    PROVE  p \in Ripe
<1> DEFINE e == Head(batch[p])
           c == ChainOf(e)
           tr == stateTransition(e)
<1>1. /\ e \in Event /\ Core(e) \in Pending /\ c \in Chain \cup {Unordered}
      /\ Fits(tr, e) /\ tr.g = c
  BY HeadPends DEF ChainOf
<1>2. CASE c = Unordered
  BY <1>1, <1>2 DEF Ripe, transitionReady
<1>3. CASE c \in Chain
  <2>1. Pending \in SUBSET CoreSet /\ gs \in Chains /\ rg \in Chains /\ Line(Pending, gs, rg)
    BY PendingTyped DEF IInv, OrderTypeOK, TracerTypeOK, Chains
  <2>2. Core(e) \in On(Pending, c) /\ Core(e).pre = e.pre /\ Core(e).n = e.n
    BY <1>1 DEF On, Core
  <2> HIDE DEF e, c, tr
  <2>3. e.pre = gs[c]
    <3>1. \A d \in On(Pending, c) : Core(e).n <= d.n
      BY <2>2 DEF On, e
    <3> QED BY <1>3, <2>1, <2>2, <3>1, FirstIsNext
  <2>4. transitionReady(gs, tr)
    BY <1>1, <1>3, <2>3, Sentinels DEF transitionReady, Ready, Fits, Chain
  <2> QED BY <2>4 DEF Ripe, tr, e
<1> QED BY <1>1, <1>2, <1>3

\* What a scan puts in the frontier for a ripe batch.
LEMMA OrderEventFits ==
    ASSUME IInv, NEW p \in Ripe
    PROVE  LET e == Head(batch[p])
               f == OrderEvent(p)
           IN  /\ f \in [ev : Event, batch : Proc, tr : TransitionSet]
               /\ f.batch = p /\ f.tr = stateTransition(e) /\ f.tr.g = ChainOf(f.ev)
               /\ Core(f.ev) = Core(e) /\ ChainOf(f.ev) = ChainOf(e)
               /\ f.ev.p = p /\ f.ev.n = e.n /\ f.ev.n <= n /\ f.ev.pre = e.pre
               /\ Fits(f.tr, f.ev)
<1> DEFINE e == Head(batch[p])
           d == [e EXCEPT !.typ = Delocalized(@)]
           f == OrderEvent(p)
<1>1. p \in Proc /\ batch[p] # <<>>
  BY DEF Ripe
<1>2. /\ e \in Event /\ e.p = p /\ e.n <= n /\ ChainOf(e) \in Chain \cup {Unordered}
      /\ Fits(stateTransition(e), e)
  BY <1>1, HeadPends
<1>3. d \in Event /\ Core(d) = Core(e)
  BY <1>2, DelocalizedCore
<1>4. stateTransition(e) \in TransitionSet
  BY <1>2, TransitionTyped
<1>5. f = [ev |-> d, batch |-> p, tr |-> stateTransition(e)]
  BY DEF OrderEvent
<1> HIDE DEF e, d, f
<1>6. f \in [ev : Event, batch : Proc, tr : TransitionSet]
      /\ f.ev = d /\ f.batch = p /\ f.tr = stateTransition(e)
  BY <1>1, <1>3, <1>4, <1>5
<1>7. ChainOf(d) = ChainOf(e) /\ d.p = e.p /\ d.n = e.n /\ d.pre = e.pre /\ d.post = e.post
  BY <1>3 DEF Core
<1>8. Fits(stateTransition(e), d)
  BY <1>2, <1>7 DEF Fits
<1>9. stateTransition(e).g = ChainOf(e)
  BY DEF ChainOf
<1>10. /\ f.tr.g = ChainOf(f.ev) /\ Core(f.ev) = Core(e) /\ ChainOf(f.ev) = ChainOf(e)
       /\ f.ev.p = p /\ f.ev.n = e.n /\ f.ev.n <= n /\ f.ev.pre = e.pre /\ Fits(f.tr, f.ev)
  BY <1>2, <1>3, <1>6, <1>7, <1>8, <1>9
<1> QED BY <1>6, <1>10 DEF e, f

\* A scan shifts the ripe batches by one, and nothing stops being pending.
LEMMA ScanShifts ==
    ASSUME IInv, Scan, NEW p \in Proc
    PROVE  /\ p \in Ripe =>
                /\ batch'[p] = Tail(batch[p]) /\ Len(batch'[p]) = Len(batch[p]) - 1
                /\ \A i \in 1..Len(batch'[p]) : /\ batch'[p][i] = batch[p][i + 1]
                                                /\ i + 1 \in 1..Len(batch[p])
                /\ Waiting(p) = {Head(batch[p])} \cup Waiting(p)'
           /\ p \notin Ripe => batch'[p] = batch[p] /\ Waiting(p)' = Waiting(p)
<1>1. batch'[p] = IF p \in Ripe THEN Tail(batch[p]) ELSE batch[p]
  BY DEF Scan
<1>2. batch[p] \in Seq(Event) /\ Len(batch[p]) \in Nat
  BY BatchTyped DEF IInv
<1>3. CASE p \in Ripe
  <2>1. batch[p] # <<>> /\ batch'[p] = Tail(batch[p])
    BY <1>1, <1>3 DEF Ripe
  <2>2. /\ Len(batch'[p]) = Len(batch[p]) - 1
        /\ \A i \in 1..Len(batch'[p]) : batch'[p][i] = batch[p][i + 1] /\ i + 1 \in 1..Len(batch[p])
    BY <1>2, <2>1
  <2>3. Head(batch[p]) = batch[p][1] /\ 1 \in 1..Len(batch[p])
    BY <1>2, <2>1
  <2>4. Waiting(p)' = {batch'[p][i] : i \in 1..Len(batch'[p])}
    BY DEF Waiting
  <2>5. Waiting(p)' \subseteq Waiting(p)
    BY <2>2, <2>4 DEF Waiting
  <2>6. ASSUME NEW i \in 1..Len(batch[p]), i # 1 PROVE batch[p][i] \in Waiting(p)'
    <3>1. i - 1 \in 1..Len(batch'[p]) /\ (i - 1) + 1 = i
      BY <1>2, <2>2, <2>6
    <3>2. batch'[p][i - 1] = batch[p][i]
      BY <2>2, <3>1
    <3> QED BY <2>4, <3>1, <3>2
  <2>7. Waiting(p) = {Head(batch[p])} \cup Waiting(p)'
    BY <2>3, <2>5, <2>6 DEF Waiting
  <2> QED BY <1>3, <2>1, <2>2, <2>7
<1>4. CASE p \notin Ripe
  BY <1>1, <1>4 DEF Waiting
<1> QED BY <1>3, <1>4

LEMMA ScanPends ==
    ASSUME IInv, Scan
    PROVE  Pending' = Pending
<1>1. frontier' = frontier \cup {OrderEvent(p) : p \in Ripe}
  BY DEF Scan
<1>2. \A p \in Ripe : p \in Proc
  BY DEF Ripe
<1>3. Pending' = (UNION {Cores(p)' : p \in Proc}) \cup Advanced'
  BY DEF Pending
<1>4. Advanced' = {Core(f.ev) : f \in frontier'}
  BY DEF Advanced
<1>5. \A p \in Proc : Cores(p)' = {Core(e) : e \in Waiting(p)'}
  BY DEF Cores
<1>6. ASSUME NEW x \in Pending PROVE x \in Pending'
  <2>1. CASE x \in Advanced
    BY <1>1, <1>3, <1>4, <2>1 DEF Advanced
  <2>2. ASSUME NEW p \in Proc, x \in Cores(p) PROVE x \in Pending'
    <3>1. PICK e \in Waiting(p) : x = Core(e)
      BY <2>2 DEF Cores
    <3>2. CASE e \in Waiting(p)'
      <4>1. x \in Cores(p)'
        BY <1>5, <3>1, <3>2
      <4> QED BY <1>3, <4>1
    <3>3. CASE e \notin Waiting(p)'
      <4>1. p \in Ripe /\ e = Head(batch[p])
        BY <3>3, ScanShifts
      <4>2. OrderEvent(p) \in frontier' /\ Core(OrderEvent(p).ev) = x
        BY <1>1, <3>1, <4>1, OrderEventFits
      <4>3. x \in Advanced'
        BY <1>4, <4>2
      <4> QED BY <1>3, <4>3
    <3> QED BY <3>2, <3>3
  <2> QED BY <2>1, <2>2, PendingMembers
<1>7. ASSUME NEW x \in Pending' PROVE x \in Pending
  <2>1. CASE x \in Advanced'
    <3>1. PICK f \in frontier' : x = Core(f.ev)
      BY <1>4, <2>1
    <3>2. CASE f \in frontier
      <4>1. x \in Advanced
        BY <3>1, <3>2 DEF Advanced
      <4> QED BY <4>1, PendingMembers
    <3>3. CASE f \notin frontier
      <4>1. PICK p \in Ripe : f = OrderEvent(p)
        BY <1>1, <3>3
      <4>2. x = Core(Head(batch[p]))
        BY <3>1, <4>1, OrderEventFits
      <4>3. p \in Proc /\ batch[p] # <<>>
        BY DEF Ripe
      <4> QED BY <4>2, <4>3, HeadPends
    <3> QED BY <3>2, <3>3
  <2>2. ASSUME NEW p \in Proc, x \in Cores(p)' PROVE x \in Pending
    <3>1. PICK e \in Waiting(p)' : x = Core(e)
      BY <1>5, <2>2
    <3>2. e \in Waiting(p)
      BY ScanShifts
    <3>3. x \in Cores(p)
      BY <3>1, <3>2 DEF Cores
    <3> QED BY <3>3, PendingMembers
  <2> DEFINE All == {Cores(p)' : p \in Proc}
  <2>3. Pending' = (UNION All) \cup Advanced'
    BY <1>3
  <2>4. x \in UNION All => \E p \in Proc : x \in Cores(p)'
    OBVIOUS
  <2> HIDE DEF All
  <2> QED BY <2>1, <2>2, <2>3, <2>4
<1> QED BY <1>6, <1>7

\* A scan finds something to merge while there is anything left.
LEMMA ScanFinds ==
    ASSUME IInv, Scan
    PROVE  frontier' # {}
<1>1. ~Exhausted /\ frontier' = frontier \cup {OrderEvent(p) : p \in Ripe}
  BY DEF Scan
<1>2. CASE frontier # {}
  BY <1>1, <1>2
<1>3. CASE frontier = {}
  <2>1. selected = {} /\ Advanced = {}
    BY <1>3 DEF IInv, FrontierInv, Advanced, OrderTypeOK
  <2>2. PICK q \in Proc : batch[q] # <<>>
    BY <1>1, <1>3 DEF Exhausted
  <2> DEFINE Ages == {d.n : d \in Pending}
  <2>3. Pending \in SUBSET CoreSet
    BY PendingTyped DEF IInv
  <2>4. \A d \in CoreSet : d.n \in Nat
    BY DEF CoreSet
  <2>5. Ages \in SUBSET Nat /\ Ages # {}
    <3>1. Core(Head(batch[q])) \in Pending
      BY <2>2, HeadPends
    <3> QED BY <2>3, <2>4, <3>1
  <2>6. PICK k \in Ages : \A j \in Ages : k <= j
    <3> HIDE DEF Ages
    <3> QED BY <2>5, HasLeast
  <2>7. PICK d \in Pending : d.n = k
    BY <2>6
  <2>8. PICK p \in Proc : d \in Cores(p)
    BY <2>1, PendingMembers
  <2>9. PICK e \in Waiting(p) : d = Core(e)
    BY <2>8 DEF Cores
  <2>10. batch[p] # <<>>
    <3>1. batch[p] \in Seq(Event) /\ \E i \in 1..Len(batch[p]) : e = batch[p][i]
      BY BatchTyped DEF IInv, Waiting
    <3> QED BY <3>1
  <2>11. Head(batch[p]).n <= e.n /\ Core(Head(batch[p])) \in Pending
         /\ Head(batch[p]) \in Event
    BY <2>10, HeadPends
  <2>12. \A x \in Pending : Head(batch[p]).n <= x.n
    <3> SUFFICES ASSUME NEW x \in Pending PROVE Head(batch[p]).n <= x.n
      OBVIOUS
    <3>1. e.n <= x.n
      BY <2>6, <2>7, <2>9 DEF Core
    <3>2. e.n \in Nat /\ x.n \in Nat /\ Head(batch[p]).n \in Nat
      BY <2>3, <2>4, <2>7, <2>9, <2>11 DEF Core, Event
    <3> QED BY <2>11, <3>1, <3>2
  <2>13. p \in Ripe
    BY <2>1, <2>10, <2>12, OldestIsRipe
  <2> QED BY <1>1, <2>13
<1> QED BY <1>2, <1>3

LEMMA ScanKeeps == IInv /\ Scan => IInv'
<1> SUFFICES ASSUME IInv, Scan PROVE IInv'
  OBVIOUS
<1>1. /\ frontier' = frontier \cup {OrderEvent(p) : p \in Ripe}
      /\ selected' = selected \cup Ripe /\ pc = "scan"
      /\ pc' = IF frontier' = {} THEN "noOrder" ELSE "merge"
      /\ batch' = [p \in Proc |-> IF p \in Ripe THEN Tail(batch[p]) ELSE batch[p]]
      /\ UNCHANGED <<gs, events, n, clock, rg, lastp, cur, mode, blockTs, open, on, starting>>
  BY DEF Scan
<1>2. Pending' = Pending /\ frontier' # {}
  BY ScanPends, ScanFinds
<1>3. pc' = "merge"
  BY <1>1, <1>2
<1>4. Ripe \subseteq Proc \ selected
  BY DEF Ripe
<1>5. OrderTypeOK'
  <2>1. batch' \in [Proc -> Seq(Event)]
    <3>1. \A p \in Proc : batch[p] \in Seq(Event) /\ (p \in Ripe => batch[p] # <<>>)
      BY DEF IInv, OrderTypeOK, TracerTypeOK, Ripe
    <3>2. \A p \in Proc : p \in Ripe => Tail(batch[p]) \in Seq(Event)
      BY <3>1
    <3> QED BY <1>1, <3>1, <3>2
  <2>2. TracerTypeOK'
    BY <1>1, <2>1 DEF IInv, OrderTypeOK, TracerTypeOK
  <2>3. frontier' \subseteq [ev : Event, batch : Proc, tr : TransitionSet]
    BY <1>1, OrderEventFits DEF IInv, OrderTypeOK
  <2>4. events' \in Seq(Event)
    BY <1>1 DEF IInv, OrderTypeOK
  <2>5. selected' \subseteq Proc /\ gs' \in [Chain -> GState]
    BY <1>1, <1>4 DEF IInv, OrderTypeOK
  <2> QED BY <1>3, <2>2, <2>3, <2>4, <2>5 DEF OrderTypeOK
<1>6. TracerInv'
  BY <1>1 DEF IInv, TracerInv
<1>7. Line(Pending, gs, rg)' /\ Behind'
  <2>1. Line(Pending, gs, rg)'
    BY <1>1, <1>2 DEF IInv, Line, On
  <2>2. Behind'
    BY <1>1 DEF IInv, Behind
  <2> QED BY <2>1, <2>2
<1>8. BatchInv'
  <2> SUFFICES ASSUME NEW p \in Proc, NEW i \in 1..Len(batch'[p])
               PROVE  /\ batch'[p][i].p = p /\ batch'[p][i].n <= n'
                      /\ ChainOf(batch'[p][i]) \in Chain \cup {Unordered}
                      /\ Fits(stateTransition(batch'[p][i]), batch'[p][i])
                      /\ \A j \in 1..Len(batch'[p]) : i < j => batch'[p][i].n < batch'[p][j].n
    BY DEF BatchInv
  <2>1. CASE p \notin Ripe
    <3>1. batch'[p] = batch[p] /\ n' = n
      BY <1>1, <2>1
    <3> QED BY <3>1 DEF IInv, BatchInv
  <2>2. CASE p \in Ripe
    <3>1. \A k \in 1..Len(batch'[p]) : batch'[p][k] = batch[p][k + 1] /\ k + 1 \in 1..Len(batch[p])
      BY <2>2, ScanShifts
    <3>2. batch'[p][i] = batch[p][i + 1] /\ i + 1 \in 1..Len(batch[p]) /\ n' = n
      BY <1>1, <3>1
    <3>3. ASSUME NEW j \in 1..Len(batch'[p]), i < j PROVE batch'[p][i].n < batch'[p][j].n
      <4>1. batch'[p][j] = batch[p][j + 1] /\ j + 1 \in 1..Len(batch[p]) /\ i + 1 < j + 1
        BY <3>1, <3>3
      <4> QED BY <3>2, <4>1 DEF IInv, BatchInv
    <3> QED BY <3>2, <3>3 DEF IInv, BatchInv
  <2> QED BY <2>1, <2>2
<1>9. CoverInv'
  <2> SUFFICES ASSUME NEW p \in Proc, NEW e \in Waiting(p)' PROVE Covered(p, e, Pending)'
    BY DEF CoverInv
  <2>1. e \in Waiting(p)
    BY ScanShifts
  <2>2. Covered(p, e, Pending)
    BY <2>1 DEF IInv, CoverInv
  <2> QED BY <1>2, <2>2 DEF Covered, On
<1>10. FrontierInv'
  <2>1. ASSUME NEW f \in frontier'
        PROVE  /\ f.batch = f.ev.p /\ f.batch \in selected' /\ f.ev.n <= n'
               /\ Fits(f.tr, f.ev) /\ f.tr.g = ChainOf(f.ev)
               /\ f.tr.g # Unordered => gs'[f.tr.g] = f.ev.pre
               /\ \A i \in 1..Len(batch'[f.batch]) : f.ev.n < batch'[f.batch][i].n
               /\ f \notin frontier => f.batch \in Ripe /\ f = OrderEvent(f.batch)
               /\ f \in frontier => f.batch \in selected
    <3>1. CASE f \in frontier
      <4>1. f.batch \in selected /\ f.batch \in Proc
        BY <3>1 DEF IInv, FrontierInv, OrderTypeOK
      <4>2. batch'[f.batch] = batch[f.batch]
        BY <1>1, <1>4, <4>1
      <4> QED BY <1>1, <3>1, <4>1, <4>2 DEF IInv, FrontierInv
    <3>2. CASE f \notin frontier
      <4>1. PICK p \in Ripe : f = OrderEvent(p)
        BY <1>1, <3>2
      <4>2. /\ f.batch = p /\ f.tr.g = ChainOf(f.ev) /\ ChainOf(f.ev) = ChainOf(Head(batch[p]))
            /\ f.ev.p = p /\ f.ev.n = Head(batch[p]).n /\ f.ev.n <= n
            /\ f.ev.pre = Head(batch[p]).pre /\ Fits(f.tr, f.ev)
        BY <4>1, OrderEventFits
      <4>3. f.tr.g # Unordered => gs'[f.tr.g] = f.ev.pre
        BY <1>1, <4>2, ReadyIsNext
      <4>4. \A i \in 1..Len(batch'[p]) : f.ev.n < batch'[p][i].n
        <5> SUFFICES ASSUME NEW i \in 1..Len(batch'[p]) PROVE f.ev.n < batch'[p][i].n
          OBVIOUS
        <5>0. p \in Proc /\ batch[p] \in Seq(Event) /\ Len(batch[p]) \in Nat
          BY BatchTyped DEF IInv, Ripe
        <5>1. batch'[p][i] = batch[p][i + 1] /\ i + 1 \in 1..Len(batch[p]) /\ 1 < i + 1
          BY <5>0, ScanShifts
        <5>2. Head(batch[p]) = batch[p][1] /\ 1 \in 1..Len(batch[p])
          BY <5>0, <5>1
        <5> QED BY <4>2, <5>0, <5>1, <5>2 DEF IInv, BatchInv
      <4>5. f.batch \in selected' /\ f.batch = f.ev.p /\ f.ev.n <= n'
        BY <1>1, <4>2
      <4> QED BY <3>2, <4>1, <4>2, <4>3, <4>4, <4>5
    <3> QED BY <3>1, <3>2
  <2>2. ASSUME NEW f \in frontier', NEW h \in frontier', h.batch = f.batch PROVE h = f
    BY <1>4, <2>1, <2>2 DEF IInv, FrontierInv
  <2>3. ASSUME NEW p \in selected' PROVE \E f \in frontier' : f.batch = p
    <3>1. CASE p \in Ripe
      BY <1>1, <3>1, OrderEventFits
    <3>2. CASE p \in selected
      BY <1>1, <3>2 DEF IInv, FrontierInv
    <3> QED BY <1>1, <3>1, <3>2
  <2> QED BY <2>1, <2>2, <2>3 DEF FrontierInv
<1>11. PhaseInv' /\ NoBrokenMerge'
  BY <1>3 DEF PhaseInv, NoBrokenMerge, Broken
<1> QED BY <1>5, <1>6, <1>7, <1>8, <1>9, <1>10, <1>11 DEF IInv

\* Merging f neither panics nor leaves its chain behind.
LEMMA MergeMoves ==
    ASSUME IInv, NEW f \in frontier, Merge(f)
    PROVE  /\ gs' = IF ChainOf(f.ev) = Unordered THEN gs
                    ELSE [gs EXCEPT ![ChainOf(f.ev)] = f.ev.post]
           /\ selected' = selected \ {f.batch} /\ pc' = "scan"
           /\ frontier' = frontier \ {f} /\ events' = Append(events, f.ev)
           /\ UNCHANGED tracer
           /\ ChainOf(f.ev) # Unordered => ChainOf(f.ev) \in Chain /\ gs[ChainOf(f.ev)] = f.ev.pre
           /\ f.ev \in Event /\ f.batch = f.ev.p
<1>1. /\ f.batch = f.ev.p /\ f.batch \in selected /\ Fits(f.tr, f.ev) /\ f.tr.g = ChainOf(f.ev)
      /\ f.tr.g # Unordered => gs[f.tr.g] = f.ev.pre
  BY DEF IInv, FrontierInv
<1>2. f.ev \in Event /\ f.tr \in TransitionSet
  BY DEF IInv, OrderTypeOK
<1>3. f.tr.g # Unordered => f.tr.g \in Chain
  BY <1>2 DEF TransitionSet
<1>4. transitionReady(gs, f.tr)
  BY <1>1 DEF transitionReady, Ready, Fits
<1>5. gs' = transition(gs, f.tr) /\ selected' = selected \ {f.batch} /\ pc' = "scan"
      /\ frontier' = frontier \ {f} /\ events' = Append(events, f.ev) /\ UNCHANGED tracer
  BY <1>1, <1>4 DEF Merge
<1>6. f.tr.g # Unordered => Resolve(gs[f.tr.g], f.tr.next) = f.ev.post
  BY <1>1 DEF Fits
<1>7. gs' = IF ChainOf(f.ev) = Unordered THEN gs
            ELSE [gs EXCEPT ![ChainOf(f.ev)] = f.ev.post]
  BY <1>1, <1>5, <1>6 DEF transition
<1> QED BY <1>1, <1>2, <1>3, <1>5, <1>7

LEMMA MergePends ==
    ASSUME IInv, NEW f \in frontier, Merge(f)
    PROVE  /\ Pending' = Pending \ {Core(f.ev)}
           /\ \A h \in frontier : h # f => Core(h.ev) # Core(f.ev)
           /\ \A p \in Proc : Waiting(p)' = Waiting(p)
<1>1. frontier' = frontier \ {f} /\ batch' = batch
  BY MergeMoves DEF tracer
<1>2. \A p \in Proc : Waiting(p)' = Waiting(p) /\ Cores(p)' = Cores(p)
  BY <1>1 DEF Waiting, Cores
<1>3. \A h \in frontier : h # f => Core(h.ev) # Core(f.ev)
  <2> SUFFICES ASSUME NEW h \in frontier, Core(h.ev) = Core(f.ev) PROVE h = f
    OBVIOUS
  <2>1. h.ev.p = f.ev.p
    BY DEF Core
  <2> QED BY <2>1 DEF IInv, FrontierInv
<1>4. ASSUME NEW p \in Proc, NEW e \in Waiting(p) PROVE Core(e) # Core(f.ev)
  <2> SUFFICES ASSUME Core(e) = Core(f.ev) PROVE FALSE
    OBVIOUS
  <2>1. PICK i \in 1..Len(batch[p]) : e = batch[p][i]
    BY DEF Waiting
  <2>2. e.p = p /\ e.p = f.ev.p /\ e.n = f.ev.n /\ f.batch = f.ev.p
    BY <2>1 DEF IInv, BatchInv, FrontierInv, Core
  <2>3. f.ev.n < e.n
    BY <2>1, <2>2 DEF IInv, FrontierInv
  <2>4. e.n \in Nat
    BY <2>1, BatchTyped DEF IInv
  <2> QED BY <2>2, <2>3, <2>4
<1>5. Advanced' = Advanced \ {Core(f.ev)}
  BY <1>1, <1>3 DEF Advanced
<1>6. \A p \in Proc : Core(f.ev) \notin Cores(p)
  BY <1>4 DEF Cores
<1>7. Pending' = (UNION {Cores(p) : p \in Proc}) \cup (Advanced \ {Core(f.ev)})
  <2>1. Pending' = (UNION {Cores(p)' : p \in Proc}) \cup Advanced'
    BY DEF Pending
  <2> QED BY <1>2, <1>5, <2>1
<1>8. Pending' = Pending \ {Core(f.ev)}
  <2> DEFINE All == {Cores(p) : p \in Proc}
  <2>1. Core(f.ev) \notin UNION All
    BY <1>6
  <2>2. Pending' = (UNION All) \cup (Advanced \ {Core(f.ev)}) /\ Pending = (UNION All) \cup Advanced
    BY <1>7 DEF Pending
  <2> HIDE DEF All
  <2> QED BY <2>1, <2>2
<1> QED BY <1>2, <1>3, <1>8

LEMMA MergeKeeps == ASSUME IInv, NEW f \in frontier, Merge(f) PROVE IInv'
<1> DEFINE x == Core(f.ev)
           c == ChainOf(f.ev)
<1>1. /\ gs' = IF c = Unordered THEN gs ELSE [gs EXCEPT ![c] = f.ev.post]
      /\ selected' = selected \ {f.batch} /\ pc' = "scan"
      /\ frontier' = frontier \ {f} /\ events' = Append(events, f.ev)
      /\ c # Unordered => c \in Chain /\ gs[c] = f.ev.pre
      /\ f.ev \in Event /\ f.batch = f.ev.p
  BY MergeMoves
<1>2. UNCHANGED <<batch, n, clock, rg, lastp, cur, mode, blockTs, open, on, starting>>
  BY MergeMoves DEF tracer
<1>3. /\ Pending' = Pending \ {x}
      /\ \A h \in frontier : h # f => Core(h.ev) # x
      /\ \A p \in Proc : Waiting(p)' = Waiting(p)
  BY MergePends
<1>4. Pending \in SUBSET CoreSet /\ gs \in Chains /\ rg \in Chains /\ Line(Pending, gs, rg)
      /\ x \in Pending /\ x \in CoreSet
  <2>1. x \in Advanced
    BY DEF Advanced
  <2> QED BY <2>1, PendingTyped, PendingMembers DEF IInv, OrderTypeOK, TracerTypeOK, Chains
<1>5. x.n = f.ev.n /\ x.c = c /\ x.pre = f.ev.pre /\ x.post = f.ev.post /\ x.p = f.ev.p
  BY DEF Core
<1>6. c # Unordered => c \in Chain /\ x \in On(Pending, c) /\ x.pre = gs[c]
  BY <1>1, <1>4, <1>5 DEF On
<1> HIDE DEF x, c
<1>7. OrderTypeOK'
  <2>1. f.ev.post \in GState
    BY <1>1 DEF Event
  <2>2. gs' \in [Chain -> GState] /\ events' \in Seq(Event) /\ selected' \subseteq Proc
    BY <1>1, <2>1 DEF IInv, OrderTypeOK, PhaseInv, Merge
  <2>3. TracerTypeOK'
    BY <1>2 DEF IInv, OrderTypeOK, TracerTypeOK
  <2> QED BY <1>1, <2>2, <2>3 DEF IInv, OrderTypeOK
<1>8. TracerInv'
  BY <1>2 DEF IInv, TracerInv
<1>9. Line(Pending, gs, rg)'
  <2>0. Line(Pending, gs, rg)' <=> Line(Pending', gs', rg')
    BY DEF Line, On
  <2>1. CASE c = Unordered
    <3>1. \A b \in Chain : On(Pending \ {x}, b) = On(Pending, b)
      BY <1>5, <2>1, Sentinels DEF On, Chain
    <3>2. \A d \in Pending \ {x}, e \in Pending \ {x} : d.n = e.n => d = e
      BY <1>4 DEF Line
    <3>3. Line(Pending \ {x}, gs, rg)
      BY <1>4, <3>1, <3>2, LineIgnores
    <3> QED BY <1>1, <1>2, <1>3, <2>0, <2>1, <3>3
  <2>2. CASE c # Unordered
    <3>1. Line(Pending \ {x}, [gs EXCEPT ![c] = x.post], rg)
      BY <1>4, <1>6, <2>2, LineShrinks
    <3> QED BY <1>1, <1>2, <1>3, <1>5, <2>0, <2>2, <3>1
  <2> QED BY <2>1, <2>2
<1>10. Behind'
  <2>1. CASE c = Unordered
    BY <1>1, <1>2, <2>1 DEF IInv, Behind
  <2>2. CASE c # Unordered
    <3>1. M(x.post) <= M(rg[c])
      BY <1>4, <1>6, <2>2 DEF Line
    <3>2. \A b \in Chain : gs'[b] = IF b = c THEN x.post ELSE gs[b]
      BY <1>1, <1>4, <1>5, <2>2 DEF Chains
    <3> QED BY <1>2, <3>1, <3>2 DEF IInv, Behind
  <2> QED BY <2>1, <2>2
<1>11. BatchInv'
  BY <1>2 DEF IInv, BatchInv
<1>12. CoverInv'
  <2> SUFFICES ASSUME NEW p \in Proc, NEW e \in Waiting(p)' PROVE Covered(p, e, Pending)'
    BY DEF CoverInv
  <2>1. Covered(p, e, Pending)
    BY <1>3 DEF IInv, CoverInv
  <2> SUFFICES ASSUME Unnumbered(e), NEW d \in On(Pending', ChainOf(e)), d.n < e.n
               PROVE  \E y \in On(Pending', ChainOf(e)) : y.p = p /\ d.n <= y.n /\ y.n < e.n
    BY DEF Covered, On
  <2>2. d \in On(Pending, ChainOf(e)) /\ d # x
    BY <1>3 DEF On
  <2>3. PICK y \in On(Pending, ChainOf(e)) : y.p = p /\ d.n <= y.n /\ y.n < e.n
    BY <2>1, <2>2 DEF Covered
  <2>4. y # x
    <3> SUFFICES ASSUME y = x PROVE FALSE
      OBVIOUS
    <3>1. ChainOf(e) = c /\ c # Unordered
      BY <1>5, <2>3 DEF On, Unnumbered, ChainOf
    <3>2. x.n < d.n
      BY <1>4, <1>6, <2>2, <3>1, NextIsFirst
    <3>3. x.n \in Nat /\ d.n \in Nat
      BY <1>4, <2>2 DEF On, CoreSet
    <3> QED BY <2>3, <3>2, <3>3
  <2> QED BY <1>3, <2>3, <2>4 DEF On
<1>13. FrontierInv'
  <2>1. ASSUME NEW h \in frontier'
        PROVE  /\ h.batch = h.ev.p /\ h.batch \in selected' /\ h.ev.n <= n'
               /\ Fits(h.tr, h.ev) /\ h.tr.g = ChainOf(h.ev)
               /\ h.tr.g # Unordered => gs'[h.tr.g] = h.ev.pre
               /\ \A e \in frontier' : e.batch = h.batch => e = h
               /\ \A i \in 1..Len(batch'[h.batch]) : h.ev.n < batch'[h.batch][i].n
    <3>1. h \in frontier /\ h # f
      BY <1>1
    <3>2. /\ h.batch = h.ev.p /\ h.batch \in selected /\ h.ev.n <= n
          /\ Fits(h.tr, h.ev) /\ h.tr.g = ChainOf(h.ev)
          /\ h.tr.g # Unordered => gs[h.tr.g] = h.ev.pre
          /\ \A e \in frontier : e.batch = h.batch => e = h
          /\ \A i \in 1..Len(batch[h.batch]) : h.ev.n < batch[h.batch][i].n
      BY <3>1 DEF IInv, FrontierInv
    <3>3. h.batch # f.batch
      BY <3>1, <3>2
    <3>4. h.tr.g # Unordered => gs'[h.tr.g] = h.ev.pre
      <4> SUFFICES ASSUME h.tr.g # Unordered PROVE gs'[h.tr.g] = h.ev.pre
        OBVIOUS
      <4>1. h.tr.g \in Chain
        BY <3>1 DEF IInv, OrderTypeOK, TransitionSet
      <4>2. h.tr.g # c
        <5> SUFFICES ASSUME h.tr.g = c PROVE FALSE
          OBVIOUS
        <5>1. Core(h.ev) \in Advanced
          BY <3>1 DEF Advanced
        <5>2. Core(h.ev) \in On(Pending, c) /\ Core(h.ev).pre = gs[c] /\ Core(h.ev) # x
          BY <1>3, <3>1, <3>2, <5>1, PendingMembers DEF On, Core
        <5> QED BY <1>4, <1>6, <5>2, NextIsFirst
      <4>3. gs'[h.tr.g] = gs[h.tr.g]
        BY <1>1, <1>4, <4>1, <4>2 DEF Chains
      <4> QED BY <3>2, <4>3
    <3> QED BY <1>1, <1>2, <3>2, <3>3, <3>4
  <2>2. ASSUME NEW p \in selected' PROVE \E h \in frontier' : h.batch = p
    BY <1>1 DEF IInv, FrontierInv
  <2> QED BY <2>1, <2>2 DEF FrontierInv
<1>14. PhaseInv' /\ NoBrokenMerge'
  BY <1>1 DEF PhaseInv, NoBrokenMerge, Broken
<1> QED BY <1>7, <1>8, <1>9, <1>10, <1>11, <1>12, <1>13, <1>14 DEF IInv

\* The steps that touch neither batches nor frontier.
LEMMA VerdictKeeps ==
    ASSUME IInv, UNCHANGED <<tracer, selected, frontier, gs>>, pc \in {"trace", "scan", "exits"},
           \/ pc' = "scan" /\ events' = events
           \/ pc' \in {"exits", "timeOrder", "stray"} /\ events' = events
           \/ pc' = "ordered"
    PROVE  IInv'
<1>1. /\ UNCHANGED <<batch, n, clock, rg, lastp, cur, mode, blockTs, open, on, starting>>
      /\ UNCHANGED <<selected, frontier, gs>>
  BY DEF tracer
<1>2. (\A p \in Proc : Waiting(p)' = Waiting(p)) /\ Pending' = Pending
  BY <1>1 DEF Waiting, Cores, Advanced, Pending
<1>3. OrderTypeOK'
  BY <1>1 DEF IInv, OrderTypeOK, TracerTypeOK, Verdicts, Broken
<1>4. TracerInv' /\ BatchInv' /\ FrontierInv' /\ Behind'
  BY <1>1 DEF IInv, TracerInv, BatchInv, FrontierInv, Behind
<1>5. Line(Pending, gs, rg)'
  BY <1>1, <1>2 DEF IInv, Line, On
<1>6. CoverInv'
  BY <1>2 DEF IInv, CoverInv, Covered, On
<1>7. PhaseInv' /\ NoBrokenMerge'
  BY DEF PhaseInv, NoBrokenMerge, Broken
<1> QED BY <1>3, <1>4, <1>5, <1>6, <1>7 DEF IInv

LEMMA StutterKeeps == IInv /\ UNCHANGED vars => IInv'
<1> SUFFICES ASSUME IInv, UNCHANGED vars PROVE IInv'
  OBVIOUS
<1>1. /\ UNCHANGED <<batch, n, clock, rg, lastp, cur, mode, blockTs, open, on, starting>>
      /\ UNCHANGED <<pc, selected, frontier, gs, events>>
  BY DEF vars, tracer, order
<1>2. (\A p \in Proc : Waiting(p)' = Waiting(p)) /\ Pending' = Pending
  BY <1>1 DEF Waiting, Cores, Advanced, Pending
<1>3. OrderTypeOK'
  BY <1>1 DEF IInv, OrderTypeOK, TracerTypeOK
<1>4. TracerInv' /\ BatchInv' /\ FrontierInv' /\ Behind'
  BY <1>1 DEF IInv, TracerInv, BatchInv, FrontierInv, Behind
<1>5. Line(Pending, gs, rg)'
  BY <1>1, <1>2 DEF IInv, Line, On
<1>6. CoverInv'
  BY <1>2 DEF IInv, CoverInv, Covered, On
<1>7. PhaseInv' /\ NoBrokenMerge'
  BY <1>1, <1>2 DEF IInv, PhaseInv, Newest, On, NoBrokenMerge
<1> QED BY <1>3, <1>4, <1>5, <1>6, <1>7 DEF IInv

LEMMA NextKeeps == IInv /\ [Next]_vars => IInv'
<1> SUFFICES ASSUME IInv, [Next]_vars PROVE IInv'
  OBVIOUS
<1>1. CASE Trace
  BY <1>1, TraceKeeps
<1>2. CASE Begin
  BY <1>2, VerdictKeeps DEF Begin
<1>3. CASE Scan
  BY <1>3, ScanKeeps
<1>4. CASE \E f \in frontier : Merge(f)
  BY <1>4, MergeKeeps
<1>5. CASE CheckOrder
  <2>1. pc' \in {"exits", "timeOrder"}
    BY <1>5 DEF CheckOrder
  <2> QED BY <1>5, <2>1, VerdictKeeps DEF CheckOrder
<1>6. CASE FixSysExits
  <2>1. \/ pc' \in {"timeOrder", "stray"} /\ events' = events
        \/ pc' = "ordered"
    BY <1>6 DEF FixSysExits
  <2> QED BY <1>6, <2>1, VerdictKeeps DEF FixSysExits
<1>7. CASE Done \/ UNCHANGED vars
  BY <1>7, StutterKeeps DEF Done
<1> QED BY <1>1, <1>2, <1>3, <1>4, <1>5, <1>6, <1>7 DEF Next, Reorder
-----------------------------------------------------------------------------
\* The invariant holds in every state of the runtime and of order1007.
THEOREM Inductive == Spec => []IInv
<1>1. Init => IInv
  BY InitHolds
<1>2. IInv /\ [Next]_vars => IInv'
  BY NextKeeps
<1> QED BY <1>1, <1>2, PTL DEF Spec

\* Type correctness: every variable of the runtime and of order1007, the
\* events of the stream among them, keeps its type.
THEOREM TypeCorrectness == Spec => []OrderTypeOK
<1>1. IInv => OrderTypeOK
  BY DEF IInv
<1> QED BY <1>1, Inductive, PTL

\* For any number of Ps, goroutines and events, and for any clocks, a trace
\* the runtime can write is merged to its end: order1007 never reports that
\* it has no consistent ordering (order.go:86) and reaches neither of its
\* panics (order.go:95 and 206).
THEOREM MergeSucceeds == Spec => []NoBrokenMerge
<1>1. IInv => NoBrokenMerge
  BY DEF IInv
<1> QED BY <1>1, Inductive, PTL

-----------------------------------------------------------------------------
(***************************************************************************)
(* What order1007 makes of a trace: the stream holds every event the       *)
(* runtime wrote exactly once, keeps the order of every P until syscall    *)
(* exits are corrected, keeps the order of every chain, finds the block of *)
(* every syscall exit it corrects, and is the runtime's own order if the   *)
(* clocks agree.                                                           *)
(*                                                                         *)
(* The argument: the events written so far, merged or not, are numbered    *)
(* 1..n without gap or repetition, whatever the merge has done (Numbering).*)
(* A merged event is older than everything pending of its P and of its     *)
(* chain (Raw), because a head is taken only when it is next on its chain. *)
(* Every syscall exit knows the block before it (Exits), because the       *)
(* runtime does while the call lasts (Calls).  Sorting by time permutes    *)
(* the stream and keeps the order of equal timestamps (SortPermutes,       *)
(* SortSorts); a corrected exit does not pass its block, so no chain is    *)
(* turned around.                                                          *)
(***************************************************************************)
(***************************************************************************)
(* sort.Stable                                                             *)
(***************************************************************************)
\* The elements that go before element i, itself included, and its place.
Before(s, i) == {j \in DOMAIN s : \/ s[j].ts < s[i].ts
                                  \/ (s[j].ts = s[i].ts /\ j <= i)}
Place(s, i)  == Cardinality(Before(s, i))

\* The element that ends up at position k.
Origin(s, k) == CHOOSE i \in DOMAIN s : Place(s, i) = k

LEMMA SortByPlace ==
    ASSUME NEW s
    PROVE  StableSort(s) = [k \in DOMAIN s |-> s[Origin(s, k)]]
BY DEF StableSort, Origin, Place, Before

LEMMA Elements ==
    ASSUME NEW s \in Seq(Event), NEW i \in DOMAIN s
    PROVE  s[i] \in Event /\ s[i].ts \in Nat /\ s[i].n \in Nat /\ i \in Nat /\ i \in 1..Len(s)
<1>1. s[i] \in Event /\ i \in Nat /\ i \in 1..Len(s)
  OBVIOUS
<1> QED BY <1>1 DEF Event

\* Of two elements one goes first, and it has the lower place.
LEMMA PlaceOrders ==
    ASSUME NEW s \in Seq(Event), NEW i \in DOMAIN s, NEW j \in DOMAIN s,
           s[i].ts < s[j].ts \/ (s[i].ts = s[j].ts /\ i < j)
    PROVE  Place(s, i) < Place(s, j)
<1>1. DOMAIN s = 1..Len(s) /\ Len(s) \in Nat
  OBVIOUS
<1>2. \A k \in DOMAIN s : s[k].ts \in Nat /\ k \in Nat
  BY Elements
<1>3. Before(s, i) \subseteq Before(s, j)
  BY <1>2 DEF Before
<1>4. j \in Before(s, j) /\ j \notin Before(s, i)
  BY <1>2 DEF Before
<1>5. IsFiniteSet(DOMAIN s)
  BY <1>1, FS_Interval
<1>6. IsFiniteSet(Before(s, j))
  BY <1>5, FS_Subset DEF Before
<1>7. /\ IsFiniteSet(Before(s, i)) /\ Cardinality(Before(s, i)) <= Cardinality(Before(s, j))
      /\ Cardinality(Before(s, i)) # Cardinality(Before(s, j))
  BY <1>3, <1>4, <1>6, FS_Subset
<1>8. Cardinality(Before(s, i)) \in Nat /\ Cardinality(Before(s, j)) \in Nat
  BY <1>6, <1>7, FS_CardinalityType
<1> QED BY <1>7, <1>8 DEF Place

LEMMA PlaceTyped ==
    ASSUME NEW s \in Seq(Event), NEW i \in DOMAIN s
    PROVE  Place(s, i) \in DOMAIN s
<1>1. DOMAIN s = 1..Len(s) /\ Len(s) \in Nat
  OBVIOUS
<1>2. i \in Before(s, i) /\ Before(s, i) \subseteq 1..Len(s)
  BY <1>1, Elements DEF Before
<1>3. IsFiniteSet(1..Len(s)) /\ Cardinality(1..Len(s)) = Len(s)
  <2>1. 1 \in Int /\ Len(s) \in Int
    BY <1>1
  <2>2. IsFiniteSet(1..Len(s)) /\ Cardinality(1..Len(s)) = IF 1 > Len(s) THEN 0 ELSE Len(s) - 1 + 1
    BY <2>1, FS_Interval
  <2> QED BY <1>1, <2>2
<1>4. IsFiniteSet(Before(s, i)) /\ Cardinality(Before(s, i)) <= Len(s)
  BY <1>2, <1>3, FS_Subset
<1>5. Cardinality(Before(s, i)) \in Nat /\ Cardinality(Before(s, i)) # 0
  BY <1>2, <1>4, FS_CardinalityType, FS_EmptySet
<1> QED BY <1>1, <1>4, <1>5 DEF Place

\* Every position is the place of exactly one element.
LEMMA SortPermutes ==
    ASSUME NEW s \in Seq(Event)
    PROVE  /\ \A k \in DOMAIN s : Origin(s, k) \in DOMAIN s /\ Place(s, Origin(s, k)) = k
           /\ \A i \in DOMAIN s : Origin(s, Place(s, i)) = i
<1> DEFINE D == 1..Len(s)
           place == [i \in D |-> Place(s, i)]
<1>1. DOMAIN s = D /\ Len(s) \in Nat /\ IsFiniteSet(D)
  <2>1. DOMAIN s = D /\ Len(s) \in Nat
    OBVIOUS
  <2> QED BY <2>1, FS_Interval
<1>2. ASSUME NEW i \in D, NEW j \in D, i # j PROVE Place(s, i) # Place(s, j)
  <2>1. s[i].ts \in Nat /\ s[j].ts \in Nat /\ i \in Nat /\ j \in Nat
    BY <1>1, Elements
  <2>2. Place(s, i) \in Nat /\ Place(s, j) \in Nat
    BY <1>1, PlaceTyped
  <2>3. CASE s[i].ts < s[j].ts \/ (s[i].ts = s[j].ts /\ i < j)
    BY <1>1, <2>2, <2>3, PlaceOrders
  <2>4. CASE s[j].ts < s[i].ts \/ (s[j].ts = s[i].ts /\ j < i)
    BY <1>1, <2>2, <2>4, PlaceOrders
  <2> QED BY <1>2, <2>1, <2>3, <2>4
<1>3. place \in Injection(D, D)
  <2>1. place \in [D -> D]
    BY <1>1, PlaceTyped
  <2> QED BY <1>2, <2>1 DEF Injection, IsInjective
<1>4. place \in Surjection(D, D)
  <2> HIDE DEF place, D
  <2> QED BY <1>1, <1>3, FS_Injection
<1>5. \A k \in D : \E i \in D : Place(s, i) = k
  BY <1>4 DEF Surjection
<1>6. \A k \in D : Origin(s, k) \in D /\ Place(s, Origin(s, k)) = k
  BY <1>1, <1>5 DEF Origin
<1>7. ASSUME NEW i \in D PROVE Origin(s, Place(s, i)) = i
  <2>1. Place(s, i) \in D
    BY <1>1, PlaceTyped
  <2>2. Origin(s, Place(s, i)) \in D /\ Place(s, Origin(s, Place(s, i))) = Place(s, i)
    BY <1>6, <2>1
  <2> QED BY <1>2, <2>2
<1> QED BY <1>1, <1>6, <1>7

\* The result is in the order of time, equal timestamps in the order they had.
LEMMA SortSorts ==
    ASSUME NEW s \in Seq(Event), NEW k \in DOMAIN s, NEW l \in DOMAIN s, k < l
    PROVE  \/ s[Origin(s, k)].ts < s[Origin(s, l)].ts
           \/ s[Origin(s, k)].ts = s[Origin(s, l)].ts /\ Origin(s, k) < Origin(s, l)
<1> DEFINE i == Origin(s, k)
           j == Origin(s, l)
<1>1. i \in DOMAIN s /\ j \in DOMAIN s /\ Place(s, i) = k /\ Place(s, j) = l
  BY SortPermutes
<1> HIDE DEF i, j
<1>2. DOMAIN s = 1..Len(s) /\ Len(s) \in Nat
  OBVIOUS
<1>3. s[i].ts \in Nat /\ s[j].ts \in Nat /\ i \in Nat /\ j \in Nat /\ k \in Nat /\ l \in Nat
  BY <1>1, <1>2, Elements
<1>4. i # j
  BY <1>1, <1>3
<1>5. ~(s[j].ts < s[i].ts \/ (s[j].ts = s[i].ts /\ j < i))
  BY <1>1, <1>3, PlaceOrders
<1>6. s[i].ts < s[j].ts \/ (s[i].ts = s[j].ts /\ i < j)
  BY <1>3, <1>4, <1>5
<1> QED BY <1>6 DEF i, j
-----------------------------------------------------------------------------
(***************************************************************************)
(* The events written, merged and not                                      *)
(***************************************************************************)
\* An event as the stream will show it.
Settled(e) == [e EXCEPT !.typ = Delocalized(@)]

Unmerged == (UNION {{Settled(e) : e \in Waiting(p)} : p \in Proc}) \cup {f.ev : f \in frontier}
Merged   == {events[i] : i \in 1..Len(events)}
Written  == Merged \cup Unmerged

\* Where a syscall may have begun to block.
SysBlocks == {"GoSysBlock", "GoInSyscall"}

SameChain(e, f) == ChainOf(e) = ChainOf(f) /\ ChainOf(e) # Unordered

\* The events written are numbered 1..n, once each.
Numbering ==
    /\ \A e \in Written : /\ e \in Event /\ ChainOf(e) \in Chain \cup {Unordered}
                          /\ e.n \in 1..n /\ e.ts # 0
    /\ \A e, f \in Written : e.n = f.n => e = f
    /\ \A k \in 1..n : \E e \in Written : e.n = k

\* No event was written later than the clocks say; if they agree, they order
\* the events, and a call returned before its exit was written.
Clocking ==
    /\ \A e \in Written : /\ e.ts <= clock[e.p]
                          /\ Clocks = "exact" => e.ts <= n
    /\ Monotone => \A e \in Written : /\ \A f \in Written : e.n < f.n => e.ts <= f.ts
                                      /\ e.real # 0 => e.real <= e.ts

\* b is the last event of goroutine g among the events of S older than k, and
\* blocked it in a syscall.
BlockedBy(b, g, k, S) ==
    /\ b.typ \in SysBlocks /\ b.g = g /\ b.n < k
    /\ \A e \in S : ChainOf(e) = g /\ e.n < k => e.n <= b.n

\* The exit of a syscall that carries its own time comes right after its block.
Exits ==
    \A f \in Written : f.real # 0 =>
        /\ f.typ = "GoSysExit" /\ f.g \in Goroutine /\ ChainOf(f) = f.g
        /\ \E b \in Written : BlockedBy(b, f.g, f.n, Written) /\ (Monotone => b.ts <= f.real)

\* The runtime knows when a call that lasts began to block.
InCall(g) == rg[g].status = "gWaiting" /\ mode[g] = "syscall"
Calls     == \A g \in Goroutine : InCall(g) =>
                 \E b \in Written : BlockedBy(b, g, n + 1, Written) /\ b.ts = blockTs[g]

\* Merged events follow each other, and precede the pending ones, as written
\* on every P and every chain.
Raw ==
    /\ \A i, j \in 1..Len(events) : i < j =>
         /\ events[i].n # events[j].n
         /\ events[i].p = events[j].p \/ SameChain(events[i], events[j])
                => events[i].n < events[j].n
    /\ \A i \in 1..Len(events) : \A d \in Unmerged :
         /\ events[i].n # d.n
         /\ events[i].p = d.p \/ SameChain(events[i], d) => events[i].n < d.n

\* After the loop nothing is pending and the stream is in the order of time.
Drained ==
    /\ pc \in {"exits", "ordered", "timeOrder", "stray"} =>
           frontier = {} /\ \A p \in Proc : batch[p] = <<>>
    /\ pc = "trace" => events = <<>>

\* When an event is picked, the oldest pending one can be.
Leading == pc = "merge" => \E f \in frontier : \A d \in Unmerged : f.ev.n <= d.n

\* Where the clocks agree the merged events are a prefix of what was written.
Recovered ==
    (\A e, f \in Written : e.n < f.n /\ e.p # f.p => e.ts < f.ts)
        => \A i \in 1..Len(events) : events[i].n = i

History == Numbering /\ Clocking /\ Exits /\ Calls /\ Raw /\ Recovered

StreamInv == /\ IInv /\ Drained /\ Leading
             /\ pc # "ordered" => History
             /\ NothingLost /\ ChainOrder /\ NoStrayExit
-----------------------------------------------------------------------------
LEMMA SettledTyped ==
    ASSUME NEW e \in Event
    PROVE  /\ Settled(e) \in Event /\ Settled(e).typ = Delocalized(e.typ)
           /\ Settled(e).p = e.p /\ Settled(e).n = e.n /\ Settled(e).ts = e.ts
           /\ Settled(e).g = e.g /\ Settled(e).real = e.real
           /\ ChainOf(Settled(e)) = ChainOf(e) /\ Core(Settled(e)) = Core(e)
<1> DEFINE d == [e EXCEPT !.typ = Delocalized(@)]
<1>1. d \in Event /\ Core(d) = Core(e)
  BY DelocalizedCore
<1>2. /\ d.typ = Delocalized(e.typ) /\ d.p = e.p /\ d.n = e.n /\ d.ts = e.ts /\ d.g = e.g
      /\ d.real = e.real
  BY DEF Event
<1>3. d = Settled(e)
  BY DEF Settled
<1> HIDE DEF d
<1>4. ChainOf(d) = ChainOf(e)
  BY <1>1 DEF Core
<1> QED BY <1>1, <1>2, <1>3, <1>4

LEMMA UnmergedMembers ==
    ASSUME NEW x
    PROVE  x \in Unmerged <=> \/ \E p \in Proc : \E e \in Waiting(p) : x = Settled(e)
                              \/ \E f \in frontier : x = f.ev
<1> DEFINE All == {{Settled(e) : e \in Waiting(p)} : p \in Proc}
<1>1. x \in UNION All <=> \E p \in Proc : x \in {Settled(e) : e \in Waiting(p)}
  OBVIOUS
<1> QED BY <1>1 DEF Unmerged

LEMMA UnmergedMembersNext ==
    ASSUME NEW x
    PROVE  x \in Unmerged' <=> \/ \E p \in Proc : \E e \in Waiting(p)' : x = Settled(e)
                               \/ \E f \in frontier' : x = f.ev
<1> DEFINE All == {{Settled(e) : e \in Waiting(p)'} : p \in Proc}
<1>1. x \in UNION All <=> \E p \in Proc : x \in {Settled(e) : e \in Waiting(p)'}
  OBVIOUS
<1>2. Unmerged' = (UNION All) \cup {f.ev : f \in frontier'}
  BY DEF Unmerged
<1> QED BY <1>1, <1>2

\* What is not merged is pending.
LEMMA UnmergedPends ==
    ASSUME IInv, NEW d \in Unmerged
    PROVE  d \in Event /\ Core(d) \in Pending
<1>1. CASE \E p \in Proc : \E e \in Waiting(p) : d = Settled(e)
  <2>0. PICK p \in Proc : \E e \in Waiting(p) : d = Settled(e)
    BY <1>1
  <2>1. PICK e \in Waiting(p) : d = Settled(e)
    BY <2>0
  <2>2. e \in Event
    BY BatchTyped DEF IInv, Waiting
  <2>3. d \in Event /\ Core(d) = Core(e)
    BY <2>1, <2>2, SettledTyped
  <2>4. Core(e) \in Cores(p)
    BY DEF Cores
  <2> QED BY <2>3, <2>4, PendingMembers
<1>2. CASE \E f \in frontier : d = f.ev
  <2>1. PICK f \in frontier : d = f.ev
    BY <1>2
  <2>2. d \in Event
    BY <2>1 DEF IInv, OrderTypeOK
  <2>3. Core(d) \in Advanced
    BY <2>1 DEF Advanced
  <2> QED BY <2>2, <2>3, PendingMembers
<1> QED BY <1>1, <1>2, UnmergedMembers

\* An event of the frontier is the oldest of its P.
LEMMA FrontierLeads ==
    ASSUME IInv, NEW f \in frontier, NEW d \in Unmerged, d.p = f.ev.p, d # f.ev
    PROVE  f.ev.n < d.n
<1>1. f.batch = f.ev.p /\ (\A h \in frontier : h.batch = f.batch => h = f)
      /\ \A i \in 1..Len(batch[f.batch]) : f.ev.n < batch[f.batch][i].n
  BY DEF IInv, FrontierInv
<1>2. CASE \E p \in Proc : \E e \in Waiting(p) : d = Settled(e)
  <2>0. PICK p \in Proc : \E e \in Waiting(p) : d = Settled(e)
    BY <1>2
  <2>1. PICK e \in Waiting(p) : d = Settled(e)
    BY <2>0
  <2>2. PICK i \in 1..Len(batch[p]) : e = batch[p][i]
    BY DEF Waiting
  <2>3. e \in Event /\ e.p = p
    BY <2>2, BatchTyped DEF IInv, BatchInv
  <2>4. d.p = p /\ d.n = e.n
    BY <2>1, <2>3, SettledTyped
  <2> QED BY <1>1, <2>2, <2>4
<1>3. CASE \E h \in frontier : d = h.ev
  <2>1. PICK h \in frontier : d = h.ev
    BY <1>3
  <2>2. h.batch = h.ev.p
    BY DEF IInv, FrontierInv
  <2> QED BY <1>1, <2>1, <2>2
<1> QED BY <1>2, <1>3, UnmergedMembers
-----------------------------------------------------------------------------
(***************************************************************************)
(* How the steps move events                                               *)
(***************************************************************************)
LEMMA ScanSettles ==
    ASSUME IInv, Scan
    PROVE  Unmerged' = Unmerged /\ Merged' = Merged /\ Written' = Written
<1>1. frontier' = frontier \cup {OrderEvent(p) : p \in Ripe} /\ events' = events
  BY DEF Scan
<1>2. \A p \in Ripe : OrderEvent(p).ev = Settled(Head(batch[p])) /\ p \in Proc
  BY DEF OrderEvent, Settled, Ripe
<1>3. ASSUME NEW x \in Unmerged PROVE x \in Unmerged'
  <2>1. CASE \E f \in frontier : x = f.ev
    BY <1>1, <2>1, UnmergedMembersNext
  <2>2. CASE \E p \in Proc : \E e \in Waiting(p) : x = Settled(e)
    <3>1. PICK p \in Proc : \E e \in Waiting(p) : x = Settled(e)
      BY <2>2
    <3>2. PICK e \in Waiting(p) : x = Settled(e)
      BY <3>1
    <3>3. CASE e \in Waiting(p)'
      BY <3>2, <3>3, UnmergedMembersNext
    <3>4. CASE e \notin Waiting(p)'
      <4>1. p \in Ripe /\ e = Head(batch[p])
        BY <3>4, ScanShifts
      <4>2. OrderEvent(p) \in frontier' /\ OrderEvent(p).ev = x
        BY <1>1, <1>2, <3>2, <4>1
      <4> QED BY <4>2, UnmergedMembersNext
    <3> QED BY <3>3, <3>4
  <2> QED BY <2>1, <2>2, UnmergedMembers
<1>4. ASSUME NEW x \in Unmerged' PROVE x \in Unmerged
  <2>1. CASE \E f \in frontier' : x = f.ev
    <3>1. PICK f \in frontier' : x = f.ev
      BY <2>1
    <3>2. CASE f \in frontier
      BY <3>1, <3>2, UnmergedMembers
    <3>3. CASE f \notin frontier
      <4>1. PICK p \in Ripe : f = OrderEvent(p)
        BY <1>1, <3>3
      <4>2. p \in Proc /\ Head(batch[p]) \in Waiting(p)
        BY HeadPends DEF Ripe
      <4> QED BY <1>2, <3>1, <4>1, <4>2, UnmergedMembers
    <3> QED BY <3>2, <3>3
  <2>2. CASE \E p \in Proc : \E e \in Waiting(p)' : x = Settled(e)
    <3>1. PICK p \in Proc : \E e \in Waiting(p)' : x = Settled(e)
      BY <2>2
    <3>2. Waiting(p)' \subseteq Waiting(p)
      BY ScanShifts
    <3> QED BY <3>1, <3>2, UnmergedMembers
  <2> QED BY <2>1, <2>2, UnmergedMembersNext
<1>5. Unmerged' = Unmerged
  BY <1>3, <1>4
<1>6. Merged' = Merged
  BY <1>1 DEF Merged
<1> QED BY <1>5, <1>6 DEF Written

LEMMA MergeSettles ==
    ASSUME IInv, NEW f \in frontier, Merge(f), Len(events) \in Nat, events \in Seq(Event)
    PROVE  /\ f.ev \in Unmerged /\ Unmerged' = Unmerged \ {f.ev} /\ Written' = Written
           /\ Len(events') = Len(events) + 1 /\ events'[Len(events) + 1] = f.ev
           /\ \A i \in 1..Len(events) : events'[i] = events[i]
<1>1. frontier' = frontier \ {f} /\ events' = Append(events, f.ev) /\ UNCHANGED tracer
      /\ f.ev \in Event
  BY MergeMoves
<1>2. /\ Len(events') = Len(events) + 1 /\ events'[Len(events) + 1] = f.ev
      /\ \A i \in 1..Len(events) : events'[i] = events[i]
  BY <1>1
<1>3. f.ev \in Unmerged
  BY UnmergedMembers
<1>4. \A p \in Proc : Waiting(p)' = Waiting(p)
  BY MergePends
<1>5. \A h \in frontier : h # f => h.ev # f.ev
  BY MergePends
<1>6. ASSUME NEW p \in Proc, NEW e \in Waiting(p) PROVE Settled(e) # f.ev
  <2>1. PICK i \in 1..Len(batch[p]) : e = batch[p][i]
    BY DEF Waiting
  <2>2. e \in Event /\ e.p = p /\ f.batch = f.ev.p /\ f.ev.n \in Nat /\ e.n \in Nat
    BY <1>1, <2>1, BatchTyped DEF IInv, BatchInv, FrontierInv, Event
  <2>3. Settled(e).n = e.n /\ Settled(e).p = p
    BY <2>2, SettledTyped
  <2>4. p = f.ev.p => f.ev.n < e.n
    BY <2>1, <2>2 DEF IInv, FrontierInv
  <2> QED BY <2>2, <2>3, <2>4
<1>7. ASSUME NEW x PROVE x \in Unmerged' <=> x \in Unmerged /\ x # f.ev
  <2>1. x \in Unmerged' <=> \/ \E p \in Proc : \E e \in Waiting(p) : x = Settled(e)
                            \/ \E h \in frontier : h # f /\ x = h.ev
    BY <1>1, <1>4, UnmergedMembersNext
  <2>2. x \in Unmerged <=> \/ \E p \in Proc : \E e \in Waiting(p) : x = Settled(e)
                           \/ \E h \in frontier : x = h.ev
    BY UnmergedMembers
  <2> QED BY <1>5, <1>6, <2>1, <2>2
<1>8. Unmerged' = Unmerged \ {f.ev}
  BY <1>7
<1>9. Merged' = Merged \cup {f.ev}
  <2>1. 1..Len(events') = 1..Len(events) \cup {Len(events) + 1}
    BY <1>2
  <2>2. Merged' = {events'[i] : i \in 1..Len(events')}
    BY DEF Merged
  <2> QED BY <1>2, <2>1, <2>2 DEF Merged
<1>10. Written' = Written
  BY <1>3, <1>8, <1>9 DEF Written
<1> QED BY <1>2, <1>3, <1>8, <1>10

LEMMA EmitSettles ==
    ASSUME OrderTypeOK, NEW e \in Event, Emit(e), UNCHANGED <<frontier, events>>
    PROVE  /\ Unmerged' = Unmerged \cup {Settled(e)} /\ Merged' = Merged
           /\ Written' = Written \cup {Settled(e)}
<1>1. /\ Waiting(e.p)' = Waiting(e.p) \cup {e} /\ e.p \in Proc
      /\ \A p \in Proc \ {e.p} : Waiting(p)' = Waiting(p)
  BY EmitPends DEF Event
<1>2. ASSUME NEW x PROVE x \in Unmerged' <=> x \in Unmerged \/ x = Settled(e)
  <2>1. x \in Unmerged' <=> \/ \E p \in Proc : \E y \in Waiting(p)' : x = Settled(y)
                            \/ \E h \in frontier : x = h.ev
    BY UnmergedMembersNext
  <2>2. x \in Unmerged <=> \/ \E p \in Proc : \E y \in Waiting(p) : x = Settled(y)
                           \/ \E h \in frontier : x = h.ev
    BY UnmergedMembers
  <2>3. (\E p \in Proc : \E y \in Waiting(p)' : x = Settled(y))
           <=> (\E p \in Proc : \E y \in Waiting(p) : x = Settled(y)) \/ x = Settled(e)
    BY <1>1
  <2> QED BY <2>1, <2>2, <2>3
<1>3. Unmerged' = Unmerged \cup {Settled(e)}
  BY <1>2
<1>4. Merged' = Merged
  BY DEF Merged
<1> QED BY <1>3, <1>4 DEF Written

LEMMA NothingSettles ==
    ASSUME UNCHANGED <<batch, frontier, events>>
    PROVE  Unmerged' = Unmerged /\ Merged' = Merged /\ Written' = Written
<1>1. \A p \in Proc : Waiting(p)' = Waiting(p)
  BY DEF Waiting
<1>2. Unmerged' = Unmerged
  BY <1>1 DEF Unmerged, Waiting
<1>3. Merged' = Merged
  BY DEF Merged
<1> QED BY <1>2, <1>3 DEF Written
-----------------------------------------------------------------------------
(***************************************************************************)
(* What the runtime knows when it writes an event                          *)
(***************************************************************************)
\* A syscall exit that carries its own time belongs to a call that lasts.
Returns(e) ==
    e.real # 0 => /\ e.typ = "GoSysExit" /\ e.g \in Goroutine /\ e.arg = e.g /\ InCall(e.g)
                  /\ Monotone => blockTs[e.g] <= e.real /\ e.real <= e.ts

\* A call that lasts has just blocked, or e is not about its goroutine.
CallsKept(e) ==
    \A h \in Goroutine : InCall(h)' =>
        \/ InCall(h) /\ blockTs'[h] = blockTs[h] /\ ChainOf(e) # h
        \/ e.typ \in SysBlocks /\ e.g = h /\ blockTs'[h] = e.ts

Notes(e) ==
    /\ e \in Event /\ Emit(e) /\ e.n = n + 1 /\ e.ts \in Now(e.p)
    /\ Returns(e) /\ CallsKept(e)

Quiet == UNCHANGED <<batch, n, clock, rg, mode, blockTs>>

\* Only the mode of the goroutine P runs may become "syscall".
ModeKept(p) == \A h \in Goroutine : mode'[h] = "syscall" => mode[h] = "syscall" \/ h = cur[p]

LEMMA MovingChain ==
    ASSUME NEW typ, NEW p, NEW t, NEW g, NEW c \in Chain, NEW d, NEW status,
           \/ /\ typ \in {"GoCreate", "GoUnblock", "GoUnblockLocal", "GoSysExit", "GoSysExitLocal"}
              /\ c \in Goroutine
           \/ /\ typ \in SnapTypes \cup StartTypes \cup {"GoStartLocal"} \cup ParkTypes
                         \cup YieldTypes \cup {"GoSysBlock"}
              /\ g = c
           \/ typ = "GCStart" /\ c = Garbage
    PROVE  ChainOf(Moving(typ, p, t, g, c, d, status)) = c
<1> DEFINE e == Moving(typ, p, t, g, c, d, status)
<1>1. e.typ = typ /\ e.g = g /\ (c \in Goroutine => e.arg = c)
  BY Sentinels DEF Moving
<1> HIDE DEF e
<1>2. ChainOf(e) = c
  BY <1>1 DEF ChainOf, stateTransition, Transition, SnapTypes, StartTypes, ParkTypes, YieldTypes
<1> QED BY <1>2 DEF e

LEMMA MovingNotes ==
    ASSUME TracerTypeOK, TracerInv, NEW p \in Proc, NEW t \in Now(p), NEW typ \in EventTypes,
           NEW g \in Goroutine \cup {NoG}, NEW c \in Chain, NEW d \in Nat, NEW status \in gStatus,
           Emit(Moving(typ, p, t, g, c, d, status)),
           rg' = [rg EXCEPT ![c] = Moving(typ, p, t, g, c, d, status).post],
           ChainOf(Moving(typ, p, t, g, c, d, status)) = c,
           blockTs' = blockTs, ModeKept(p),
           c \in Goroutine => status # "gWaiting" \/ mode'[c] # "syscall"
    PROVE  Notes(Moving(typ, p, t, g, c, d, status))
<1> DEFINE e == Moving(typ, p, t, g, c, d, status)
<1>1. e \in Event
  BY NowTyped, MovingTyped
<1>2. e.n = n + 1 /\ e.ts = t /\ e.p = p /\ e.real = 0 /\ e.post.status = status
  BY DEF Moving, gState
<1>3. Emit(e) /\ rg' = [rg EXCEPT ![c] = e.post] /\ ChainOf(e) = c
  OBVIOUS
<1> HIDE DEF e
<1>4. ASSUME NEW h \in Goroutine, InCall(h)'
      PROVE  InCall(h) /\ blockTs'[h] = blockTs[h] /\ ChainOf(e) # h
  <2>1. rg'[h].status = "gWaiting" /\ mode'[h] = "syscall"
    BY <1>4 DEF InCall
  <2>2. h \in Chain /\ rg \in [Chain -> GState]
    BY DEF Chain, TracerTypeOK
  <2>3. h # c
    BY <1>2, <1>3, <2>1, <2>2
  <2>4. rg'[h] = rg[h]
    BY <1>3, <2>2, <2>3
  <2>5. h # cur[p]
    BY <2>1, <2>4, Sentinels DEF TracerInv
  <2>6. mode[h] = "syscall"
    BY <2>1, <2>5 DEF ModeKept
  <2> QED BY <1>3, <2>1, <2>3, <2>4, <2>6 DEF InCall
<1>5. Notes(e)
  BY <1>1, <1>2, <1>3, <1>4 DEF Notes, Returns, CallsKept
<1> QED BY <1>5 DEF e

LEMMA PlainNotes ==
    ASSUME TracerTypeOK, TracerInv, NEW p \in Proc, NEW t \in Now(p),
           NEW typ \in PlainTypes \cup EndTypes, NEW g \in Goroutine \cup {NoG},
           Emit(Plain(typ, p, t, g)), UNCHANGED <<rg, blockTs>>, ModeKept(p)
    PROVE  Notes(Plain(typ, p, t, g))
<1> DEFINE e == Plain(typ, p, t, g)
<1>1. e \in Event
  <2>1. typ \in EventTypes
    BY DEF EventTypes, LeaveTypes
  <2> QED BY <2>1, NowTyped, PlainTyped
<1>2. e.n = n + 1 /\ e.ts = t /\ e.p = p /\ e.real = 0 /\ e.typ = typ /\ Emit(e)
  BY DEF Plain
<1> HIDE DEF e
<1>3. ChainOf(e) = Unordered
  BY <1>2 DEF ChainOf, Transition, stateTransition, SnapTypes, StartTypes, ParkTypes, YieldTypes, PlainTypes, EndTypes
<1>4. ASSUME NEW h \in Goroutine, InCall(h)'
      PROVE  InCall(h) /\ blockTs'[h] = blockTs[h] /\ ChainOf(e) # h
  <2>1. rg'[h].status = "gWaiting" /\ mode'[h] = "syscall"
    BY <1>4 DEF InCall
  <2>2. rg[h].status = "gWaiting" /\ h # NoG /\ h # Unordered
    BY <2>1, Sentinels
  <2>3. h # cur[p]
    BY <2>2 DEF TracerInv
  <2>4. mode[h] = "syscall"
    BY <2>1, <2>3 DEF ModeKept
  <2> QED BY <1>3, <2>2, <2>4 DEF InCall
<1>5. Notes(e)
  BY <1>1, <1>2, <1>4 DEF Notes, Returns, CallsKept
<1> QED BY <1>5 DEF e

\* A goroutine that acts writes what it does, and no call begins.
LEMMA BusyKept ==
    ASSUME TracerTypeOK, NEW p \in Proc, Busy(p)
    PROVE  ModeKept(p)
BY DEF Busy, ModeKept, TracerTypeOK

LEMMA SetKept ==
    ASSUME TracerTypeOK, NEW p \in Proc, NEW h \in Goroutine, NEW m,
           mode' = [mode EXCEPT ![h] = m], m # "syscall" \/ h = cur[p]
    PROVE  ModeKept(p) /\ mode'[h] = m
BY DEF ModeKept, TracerTypeOK
-----------------------------------------------------------------------------
LEMMA SnapNotes ==
    ASSUME TracerTypeOK, TracerInv, NEW t \in Now(Boot), Snapshot(t)
    PROVE  (\E e \in Event : Notes(e)) \/ Quiet
<1>0. Boot \in Proc /\ NoG \in Goroutine \cup {NoG} /\ t \in Nat /\ t # 0
  BY TracerAssumption, NowTyped
<1>1. ASSUME NEW g \in Goroutine, SnapCreate(g, t) PROVE \E e \in Event : Notes(e)
  <2> DEFINE e == Moving("GoCreate", Boot, t, NoG, g, 1, "gRunnable")
  <2>1. g \in Chain /\ "GoCreate" \in EventTypes /\ 1 \in Nat /\ "gRunnable" \in gStatus
    BY DEF Chain, EventTypes, gStatus
  <2>2. Emit(e) /\ rg' = [rg EXCEPT ![g] = e.post] /\ blockTs' = blockTs
    BY <1>1 DEF SnapCreate
  <2>3. ModeKept(Boot)
    BY <1>1 DEF SnapCreate, ModeKept, TracerTypeOK
  <2>4. ChainOf(e) = g
    BY <2>1, MovingChain
  <2>5. Notes(e)
    BY <1>0, <2>1, <2>2, <2>3, <2>4, MovingNotes
  <2> QED BY <2>5 DEF Notes
<1>2. ASSUME NEW g \in Goroutine, NEW typ \in SnapTypes, SnapBlocked(g, typ, t)
      PROVE  \E e \in Event : Notes(e)
  <2> DEFINE e == Moving(typ, Boot, t, g, g, 1, "gWaiting")
  <2>1. g \in Chain /\ typ \in EventTypes /\ g \in Goroutine \cup {NoG}
    BY DEF Chain, EventTypes
  <2>2. /\ Emit(e) /\ rg' = [rg EXCEPT ![g] = e.post]
        /\ mode' = [mode EXCEPT ![g] = IF typ = "GoInSyscall" THEN "syscall" ELSE "user"]
        /\ blockTs' = [blockTs EXCEPT ![g] = t]
    BY <1>2 DEF SnapBlocked
  <2>3. ChainOf(e) = g
    BY <2>1, MovingChain
  <2>4. e \in Event
    BY <1>0, <2>1, MovingTyped DEF gStatus
  <2>5. e.n = n + 1 /\ e.ts = t /\ e.p = Boot /\ e.real = 0 /\ e.typ = typ /\ e.g = g
    BY DEF Moving
  <2> HIDE DEF e
  <2>6. ASSUME NEW h \in Goroutine, InCall(h)', h # g
        PROVE  InCall(h) /\ blockTs'[h] = blockTs[h]
    BY <2>2, <2>6 DEF InCall, TracerTypeOK, Chain
  <2>7. InCall(g)' => typ \in SysBlocks /\ blockTs'[g] = e.ts
    BY <2>2, <2>5 DEF InCall, TracerTypeOK, SysBlocks
  <2>8. Notes(e)
    BY <2>2, <2>3, <2>4, <2>5, <2>6, <2>7 DEF Notes, Returns, CallsKept
  <2> QED BY <2>4, <2>8
<1>3. CASE StartWorld(t) /\ "ProcStart" \in Emits
  <2>1. Emit(Plain("ProcStart", Boot, t, NoG)) /\ UNCHANGED <<rg, blockTs, mode>>
    BY <1>3 DEF StartWorld
  <2>2. ModeKept(Boot)
    BY <2>1 DEF ModeKept
  <2>3. Notes(Plain("ProcStart", Boot, t, NoG))
    BY <1>0, <2>1, <2>2, PlainNotes DEF PlainTypes
  <2> QED BY <2>3 DEF Notes
<1>4. CASE StartWorld(t) /\ "ProcStart" \notin Emits
  BY <1>4 DEF StartWorld, Quiet
<1> QED BY <1>1, <1>2, <1>3, <1>4 DEF Snapshot

LEMMA StartNotes ==
    ASSUME TracerTypeOK, TracerInv, NEW p \in Proc, NEW t \in Now(p), NEW g \in Goroutine,
           GoCreate(p, g, t) \/ GoStart(p, g, t) \/ GoUnblock(p, g, t)
    PROVE  \E e \in Event : Notes(e)
<1>0. /\ g \in Chain /\ g \in Goroutine \cup {NoG} /\ cur[p] \in Goroutine \cup {NoG}
      /\ 1 \in Nat /\ {"gRunnable", "gRunning"} \subseteq gStatus
  BY DEF Chain, TracerTypeOK, gStatus
<1>1. CASE GoCreate(p, g, t)
  <2> DEFINE e == Moving("GoCreate", p, t, cur[p], g, 1, "gRunnable")
  <2>1. "GoCreate" \in EventTypes /\ ChainOf(e) = g
    BY <1>0, MovingChain DEF EventTypes
  <2>2. Emit(e) /\ rg' = [rg EXCEPT ![g] = e.post] /\ blockTs' = blockTs /\ ModeKept(p)
    BY <1>1, BusyKept DEF GoCreate
  <2>3. Notes(e)
    BY <1>0, <2>1, <2>2, MovingNotes
  <2> QED BY <2>3 DEF Notes
<1>2. CASE GoStart(p, g, t)
  <2> DEFINE typ == IF lastp[g] = p THEN "GoStartLocal" ELSE "GoStart"
             e == Moving(typ, p, t, g, g, 1, "gRunning")
  <2>1. typ \in EventTypes /\ ChainOf(e) = g
    BY <1>0, MovingChain DEF EventTypes, StartTypes, LocalTypes
  <2>2. Emit(e) /\ rg' = [rg EXCEPT ![g] = e.post] /\ blockTs' = blockTs /\ mode' = mode
    BY <1>2 DEF GoStart
  <2>3. ModeKept(p)
    BY <2>2 DEF ModeKept
  <2>4. Notes(e)
    BY <1>0, <2>1, <2>2, <2>3, MovingNotes
  <2> QED BY <2>4 DEF Notes
<1>3. CASE GoUnblock(p, g, t)
  <2> DEFINE typ == IF lastp[g] = p THEN "GoUnblockLocal" ELSE "GoUnblock"
             e == Moving(typ, p, t, cur[p], g, 1, "gRunnable")
  <2>1. typ \in EventTypes /\ ChainOf(e) = g
    BY <1>0, MovingChain DEF EventTypes, LocalTypes
  <2>2. /\ Emit(e) /\ rg' = [rg EXCEPT ![g] = e.post] /\ blockTs' = blockTs
        /\ mode' = [h \in Goroutine |-> IF h = g THEN "wakeup"
                                        ELSE IF h = cur[p] THEN "user" ELSE mode[h]]
    BY <1>3 DEF GoUnblock
  <2>3. ModeKept(p)
    BY <2>2 DEF ModeKept
  <2>4. Notes(e)
    BY <1>0, <2>1, <2>2, <2>3, MovingNotes
  <2> QED BY <2>4 DEF Notes
<1> QED BY <1>1, <1>2, <1>3

LEMMA ExitNotes ==
    ASSUME TracerTypeOK, TracerInv, NEW p \in Proc, NEW t \in Now(p), NEW g \in Goroutine,
           NEW r \in Past, GoSysExit(p, g, r, t)
    PROVE  \E e \in Event : Notes(e)
<1> DEFINE local == LocalExits /\ lastp[g] = p
           typ == IF local THEN "GoSysExitLocal" ELSE "GoSysExit"
           m == Moving(typ, p, t, IF local THEN NoG ELSE g, g, 1, "gRunnable")
           e == [m EXCEPT !.real = IF local THEN 0 ELSE r]
<1>1. /\ typ \in EventTypes /\ g \in Chain /\ (IF local THEN NoG ELSE g) \in Goroutine \cup {NoG}
      /\ t \in Nat /\ r \in Nat /\ "gRunnable" \in gStatus /\ g # Garbage
  <2>1. n \in Nat
    BY DEF TracerTypeOK
  <2> QED BY <2>1, NowTyped, TracerAssumption, Sentinels DEF EventTypes, LocalTypes, Chain, Past, gStatus
<1>2. m \in Event /\ ChainOf(m) = g
  <2>1. m \in Event
    BY <1>1, MovingTyped
  <2>2. ChainOf(m) = g
    BY <1>1, MovingChain
  <2> QED BY <2>1, <2>2
<1>3. /\ Emit(e) /\ rg' = [rg EXCEPT ![g] = e.post] /\ rg[g].status = "gWaiting"
      /\ mode[g] = "syscall" /\ blockTs' = blockTs /\ mode' = [mode EXCEPT ![g] = "user"]
      /\ r # 0 /\ Monotone => blockTs[g] <= r /\ r <= t
  BY DEF GoSysExit
<1>4. m.n = n + 1 /\ m.ts = t /\ m.p = p /\ m.typ = typ /\ (~local => m.g = g) /\ m.arg = g
  BY <1>1 DEF Moving
<1> HIDE DEF m
<1>5. /\ e \in Event /\ e.typ = m.typ /\ e.g = m.g /\ e.arg = m.arg /\ e.n = m.n /\ e.ts = m.ts
      /\ e.p = m.p /\ e.post = m.post /\ e.real = IF local THEN 0 ELSE r
  BY <1>1, <1>2 DEF Event
<1> HIDE DEF e
<1>6. ASSUME NEW h \in Goroutine, InCall(h)'
      PROVE  InCall(h) /\ blockTs'[h] = blockTs[h] /\ ChainOf(e) # h
  <2>1. mode'[h] = "syscall" /\ h # g
    BY <1>3, <1>6 DEF InCall, TracerTypeOK
  <2>2. InCall(h)
    BY <1>3, <1>6, <2>1 DEF InCall, TracerTypeOK, Chain
  <2>3. ChainOf(e) = g
    <3>1. e.typ \in {"GoSysExit", "GoSysExitLocal"} /\ e.arg = g
      BY <1>4, <1>5
    <3> QED BY <3>1 DEF ChainOf, stateTransition, Transition, SnapTypes, StartTypes, ParkTypes, YieldTypes
  <2> QED BY <1>3, <2>1, <2>2, <2>3
<1>7. Returns(e)
  <2> SUFFICES ASSUME e.real # 0
               PROVE  /\ e.typ = "GoSysExit" /\ e.g \in Goroutine /\ e.arg = e.g /\ InCall(e.g)
                      /\ Monotone => blockTs[e.g] <= e.real /\ e.real <= e.ts
    BY DEF Returns
  <2>1. ~local /\ e.real = r /\ e.g = g /\ e.arg = g /\ e.typ = "GoSysExit" /\ e.ts = t
    BY <1>4, <1>5
  <2> QED BY <1>3, <2>1 DEF InCall
<1>8. Notes(e)
  BY <1>3, <1>4, <1>5, <1>6, <1>7 DEF Notes, CallsKept
<1> QED BY <1>5, <1>8
-----------------------------------------------------------------------------
LEMMA LeaveNotes ==
    ASSUME TracerTypeOK, TracerInv, NEW p \in Proc, NEW t \in Now(p),
           \/ \E typ \in ParkTypes : GoPark(p, typ, t)
           \/ \E typ \in YieldTypes : GoYield(p, typ, t)
           \/ GoSysBlock(p, t)
    PROVE  \E e \in Event : Notes(e)
<1> DEFINE g == cur[p]
<1>0. /\ g \in Goroutine /\ g \in Chain /\ g \in Goroutine \cup {NoG} /\ 0 \in Nat
      /\ {"gWaiting", "gRunnable"} \subseteq gStatus
  BY DEF GoPark, GoYield, GoSysBlock, Acts, Chain, TracerTypeOK, gStatus
<1>1. ASSUME NEW typ \in ParkTypes, GoPark(p, typ, t) PROVE \E e \in Event : Notes(e)
  <2> DEFINE e == Moving(typ, p, t, g, g, 0, "gWaiting")
  <2>1. typ \in EventTypes /\ ChainOf(e) = g
    BY <1>0, MovingChain DEF EventTypes, LeaveTypes
  <2>2. /\ Emit(e) /\ rg' = [rg EXCEPT ![g] = e.post] /\ blockTs' = blockTs
        /\ mode' = [mode EXCEPT ![g] = "user"]
    BY <1>1 DEF GoPark
  <2>3. ModeKept(p) /\ mode'[g] # "syscall"
    BY <1>0, <2>2 DEF ModeKept, TracerTypeOK
  <2>4. Notes(e)
    BY <1>0, <2>1, <2>2, <2>3, MovingNotes
  <2> QED BY <2>4 DEF Notes
<1>2. ASSUME NEW typ \in YieldTypes, GoYield(p, typ, t) PROVE \E e \in Event : Notes(e)
  <2> DEFINE e == Moving(typ, p, t, g, g, 0, "gRunnable")
  <2>1. typ \in EventTypes /\ ChainOf(e) = g
    BY <1>0, MovingChain DEF EventTypes, LeaveTypes
  <2>2. /\ Emit(e) /\ rg' = [rg EXCEPT ![g] = e.post] /\ blockTs' = blockTs
        /\ mode' = mode \/ Busy(p)
    BY <1>2 DEF GoYield
  <2>3. ModeKept(p)
    BY <2>2, BusyKept DEF ModeKept
  <2>4. Notes(e)
    BY <1>0, <2>1, <2>2, <2>3, MovingNotes
  <2> QED BY <2>4 DEF Notes
<1>3. CASE GoSysBlock(p, t)
  <2> DEFINE e == Moving("GoSysBlock", p, t, g, g, 0, "gWaiting")
  <2>1. "GoSysBlock" \in EventTypes /\ ChainOf(e) = g
    BY <1>0, MovingChain DEF EventTypes, LeaveTypes
  <2>2. /\ Emit(e) /\ rg' = [rg EXCEPT ![g] = e.post] /\ mode' = mode
        /\ blockTs' = [blockTs EXCEPT ![g] = t]
    BY <1>3 DEF GoSysBlock
  <2>3. e \in Event
    BY <1>0, <2>1, NowTyped, MovingTyped
  <2>4. e.n = n + 1 /\ e.ts = t /\ e.p = p /\ e.real = 0 /\ e.typ = "GoSysBlock" /\ e.g = g
    BY DEF Moving
  <2> HIDE DEF e, g
  <2>5. ASSUME NEW h \in Goroutine, InCall(h)', h # g
        PROVE  InCall(h) /\ blockTs'[h] = blockTs[h]
    BY <1>0, <2>2, <2>5 DEF InCall, TracerTypeOK, Chain
  <2>6. e.typ \in SysBlocks /\ e.g = g /\ blockTs'[g] = e.ts
    BY <1>0, <2>2, <2>4 DEF TracerTypeOK, SysBlocks
  <2>7. Notes(e)
    BY <2>1, <2>2, <2>3, <2>4, <2>5, <2>6 DEF Notes, Returns, CallsKept
  <2> QED BY <2>3, <2>7
<1> QED BY <1>1, <1>2, <1>3

LEMMA OtherNotes ==
    ASSUME TracerTypeOK, TracerInv, NEW p \in Proc, NEW t \in Now(p),
           \/ ProcStart(p, t) \/ ProcStop(p, t)
           \/ \E typ \in EndTypes : GoEnd(p, typ, t)
           \/ FutileWakeup(p, t) \/ GoSysCall(p, t) \/ GCStart(p, t)
           \/ \E typ \in SpanOpens : OpenSpan(p, typ, t)
           \/ \E typ \in SpanCloses : CloseSpan(p, typ, t)
    PROVE  \E e \in Event : Notes(e)
<1>0. NoG \in Goroutine \cup {NoG} /\ cur[p] \in Goroutine \cup {NoG}
  BY DEF TracerTypeOK
<1>1. ASSUME NEW typ \in PlainTypes \cup EndTypes, NEW g \in Goroutine \cup {NoG},
             Emit(Plain(typ, p, t, g)), UNCHANGED <<rg, blockTs>>, ModeKept(p)
      PROVE  \E e \in Event : Notes(e)
  <2>1. Notes(Plain(typ, p, t, g))
    BY <1>1, PlainNotes
  <2> QED BY <2>1 DEF Notes
<1>2. mode' = mode => ModeKept(p)
  BY DEF ModeKept
<1>3. CASE ProcStart(p, t) \/ ProcStop(p, t)
  <2>1. PICK typ \in PlainTypes : Emit(Plain(typ, p, t, NoG)) /\ UNCHANGED <<rg, blockTs, mode>>
    BY <1>3 DEF ProcStart, ProcStop, PlainTypes
  <2> QED BY <1>0, <1>1, <1>2, <2>1
<1>4. CASE \E typ \in EndTypes : GoEnd(p, typ, t)
  <2>1. PICK typ \in EndTypes :
            Emit(Plain(typ, p, t, cur[p])) /\ UNCHANGED <<rg, blockTs>> /\ Busy(p)
    BY <1>4 DEF GoEnd
  <2>2. ModeKept(p)
    BY <2>1, BusyKept
  <2> QED BY <1>0, <1>1, <2>1, <2>2
<1>5. CASE FutileWakeup(p, t)
  <2>1. /\ Emit(Plain("FutileWakeup", p, t, cur[p])) /\ UNCHANGED <<rg, blockTs>>
        /\ mode' = [mode EXCEPT ![cur[p]] = "futile"] /\ cur[p] \in Goroutine
    BY <1>0, <1>5 DEF FutileWakeup, Acts
  <2>2. ModeKept(p)
    BY <2>1, SetKept
  <2> QED BY <1>0, <1>1, <2>1, <2>2 DEF PlainTypes
<1>6. CASE GoSysCall(p, t)
  <2>1. /\ Emit(Plain("GoSysCall", p, t, cur[p])) /\ UNCHANGED <<rg, blockTs>>
        /\ mode' = [mode EXCEPT ![cur[p]] = "syscall"] /\ cur[p] \in Goroutine
    BY <1>0, <1>6 DEF GoSysCall, Acts
  <2>2. ModeKept(p)
    BY <2>1, SetKept
  <2> QED BY <1>0, <1>1, <2>1, <2>2 DEF PlainTypes
<1>7. CASE GCStart(p, t)
  <2> DEFINE e == Moving("GCStart", p, t, NoG, Garbage, 1, "gDead")
  <2>1. /\ "GCStart" \in EventTypes /\ Garbage \in Chain /\ Garbage \notin Goroutine
        /\ 1 \in Nat /\ "gDead" \in gStatus
    BY Sentinels DEF EventTypes, Chain, gStatus
  <2>2. ChainOf(e) = Garbage
    BY <2>1, MovingChain
  <2>3. Emit(e) /\ rg' = [rg EXCEPT ![Garbage] = e.post] /\ blockTs' = blockTs /\ ModeKept(p)
    BY <1>2, <1>7 DEF GCStart
  <2>4. Notes(e)
    BY <1>0, <2>1, <2>2, <2>3, MovingNotes
  <2> QED BY <2>4 DEF Notes
<1>8. CASE \/ \E typ \in SpanOpens : OpenSpan(p, typ, t)
           \/ \E typ \in SpanCloses : CloseSpan(p, typ, t)
  <2>1. PICK typ \in SpanOpens \cup SpanCloses :
               Emit(SpanEvent(p, typ, t)) /\ UNCHANGED <<rg, blockTs>> /\ (Busy(p) \/ mode' = mode)
    BY <1>8 DEF OpenSpan, CloseSpan
  <2>2. ModeKept(p)
    BY <1>2, <2>1, BusyKept
  <2>3. PICK g \in Goroutine \cup {NoG} : SpanEvent(p, typ, t) = Plain(typ, p, t, g)
    BY <1>0 DEF SpanEvent
  <2>4. typ \in PlainTypes
    BY DEF SpanOpens, SpanCloses, PlainTypes
  <2> QED BY <1>1, <2>1, <2>2, <2>3, <2>4
<1> QED BY <1>3, <1>4, <1>5, <1>6, <1>7, <1>8

LEMMA TracerNotes ==
    ASSUME TracerTypeOK, TracerInv, TracerNext
    PROVE  (\E e \in Event : Notes(e)) \/ Quiet
<1>1. ASSUME NEW p \in Proc, NEW t \in Now(p), Write(p, t) PROVE \E e \in Event : Notes(e)
  <2>1. CASE \E g \in Goroutine : GoCreate(p, g, t) \/ GoStart(p, g, t) \/ GoUnblock(p, g, t)
    BY <2>1, StartNotes
  <2>2. CASE \E g \in Goroutine, r \in Past : GoSysExit(p, g, r, t)
    BY <2>2, ExitNotes
  <2>3. CASE \/ \E typ \in ParkTypes : GoPark(p, typ, t)
             \/ \E typ \in YieldTypes : GoYield(p, typ, t)
             \/ GoSysBlock(p, t)
    BY <2>3, LeaveNotes
  <2>4. CASE \/ ProcStart(p, t) \/ ProcStop(p, t)
             \/ \E typ \in EndTypes : GoEnd(p, typ, t)
             \/ FutileWakeup(p, t) \/ GoSysCall(p, t) \/ GCStart(p, t)
             \/ \E typ \in SpanOpens : OpenSpan(p, typ, t)
             \/ \E typ \in SpanCloses : CloseSpan(p, typ, t)
    BY <2>4, OtherNotes
  <2> QED BY <1>1, <2>1, <2>2, <2>3, <2>4 DEF Write
<1> QED BY <1>1, SnapNotes DEF TracerNext
-----------------------------------------------------------------------------
(***************************************************************************)
(* The runtime keeps the history                                           *)
(***************************************************************************)
\* A reading is not older than those it must not be older than.
LEMMA NowFollows ==
    ASSUME TracerTypeOK, Clocking, NEW p \in Proc, NEW t \in Now(p), NEW x \in Written,
           x \in Event, Monotone \/ x.p = p
    PROVE  x.ts <= t
<1>1. x.ts \in Nat /\ x.p \in Proc /\ t \in Nat /\ n \in Nat /\ clock[x.p] \in Nat
  BY NowTyped DEF Event, TracerTypeOK
<1>2. x.ts <= clock[x.p] /\ (Clocks = "exact" => x.ts <= n)
  BY DEF Clocking
<1>3. CASE Clocks = "exact"
  BY <1>1, <1>2, <1>3 DEF Now
<1>4. CASE Clocks # "exact"
  <2>1. \A q \in IF Monotone THEN Proc ELSE {p} : clock[q] <= t
    BY <1>4 DEF Now
  <2>2. clock[x.p] <= t
    BY <1>1, <2>1
  <2> QED BY <1>1, <1>2, <2>2
<1> QED BY <1>3, <1>4

\* A new event and those that were written before it.
LEMMA NewEvent ==
    ASSUME IInv, Numbering, NEW e \in Event, Notes(e), UNCHANGED <<frontier, events>>
    PROVE  /\ Written' = Written \cup {Settled(e)} /\ Unmerged' = Unmerged \cup {Settled(e)}
           /\ Merged' = Merged /\ n' = n + 1 /\ n \in Nat
           /\ Settled(e) \in Event /\ Settled(e).n = n + 1 /\ Settled(e).p = e.p
           /\ Settled(e).ts = e.ts /\ Settled(e).g = e.g /\ Settled(e).real = e.real
           /\ ChainOf(Settled(e)) = ChainOf(e) /\ e.p \in Proc /\ e.ts \in Nat /\ e.ts # 0
           /\ \A x \in Written : x \in Event /\ x.n \in 1..n /\ x.ts \in Nat /\ x.ts # 0
                                 /\ x.real \in Nat /\ x.p \in Proc
<1>1. Emit(e) /\ e.n = n + 1 /\ e.ts \in Now(e.p) /\ TracerTypeOK /\ OrderTypeOK
  BY DEF Notes, IInv, OrderTypeOK
<1>2. e.p \in Proc /\ e.ts \in Nat /\ n \in Nat
  BY <1>1 DEF Event, TracerTypeOK
<1>3. e.ts # 0
  BY <1>1, <1>2, NowTyped
<1>4. n' = n + 1
  BY <1>1 DEF Emit
<1>5. \A x \in Written : x \in Event /\ x.n \in 1..n /\ x.ts # 0
  BY DEF Numbering
<1>6. \A x \in Event : x.ts \in Nat /\ x.real \in Nat /\ x.p \in Proc
  BY DEF Event
<1> QED BY <1>1, <1>2, <1>3, <1>4, <1>5, <1>6, EmitSettles, SettledTyped

LEMMA EmitKeepsNumbering ==
    ASSUME IInv, Numbering, NEW e \in Event, Notes(e), UNCHANGED <<frontier, events>>,
           ChainOf(e) \in Chain \cup {Unordered}
    PROVE  Numbering'
<1> DEFINE s == Settled(e)
           W == Written
<1>1. /\ Written' = W \cup {s} /\ n' = n + 1 /\ n \in Nat /\ s \in Event /\ s.n = n + 1
      /\ s.ts # 0 /\ ChainOf(s) \in Chain \cup {Unordered}
  BY NewEvent
<1>2. /\ \A x \in W : x \in Event /\ ChainOf(x) \in Chain \cup {Unordered} /\ x.n \in 1..n /\ x.ts # 0
      /\ \A x, y \in W : x.n = y.n => x = y
      /\ \A k \in 1..n : \E x \in W : x.n = k
  BY DEF Numbering
<1> HIDE DEF s, W
<1>3. \A x \in W \cup {s} : /\ x \in Event /\ ChainOf(x) \in Chain \cup {Unordered}
                            /\ x.n \in 1..(n + 1) /\ x.ts # 0
  BY <1>1, <1>2
<1>4. ASSUME NEW x \in W \cup {s}, NEW y \in W \cup {s}, x.n = y.n PROVE x = y
  BY <1>1, <1>2, <1>4
<1>5. ASSUME NEW k \in 1..(n + 1) PROVE \E x \in W \cup {s} : x.n = k
  BY <1>1, <1>2
<1> QED BY <1>1, <1>3, <1>4, <1>5 DEF Numbering

LEMMA EmitKeepsClocking ==
    ASSUME IInv, Numbering, Clocking, NEW e \in Event, Notes(e), UNCHANGED <<frontier, events>>
    PROVE  Clocking'
<1> DEFINE s == Settled(e)
           W == Written
<1>1. /\ Written' = W \cup {s} /\ n' = n + 1 /\ n \in Nat /\ s \in Event /\ s.n = n + 1
      /\ s.p = e.p /\ s.ts = e.ts /\ s.real = e.real /\ e.p \in Proc /\ e.ts \in Nat
      /\ \A x \in W : x \in Event /\ x.n \in 1..n /\ x.ts \in Nat /\ x.p \in Proc
  BY NewEvent
<1>2. /\ \A x \in W : x.ts <= clock[x.p] /\ (Clocks = "exact" => x.ts <= n)
      /\ Monotone => \A x \in W : /\ \A y \in W : x.n < y.n => x.ts <= y.ts
                                  /\ x.real # 0 => x.real <= x.ts
  BY DEF Clocking
<1>3. clock' = [clock EXCEPT ![e.p] = e.ts] /\ clock \in [Proc -> Nat] /\ e.ts \in Now(e.p)
      /\ (e.real # 0 /\ Monotone => e.real <= e.ts)
  BY DEF Notes, Emit, Returns, IInv, OrderTypeOK, TracerTypeOK
<1>4. \A x \in W : Monotone \/ x.p = e.p => x.ts <= e.ts
  BY <1>1, <1>3, NowFollows DEF IInv, OrderTypeOK
<1>5. Clocks = "exact" => e.ts = n + 1
  BY <1>3 DEF Now
<1> HIDE DEF s, W
<1>6. ASSUME NEW x \in W \cup {s}
      PROVE  x.ts <= clock'[x.p] /\ (Clocks = "exact" => x.ts <= n + 1)
  <2>1. CASE x = s
    BY <1>1, <1>3, <1>5, <2>1
  <2>2. CASE x \in W /\ x.p = e.p
    BY <1>1, <1>2, <1>3, <1>4, <2>2
  <2>3. CASE x \in W /\ x.p # e.p
    BY <1>1, <1>2, <1>3, <2>3
  <2> QED BY <2>1, <2>2, <2>3
<1>7. ASSUME Monotone, NEW x \in W \cup {s}
      PROVE  /\ \A y \in W \cup {s} : x.n < y.n => x.ts <= y.ts
             /\ x.real # 0 => x.real <= x.ts
  <2>1. ASSUME NEW y \in W \cup {s}, x.n < y.n PROVE x.ts <= y.ts
    <3>1. x \in W
      BY <1>1, <2>1
    <3>2. CASE y = s
      BY <1>1, <1>4, <1>7, <3>1, <3>2
    <3>3. CASE y \in W
      BY <1>2, <1>7, <2>1, <3>1, <3>3
    <3> QED BY <3>2, <3>3
  <2>2. x.real # 0 => x.real <= x.ts
    BY <1>1, <1>2, <1>3, <1>7
  <2> QED BY <2>1, <2>2
<1> QED BY <1>1, <1>6, <1>7 DEF Clocking

LEMMA EmitKeepsExits ==
    ASSUME IInv, Numbering, Exits, Calls, NEW e \in Event, Notes(e),
           UNCHANGED <<frontier, events>>
    PROVE  Exits'
<1> DEFINE s == Settled(e)
           W == Written
<1>1. /\ Written' = W \cup {s} /\ n' = n + 1 /\ n \in Nat /\ s \in Event /\ s.n = n + 1
      /\ s.g = e.g /\ s.real = e.real /\ ChainOf(s) = ChainOf(e) /\ s.typ = Delocalized(e.typ)
      /\ \A x \in W : x \in Event /\ x.n \in 1..n
  BY NewEvent, SettledTyped
<1>2. \A f \in W : f.real # 0 =>
          /\ f.typ = "GoSysExit" /\ f.g \in Goroutine /\ ChainOf(f) = f.g
          /\ \E b \in W : BlockedBy(b, f.g, f.n, W) /\ (Monotone => b.ts <= f.real)
  BY DEF Exits
<1>3. \A h \in Goroutine : InCall(h) => \E b \in W : BlockedBy(b, h, n + 1, W) /\ b.ts = blockTs[h]
  BY DEF Calls
<1>4. Returns(e)
  BY DEF Notes
<1> HIDE DEF s, W
<1>5. ASSUME NEW f \in W \cup {s}, f.real # 0
      PROVE  /\ f.typ = "GoSysExit" /\ f.g \in Goroutine /\ ChainOf(f) = f.g
             /\ \E b \in W \cup {s} : BlockedBy(b, f.g, f.n, W \cup {s})
                                      /\ (Monotone => b.ts <= f.real)
  <2>1. CASE f \in W
    <3>1. PICK b \in W : BlockedBy(b, f.g, f.n, W) /\ (Monotone => b.ts <= f.real)
      BY <1>2, <1>5, <2>1
    <3>2. ~(s.n < f.n)
      BY <1>1, <2>1
    <3>3. BlockedBy(b, f.g, f.n, W \cup {s})
      BY <3>1, <3>2 DEF BlockedBy
    <3> QED BY <1>2, <1>5, <2>1, <3>1, <3>3
  <2>2. CASE f = s
    <3>1. /\ e.typ = "GoSysExit" /\ e.g \in Goroutine /\ e.arg = e.g /\ InCall(e.g)
          /\ Monotone => blockTs[e.g] <= e.real
      BY <1>1, <1>4, <1>5, <2>2 DEF Returns
    <3>2. s.typ = "GoSysExit" /\ ChainOf(s) = e.g
      BY <1>1, <3>1 DEF Delocalized, ChainOf, stateTransition, Transition, SnapTypes, StartTypes,
                        ParkTypes, YieldTypes
    <3>3. PICK b \in W : BlockedBy(b, e.g, n + 1, W) /\ b.ts = blockTs[e.g]
      BY <1>3, <3>1
    <3>4. BlockedBy(b, e.g, s.n, W \cup {s})
      BY <1>1, <3>3 DEF BlockedBy
    <3> QED BY <1>1, <2>2, <3>1, <3>2, <3>3, <3>4
  <2> QED BY <2>1, <2>2
<1> QED BY <1>1, <1>5 DEF Exits

LEMMA EmitKeepsCalls ==
    ASSUME IInv, Numbering, Calls, NEW e \in Event, Notes(e), UNCHANGED <<frontier, events>>
    PROVE  Calls'
<1> DEFINE s == Settled(e)
           W == Written
<1>1. /\ Written' = W \cup {s} /\ n' = n + 1 /\ n \in Nat /\ s \in Event /\ s.n = n + 1
      /\ s.g = e.g /\ s.ts = e.ts /\ ChainOf(s) = ChainOf(e) /\ s.typ = Delocalized(e.typ)
      /\ \A x \in W : x \in Event /\ x.n \in 1..n
  BY NewEvent, SettledTyped
<1>2. \A h \in Goroutine : InCall(h) => \E b \in W : BlockedBy(b, h, n + 1, W) /\ b.ts = blockTs[h]
  BY DEF Calls
<1>3. CallsKept(e)
  BY DEF Notes
<1> HIDE DEF s, W
<1>4. ASSUME NEW h \in Goroutine, InCall(h)'
      PROVE  \E b \in W \cup {s} : BlockedBy(b, h, n + 2, W \cup {s}) /\ b.ts = blockTs'[h]
  <2>1. CASE InCall(h) /\ blockTs'[h] = blockTs[h] /\ ChainOf(e) # h
    <3>1. PICK b \in W : BlockedBy(b, h, n + 1, W) /\ b.ts = blockTs[h]
      BY <1>2, <2>1
    <3>2. BlockedBy(b, h, n + 2, W \cup {s})
      BY <1>1, <2>1, <3>1 DEF BlockedBy
    <3> QED BY <2>1, <3>1, <3>2
  <2>2. CASE e.typ \in SysBlocks /\ e.g = h /\ blockTs'[h] = e.ts
    <3>1. s.typ \in SysBlocks
      BY <1>1, <2>2 DEF SysBlocks, Delocalized
    <3>2. BlockedBy(s, h, n + 2, W \cup {s})
      BY <1>1, <2>2, <3>1 DEF BlockedBy
    <3> QED BY <1>1, <2>2, <3>2
  <2> QED BY <1>3, <1>4, <2>1, <2>2 DEF CallsKept
<1>5. n' + 1 = n + 2
  BY <1>1
<1> QED BY <1>1, <1>4, <1>5 DEF Calls
-----------------------------------------------------------------------------
(***************************************************************************)
(* The merge loop keeps the history                                        *)
(***************************************************************************)
\* Nothing pending is older than a merged event on its P or its chain.
LEMMA NextMerges ==
    ASSUME IInv, Numbering, NEW f \in frontier, NEW d \in Unmerged, d # f.ev
    PROVE  /\ f.ev.n # d.n
           /\ f.ev.p = d.p \/ SameChain(f.ev, d) => f.ev.n < d.n
<1>1. f.ev \in Unmerged
  BY UnmergedMembers
<1>2. f.ev \in Event /\ d \in Event /\ Core(f.ev) \in Pending /\ Core(d) \in Pending
  BY <1>1, UnmergedPends
<1>3. f.ev.n # d.n
  BY <1>1 DEF Numbering, Written
<1>4. f.ev.p = d.p => f.ev.n < d.n
  BY FrontierLeads
<1>5. ASSUME SameChain(f.ev, d) PROVE f.ev.n < d.n
  <2> DEFINE c == ChainOf(f.ev)
             x == Core(f.ev)
             y == Core(d)
  <2>1. f.tr.g = c /\ gs[c] = f.ev.pre /\ c \in Chain
    BY <1>5 DEF SameChain, IInv, FrontierInv, OrderTypeOK, TransitionSet
  <2>2. x.c = c /\ y.c = c /\ x.n = f.ev.n /\ y.n = d.n /\ x.pre = f.ev.pre
    BY <1>5 DEF Core, SameChain
  <2> HIDE DEF c, x, y
  <2>3. x \in On(Pending, c) /\ y \in On(Pending, c)
    BY <1>2, <2>2 DEF On, x, y
  <2>4. Pending \in SUBSET CoreSet /\ gs \in Chains /\ rg \in Chains /\ Line(Pending, gs, rg)
    BY PendingTyped DEF IInv, OrderTypeOK, TracerTypeOK, Chains
  <2>5. x.n < y.n
    BY <1>3, <2>1, <2>2, <2>3, <2>4, NextIsFirst
  <2> QED BY <2>2, <2>5
<1> QED BY <1>3, <1>4, <1>5

LEMMA MergeKeepsRaw ==
    ASSUME IInv, Numbering, Raw, NEW f \in frontier, Merge(f)
    PROVE  Raw'
<1>1. events \in Seq(Event) /\ Len(events) \in Nat
  <2>1. events \in Seq(Event)
    BY DEF IInv, OrderTypeOK, Merge
  <2> QED BY <2>1
<1>2. /\ f.ev \in Unmerged /\ Unmerged' = Unmerged \ {f.ev}
      /\ Len(events') = Len(events) + 1 /\ events'[Len(events) + 1] = f.ev
      /\ \A i \in 1..Len(events) : events'[i] = events[i]
  BY <1>1, MergeSettles
<1>3. /\ \A i, j \in 1..Len(events) : i < j =>
           /\ events[i].n # events[j].n
           /\ events[i].p = events[j].p \/ SameChain(events[i], events[j])
                  => events[i].n < events[j].n
      /\ \A i \in 1..Len(events) : \A d \in Unmerged :
           /\ events[i].n # d.n
           /\ events[i].p = d.p \/ SameChain(events[i], d) => events[i].n < d.n
  BY DEF Raw
<1>4. ASSUME NEW i \in 1..Len(events'), NEW j \in 1..Len(events'), i < j
      PROVE  /\ events'[i].n # events'[j].n
             /\ events'[i].p = events'[j].p \/ SameChain(events'[i], events'[j])
                    => events'[i].n < events'[j].n
  <2>1. i \in 1..Len(events) /\ events'[i] = events[i]
    BY <1>1, <1>2, <1>4
  <2>2. CASE j \in 1..Len(events)
    <3>1. events'[j] = events[j]
      BY <1>2, <2>2
    <3> QED BY <1>3, <1>4, <2>1, <2>2, <3>1
  <2>3. CASE j = Len(events) + 1
    <3>1. events'[j] = f.ev
      BY <1>2, <2>3
    <3> QED BY <1>2, <1>3, <2>1, <3>1
  <2> QED BY <1>1, <1>2, <2>2, <2>3
<1>5. ASSUME NEW i \in 1..Len(events'), NEW d \in Unmerged'
      PROVE  /\ events'[i].n # d.n
             /\ events'[i].p = d.p \/ SameChain(events'[i], d) => events'[i].n < d.n
  <2>1. d \in Unmerged /\ d # f.ev
    BY <1>2
  <2>2. CASE i \in 1..Len(events)
    <3>1. events'[i] = events[i]
      BY <1>2, <2>2
    <3> QED BY <1>3, <2>1, <2>2, <3>1
  <2>3. CASE i = Len(events) + 1
    <3>1. events'[i] = f.ev
      BY <1>2, <2>3
    <3> QED BY <2>1, <3>1, NextMerges
  <2> QED BY <1>1, <1>2, <2>2, <2>3
<1> QED BY <1>4, <1>5 DEF Raw

LEMMA MergeKeepsRecovered ==
    ASSUME IInv, Numbering, Raw, Recovered, Leading, NEW f \in frontier, Merge(f)
    PROVE  Recovered'
<1>1. events \in Seq(Event) /\ Len(events) \in Nat
  <2>1. events \in Seq(Event)
    BY DEF IInv, OrderTypeOK, Merge
  <2> QED BY <2>1
<1>2. /\ f.ev \in Unmerged /\ Written' = Written
      /\ Len(events') = Len(events) + 1 /\ events'[Len(events) + 1] = f.ev
      /\ \A i \in 1..Len(events) : events'[i] = events[i]
  BY <1>1, MergeSettles
<1> SUFFICES ASSUME \A e, h \in Written : e.n < h.n /\ e.p # h.p => e.ts < h.ts
             PROVE  \A i \in 1..Len(events') : events'[i].n = i
  BY <1>2 DEF Recovered
<1>3. \A i \in 1..Len(events) : events[i].n = i
  BY DEF Recovered
<1>4. f.ev.n \in 1..n /\ n \in Nat
  BY <1>2 DEF Numbering, Written, IInv, OrderTypeOK, TracerTypeOK
<1>5. PICK h \in frontier : \A d \in Unmerged : h.ev.n <= d.n
  BY DEF Leading, Merge
<1>6. h.ev \in Unmerged /\ h.ev.n \in 1..n /\ h.ev.ts \in Nat /\ f.ev.ts \in Nat
  <2>1. h.ev \in Unmerged
    BY UnmergedMembers
  <2>2. h.ev \in Event /\ f.ev \in Event
    BY DEF IInv, OrderTypeOK
  <2> QED BY <2>1, <2>2 DEF Numbering, Written, Event
<1>7. f.ev.n = h.ev.n
  <2>1. f.ev.ts <= h.ev.ts
    BY DEF Merge, Earliest
  <2>2. h.ev.p # f.ev.p => ~(h.ev.n < f.ev.n)
    BY <1>2, <1>6, <2>1 DEF Written
  <2>3. h.ev.p = f.ev.p => h = f
    BY DEF IInv, FrontierInv
  <2>4. h.ev.n <= f.ev.n
    BY <1>2, <1>5
  <2> QED BY <1>4, <1>6, <2>2, <2>3, <2>4
<1>8. f.ev.n \notin 1..Len(events)
  BY <1>2, <1>3 DEF Raw
<1>9. f.ev.n <= Len(events) + 1
  <2> SUFFICES ASSUME Len(events) + 1 < f.ev.n PROVE FALSE
    BY <1>1, <1>4
  <2>1. PICK x \in Written : x.n = Len(events) + 1
    <3>1. Len(events) + 1 \in 1..n
      BY <1>1, <1>4
    <3> QED BY <3>1 DEF Numbering
  <2>2. x \notin Merged
    BY <1>1, <1>3, <2>1 DEF Merged
  <2>3. h.ev.n <= x.n
    BY <1>5, <2>2 DEF Written
  <2> QED BY <1>1, <1>4, <1>7, <2>1, <2>3
<1>10. f.ev.n = Len(events) + 1
  BY <1>1, <1>4, <1>8, <1>9
<1> QED BY <1>1, <1>2, <1>3, <1>10

LEMMA PendingUnmerged ==
    ASSUME IInv, NEW d \in Pending
    PROVE  \E u \in Unmerged : Core(u) = d
<1>1. CASE \E p \in Proc : d \in Cores(p)
  <2>1. PICK p \in Proc : d \in Cores(p)
    BY <1>1
  <2>2. PICK e \in Waiting(p) : d = Core(e)
    BY <2>1 DEF Cores
  <2>3. e \in Event
    BY BatchTyped DEF IInv, Waiting
  <2>4. Core(Settled(e)) = d
    BY <2>2, <2>3, SettledTyped
  <2> QED BY <2>4, UnmergedMembers
<1>2. CASE d \in Advanced
  <2>1. PICK f \in frontier : d = Core(f.ev)
    BY <1>2 DEF Advanced
  <2> QED BY <2>1, UnmergedMembers
<1> QED BY <1>1, <1>2, PendingMembers

\* After a scan the oldest pending event is in the frontier.
LEMMA ScanLeads ==
    ASSUME IInv, Scan
    PROVE  \E f \in frontier' : \A d \in Unmerged : f.ev.n <= d.n
<1>1. frontier' = frontier \cup {OrderEvent(p) : p \in Ripe}
  BY DEF Scan
<1>2. \A d \in Unmerged : d.n \in Nat
  BY UnmergedPends DEF Event
<1> DEFINE Ages == {d.n : d \in Unmerged}
<1>3. Ages \in SUBSET Nat /\ Ages # {}
  <2>1. frontier' # {}
    BY ScanFinds
  <2>2. Unmerged' = Unmerged
    BY ScanSettles
  <2>3. PICK f \in frontier' : TRUE
    BY <2>1
  <2>4. f.ev \in Unmerged
    BY <2>2, UnmergedMembersNext
  <2> QED BY <1>2, <2>4
<1>4. PICK k \in Ages : \A j \in Ages : k <= j
  <2> HIDE DEF Ages
  <2> QED BY <1>3, HasLeast
<1>5. PICK u \in Unmerged : u.n = k
  BY <1>4
<1>6. \A d \in Unmerged : u.n <= d.n
  BY <1>4, <1>5
<1> HIDE DEF Ages
<1>7. CASE \E f \in frontier : u = f.ev
  BY <1>1, <1>6, <1>7
<1>8. CASE \E p \in Proc : \E e \in Waiting(p) : u = Settled(e)
  <2>1. PICK p \in Proc : \E e \in Waiting(p) : u = Settled(e)
    BY <1>8
  <2>2. PICK e \in Waiting(p) : u = Settled(e)
    BY <2>1
  <2>3. PICK i \in 1..Len(batch[p]) : e = batch[p][i]
    BY DEF Waiting
  <2>4. e \in Event /\ batch[p] \in Seq(Event) /\ batch[p] # <<>>
    BY <2>3, BatchTyped DEF IInv
  <2>5. u.n = e.n /\ e.n \in Nat
    BY <1>2, <2>2, <2>4, SettledTyped
  <2>6. CASE p \in selected
    <3>1. PICK f \in frontier : f.batch = p
      BY <2>6 DEF IInv, FrontierInv
    <3>2. f.ev.n < e.n
      BY <2>3, <3>1 DEF IInv, FrontierInv
    <3>3. f.ev \in Unmerged
      BY UnmergedMembers
    <3> QED BY <1>2, <1>6, <2>5, <3>2, <3>3
  <2>7. CASE p \notin selected
    <3> DEFINE h == Head(batch[p])
    <3>1. h \in Event /\ h \in Waiting(p) /\ h.n <= e.n
      BY <2>4, HeadPends
    <3>2. Settled(h) \in Unmerged /\ Settled(h).n = h.n /\ h.n \in Nat
      BY <1>2, <3>1, SettledTyped, UnmergedMembers
    <3>3. h.n = u.n
      BY <1>6, <2>5, <3>1, <3>2
    <3> HIDE DEF h
    <3>4. ASSUME NEW d \in Pending PROVE h.n <= d.n
      <4>1. PICK x \in Unmerged : Core(x) = d
        BY PendingUnmerged
      <4> QED BY <1>6, <3>3, <4>1 DEF Core
    <3>5. p \in Ripe
      BY <2>4, <2>7, <3>4, OldestIsRipe DEF h
    <3>6. OrderEvent(p) \in frontier' /\ OrderEvent(p).ev = Settled(h)
      BY <1>1, <3>5 DEF OrderEvent, Settled, h
    <3> QED BY <1>6, <3>2, <3>3, <3>6
  <2> QED BY <2>6, <2>7
<1> QED BY <1>7, <1>8, UnmergedMembers
-----------------------------------------------------------------------------
(***************************************************************************)
(* After the loop                                                          *)
(***************************************************************************)
LEMMA NothingPends ==
    ASSUME frontier = {}, \A p \in Proc : batch[p] = <<>>
    PROVE  Unmerged = {} /\ Written = Merged
<1>1. \A p \in Proc : Waiting(p) = {}
  BY DEF Waiting
<1>2. ASSUME NEW x \in Unmerged PROVE FALSE
  BY <1>1, UnmergedMembers
<1> QED BY <1>2 DEF Written

\* A stream that holds everything holds it once, in the order of the chains.
LEMMA Complete ==
    ASSUME IInv, Numbering, Raw, Unmerged = {}, Written = Merged, events \in Seq(Event)
    PROVE  Len(events) = n /\ {events[i].n : i \in DOMAIN events} = 1..n
<1> DEFINE L == Len(events)
           number == [i \in 1..L |-> events[i].n]
<1>1. L \in Nat /\ n \in Nat /\ DOMAIN events = 1..L
  BY DEF IInv, OrderTypeOK, TracerTypeOK
<1>2. \A i \in 1..L : events[i].n \in 1..n
  BY DEF Numbering, Merged
<1>3. ASSUME NEW i \in 1..L, NEW j \in 1..L, events[i].n = events[j].n PROVE i = j
  <2>1. ~(i < j) /\ ~(j < i)
    BY <1>3 DEF Raw
  <2> QED BY <1>1, <2>1
<1>4. \A k \in 1..n : \E i \in 1..L : events[i].n = k
  BY DEF Numbering, Merged
<1>5. number \in Bijection(1..L, 1..n)
  <2>1. number \in [1..L -> 1..n]
    BY <1>2
  <2>2. number \in Injection(1..L, 1..n)
    BY <1>3, <2>1 DEF Injection, IsInjective
  <2>3. number \in Surjection(1..L, 1..n)
    BY <1>4, <2>1 DEF Surjection
  <2> QED BY <2>2, <2>3 DEF Bijection
<1> HIDE DEF number, L
<1>6. L = n
  <2>1. ExistsBijection(1..L, 1..n)
    BY <1>5 DEF ExistsBijection
  <2>2. Cardinality(1..n) = L
    BY <1>1, <2>1, FS_CountingElements
  <2>3. Cardinality(1..n) = n
    <3>1. 1 \in Int /\ n \in Int
      BY <1>1
    <3>2. Cardinality(1..n) = IF 1 > n THEN 0 ELSE n - 1 + 1
      BY <3>1, FS_Interval
    <3> QED BY <1>1, <3>2
  <2> QED BY <2>2, <2>3
<1>7. {events[i].n : i \in DOMAIN events} = 1..n
  BY <1>1, <1>2, <1>4
<1> QED BY <1>6, <1>7 DEF L

LEMMA HasGreatest ==
    ASSUME NEW k \in Nat, NEW S \in SUBSET (1..k), S # {}
    PROVE  \E m \in S : \A j \in S : j <= m
<1> DEFINE T == {k - j : j \in S}
<1>1. T \in SUBSET Nat /\ T # {}
  <2>1. ASSUME NEW j \in S PROVE k - j \in Nat
    <3>1. j \in 1..k
      OBVIOUS
    <3> QED BY <3>1
  <2> QED BY <2>1
<1>2. PICK x \in T : \A y \in T : x <= y
  <2> HIDE DEF T
  <2> QED BY <1>1, HasLeast
<1>3. PICK m \in S : x = k - m
  BY <1>2
<1>4. ASSUME NEW j \in S PROVE j <= m
  <2>1. k - j \in T
    OBVIOUS
  <2>2. k - m <= k - j
    BY <1>2, <1>3, <2>1
  <2> QED BY <2>2
<1> QED BY <1>4

\* The block before an exit is earlier in the stream, so the loop has seen it.
LEMMA BlockIsSeen ==
    ASSUME Numbering, Exits, Raw, Written = Merged, events \in Seq(Event), NEW i \in Moved
    PROVE  lastSysBlock(i) # 0
<1>1. i \in 1..Len(events) /\ Len(events) \in Nat /\ DOMAIN events = 1..Len(events)
      /\ events[i].typ = "GoSysExit" /\ events[i].real # 0
  BY DEF Moved
<1>2. events[i] \in Written
  BY <1>1 DEF Merged
<1>3. PICK b \in Written : BlockedBy(b, events[i].g, events[i].n, Written)
  BY <1>1, <1>2 DEF Exits
<1>4. events[i].g \in Goroutine /\ ChainOf(events[i]) = events[i].g
  BY <1>1, <1>2 DEF Exits
<1>5. PICK j \in 1..Len(events) : b = events[j]
  BY DEF Merged
<1>6. b.typ \in SysBlocks /\ b.g = events[i].g /\ b.n < events[i].n
  BY <1>3 DEF BlockedBy
<1>7. ChainOf(b) = b.g
  BY <1>6 DEF SysBlocks, ChainOf, stateTransition, Transition, SnapTypes, StartTypes, ParkTypes,
              YieldTypes
<1>8. SameChain(events[i], events[j])
  BY <1>4, <1>5, <1>6, <1>7, Sentinels DEF SameChain
<1>9. b.n \in Nat /\ events[i].n \in Nat
  BY <1>2, Elements DEF Numbering
<1>10. j < i
  <2>1. ~(i < j)
    <3> SUFFICES ASSUME i < j PROVE FALSE
      OBVIOUS
    <3>1. events[i].n < events[j].n
      BY <1>1, <1>8 DEF Raw
    <3> QED BY <1>5, <1>6, <1>9, <3>1
  <2>2. i # j
    BY <1>5, <1>6, <1>9
  <2> QED BY <1>1, <2>1, <2>2
<1> DEFINE Blocks == {k \in 1..(i - 1) : events[k].typ \in {"GoSysBlock", "GoInSyscall"}
                                         /\ events[k].g = events[i].g}
           m == CHOOSE k \in Blocks : \A l \in Blocks : l <= k
<1>11. j \in Blocks
  BY <1>1, <1>5, <1>6, <1>10 DEF SysBlocks
<1>12. m \in Blocks
  <2>1. i - 1 \in Nat /\ Blocks \in SUBSET (1..(i - 1)) /\ Blocks # {}
    BY <1>1, <1>11
  <2> HIDE DEF Blocks
  <2>2. \E k \in Blocks : \A l \in Blocks : l <= k
    BY <2>1, HasGreatest
  <2> QED BY <2>2
<1>13. lastSysBlock(i) = events[m].ts
  <2>1. Blocks # {}
    BY <1>11
  <2>2. lastSysBlock(i) = IF Blocks = {} THEN 0 ELSE events[m].ts
    BY DEF lastSysBlock
  <2> HIDE DEF Blocks, m
  <2> QED BY <2>1, <2>2
<1>14. m \in 1..Len(events)
  <2>1. m \in 1..(i - 1)
    BY <1>12
  <2> HIDE DEF m, Blocks
  <2> QED BY <1>1, <2>1
<1> HIDE DEF m, Blocks
<1>15. events[m] \in Written
  BY <1>14 DEF Merged
<1> QED BY <1>13, <1>15 DEF Numbering

\* Correcting an exit changes its time and nothing else.
LEMMA CorrectedFits ==
    ASSUME events \in Seq(Event)
    PROVE  /\ Corrected \in Seq(Event) /\ DOMAIN Corrected = DOMAIN events
           /\ \A i \in DOMAIN events :
                /\ Corrected[i].n = events[i].n /\ ChainOf(Corrected[i]) = ChainOf(events[i])
                /\ Corrected[i].ts = IF i \in Moved THEN events[i].real ELSE events[i].ts
<1>1. DOMAIN events = 1..Len(events) /\ Len(events) \in Nat
  OBVIOUS
<1>2. ASSUME NEW i \in DOMAIN events
      PROVE  /\ Corrected[i] \in Event /\ Corrected[i].n = events[i].n
             /\ ChainOf(Corrected[i]) = ChainOf(events[i])
             /\ Corrected[i].ts = IF i \in Moved THEN events[i].real ELSE events[i].ts
  <2>1. events[i] \in Event
    BY Elements
  <2>2. CASE i \notin Moved
    BY <2>1, <2>2 DEF Corrected
  <2>3. CASE i \in Moved
    <3> DEFINE e == events[i]
               d == [e EXCEPT !.ts = e.real]
    <3>1. Corrected[i] = d
      BY <2>3 DEF Corrected
    <3>2. /\ d \in Event /\ d.n = e.n /\ d.ts = e.real /\ d.typ = e.typ /\ d.g = e.g
          /\ d.arg = e.arg
      BY <2>1 DEF Event
    <3> HIDE DEF d, e
    <3>3. ChainOf(d) = ChainOf(e)
      BY <3>2 DEF ChainOf, stateTransition, Transition
    <3> QED BY <2>3, <3>1, <3>2, <3>3 DEF e
  <2> QED BY <2>2, <2>3
<1>3. Corrected = [i \in 1..Len(events) |-> Corrected[i]]
  BY <1>1 DEF Corrected
<1>4. Corrected \in Seq(Event)
  BY <1>1, <1>2, <1>3
<1>5. DOMAIN Corrected = DOMAIN events
  BY DEF Corrected
<1> QED BY <1>2, <1>4, <1>5

\* If the clocks agree, corrected times never contradict a chain.
LEMMA CorrectedFollows ==
    ASSUME Numbering, Clocking, Exits, Monotone, Written = Merged, events \in Seq(Event),
           NEW i \in DOMAIN events, NEW j \in DOMAIN events,
           SameChain(events[i], events[j]), events[i].n < events[j].n
    PROVE  Corrected[i].ts <= Corrected[j].ts
<1> DEFINE e == events[i]
           f == events[j]
<1>1. e \in Written /\ f \in Written /\ e \in Event /\ f \in Event
  BY Elements DEF Merged
<1>2. /\ Corrected[i].ts = IF i \in Moved THEN e.real ELSE e.ts
      /\ Corrected[j].ts = IF j \in Moved THEN f.real ELSE f.ts
      /\ Corrected[i].ts \in Nat /\ Corrected[j].ts \in Nat
  BY CorrectedFits, Elements
<1>3. e.ts \in Nat /\ f.ts \in Nat /\ e.real \in Nat /\ f.real \in Nat /\ e.n < f.n
  BY <1>1 DEF Event
<1>4. (i \in Moved => e.real # 0) /\ (j \in Moved => f.real # 0) /\ ChainOf(e) = ChainOf(f)
  BY DEF Moved, SameChain
<1> HIDE DEF e, f
<1>5. Corrected[i].ts <= e.ts
  BY <1>1, <1>2, <1>3, <1>4 DEF Clocking
<1>6. e.ts <= f.ts
  BY <1>1, <1>3 DEF Clocking
<1>7. CASE j \notin Moved
  BY <1>2, <1>3, <1>5, <1>6, <1>7
<1>8. CASE j \in Moved
  <2>1. PICK b \in Written : BlockedBy(b, f.g, f.n, Written) /\ b.ts <= f.real
    BY <1>1, <1>4, <1>8 DEF Exits
  <2>2. e.n <= b.n
    BY <1>1, <1>3, <1>4, <1>8, <2>1 DEF Exits, BlockedBy
  <2>3. b \in Event /\ b.ts \in Nat /\ b.n \in Nat /\ e.n \in Nat
    BY <1>1, <2>1 DEF Numbering, Event
  <2>4. e.ts <= b.ts
    <3>1. CASE e.n = b.n
      <4>1. e = b
        BY <1>1, <3>1 DEF Numbering
      <4> QED BY <2>3, <4>1
    <3>2. CASE e.n < b.n
      BY <1>1, <3>2 DEF Clocking
    <3> QED BY <2>2, <2>3, <3>1, <3>2
  <2>5. Corrected[j].ts = f.real
    BY <1>2, <1>8
  <2>6. e.ts <= f.real
    BY <1>3, <2>1, <2>3, <2>4
  <2> QED BY <1>2, <1>3, <1>5, <2>5, <2>6
<1> QED BY <1>7, <1>8
-----------------------------------------------------------------------------
\* Sorting the corrected stream loses nothing and turns no chain around.
LEMMA SortKeeps ==
    ASSUME IInv, History, Written = Merged, Unmerged = {}, events \in Seq(Event),
           NEW s, s = StableSort(Corrected)
    PROVE  /\ Len(s) = n /\ {s[k].n : k \in DOMAIN s} = 1..n
           /\ Monotone => \A k, l \in DOMAIN s :
                 k < l /\ ChainOf(s[k]) = ChainOf(s[l]) /\ ChainOf(s[k]) # Unordered
                     => s[k].n < s[l].n
<1> DEFINE c == Corrected
           D == DOMAIN events
           o(k) == Origin(c, k)
<1>1. /\ c \in Seq(Event) /\ DOMAIN c = D
      /\ \A i \in D : c[i].n = events[i].n /\ ChainOf(c[i]) = ChainOf(events[i])
  BY CorrectedFits
<1>2. D = 1..Len(events) /\ Len(events) \in Nat /\ Len(events) = n
      /\ {events[i].n : i \in D} = 1..n
  <2>1. D = 1..Len(events) /\ Len(events) \in Nat
    OBVIOUS
  <2> QED BY <2>1, Complete DEF History
<1>3. /\ \A k \in D : o(k) \in D
      /\ \A i \in D : Place(c, i) \in D /\ o(Place(c, i)) = i
  BY <1>1, SortPermutes, PlaceTyped
<1>4. s = [k \in D |-> c[o(k)]]
  BY <1>1, SortByPlace
<1>5. ASSUME NEW k \in D, NEW l \in D, k < l
      PROVE  \/ c[o(k)].ts < c[o(l)].ts
             \/ c[o(k)].ts = c[o(l)].ts /\ o(k) < o(l)
  BY <1>1, <1>5, SortSorts
<1>6. \A i \in D : c[i].ts \in Nat /\ events[i].n \in Nat
  BY <1>1, Elements
<1> HIDE DEF c, D, o
<1>7. DOMAIN s = D /\ \A k \in D : s[k].n = events[o(k)].n /\ ChainOf(s[k]) = ChainOf(events[o(k)])
  BY <1>1, <1>3, <1>4
<1>8. Len(s) = n
  <2>1. s = [k \in 1..n |-> c[o(k)]] /\ n \in Nat
    BY <1>2, <1>4
  <2>2. \A k \in 1..n : c[o(k)] \in Event
    BY <1>1, <1>2, <1>3, Elements
  <2>3. s \in Seq(Event)
    BY <2>1, <2>2
  <2> QED BY <2>1, <2>3
<1>9. {s[k].n : k \in DOMAIN s} = 1..n
  <2>1. \A k \in D : s[k].n \in 1..n
    BY <1>2, <1>3, <1>7
  <2>2. ASSUME NEW m \in 1..n PROVE \E k \in D : s[k].n = m
    <3>1. PICK i \in D : events[i].n = m
      BY <1>2
    <3> QED BY <1>3, <1>7, <3>1
  <2> QED BY <1>7, <2>1, <2>2
<1>10. ASSUME Monotone, NEW k \in D, NEW l \in D, k < l,
              ChainOf(s[k]) = ChainOf(s[l]), ChainOf(s[k]) # Unordered
       PROVE  s[k].n < s[l].n
  <2> DEFINE i == o(k)
             j == o(l)
  <2>1. i \in D /\ j \in D /\ s[k].n = events[i].n /\ s[l].n = events[j].n
        /\ SameChain(events[i], events[j]) /\ SameChain(events[j], events[i])
    BY <1>3, <1>7, <1>10 DEF SameChain
  <2>2. c[i].ts < c[j].ts \/ (c[i].ts = c[j].ts /\ i < j)
    BY <1>5, <1>10
  <2> HIDE DEF i, j
  <2>3. events[j].n < events[i].n => c[j].ts <= c[i].ts
    <3>1. i \in DOMAIN events /\ j \in DOMAIN events
      BY <2>1 DEF D
    <3> QED BY <1>10, <2>1, <3>1, CorrectedFollows DEF History, c
  <2>4. i < j => events[i].n < events[j].n
    BY <1>2, <2>1 DEF History, Raw
  <2>5. i > j => events[i].n # events[j].n
    BY <1>2, <2>1 DEF History, Raw
  <2>6. i \in Nat /\ j \in Nat /\ c[i].ts \in Nat /\ c[j].ts \in Nat
        /\ events[i].n \in Nat /\ events[j].n \in Nat
    BY <1>2, <1>6, <2>1
  <2>7. events[i].n < events[j].n
    BY <2>2, <2>3, <2>4, <2>5, <2>6
  <2> QED BY <2>1, <2>7
<1> QED BY <1>7, <1>8, <1>9, <1>10

\* Before exits are corrected, what the properties say follows from the history.
LEMMA RawShows ==
    ASSUME IInv, History, pc # "ordered"
    PROVE  ChainOrder /\ BatchOrder /\ TimelineRecovered
<1>1. events \in Seq(Event)
  BY DEF IInv, OrderTypeOK
<1>2. DOMAIN events = 1..Len(events)
  BY <1>1
<1>3. ChainOrder /\ BatchOrder
  BY <1>2 DEF History, Raw, SameChain, ChainOrder, BatchOrder
<1>4. ASSUME AgreedClocks PROVE \A e, f \in Written : e.n < f.n /\ e.p # f.p => e.ts < f.ts
  <2>1. ASSUME NEW e \in Written
        PROVE  \E x \in Emitted : x.n = e.n /\ x.p = e.p /\ x.ts = e.ts
    <3>1. CASE e \in Merged
      BY <1>2, <3>1 DEF Merged, Emitted
    <3>2. CASE \E f \in frontier : e = f.ev
      BY <3>2 DEF Emitted
    <3>3. CASE \E p \in Proc : \E x \in Waiting(p) : e = Settled(x)
      <4>1. PICK p \in Proc : \E x \in Waiting(p) : e = Settled(x)
        BY <3>3
      <4>2. PICK x \in Waiting(p) : e = Settled(x)
        BY <4>1
      <4>3. PICK i \in 1..Len(batch[p]) : x = batch[p][i]
        BY DEF Waiting
      <4>4. batch[p] \in Seq(Event) /\ x \in Event
        BY <4>3, BatchTyped DEF IInv
      <4>5. x \in {batch[p][k] : k \in DOMAIN batch[p]}
        BY <4>3, <4>4
      <4> DEFINE All == {{batch[q][k] : k \in DOMAIN batch[q]} : q \in Proc}
      <4>6. x \in UNION All
        BY <4>5
      <4>7. x \in Emitted
        BY <4>6 DEF Emitted
      <4> QED BY <4>2, <4>4, <4>7, SettledTyped
    <3> QED BY <3>1, <3>2, <3>3, UnmergedMembers DEF Written
  <2> QED BY <1>4, <2>1 DEF AgreedClocks
<1>5. TimelineRecovered
  BY <1>2, <1>4 DEF History, Recovered, TimelineRecovered
<1> QED BY <1>3, <1>5
-----------------------------------------------------------------------------
(***************************************************************************)
(* The inductive invariant of the stream                                   *)
(***************************************************************************)
LEMMA StreamInit == Init => StreamInv
<1> SUFFICES ASSUME Init PROVE StreamInv
  OBVIOUS
<1>1. IInv
  BY InitHolds
<1>2. /\ pc = "trace" /\ events = <<>> /\ frontier = {} /\ n = 0
      /\ (\A p \in Proc : batch[p] = <<>>) /\ \A g \in Goroutine : rg[g].status = "gDead"
  BY DEF Init, OrderInit, TracerInit, gZero, gState, Chain
<1>3. Unmerged = {} /\ Written = {} /\ Len(events) = 0
  <2>1. Unmerged = {} /\ Written = Merged /\ Len(events) = 0
    BY <1>2, NothingPends
  <2> QED BY <2>1 DEF Merged
<1>4. Numbering /\ Clocking /\ Exits /\ Raw /\ Recovered
  BY <1>2, <1>3 DEF Numbering, Clocking, Exits, Raw, Recovered
<1>5. Calls
  BY <1>2 DEF Calls, InCall
<1>6. Drained /\ Leading /\ NothingLost /\ ChainOrder /\ NoStrayExit
  BY <1>2 DEF Drained, Leading, NothingLost, ChainOrder, NoStrayExit
<1> QED BY <1>1, <1>4, <1>5, <1>6 DEF StreamInv, History

\* A step that writes and merges nothing keeps the history.
LEMMA SameHistory ==
    ASSUME IInv, History,
           UNCHANGED <<batch, n, clock, rg, mode, blockTs, frontier, events>>
    PROVE  History'
<1>1. Written' = Written /\ Unmerged' = Unmerged /\ Merged' = Merged
  BY NothingSettles
<1>2. Numbering' /\ Clocking' /\ Exits'
  BY <1>1 DEF History, Numbering, Clocking, Exits
<1>3. Calls'
  BY <1>1 DEF History, Calls, InCall
<1>4. Raw' /\ Recovered'
  BY <1>1 DEF History, Raw, Recovered
<1> QED BY <1>2, <1>3, <1>4 DEF History

\* The event written last has a chain, or none.
LEMMA EmittedChain ==
    ASSUME IInv', OrderTypeOK, NEW e \in Event, Emit(e), UNCHANGED frontier
    PROVE  ChainOf(e) \in Chain \cup {Unordered}
<1>1. Waiting(e.p)' = Waiting(e.p) \cup {e} /\ e.p \in Proc
  BY EmitPends DEF Event
<1>2. e \in {batch'[e.p][i] : i \in 1..Len(batch'[e.p])}
  BY <1>1 DEF Waiting
<1> QED BY <1>1, <1>2 DEF IInv, BatchInv

LEMMA StreamTrace == StreamInv /\ Trace => StreamInv'
<1> SUFFICES ASSUME StreamInv, Trace PROVE StreamInv'
  OBVIOUS
<1>1. /\ pc = "trace" /\ TracerNext /\ pc' = pc /\ UNCHANGED <<selected, frontier, gs, events>>
  BY DEF Trace, order
<1>2. IInv /\ History /\ events = <<>> /\ TracerTypeOK /\ TracerInv /\ OrderTypeOK
  BY <1>1 DEF StreamInv, Drained, IInv, OrderTypeOK
<1>3. IInv'
  BY <1>2, TraceKeeps
<1>4. ASSUME Quiet PROVE History'
  BY <1>1, <1>2, <1>4, SameHistory DEF Quiet
<1>5. ASSUME \E e \in Event : Notes(e) PROVE History'
  <2>1. PICK e \in Event : Notes(e)
    BY <1>5
  <2>2. ChainOf(e) \in Chain \cup {Unordered}
    BY <1>1, <1>2, <1>3, <2>1, EmittedChain DEF Notes
  <2>3. Numbering' /\ Clocking' /\ Exits' /\ Calls'
    BY <1>1, <1>2, <2>1, <2>2, EmitKeepsNumbering, EmitKeepsClocking, EmitKeepsExits,
       EmitKeepsCalls DEF History
  <2>4. Raw' /\ Recovered'
    <3>1. Len(events') = 0
      BY <1>1, <1>2
    <3> QED BY <3>1 DEF Raw, Recovered
  <2> QED BY <2>3, <2>4 DEF History
<1>6. History'
  BY <1>1, <1>2, <1>4, <1>5, TracerNotes
<1>7. Drained' /\ Leading' /\ NothingLost' /\ ChainOrder' /\ NoStrayExit'
  BY <1>1, <1>2 DEF Drained, Leading, NothingLost, ChainOrder, NoStrayExit
<1> QED BY <1>3, <1>6, <1>7 DEF StreamInv

LEMMA StreamBegin == StreamInv /\ Begin => StreamInv'
<1> SUFFICES ASSUME StreamInv, Begin PROVE StreamInv'
  OBVIOUS
<1>1. pc = "trace" /\ pc' = "scan" /\ UNCHANGED <<tracer, selected, frontier, gs, events>>
  BY DEF Begin
<1>2. IInv /\ History
  BY <1>1 DEF StreamInv
<1>3. IInv'
  BY <1>1, <1>2, VerdictKeeps
<1>4. History'
  BY <1>1, <1>2, SameHistory DEF tracer
<1>5. ChainOrder'
  BY <1>1, <1>2, RawShows DEF ChainOrder
<1>6. Drained' /\ Leading' /\ NothingLost' /\ NoStrayExit'
  BY <1>1 DEF Drained, Leading, NothingLost, NoStrayExit
<1> QED BY <1>3, <1>4, <1>5, <1>6 DEF StreamInv

LEMMA StreamScan == StreamInv /\ Scan => StreamInv'
<1> SUFFICES ASSUME StreamInv, Scan PROVE StreamInv'
  OBVIOUS
<1>1. pc = "scan" /\ UNCHANGED <<gs, events, n, clock, rg, mode, blockTs>>
  BY DEF Scan
<1>2. IInv /\ History
  BY <1>1 DEF StreamInv
<1>3. IInv'
  BY <1>2, ScanKeeps
<1>4. pc' = "merge"
  BY <1>2, ScanFinds DEF Scan
<1>5. Written' = Written /\ Unmerged' = Unmerged /\ Merged' = Merged
  BY <1>2, ScanSettles
<1>6. Numbering' /\ Clocking' /\ Exits'
  BY <1>1, <1>2, <1>5 DEF History, Numbering, Clocking, Exits
<1>7. Calls'
  BY <1>1, <1>2, <1>5 DEF History, Calls, InCall
<1>8. Raw' /\ Recovered'
  BY <1>1, <1>2, <1>5 DEF History, Raw, Recovered
<1>9. Leading'
  BY <1>2, <1>5, ScanLeads DEF Leading
<1>10. ChainOrder'
  BY <1>1, <1>2, <1>4, RawShows DEF ChainOrder
<1>11. Drained' /\ NothingLost' /\ NoStrayExit'
  BY <1>4 DEF Drained, NothingLost, NoStrayExit
<1> QED BY <1>3, <1>6, <1>7, <1>8, <1>9, <1>10, <1>11 DEF StreamInv, History

LEMMA StreamMerge ==
    ASSUME StreamInv, NEW f \in frontier, Merge(f)
    PROVE  StreamInv'
<1>1. pc = "merge"
  BY DEF Merge
<1>2. IInv /\ History /\ Leading
  BY <1>1 DEF StreamInv
<1>3. pc' = "scan" /\ UNCHANGED tracer
  BY <1>2, MergeMoves
<1>4. IInv'
  BY <1>2, MergeKeeps
<1>5. Written' = Written /\ UNCHANGED <<batch, n, clock, rg, mode, blockTs>>
  <2>1. events \in Seq(Event) /\ Len(events) \in Nat
    <3>1. events \in Seq(Event)
      BY <1>1, <1>2 DEF IInv, OrderTypeOK
    <3> QED BY <3>1
  <2> QED BY <1>2, <1>3, <2>1, MergeSettles DEF tracer
<1>6. Numbering' /\ Clocking' /\ Exits'
  BY <1>2, <1>5 DEF History, Numbering, Clocking, Exits
<1>7. Calls'
  BY <1>2, <1>5 DEF History, Calls, InCall
<1>8. Raw' /\ Recovered'
  BY <1>2, MergeKeepsRaw, MergeKeepsRecovered DEF History
<1>9. History'
  BY <1>6, <1>7, <1>8 DEF History
<1>10. ChainOrder'
  <2>1. events' \in Seq(Event)
    BY <1>3, <1>4 DEF IInv, OrderTypeOK
  <2>2. DOMAIN events' = 1..Len(events')
    BY <2>1
  <2> QED BY <1>8, <2>2 DEF ChainOrder, Raw, SameChain
<1>11. Drained' /\ Leading' /\ NothingLost' /\ NoStrayExit'
  BY <1>3 DEF Drained, Leading, NothingLost, NoStrayExit
<1> QED BY <1>4, <1>9, <1>10, <1>11 DEF StreamInv

LEMMA StreamCheck == StreamInv /\ CheckOrder => StreamInv'
<1> SUFFICES ASSUME StreamInv, CheckOrder PROVE StreamInv'
  OBVIOUS
<1>1. /\ pc = "scan" /\ pc' \in {"exits", "timeOrder"}
      /\ UNCHANGED <<tracer, selected, frontier, gs, events>>
      /\ frontier = {} /\ \A p \in Proc : batch[p] = <<>>
  BY DEF CheckOrder, Exhausted
<1>2. IInv /\ History /\ events \in Seq(Event)
  BY <1>1 DEF StreamInv, IInv, OrderTypeOK
<1>3. IInv'
  BY <1>1, <1>2, VerdictKeeps
<1>4. History'
  BY <1>1, <1>2, SameHistory DEF tracer
<1>5. ChainOrder'
  BY <1>1, <1>2, RawShows DEF ChainOrder
<1>6. NothingLost'
  <2>1. Unmerged = {} /\ Written = Merged
    BY <1>1, NothingPends
  <2>2. Len(events) = n /\ {events[i].n : i \in DOMAIN events} = 1..n
    BY <1>2, <2>1, Complete DEF History
  <2> QED BY <1>1, <2>2 DEF NothingLost, tracer
<1>7. Drained' /\ Leading' /\ NoStrayExit'
  BY <1>1 DEF Drained, Leading, NoStrayExit, tracer
<1> QED BY <1>3, <1>4, <1>5, <1>6, <1>7 DEF StreamInv

LEMMA StreamFix == StreamInv /\ FixSysExits => StreamInv'
<1> SUFFICES ASSUME StreamInv, FixSysExits PROVE StreamInv'
  OBVIOUS
<1>1. /\ pc = "exits" /\ UNCHANGED <<tracer, selected, frontier, gs>>
      /\ frontier = {} /\ \A p \in Proc : batch[p] = <<>>
  BY DEF FixSysExits, StreamInv, Drained
<1>2. /\ IInv /\ History /\ events \in Seq(Event) /\ NothingLost
      /\ Unmerged = {} /\ Written = Merged
  BY <1>1, NothingPends DEF StreamInv, IInv, OrderTypeOK
<1>3. Stray = {}
  BY <1>2, BlockIsSeen DEF Stray, History
<1>4. CASE Early # {}
  <2>1. pc' = "timeOrder" /\ events' = events
    BY <1>3, <1>4 DEF FixSysExits
  <2>2. IInv'
    BY <1>1, <1>2, <2>1, VerdictKeeps
  <2>3. History'
    BY <1>1, <1>2, <2>1, SameHistory DEF tracer
  <2>4. ChainOrder'
    BY <1>1, <1>2, <2>1, RawShows DEF ChainOrder
  <2>5. Drained' /\ Leading' /\ NoStrayExit' /\ NothingLost'
    BY <1>1, <1>2, <2>1 DEF Drained, Leading, NoStrayExit, NothingLost, tracer
  <2> QED BY <2>2, <2>3, <2>4, <2>5 DEF StreamInv
<1>5. CASE Early = {}
  <2>1. pc' = "ordered" /\ events' = StableSort(Corrected)
    BY <1>3, <1>5 DEF FixSysExits
  <2>2. IInv'
    BY <1>1, <1>2, <2>1, VerdictKeeps
  <2> DEFINE s == StableSort(Corrected)
  <2>3. /\ Len(s) = n /\ {s[k].n : k \in DOMAIN s} = 1..n
        /\ Monotone => \A k, l \in DOMAIN s :
              k < l /\ ChainOf(s[k]) = ChainOf(s[l]) /\ ChainOf(s[k]) # Unordered
                  => s[k].n < s[l].n
    BY <1>2, SortKeeps
  <2>4. events' = s /\ n' = n
    BY <1>1, <2>1 DEF tracer
  <2> HIDE DEF s
  <2>5. NothingLost' /\ ChainOrder'
    BY <2>1, <2>3, <2>4 DEF NothingLost, ChainOrder, Monotone
  <2>6. Drained' /\ Leading' /\ NoStrayExit'
    BY <1>1, <2>1 DEF Drained, Leading, NoStrayExit, tracer
  <2> QED BY <2>1, <2>2, <2>5, <2>6 DEF StreamInv
<1> QED BY <1>4, <1>5

LEMMA StreamStutter == StreamInv /\ UNCHANGED vars => StreamInv'
<1> SUFFICES ASSUME StreamInv, UNCHANGED vars PROVE StreamInv'
  OBVIOUS
<1>1. /\ UNCHANGED <<batch, n, clock, rg, mode, blockTs>>
      /\ UNCHANGED <<pc, selected, frontier, gs, events>>
  BY DEF vars, tracer, order
<1>2. IInv'
  BY StutterKeeps DEF StreamInv
<1>3. pc' # "ordered" => History'
  BY <1>1, SameHistory DEF StreamInv
<1>4. Leading'
  <2>1. Unmerged' = Unmerged
    BY <1>1, NothingSettles
  <2> QED BY <1>1, <2>1 DEF StreamInv, Leading
<1>5. Drained' /\ NothingLost' /\ ChainOrder' /\ NoStrayExit'
  BY <1>1 DEF StreamInv, Drained, NothingLost, ChainOrder, NoStrayExit
<1> QED BY <1>2, <1>3, <1>4, <1>5 DEF StreamInv

LEMMA StreamNext == StreamInv /\ [Next]_vars => StreamInv'
<1> SUFFICES ASSUME StreamInv, [Next]_vars PROVE StreamInv'
  OBVIOUS
<1>1. CASE Trace
  BY <1>1, StreamTrace
<1>2. CASE Begin
  BY <1>2, StreamBegin
<1>3. CASE Scan
  BY <1>3, StreamScan
<1>4. CASE \E f \in frontier : Merge(f)
  BY <1>4, StreamMerge
<1>5. CASE CheckOrder
  BY <1>5, StreamCheck
<1>6. CASE FixSysExits
  BY <1>6, StreamFix
<1>7. CASE Done \/ UNCHANGED vars
  BY <1>7, StreamStutter DEF Done
<1> QED BY <1>1, <1>2, <1>3, <1>4, <1>5, <1>6, <1>7 DEF Next, Reorder
-----------------------------------------------------------------------------
\* The history of the stream is kept by every step of the runtime and of
\* order1007.
THEOREM StreamInductive == Spec => []StreamInv
<1>1. Init => StreamInv
  BY StreamInit
<1>2. StreamInv /\ [Next]_vars => StreamInv'
  BY StreamNext
<1> QED BY <1>1, <1>2, PTL DEF Spec

\* The pending count and the batches run out together (order.go:63): when the
\* loop ends every event the runtime wrote is in the stream, once, and neither
\* the time check nor the correction of syscall exits loses one.
THEOREM EverythingMerged == Spec => []NothingLost
<1>1. StreamInv => NothingLost
  BY DEF StreamInv
<1> QED BY <1>1, StreamInductive, PTL

\* The stream moves every goroutine, and the GC, through its states in the
\* order the runtime did, whatever the clocks (order.go:51); correcting the
\* exits of syscalls (order.go:135) keeps that order if the clocks agree.
THEOREM ChainsInOrder == Spec => []ChainOrder
<1>1. StreamInv => ChainOrder
  BY DEF StreamInv
<1> QED BY <1>1, StreamInductive, PTL

\* Until syscall exits are corrected the events of a P stay in the order in
\* which that P wrote them (order.go:46), whatever the clocks.
THEOREM BatchesInOrder == Spec => []BatchOrder
<1>1. StreamInv => BatchOrder
  BY RawShows DEF StreamInv, BatchOrder
<1> QED BY <1>1, StreamInductive, PTL

\* order1007 never meets a syscall exit with its own time whose block it has
\* not merged before (order.go:126), whatever the clocks.
THEOREM ExitsFindTheirBlock == Spec => []NoStrayExit
<1>1. StreamInv => NoStrayExit
  BY DEF StreamInv
<1> QED BY <1>1, StreamInductive, PTL

\* If the clocks of different Ps agree, the merge recovers the order in which
\* the runtime wrote the events.
THEOREM TimelineIsRecovered == Spec => []TimelineRecovered
<1>1. StreamInv => TimelineRecovered
  BY RawShows DEF StreamInv, TimelineRecovered
<1> QED BY <1>1, StreamInductive, PTL
=============================================================================
