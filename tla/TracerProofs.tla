---------------------------- MODULE TracerProofs ----------------------------
(***************************************************************************)
(* What every proof about the runtime's traces needs: the events it writes *)
(* are events.                                                             *)
(***************************************************************************)
EXTENDS GoTracer, TLAPS

USE DEF gState

LEMMA NowTyped ==
    ASSUME TracerTypeOK, NEW p \in Proc, NEW t \in Now(p)
    PROVE  t \in Nat /\ t # 0
BY TracerAssumption DEF Now, TracerTypeOK

LEMMA PlainTyped ==
    ASSUME TracerTypeOK, NEW p \in Proc, NEW t \in Nat, NEW typ \in EventTypes,
           NEW g \in Goroutine \cup {NoG}
    PROVE  Plain(typ, p, t, g) \in Event
BY DEF TracerTypeOK, Plain, Event, gZero, GState, gStatus

LEMMA MovingTyped ==
    ASSUME TracerTypeOK, NEW p \in Proc, NEW t \in Nat, NEW typ \in EventTypes,
           NEW g \in Goroutine \cup {NoG}, NEW c \in Chain, NEW d \in Nat,
           NEW status \in gStatus
    PROVE  Moving(typ, p, t, g, c, d, status) \in Event
<1>1. rg[c] \in GState /\ gState(rg[c].seq + d, status) \in GState
  BY DEF TracerTypeOK, GState
<1>2. (IF c = Garbage THEN NoG ELSE c) \in Goroutine \cup {NoG}
  BY DEF Chain
<1>3. (IF typ \in Numbered THEN rg[c].seq ELSE 0) \in Nat
  BY <1>1 DEF GState
<1> QED BY <1>1, <1>2, <1>3 DEF Moving, Event, TracerTypeOK

LEMMA EmitTyped ==
    ASSUME TracerTypeOK, NEW e \in Event, Emit(e)
    PROVE  batch' \in [Proc -> Seq(Event)] /\ n' \in Nat /\ clock' \in [Proc -> Nat]
<1>1. e.p \in Proc /\ e.ts \in Nat
  BY DEF Event
<1>2. Append(batch[e.p], e) \in Seq(Event)
  BY <1>1 DEF TracerTypeOK
<1> QED BY <1>1, <1>2 DEF TracerTypeOK, Emit
=============================================================================
