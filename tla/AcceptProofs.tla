----------------------------- MODULE AcceptProofs -----------------------------
(***************************************************************************)
(* postProcessTrace accepts the trace of any program.                      *)
(*                                                                         *)
(* It meets the events in the order of the stream, without the futile      *)
(* wakeups; its descriptors follow what the runtime's view would be had    *)
(* these wakeups not taken place.  No descriptor sees all events, nor all  *)
(* of them in the order they were written: each one follows the events     *)
(* that touch it, which the stream keeps in order.                         *)
(***************************************************************************)
EXTENDS PipelineProofs

\* The program's clocks agree; tracing did not begin in the middle of a wakeup
\* (parser.go:510); syscall exits carry their goroutine; Ps that stop are told
\* when they start; and what the whole program brackets is not written at the
\* same reading as its end by two Ps (order.go:190 gives it no order).
GlobalSpans == {"GCStart", "GCDone", "GCSTWStart", "GCSTWDone", "UserTaskCreate", "UserTaskEnd"}
Ordinary ==
    /\ Monotone /\ ~MidWakeup /\ ~LocalExits
    /\ "ProcStop" \in Emits => "ProcStart" \in Emits
    /\ Clocks = "exact" \/ Emits \cap GlobalSpans = {}
-----------------------------------------------------------------------------
(***************************************************************************)
(* What futile wakeups hide                                                *)
(***************************************************************************)
\* g is woken by u in vain, and blocks again at q.
Vanishes(H, g, u, q) ==
    /\ u \in Unblocks(H, g) /\ q \in Halts(H, g) /\ u < q
    /\ \E f \in (u + 1)..(q - 1) : f \in Denies(H, g)
    /\ \A x \in (u + 1)..(q - 1) : Of(H[x], g) =>
          H[x].g = g /\ H[x].typ \in WakeupTypes \cup SweepTypes

\* Between u and q the goroutine is taken to be still blocked.
Hidden(H, g, k) == \E u, q \in 1..n : Vanishes(H, g, u, q) /\ u <= k /\ k < q

LEMMA WokenFirst ==
    ASSUME NEW H, NEW V, NEW m \in Nat, Chronicle(H, V, m), NEW g \in Goroutine,
           NEW k \in 0..m, V[k].mode[g] = "wakeup", ~MidWakeup
    PROVE  \E u \in 1..k : H[u].typ = "GoUnblock" /\ H[u].arg = g /\ Idles(H, g, u, k)
<1>1. PICK u \in 0..k : Woke(H, g, u) /\ Idles(H, g, u, k)
  BY IdleSince
<1>2. ASSUME u = 0 PROVE FALSE
  <2> DEFINE S == {j \in 0..k : V[j].mode[g] = "wakeup"}
  <2>1. S \in SUBSET Nat /\ k \in S
    OBVIOUS
  <2>2. PICK j \in S : \A i \in S : j <= i
    <3> HIDE DEF S
    <3>1. S # {}
      BY <2>1
    <3> QED BY <2>1, <3>1, HasLeast
  <2>3. j \in 0..m /\ V[j].mode[g] = "wakeup" /\ j <= k
    BY <2>2
  <2>4. j # 0
    BY <2>3 DEF Chronicle, First
  <2>5. j \in 1..m /\ j - 1 \in 0..k /\ j - 1 \notin S
    BY <2>2, <2>3, <2>4
  <2>6. Did(V[j - 1], H[j], V[j]) /\ V[j - 1].mode[g] # "wakeup"
    BY <2>5 DEF Chronicle
  <2>7. H[j].typ = "GoUnblock" /\ H[j].arg = g
    BY <2>3, <2>6 DEF Did, ModesBy
  <2>8. Of(H[j], g)
    BY <2>7, Subjects DEF Of
  <2>9. j \in (u + 1)..k
    BY <1>2, <2>3, <2>5
  <2> QED BY <1>1, <2>7, <2>8, <2>9 DEF Idles, SweepTypes
<1>3. u \in 1..k
  BY <1>2
<1> QED BY <1>1, <1>3 DEF Woke

\* Every futile wakeup hides its goroutine.
LEMMA DeniedVanishes ==
    ASSUME n \in Nat, ~MidWakeup, NEW H, NEW V, Chronicle(H, V, n), NEW g \in Goroutine,
           NEW f \in Denies(H, g), V[n].mode[g] # "futile"
    PROVE  \E u, q \in 1..n : /\ Vanishes(H, g, u, q) /\ u < f /\ f < q
                              /\ \A y \in Halts(H, g) : y < q => y < u
<1>1. f \in 1..n /\ H[f].typ = "FutileWakeup" /\ H[f].g = g
  BY DEF Denies
<1>2. V[f - 1].mode[g] = "wakeup"
  BY <1>1, FutileEnds
<1>3. PICK q \in (f + 1)..n : /\ H[q].typ \in FutileParks /\ H[q].g = g
                              /\ \A x \in (f + 1)..(q - 1) : ~Of(H[x], g)
  BY <1>1, FutileEnds
<1>4. f - 1 \in 0..n
  BY <1>1
<1>5. PICK u \in 1..(f - 1) : H[u].typ = "GoUnblock" /\ H[u].arg = g /\ Idles(H, g, u, f - 1)
  BY <1>2, <1>4, WokenFirst
<1>6. u \in 1..n /\ q \in 1..n /\ u < f /\ f < q /\ n \in Nat
  BY <1>1, <1>3, <1>5
<1>7. u \in Unblocks(H, g) /\ q \in Halts(H, g)
  BY <1>3, <1>5, <1>6 DEF Unblocks, Halts
<1>8. Of(H[u], g)
  BY <1>7, LooksAt
<1>9. ASSUME NEW x \in (u + 1)..(q - 1), Of(H[x], g)
      PROVE  H[x].g = g /\ H[x].typ \in WakeupTypes \cup SweepTypes
  <2>1. x \in (u + 1)..(f - 1) \/ x = f \/ x \in (f + 1)..(q - 1)
    BY <1>1, <1>6
  <2>2. CASE x = f
    BY <1>1, <2>2 DEF WakeupTypes
  <2>3. CASE x \in (u + 1)..(f - 1)
    <3>1. H[x].typ \in {"GoStart", "GoPreempt", "GoCreate"} \cup SweepTypes
      BY <1>5, <1>9, <2>3 DEF Idles
    <3>2. x \in 1..n /\ u < x
      BY <1>6, <2>3
    <3>3. ~(H[x].typ = "GoCreate" /\ H[x].arg = g)
      BY <1>6, <1>8, <3>2, NothingBefore
    <3>4. H[x].typ = "GoCreate" => H[x].g # g
      BY <1>5, <1>9, <2>3 DEF Idles
    <3>5. H[x].typ = "GoCreate" => Subject(H[x]) = H[x].arg
      BY Subjects
    <3>6. H[x].typ # "GoCreate"
      BY <1>9, <3>3, <3>4, <3>5 DEF Of
    <3>7. H[x].typ \in {"GoStart", "GoPreempt"} \cup SweepTypes
      BY <3>1, <3>6
    <3>8. Subject(H[x]) \in {H[x].g, NoG}
      <4>1. H[x].typ \in {"GoStart", "GoPreempt"} => H[x].typ \in StartTypes \cup LeaveTypes
        BY DEF StartTypes, LeaveTypes, YieldTypes
      <4>2. H[x].typ \in SweepTypes => H[x].typ \notin MoveTypes
        BY DEF SweepTypes, MoveTypes, StartTypes, SnapTypes, LeaveTypes, ParkTypes, YieldTypes, EndTypes
      <4> QED BY <3>7, <4>1, <4>2, Subjects
    <3>9. H[x].g = g
      BY <1>9, <3>8, Sentinels DEF Of
    <3> QED BY <3>7, <3>9 DEF WakeupTypes
  <2> QED BY <1>3, <1>9, <2>1, <2>2, <2>3
<1>10. Vanishes(H, g, u, q)
  <2>1. u < q /\ f \in (u + 1)..(q - 1)
    BY <1>1, <1>6
  <2> QED BY <1>7, <1>9, <2>1 DEF Vanishes
<1>11. ASSUME NEW y \in Halts(H, g), y < q PROVE y < u
  <2>1. y \in 1..n /\ Of(H[y], g) /\ H[y].typ \in FutileParks
    BY LooksAt DEF Halts
  <2>2. y # u
    BY <1>5, <2>1 DEF FutileParks
  <2>3. y \notin (u + 1)..(q - 1)
    BY <1>9, <2>1 DEF FutileParks, WakeupTypes, SweepTypes
  <2> QED BY <1>6, <1>11, <2>1, <2>2, <2>3
<1> QED BY <1>6, <1>10, <1>11

\* An event is dropped if and only if it begins or ends such a time, or the
\* goroutine's in it, but for what it was made to sweep.
Inside(H, g, u, q, x) ==
    \/ x = u \/ x = q
    \/ u < x /\ x < q /\ Of(H[x], g) /\ H[x].typ \notin SweepTypes

LEMMA VanishedAre ==
    ASSUME n \in Nat, ~MidWakeup, NEW H, NEW V, Chronicle(H, V, n),
           \A g \in Goroutine : V[n].mode[g] # "futile", NEW x \in 1..n, x \in Dropped(H, 1..n)
    PROVE  \E g \in Goroutine : \E u, q \in 1..n : Vanishes(H, g, u, q) /\ Inside(H, g, u, q, x)
<1>0. PICK g \in Goroutine : \E q \in Halts(H, g) : Vain(H, 1..n, g, q) /\ In(H, 1..n, g, q, x)
  BY DEF Dropped
<1>1. PICK q \in Halts(H, g) : Vain(H, 1..n, g, q) /\ In(H, 1..n, g, q, x)
  BY <1>0
<1>2. Halts(H, g) \subseteq 1..n /\ Unblocks(H, g) \subseteq 1..n /\ Denies(H, g) \subseteq 1..n
  BY LooksAt DEF Denies
<1>3. PICK f \in Denies(H, g) : f < q /\ \A y \in Halts(H, g) : y < q => y <= f
  BY <1>1, <1>2 DEF Vain
<1>4. PICK u, l \in 1..n : /\ Vanishes(H, g, u, l) /\ u < f /\ f < l
                           /\ \A y \in Halts(H, g) : y < l => y < u
  BY DeniedVanishes
<1>5. l \in Halts(H, g) /\ u \in Unblocks(H, g) /\ f \in 1..n /\ q \in 1..n
  BY <1>2, <1>4 DEF Vanishes
<1>6. l = q
  <2>1. ~(l < q)
    BY <1>3, <1>4, <1>5
  <2>2. ~(q < l)
    BY <1>3, <1>4, <1>5
  <2> QED BY <1>5, <2>1, <2>2
<1>7. Inside(H, g, u, q, x)
  <2>1. CASE x = q
    BY <2>1 DEF Inside
  <2>2. ASSUME x < q, x \in Unblocks(H, g) \cup Acting(H, g), u <= x PROVE Inside(H, g, u, q, x)
    <3>1. Of(H[x], g) /\ H[x].typ \in {"GoUnblock"} \cup WakeupTypes
      BY <2>2, LooksAt DEF Unblocks, Acting
    <3>2. H[x].typ \notin SweepTypes
      BY <3>1 DEF WakeupTypes, SweepTypes
    <3> QED BY <1>5, <2>2, <3>1, <3>2 DEF Inside
  <2>3. u < q
    BY <1>4, <1>6 DEF Vanishes
  <2>4. \A y \in (1..n) \cap (Unblocks(H, g) \cup Halts(H, g)) : y < q => x = q \/ y <= x
    BY <1>1 DEF In
  <2>5. x = q \/ u <= x
    BY <1>5, <2>3, <2>4
  <2>6. x = q \/ (x < q /\ x \in Unblocks(H, g) \cup Acting(H, g))
    BY <1>1 DEF In
  <2> QED BY <2>1, <2>2, <2>5, <2>6
<1> QED BY <1>4, <1>5, <1>6, <1>7

LEMMA InsideDropped ==
    ASSUME n \in Nat, NEW H, NEW g \in Goroutine, NEW u \in 1..n, NEW q \in 1..n,
           Vanishes(H, g, u, q), NEW x \in 1..n, Inside(H, g, u, q, x)
    PROVE  x \in Dropped(H, 1..n)
<1>1. /\ u \in Unblocks(H, g) /\ q \in Halts(H, g) /\ u < q
      /\ \A y \in (u + 1)..(q - 1) : Of(H[y], g) =>
            H[y].g = g /\ H[y].typ \in WakeupTypes \cup SweepTypes
  BY DEF Vanishes
<1>2. PICK f \in (u + 1)..(q - 1) : f \in Denies(H, g)
  BY DEF Vanishes
<1>3. ASSUME NEW y \in Unblocks(H, g) \cup Halts(H, g), y < q PROVE y <= u
  <2>1. y \in 1..n /\ Of(H[y], g) /\ H[y].typ \in {"GoUnblock"} \cup FutileParks
    BY LooksAt DEF Unblocks, Halts
  <2>2. y \notin (u + 1)..(q - 1)
    BY <1>1, <2>1 DEF FutileParks, WakeupTypes, SweepTypes
  <2> QED BY <1>3, <2>1, <2>2
<1>4. f \in 1..n /\ u < f /\ f < q
  BY <1>2
<1>5. Vain(H, 1..n, g, q)
  <2>1. \A y \in (1..n) \cap Halts(H, g) : y < q => y <= f
    BY <1>3, <1>4
  <2> QED BY <1>2, <1>4, <2>1 DEF Vain
<1>6. In(H, 1..n, g, q, x)
  <2>1. CASE x = q
    BY <2>1 DEF In
  <2>2. CASE x = u
    BY <1>1, <1>3, <2>2 DEF In
  <2>3. CASE u < x /\ x < q /\ Of(H[x], g) /\ H[x].typ \notin SweepTypes
    <3>1. x \in (u + 1)..(q - 1)
      BY <2>3
    <3>2. H[x].g = g /\ H[x].typ \in WakeupTypes
      BY <1>1, <2>3, <3>1
    <3>3. x \in Acting(H, g)
      BY <3>2 DEF Acting
    <3>4. \A y \in (1..n) \cap (Unblocks(H, g) \cup Halts(H, g)) : y < q => y <= x
      BY <1>3, <2>3
    <3> QED BY <2>3, <3>3, <3>4 DEF In
  <2> QED BY <2>1, <2>2, <2>3 DEF Inside
<1> QED BY <1>1, <1>5, <1>6 DEF Dropped

\* Only u and q change whether g is hidden.
LEMMA HiddenSame ==
    ASSUME n \in Nat, NEW H, NEW g \in Goroutine, NEW k \in 1..n,
           ~(H[k].typ = "GoUnblock" /\ H[k].arg = g), ~(H[k].typ \in FutileParks /\ H[k].g = g)
    PROVE  Hidden(H, g, k) <=> Hidden(H, g, k - 1)
<1>1. ASSUME NEW u \in 1..n, NEW q \in 1..n, Vanishes(H, g, u, q)
      PROVE  u <= k /\ k < q <=> u <= k - 1 /\ k - 1 < q
  <2>1. k # u /\ k # q
    BY <1>1 DEF Vanishes, Unblocks, Halts
  <2> QED BY <2>1
<1> QED BY <1>1 DEF Hidden

\* Nobody is hidden when it does anything that is kept.
LEMMA KeptShown ==
    ASSUME n \in Nat, NEW H, NEW g \in Goroutine, NEW k \in 1..n, k \notin Dropped(H, 1..n),
           Of(H[k], g), H[k].typ \notin SweepTypes
    PROVE  ~Hidden(H, g, k) /\ ~Hidden(H, g, k - 1)
<1>1. ASSUME NEW u \in 1..n, NEW q \in 1..n, Vanishes(H, g, u, q)
      PROVE  ~(u <= k /\ k < q) /\ ~(u <= k - 1 /\ k - 1 < q)
  <2>1. ~Inside(H, g, u, q, k)
    BY <1>1, InsideDropped
  <2> QED BY <2>1 DEF Inside
<1> QED BY <1>1 DEF Hidden

LEMMA KeptSame ==
    ASSUME n \in Nat, NEW H, NEW g \in Goroutine, NEW k \in 1..n, k \notin Dropped(H, 1..n)
    PROVE  Hidden(H, g, k) <=> Hidden(H, g, k - 1)
<1>1. CASE (H[k].typ = "GoUnblock" /\ H[k].arg = g) \/ (H[k].typ \in FutileParks /\ H[k].g = g)
  <2>1. k \in Unblocks(H, g) \cup Halts(H, g)
    BY <1>1 DEF Unblocks, Halts
  <2>2. Of(H[k], g)
    BY <2>1, LooksAt
  <2>3. H[k].typ \notin SweepTypes
    BY <1>1 DEF SweepTypes, FutileParks
  <2> QED BY <2>2, <2>3, KeptShown
<1>2. CASE ~((H[k].typ = "GoUnblock" /\ H[k].arg = g) \/ (H[k].typ \in FutileParks /\ H[k].g = g))
  BY <1>2, HiddenSame
<1> QED BY <1>1, <1>2

\* What an event that is dropped is, and whose.
LEMMA DroppedIs ==
    ASSUME n \in Nat, ~MidWakeup, NEW H, NEW V, Chronicle(H, V, n),
           \A g \in Goroutine : V[n].mode[g] # "futile", NEW k \in 1..n, k \in Dropped(H, 1..n)
    PROVE  \E g \in Goroutine :
             \/ H[k].typ = "GoUnblock" /\ H[k].arg = g /\ Hidden(H, g, k)
             \/ H[k].typ \in FutileParks /\ H[k].g = g /\ Hidden(H, g, k - 1)
             \/ H[k].typ \in WakeupTypes /\ H[k].g = g /\ Hidden(H, g, k) /\ Hidden(H, g, k - 1)
<1>1. PICK g \in Goroutine : \E u, q \in 1..n : Vanishes(H, g, u, q) /\ Inside(H, g, u, q, k)
  BY VanishedAre
<1>2. PICK u, q \in 1..n : Vanishes(H, g, u, q) /\ Inside(H, g, u, q, k)
  BY <1>1
<1>3. /\ u \in Unblocks(H, g) /\ q \in Halts(H, g) /\ u < q
      /\ \A x \in (u + 1)..(q - 1) : Of(H[x], g) =>
            H[x].g = g /\ H[x].typ \in WakeupTypes \cup SweepTypes
  BY <1>2 DEF Vanishes
<1>4. CASE k = u
  <2>1. Hidden(H, g, k)
    BY <1>2, <1>3, <1>4 DEF Hidden
  <2> QED BY <1>3, <1>4, <2>1 DEF Unblocks
<1>5. CASE k = q
  <2>1. u <= k - 1 /\ k - 1 < q
    BY <1>3, <1>5
  <2>2. Hidden(H, g, k - 1)
    BY <1>2, <2>1 DEF Hidden
  <2> QED BY <1>3, <1>5, <2>2 DEF Halts
<1>6. CASE u < k /\ k < q /\ Of(H[k], g) /\ H[k].typ \notin SweepTypes
  <2>1. k \in (u + 1)..(q - 1) /\ u <= k - 1 /\ k - 1 < q
    BY <1>6
  <2>2. Hidden(H, g, k) /\ Hidden(H, g, k - 1)
    BY <1>2, <1>6, <2>1 DEF Hidden
  <2> QED BY <1>3, <1>6, <2>1, <2>2
<1> QED BY <1>2, <1>4, <1>5, <1>6 DEF Inside
-----------------------------------------------------------------------------
(***************************************************************************)
(* What descriptors follow                                                 *)
(***************************************************************************)
\* The events kept that touch a P, a goroutine, or what all share.
Left(H)        == (1..n) \ Dropped(H, 1..n)
OnP(H, p)      == {k \in Left(H) : H[k].p = p /\ H[k].typ # "GoSysExit"}
OfG(H, g)      == {k \in Left(H) : Of(H[k], g)}
Those(H, typs) == {k \in Left(H) : H[k].typ \in typs}

Bit(b) == IF b THEN 1 ELSE 0

\* What the view says of them, futile wakeups apart.
Shown(H, V, p, k) == LET g == V[k].run[p] IN IF g # NoG /\ Hidden(H, g, k) THEN NoG ELSE g
RunOf(H, V, p)    == [k \in 0..n |-> Shown(H, V, p, k)]
StateOf(H, V, g)  == [k \in 0..n |-> IF Hidden(H, g, k) THEN "gWaiting" ELSE V[k].st[g]]
OnOf(V, p)        == [k \in 0..n |-> Bit(p \in V[k].on)]
SpanOf(V, c)      == [k \in 0..n |-> Bit(c \in V[k].open)]

\* val changes at the events of K only.
Steady(K, val) == \A k \in (1..n) \ K : val[k] = val[k - 1]

\* The types that are dropped.
LEMMA DroppedTypes ==
    ASSUME n \in Nat, ~MidWakeup, NEW H, NEW V, Chronicle(H, V, n),
           \A g \in Goroutine : V[n].mode[g] # "futile", NEW k \in 1..n, k \in Dropped(H, 1..n)
    PROVE  H[k].typ \in {"GoUnblock"} \cup FutileParks \cup WakeupTypes
BY DroppedIs

LEMMA OnSteady ==
    ASSUME n \in Nat, ~MidWakeup, NEW H, NEW V, Chronicle(H, V, n),
           \A g \in Goroutine : V[n].mode[g] # "futile", NEW p \in Proc
    PROVE  Steady(OnP(H, p), OnOf(V, p))
<1> SUFFICES ASSUME NEW k \in (1..n) \ OnP(H, p) PROVE OnOf(V, p)[k] = OnOf(V, p)[k - 1]
  BY DEF Steady
<1>1. k \in 1..n /\ k \in 0..n /\ k - 1 \in 0..n
  OBVIOUS
<1>2. Did(V[k - 1], H[k], V[k])
  BY DEF Chronicle
<1>3. H[k].typ \in {"ProcStart", "ProcStop"} => H[k].p # p
  <2>1. k \in Dropped(H, 1..n) => H[k].typ \notin {"ProcStart", "ProcStop"}
    BY <1>1, DroppedTypes DEF FutileParks, WakeupTypes
  <2> QED BY <2>1 DEF OnP, Left
<1>4. p \in V[k].on <=> p \in V[k - 1].on
  BY <1>2, <1>3 DEF Did, OnBy
<1> QED BY <1>1, <1>4 DEF OnOf, Bit

\* A span is opened and closed by its own events.
LEMMA SpanSteady ==
    ASSUME n \in Nat, NEW H, NEW V, Chronicle(H, V, n), NEW c, NEW K,
           \A k \in (1..n) \ K : H[k].typ \in Openers \cup SpanCloses => Key(H[k]) # c
    PROVE  Steady(K, SpanOf(V, c))
<1> SUFFICES ASSUME NEW k \in (1..n) \ K PROVE SpanOf(V, c)[k] = SpanOf(V, c)[k - 1]
  BY DEF Steady
<1>1. k \in 1..n /\ k \in 0..n /\ k - 1 \in 0..n
  OBVIOUS
<1>2. Did(V[k - 1], H[k], V[k])
  BY DEF Chronicle
<1>3. c \in V[k].open <=> c \in V[k - 1].open
  BY <1>2 DEF Did, SpansBy
<1> QED BY <1>1, <1>3 DEF SpanOf, Bit

\* A goroutine's state, as it is shown, changes at its own events, and then as
\* the runtime's does.
LEMMA StateSteady ==
    ASSUME n \in Nat, ~MidWakeup, NEW H, NEW V, Chronicle(H, V, n),
           \A g \in Goroutine : V[n].mode[g] # "futile", NEW g \in Goroutine
    PROVE  Steady(OfG(H, g), StateOf(H, V, g))
<1> SUFFICES ASSUME NEW k \in (1..n) \ OfG(H, g) PROVE StateOf(H, V, g)[k] = StateOf(H, V, g)[k - 1]
  BY DEF Steady
<1>1. k \in 1..n /\ k \in 0..n /\ k - 1 \in 0..n
  OBVIOUS
<1>2. Did(V[k - 1], H[k], V[k]) /\ ViewOK(V[k - 1]) /\ ViewOK(V[k])
  BY <1>1 DEF Chronicle
<1>3. /\ StateOf(H, V, g)[k] = IF Hidden(H, g, k) THEN "gWaiting" ELSE V[k].st[g]
      /\ StateOf(H, V, g)[k - 1] = IF Hidden(H, g, k - 1) THEN "gWaiting" ELSE V[k - 1].st[g]
  BY <1>1 DEF StateOf
<1>4. CASE k \notin Dropped(H, 1..n)
  <2>1. ~Of(H[k], g)
    BY <1>1, <1>4 DEF OfG, Left
  <2>2. V[k].st[g] = V[k - 1].st[g]
    BY <1>2, <2>1, OthersKeep
  <2>3. Hidden(H, g, k) <=> Hidden(H, g, k - 1)
    BY <1>1, <1>4, KeptSame
  <2> QED BY <1>3, <2>2, <2>3
<1>5. CASE k \in Dropped(H, 1..n)
  <2>1. PICK h \in Goroutine :
             \/ H[k].typ = "GoUnblock" /\ H[k].arg = h /\ Hidden(H, h, k)
             \/ H[k].typ \in FutileParks /\ H[k].g = h /\ Hidden(H, h, k - 1)
             \/ H[k].typ \in WakeupTypes /\ H[k].g = h /\ Hidden(H, h, k) /\ Hidden(H, h, k - 1)
    BY <1>1, <1>5, DroppedIs
  <2>2. /\ H[k].typ \in FutileParks => H[k].typ \in LeaveTypes /\ Gets(H[k].typ) = "gWaiting"
        /\ H[k].typ = "GoUnblock" => Needs(H[k].typ) = "gWaiting" /\ H[k].typ \notin LeaveTypes
    BY DEF FutileParks, LeaveTypes, ParkTypes, YieldTypes, EndTypes, Gets, Needs, SnapTypes, StartTypes
  <2>3. CASE H[k].typ = "GoUnblock" /\ H[k].arg = h /\ Hidden(H, h, k)
    <3>1. Subject(H[k]) = h
      BY <2>3, Subjects
    <3>2. CASE h = g
      <4>1. Of(H[k], g)
        BY <3>1, <3>2 DEF Of
      <4>2. H[k].typ \in MoveTypes
        BY <2>3 DEF MoveTypes
      <4>3. V[k - 1].st[g] = "gWaiting"
        BY <1>2, <2>2, <2>3, <3>1, <3>2, <4>2 DEF Did, MovesBy
      <4> QED BY <1>3, <2>3, <3>2, <4>3
    <3>3. CASE h # g
      <4>1. H[k].typ \notin FutileParks
        BY <2>3 DEF FutileParks
      <4>2. Hidden(H, g, k) <=> Hidden(H, g, k - 1)
        BY <1>1, <2>3, <3>3, <4>1, HiddenSame
      <4>3. V[k].st[g] = V[k - 1].st[g]
        <5>1. CASE Of(H[k], g)
          BY <1>2, <2>2, <2>3, <3>1, <3>3, <5>1, OfCases
        <5>2. CASE ~Of(H[k], g)
          BY <1>2, <5>2, OthersKeep
        <5> QED BY <5>1, <5>2
      <4> QED BY <1>3, <4>2, <4>3
    <3> QED BY <3>2, <3>3
  <2>4. CASE H[k].typ \in FutileParks /\ H[k].g = h /\ Hidden(H, h, k - 1)
    <3>1. Subject(H[k]) = h
      BY <2>2, <2>4, Subjects
    <3>2. CASE h = g
      <4>1. Of(H[k], g)
        BY <3>1, <3>2 DEF Of
      <4>2. V[k].st[g] = "gWaiting"
        BY <1>2, <2>2, <2>4, <4>1, OfCases
      <4> QED BY <1>3, <2>4, <3>2, <4>2
    <3>3. CASE h # g
      <4>1. ~Of(H[k], g)
        BY <2>4, <3>1, <3>3 DEF Of
      <4>2. H[k].typ # "GoUnblock"
        BY <2>4 DEF FutileParks
      <4>3. Hidden(H, g, k) <=> Hidden(H, g, k - 1)
        BY <1>1, <2>4, <3>3, <4>2, HiddenSame
      <4> QED BY <1>2, <1>3, <4>1, <4>3, OthersKeep
    <3> QED BY <3>2, <3>3
  <2>5. CASE H[k].typ \in WakeupTypes /\ H[k].g = h /\ Hidden(H, h, k) /\ Hidden(H, h, k - 1)
    <3>1. CASE h = g
      BY <1>3, <2>5, <3>1
    <3>2. CASE h # g
      <4>1. Subject(H[k]) \in {h, NoG}
        <5>1. H[k].typ \in StartTypes \cup LeaveTypes \/ H[k].typ \notin MoveTypes
          BY <2>5 DEF WakeupTypes, StartTypes, LeaveTypes, YieldTypes, MoveTypes, SnapTypes, ParkTypes, EndTypes
        <5> QED BY <2>5, <5>1, Subjects
      <4>2. ~Of(H[k], g)
        BY <2>5, <3>2, <4>1, Sentinels DEF Of
      <4>3. H[k].typ \notin {"GoUnblock"} \cup FutileParks
        BY <2>5 DEF WakeupTypes, FutileParks
      <4>4. Hidden(H, g, k) <=> Hidden(H, g, k - 1)
        BY <1>1, <4>3, HiddenSame
      <4> QED BY <1>2, <1>3, <4>2, <4>4, OthersKeep
    <3> QED BY <3>1, <3>2
  <2> QED BY <2>1, <2>3, <2>4, <2>5
<1> QED BY <1>4, <1>5

LEMMA StateMoves ==
    ASSUME n \in Nat, NEW H, NEW V, Chronicle(H, V, n), NEW g \in Goroutine, NEW m \in OfG(H, g)
    PROVE  IF H[m].typ \in MoveTypes /\ Subject(H[m]) = g
           THEN StateOf(H, V, g)[m - 1] = Needs(H[m].typ) /\ StateOf(H, V, g)[m] = Gets(H[m].typ)
           ELSE /\ StateOf(H, V, g)[m] = StateOf(H, V, g)[m - 1]
                /\ H[m].typ \notin SweepTypes => StateOf(H, V, g)[m] = "gRunning"
<1>1. m \in 1..n /\ m \in 0..n /\ m - 1 \in 0..n /\ m \notin Dropped(H, 1..n) /\ Of(H[m], g)
  BY DEF OfG, Left
<1>2. Did(V[m - 1], H[m], V[m]) /\ ViewOK(V[m - 1]) /\ ViewOK(V[m])
  BY <1>1 DEF Chronicle
<1>3. /\ StateOf(H, V, g)[m] = IF Hidden(H, g, m) THEN "gWaiting" ELSE V[m].st[g]
      /\ StateOf(H, V, g)[m - 1] = IF Hidden(H, g, m - 1) THEN "gWaiting" ELSE V[m - 1].st[g]
  BY <1>1 DEF StateOf
<1>4. Hidden(H, g, m) <=> Hidden(H, g, m - 1)
  BY <1>1, KeptSame
<1>5. H[m].typ \notin SweepTypes => ~Hidden(H, g, m) /\ ~Hidden(H, g, m - 1)
  BY <1>1, KeptShown
<1>6. H[m].typ \in MoveTypes => H[m].typ \notin SweepTypes
  BY DEF MoveTypes, SweepTypes, StartTypes, SnapTypes, LeaveTypes, ParkTypes, YieldTypes, EndTypes
<1>7. CASE H[m].typ \in MoveTypes /\ Subject(H[m]) = g
  <2>1. V[m - 1].st[g] = Needs(H[m].typ) /\ V[m].st = [V[m - 1].st EXCEPT ![g] = Gets(H[m].typ)]
    BY <1>2, <1>7 DEF Did, MovesBy
  <2>2. V[m].st[g] = Gets(H[m].typ)
    BY <1>2, <2>1 DEF ViewOK
  <2> QED BY <1>3, <1>5, <1>6, <1>7, <2>1, <2>2
<1>8. CASE ~(H[m].typ \in MoveTypes /\ Subject(H[m]) = g)
  <2>1. LeaveTypes \subseteq MoveTypes
    BY DEF MoveTypes
  <2>2. V[m].st[g] = "gRunning" /\ V[m - 1].st[g] = "gRunning"
    BY <1>1, <1>2, <1>8, <2>1, OfCases
  <2> QED BY <1>3, <1>4, <1>5, <1>8, <2>2
<1> QED BY <1>7, <1>8

\* What a P runs, as it is shown, changes at its own events.
LEMMA RunSteady ==
    ASSUME n \in Nat, ~MidWakeup, NEW H, NEW V, Chronicle(H, V, n),
           \A g \in Goroutine : V[n].mode[g] # "futile", NEW p \in Proc
    PROVE  Steady(OnP(H, p), RunOf(H, V, p))
<1> SUFFICES ASSUME NEW k \in (1..n) \ OnP(H, p) PROVE RunOf(H, V, p)[k] = RunOf(H, V, p)[k - 1]
  BY DEF Steady
<1>1. k \in 1..n /\ k \in 0..n /\ k - 1 \in 0..n
  OBVIOUS
<1>2. Did(V[k - 1], H[k], V[k]) /\ ViewOK(V[k - 1]) /\ ViewOK(V[k])
  BY <1>1 DEF Chronicle
<1> DEFINE a == V[k - 1].run[p]
           b == V[k].run[p]
<1>3. /\ RunOf(H, V, p)[k] = IF b # NoG /\ Hidden(H, b, k) THEN NoG ELSE b
      /\ RunOf(H, V, p)[k - 1] = IF a # NoG /\ Hidden(H, a, k - 1) THEN NoG ELSE a
  BY <1>1 DEF RunOf, Shown
<1>4. /\ a \in Goroutine \cup {NoG} /\ b \in Goroutine \cup {NoG} /\ H[k].p \in Proc
      /\ V[k - 1].run \in [Proc -> Goroutine \cup {NoG}]
      /\ NoG \notin Goroutine
  BY <1>2, Sentinels DEF ViewOK, Did, Tales
<1>5. /\ H[k].typ = "GoStart" => V[k].run = [V[k - 1].run EXCEPT ![H[k].p] = H[k].g] /\ V[k - 1].run[H[k].p] = NoG
      /\ H[k].typ \in LeaveTypes => /\ V[k].run = [V[k - 1].run EXCEPT ![H[k].p] = NoG]
                                    /\ V[k - 1].run[H[k].p] = H[k].g
      /\ H[k].typ \notin LeaveTypes \cup {"GoStart"} => V[k].run = V[k - 1].run
  <2>1. "GoStart" \notin LeaveTypes /\ LeaveTypes \subseteq ActTypes
    BY DEF LeaveTypes, ParkTypes, YieldTypes, EndTypes, ActTypes
  <2> QED BY <1>2, <2>1 DEF Did, RunsBy
<1> HIDE DEF a, b
<1>6. H[k].p # p \/ H[k].typ \notin LeaveTypes \cup {"GoStart"} => a = b
  BY <1>4, <1>5 DEF a, b
<1>7. CASE k \notin Dropped(H, 1..n)
  <2>1. H[k].p # p \/ H[k].typ = "GoSysExit"
    BY <1>1, <1>7 DEF OnP, Left
  <2>2. "GoSysExit" \notin LeaveTypes \cup {"GoStart"}
    BY DEF LeaveTypes, ParkTypes, YieldTypes, EndTypes
  <2>3. a = b
    BY <1>6, <2>1, <2>2
  <2>4. a \in Goroutine => (Hidden(H, a, k) <=> Hidden(H, a, k - 1))
    BY <1>1, <1>7, KeptSame
  <2> QED BY <1>3, <1>4, <2>3, <2>4
<1>8. CASE k \in Dropped(H, 1..n)
  <2>1. PICK h \in Goroutine :
             \/ H[k].typ = "GoUnblock" /\ H[k].arg = h /\ Hidden(H, h, k)
             \/ H[k].typ \in FutileParks /\ H[k].g = h /\ Hidden(H, h, k - 1)
             \/ H[k].typ \in WakeupTypes /\ H[k].g = h /\ Hidden(H, h, k) /\ Hidden(H, h, k - 1)
    BY <1>1, <1>8, DroppedIs
  <2>2. /\ H[k].typ \in FutileParks => H[k].typ \in LeaveTypes
        /\ H[k].typ = "GoUnblock" => Needs(H[k].typ) = "gWaiting" /\ H[k].typ \notin LeaveTypes \cup {"GoStart"}
    BY DEF FutileParks, LeaveTypes, ParkTypes, YieldTypes, EndTypes, Needs, SnapTypes, StartTypes
  <2>3. CASE H[k].typ = "GoUnblock" /\ H[k].arg = h /\ Hidden(H, h, k)
    <3>1. a = b
      BY <1>6, <2>2, <2>3
    <3>2. V[k - 1].st[h] = "gWaiting"
      <4>1. Subject(H[k]) = h /\ H[k].typ \in MoveTypes
        BY <2>3, Subjects DEF MoveTypes
      <4> QED BY <1>2, <2>2, <2>3, <4>1 DEF Did, MovesBy
    <3>3. a # h
      BY <1>2, <3>2 DEF a, ViewOK
    <3>4. H[k].typ \notin FutileParks
      BY <2>3 DEF FutileParks
    <3>5. a \in Goroutine => (Hidden(H, a, k) <=> Hidden(H, a, k - 1))
      BY <1>1, <2>3, <3>3, <3>4, HiddenSame
    <3> QED BY <1>3, <1>4, <3>1, <3>5
  <2>4. CASE H[k].typ \in FutileParks /\ H[k].g = h /\ Hidden(H, h, k - 1)
    <3>1. V[k - 1].run[H[k].p] = h
      BY <1>5, <2>2, <2>4
    <3>2. CASE H[k].p = p
      <4>1. a = h /\ b = NoG
        BY <1>4, <1>5, <2>2, <2>4, <3>1, <3>2 DEF a, b
      <4> QED BY <1>3, <2>4, <4>1
    <3>3. CASE H[k].p # p
      <4>1. a = b
        BY <1>6, <3>3
      <4>2. a # h
        BY <1>2, <1>4, <3>1, <3>3 DEF a, ViewOK
      <4>3. H[k].typ # "GoUnblock"
        BY <2>4 DEF FutileParks
      <4>4. a \in Goroutine => (Hidden(H, a, k) <=> Hidden(H, a, k - 1))
        BY <1>1, <2>4, <4>2, <4>3, HiddenSame
      <4> QED BY <1>3, <1>4, <4>1, <4>4
    <3> QED BY <3>2, <3>3
  <2>5. CASE H[k].typ \in WakeupTypes /\ H[k].g = h /\ Hidden(H, h, k) /\ Hidden(H, h, k - 1)
    <3>1. H[k].typ \notin {"GoUnblock"} \cup FutileParks
      BY <2>5 DEF WakeupTypes, FutileParks
    <3>2. \A g \in Goroutine : Hidden(H, g, k) <=> Hidden(H, g, k - 1)
      BY <1>1, <3>1, HiddenSame
    <3>3. CASE H[k].p # p \/ H[k].typ \notin LeaveTypes \cup {"GoStart"}
      BY <1>3, <1>4, <1>6, <3>2, <3>3
    <3>4. CASE H[k].p = p /\ H[k].typ = "GoStart"
      <4>1. a = NoG /\ b = h
        BY <1>4, <1>5, <2>5, <3>4 DEF a, b
      <4> QED BY <1>3, <2>5, <4>1
    <3>5. CASE H[k].p = p /\ H[k].typ \in LeaveTypes
      <4>1. a = h /\ b = NoG
        BY <1>4, <1>5, <2>5, <3>5 DEF a, b
      <4> QED BY <1>3, <2>5, <4>1
    <3> QED BY <3>3, <3>4, <3>5
  <2> QED BY <2>1, <2>3, <2>4, <2>5
<1> QED BY <1>7, <1>8

\* And there as the runtime has it.
LEMMA RunMoves ==
    ASSUME n \in Nat, NEW H, NEW V, Chronicle(H, V, n), NEW p \in Proc, NEW m \in OnP(H, p)
    PROVE  LET r == RunOf(H, V, p)[m - 1]
               s == RunOf(H, V, p)[m]
           IN  /\ H[m].typ \in StartTypes => r = NoG /\ s = H[m].g
               /\ H[m].typ \in LeaveTypes => r = H[m].g /\ s = NoG
               /\ H[m].typ \notin StartTypes \cup LeaveTypes => s = r
               /\ H[m].typ \in {"GoSysCall", "GoCreate", "GoUnblock"} => r = H[m].g
               /\ H[m].typ = "ProcStop" => r = NoG
<1>1. m \in 1..n /\ m \in 0..n /\ m - 1 \in 0..n /\ m \notin Dropped(H, 1..n) /\ H[m].p = p
  BY DEF OnP, Left
<1>2. Did(V[m - 1], H[m], V[m]) /\ ViewOK(V[m - 1]) /\ ViewOK(V[m])
  BY <1>1 DEF Chronicle
<1> DEFINE a == V[m - 1].run[p]
           b == V[m].run[p]
<1>3. /\ RunOf(H, V, p)[m] = IF b # NoG /\ Hidden(H, b, m) THEN NoG ELSE b
      /\ RunOf(H, V, p)[m - 1] = IF a # NoG /\ Hidden(H, a, m - 1) THEN NoG ELSE a
  BY <1>1 DEF RunOf, Shown
<1>4. /\ a \in Goroutine \cup {NoG} /\ b \in Goroutine \cup {NoG}
      /\ V[m - 1].run \in [Proc -> Goroutine \cup {NoG}] /\ NoG \notin Goroutine
  BY <1>2, Sentinels DEF ViewOK
<1>5. \A g \in Goroutine : /\ Hidden(H, g, m) <=> Hidden(H, g, m - 1)
                           /\ Of(H[m], g) /\ H[m].typ \notin SweepTypes => ~Hidden(H, g, m)
  BY <1>1, KeptSame, KeptShown
<1>6. H[m].g \in Goroutine => Of(H[m], H[m].g)
  BY DEF Of
<1>7. H[m].typ \in StartTypes \cup LeaveTypes \cup {"GoSysCall", "GoCreate", "GoUnblock"} => H[m].typ \notin SweepTypes
  BY DEF SweepTypes, StartTypes, LeaveTypes, ParkTypes, YieldTypes, EndTypes
<1>8. CASE H[m].typ \in StartTypes
  <2>1. Subject(H[m]) = H[m].g /\ H[m].typ \in MoveTypes \ LeaveTypes
    BY <1>8, Subjects DEF MoveTypes, StartTypes, LeaveTypes, ParkTypes, YieldTypes, EndTypes
  <2>2. H[m].g \in Goroutine
    BY <1>2, <2>1 DEF Did, MovesBy
  <2>3. H[m].typ = "GoStart" /\ V[m].run[H[m].p] = H[m].g
    <3>1. Of(H[m], H[m].g)
      BY <1>6, <2>2
    <3>2. ~(V[m - 1].st[H[m].g] = "gRunning")
      <4>1. Needs(H[m].typ) # "gRunning"
        BY <1>8 DEF Needs, StartTypes, LeaveTypes, SnapTypes, ParkTypes, YieldTypes, EndTypes
      <4> QED BY <1>2, <2>1, <4>1 DEF Did, MovesBy
    <3> QED BY <1>2, <1>8, <2>2, <3>1, <3>2, OfCases
  <2>4. a = NoG
    BY <1>1, <1>2, <2>3 DEF Did, RunsBy
  <2>5. b = H[m].g /\ ~Hidden(H, b, m)
    BY <1>1, <1>5, <1>6, <1>7, <1>8, <2>2, <2>3
  <2>6. H[m].typ \notin LeaveTypes \cup {"GoSysCall", "GoCreate", "GoUnblock", "ProcStop"}
    BY <2>1, <2>3
  <2> HIDE DEF a, b
  <2> QED BY <1>3, <1>8, <2>4, <2>5, <2>6
<1>9. CASE H[m].typ \in LeaveTypes
  <2>1. /\ H[m].typ \in ActTypes /\ H[m].typ # "GoStart"
        /\ H[m].typ \notin StartTypes \cup {"GoSysCall", "GoCreate", "GoUnblock", "ProcStop"}
    BY <1>9 DEF ActTypes, StartTypes, LeaveTypes, ParkTypes, YieldTypes, EndTypes
  <2>2. a = H[m].g /\ a # NoG /\ b = NoG
    BY <1>1, <1>2, <1>4, <1>9, <2>1 DEF Did, RunsBy
  <2>3. ~Hidden(H, a, m - 1)
    BY <1>4, <1>5, <1>6, <1>7, <1>9, <2>2
  <2> HIDE DEF a, b
  <2> QED BY <1>3, <1>9, <2>1, <2>2, <2>3
<1>10. CASE H[m].typ \notin StartTypes \cup LeaveTypes
  <2>1. a = b
    BY <1>2, <1>10 DEF Did, RunsBy, StartTypes
  <2>2. H[m].typ \in {"GoSysCall", "GoCreate", "GoUnblock"} => a = H[m].g
    BY <1>1, <1>2 DEF Did, RunsBy, ActTypes, ForTypes
  <2>3. H[m].typ = "ProcStop" => a = NoG
    BY <1>1, <1>2 DEF Did, RunsBy
  <2>4. H[m].typ \in {"GoSysCall", "GoCreate", "GoUnblock"} /\ a # NoG => ~Hidden(H, a, m - 1)
    BY <1>4, <1>5, <1>6, <1>7, <2>2
  <2> HIDE DEF a, b
  <2>5. a # NoG => (Hidden(H, a, m) <=> Hidden(H, a, m - 1))
    BY <1>4, <1>5
  <2> QED BY <1>3, <1>10, <2>1, <2>2, <2>3, <2>4, <2>5
<1> QED BY <1>8, <1>9, <1>10
-----------------------------------------------------------------------------
(***************************************************************************)
(* Following                                                               *)
(***************************************************************************)
\* Of the events of K, those up to k were seen.
Cut(S, K, k) == \A y \in K : y \in S <=> y <= k

\* Whenever S is a cut of K, now is what val says.
Tracks(S, K, val, now) == \A k \in 0..n : Cut(S, K, k) => now = val[k]

LEMMA SteadyBetween ==
    ASSUME n \in Nat, NEW K, NEW val, Steady(K, val), NEW a \in 0..n, NEW b \in 0..n, a <= b,
           \A y \in K : ~(a < y /\ y <= b)
    PROVE  val[b] = val[a]
<1> SUFFICES ASSUME val[b] # val[a] PROVE FALSE
  OBVIOUS
<1> DEFINE S == {j \in a..b : val[j] # val[a]}
<1>1. S \in SUBSET Nat /\ b \in S
  OBVIOUS
<1>2. PICK j \in S : \A i \in S : j <= i
  <2> HIDE DEF S
  <2>1. S # {}
    BY <1>1
  <2> QED BY <1>1, <2>1, HasLeast
<1>3. j \in a..b /\ val[j] # val[a] /\ j # a
  BY <1>2
<1>4. j \in 1..n /\ j - 1 \in a..b /\ j - 1 \notin S /\ a < j /\ j <= b
  BY <1>2, <1>3
<1>5. val[j] = val[j - 1]
  BY <1>4 DEF Steady
<1>6. val[j - 1] = val[a]
  BY <1>4
<1> QED BY <1>3, <1>5, <1>6

LEMMA TracksFirst ==
    ASSUME n \in Nat, NEW K, K \subseteq 1..n, NEW val, Steady(K, val)
    PROVE  Tracks({}, K, val, val[0])
<1> SUFFICES ASSUME NEW k \in 0..n, Cut({}, K, k) PROVE val[0] = val[k]
  BY DEF Tracks
<1>1. \A y \in K : ~(0 < y /\ y <= k)
  BY DEF Cut
<1>2. 0 \in 0..n /\ 0 <= k
  OBVIOUS
<1> QED BY <1>1, <1>2, SteadyBetween

\* At the next event of K, what is tracked is what was said just before it.
LEMMA TracksAt ==
    ASSUME n \in Nat, NEW S, NEW K, NEW m \in 1..n, NEW val, NEW now, Tracks(S, K, val, now),
           K \subseteq 1..n, \A y \in K : y \in S <=> y < m
    PROVE  now = val[m - 1]
<1>1. m - 1 \in 0..n
  OBVIOUS
<1>2. Cut(S, K, m - 1)
  BY DEF Cut
<1> QED BY <1>1, <1>2 DEF Tracks

LEMMA TracksOn ==
    ASSUME n \in Nat, NEW S, NEW K, NEW m \in K, K \subseteq 1..n, NEW val, Steady(K, val),
           \A y \in K : y \in S <=> y < m
    PROVE  Tracks(S \cup {m}, K, val, val[m])
<1> SUFFICES ASSUME NEW k \in 0..n, Cut(S \cup {m}, K, k) PROVE val[m] = val[k]
  BY DEF Tracks
<1>1. m \in 1..n /\ m \in 0..n
  OBVIOUS
<1>2. m <= k
  BY DEF Cut
<1>3. \A y \in K : ~(m < y /\ y <= k)
  BY <1>1 DEF Cut
<1>4. PICK a \in 0..n : a = m
  BY <1>1
<1>5. val[k] = val[a]
  <2>1. a <= k /\ \A y \in K : ~(a < y /\ y <= k)
    BY <1>2, <1>3, <1>4
  <2> QED BY <2>1, SteadyBetween
<1> QED BY <1>4, <1>5

LEMMA TracksOff ==
    ASSUME NEW S, NEW K, NEW m, m \notin K, NEW val, NEW now, Tracks(S, K, val, now)
    PROVE  Tracks(S \cup {m}, K, val, now)
BY DEF Tracks, Cut

\* What was seen before the next event.
Seen(t, k) == {t[i].n : i \in 1..(k - 1)}

\* t is what is left of stream s.
LeftOf(H, s, t) ==
    /\ Len(t) \in Nat /\ DOMAIN t = 1..Len(t)
    /\ Kept(t, Separated(s), Dropped(H, 1..n), n)

\* It has what is kept, once, and what is ordered in the stream is so in t.
LEMMA LeftHas ==
    ASSUME n \in Nat, NEW H, NEW s, StreamOf(H, s), NEW t, LeftOf(H, s, t)
    PROVE  /\ \A k \in 1..Len(t) : t[k].n \in Left(H) /\ \E i \in 1..n : t[k] = Separated(s)[i]
           /\ \A y \in Left(H) : \E k \in 1..Len(t) : t[k].n = y
<1> DEFINE evs == Separated(s)
<1>1. \A i \in 1..n : evs[i].n = s[i].n /\ evs[i].n \in 1..n
  BY SeparatedSame
<1>2. PICK r \in [1..Len(t) -> 1..n] :
        /\ \A i \in 1..Len(t) : t[i] = evs[r[i]] /\ evs[r[i]].n \notin Dropped(H, 1..n)
        /\ \A x \in 1..n : evs[x].n \notin Dropped(H, 1..n) => \E i \in 1..Len(t) : r[i] = x
  BY DEF LeftOf, Kept
<1> HIDE DEF evs
<1>3. ASSUME NEW k \in 1..Len(t)
      PROVE  t[k].n \in Left(H) /\ \E i \in 1..n : t[k] = evs[i]
  <2>1. r[k] \in 1..n
    BY <1>2
  <2> QED BY <1>1, <1>2, <2>1 DEF Left
<1>4. ASSUME NEW y \in Left(H) PROVE \E k \in 1..Len(t) : t[k].n = y
  <2>1. PICK i \in 1..n : s[i].n = y
    BY DEF StreamOf, Left
  <2>2. evs[i].n = y /\ y \notin Dropped(H, 1..n)
    BY <1>1, <2>1 DEF Left
  <2>3. PICK k \in 1..Len(t) : r[k] = i
    BY <1>2, <2>2
  <2> QED BY <1>2, <2>2, <2>3
<1> QED BY <1>3, <1>4 DEF evs

LEMMA LeftOrder ==
    ASSUME Monotone, n \in Nat, NEW H, NEW V, Chronicle(H, V, n), NEW s, StreamOf(H, s),
           NEW t, LeftOf(H, s, t), NEW i \in 1..Len(t), NEW j \in 1..Len(t), i < j,
           \/ Tied(H[t[i].n], H[t[j].n])
           \/ \E g \in Goroutine : Of(H[t[i].n], g) /\ Of(H[t[j].n], g)
    PROVE  t[i].n < t[j].n
<1> DEFINE evs == Separated(s)
<1>1. \A k \in 1..n : evs[k].n = s[k].n
  BY SeparatedSame
<1>2. PICK r \in [1..Len(t) -> 1..n] :
        /\ \A a, b \in 1..Len(t) : a < b => r[a] < r[b]
        /\ \A a \in 1..Len(t) : t[a] = evs[r[a]]
  BY DEF LeftOf, Kept
<1> HIDE DEF evs
<1>3. r[i] \in 1..n /\ r[j] \in 1..n /\ r[i] < r[j]
  BY <1>2
<1>4. t[i].n = s[r[i]].n /\ t[j].n = s[r[j]].n
  BY <1>1, <1>2, <1>3
<1>5. CASE Tied(H[t[i].n], H[t[j].n])
  <2>1. PICK a \in 1..n : a = r[i]
    BY <1>3
  <2>2. PICK b \in 1..n : b = r[j]
    BY <1>3
  <2>3. a < b /\ Tied(H[s[a].n], H[s[b].n])
    BY <1>3, <1>4, <1>5, <2>1, <2>2
  <2>4. s[a].n < s[b].n
    BY <2>3 DEF StreamOf
  <2> QED BY <1>4, <2>1, <2>2, <2>4
<1>6. ASSUME NEW g \in Goroutine, Of(H[t[i].n], g), Of(H[t[j].n], g)
      PROVE  t[i].n < t[j].n
  <2>1. PICK a \in 1..n : a = r[i]
    BY <1>3
  <2>2. PICK b \in 1..n : b = r[j]
    BY <1>3
  <2>3. a < b /\ Of(H[s[a].n], g) /\ Of(H[s[b].n], g)
    BY <1>3, <1>4, <1>6, <2>1, <2>2
  <2>4. s[a].n < s[b].n
    BY <2>3, OwnOrder
  <2> QED BY <1>4, <2>1, <2>2, <2>4
<1> QED BY <1>5, <1>6

\* Of the events of K, those written before the next one were seen.
Ordered(H, K) == \A x, y \in K : \/ Tied(H[x], H[y])
                                 \/ \E g \in Goroutine : Of(H[x], g) /\ Of(H[y], g)

LEMMA SeenBefore ==
    ASSUME Monotone, n \in Nat, NEW H, NEW V, Chronicle(H, V, n), NEW s, StreamOf(H, s),
           NEW t, LeftOf(H, s, t), NEW k \in 1..Len(t), NEW K, K \subseteq Left(H), Ordered(H, K),
           t[k].n \in K
    PROVE  \A y \in K : y \in Seen(t, k) <=> y < t[k].n
<1> SUFFICES ASSUME NEW y \in K PROVE y \in Seen(t, k) <=> y < t[k].n
  OBVIOUS
<1>1. Len(t) \in Nat
  BY DEF LeftOf
<1>2. PICK i \in 1..Len(t) : t[i].n = y
  BY LeftHas
<1>3. /\ i < k => t[i].n < t[k].n
      /\ k < i => t[k].n < t[i].n
  BY <1>2, LeftOrder DEF Ordered
<1>4. t[i].n \in Nat /\ t[k].n \in Nat
  BY LeftHas DEF Left
<1>5. y \in Seen(t, k) => y < t[k].n
  <2> SUFFICES ASSUME NEW j \in 1..(k - 1), t[j].n = y PROVE y < t[k].n
    BY DEF Seen
  <2>1. j \in 1..Len(t) /\ j < k
    BY <1>1
  <2>2. Tied(H[t[j].n], H[t[k].n]) \/ \E g \in Goroutine : Of(H[t[j].n], g) /\ Of(H[t[k].n], g)
    BY DEF Ordered
  <2> QED BY <2>1, <2>2, LeftOrder
<1>6. y < t[k].n => y \in Seen(t, k)
  <2>1. y < t[k].n => i < k
    BY <1>1, <1>2, <1>3, <1>4
  <2> QED BY <1>1, <1>2, <2>1 DEF Seen
<1> QED BY <1>5, <1>6
-----------------------------------------------------------------------------
(***************************************************************************)
(* What postProcessTrace does with one event                               *)
(***************************************************************************)
\* What is proved of postProcessTrace for any input holds here as well.
PP == INSTANCE PostProcessProofs
        WITH gs <- pgs, Inputs <- {}, GlobalSTW <- TRUE, MaxTrace <- MaxEvents

LEMMA PPAssumed ==
    /\ {} \subseteq PP!InputEvents /\ TRUE \in BOOLEAN /\ MaxEvents \in Nat
    /\ PP!FakePs \cap Proc = {}
<1>1. PP!FakePs = FakePs
  BY DEF FakePs, PP!FakePs, PP!TimerP, PP!NetpollP, PP!SyscallP, PP!GCP,
         TimerP, NetpollP, SyscallP, GCP
<1> QED BY <1>1, TracerAssumption, FakePsAreNotReal

LEMMA PPSame ==
    /\ PP!EventTypes = EventTypes /\ PP!LocalTypes = LocalTypes
    /\ PP!TimerP = TimerP /\ PP!SyscallP = SyscallP
    /\ PP!LeaveTypes = LeaveTypes /\ PP!ParkTypes = ParkTypes /\ PP!YieldTypes = YieldTypes
    /\ PP!EndTypes = EndTypes /\ PP!StartTypes = StartTypes /\ PP!SnapTypes = SnapTypes
    /\ PP!G = Goroutine \cup {NoG} /\ PP!Nil = 0
<1>1. /\ PP!LocalTypes = LocalTypes /\ PP!TimerP = TimerP /\ PP!SyscallP = SyscallP
      /\ PP!ParkTypes = ParkTypes /\ PP!YieldTypes = YieldTypes
      /\ PP!EndTypes = EndTypes /\ PP!StartTypes = StartTypes /\ PP!SnapTypes = SnapTypes
      /\ PP!PlainTypes = PlainTypes /\ PP!GoatTypes = GoatTypes
  BY DEF PP!LocalTypes, LocalTypes, PP!TimerP, TimerP, PP!SyscallP, SyscallP,
         PP!ParkTypes, ParkTypes, PP!YieldTypes, YieldTypes, PP!EndTypes, EndTypes,
         PP!StartTypes, StartTypes, PP!SnapTypes, SnapTypes, PP!PlainTypes, PlainTypes,
         PP!GoatTypes, GoatTypes
<1>2. PP!LeaveTypes = LeaveTypes
  BY <1>1 DEF PP!LeaveTypes, LeaveTypes
<1>3. PP!EventTypes = EventTypes
  BY <1>1, <1>2 DEF PP!EventTypes, EventTypes
<1>4. PP!G = Goroutine \cup {NoG} /\ PP!Nil = 0
  BY DEF PP!G, PP!Nil
<1> QED BY <1>1, <1>2, <1>3, <1>4

LEMMA SameWords ==
    /\ PP!LeaveTypes = Post!LeaveTypes /\ PP!ParkTypes = Post!ParkTypes
    /\ PP!YieldTypes = Post!YieldTypes /\ PP!EndTypes = Post!EndTypes
    /\ PP!StartTypes = Post!StartTypes /\ PP!SnapTypes = Post!SnapTypes
    /\ PP!GoatTypes = Post!GoatTypes /\ PP!TimerP = Post!TimerP
    /\ PP!InputEvents = Post!InputEvents
<1>1. PP!BadRegion = Post!BadRegion /\ PP!GoatTypes = Post!GoatTypes
  BY DEF PP!BadRegion, Post!BadRegion, PP!GoatTypes, Post!GoatTypes
<1>2. PP!InputEvents = Post!InputEvents
  BY <1>1, PPSame, PostSame DEF PP!InputEvents, Post!InputEvents
<1> QED BY <1>1, <1>2, PPSame, PostSame

LEMMA SameFits == ASSUME NEW ev PROVE PP!Fits(ev) <=> Post!Fits(ev)
BY DEF PP!Fits, Post!Fits, PP!Running, Post!Running, PP!STW, Post!STW, PP!TaskEvents, Post!TaskEvents,
       PP!Innermost, Post!Innermost, PP!LeaveTypes, Post!LeaveTypes, PP!ParkTypes, Post!ParkTypes,
       PP!YieldTypes, Post!YieldTypes, PP!EndTypes, Post!EndTypes, PP!StartTypes, Post!StartTypes,
       PP!SnapTypes, Post!SnapTypes, PP!TimerP, Post!TimerP, PP!Nil, Post!Nil,
       PP!BadRegion, Post!BadRegion

LEMMA SameCase == ASSUME NEW ev PROVE PP!Case(ev) <=> Post!Case(ev)
<1>1. PP!ProcSwitch(ev) <=> Post!ProcSwitch(ev)
  BY DEF PP!ProcSwitch, Post!ProcSwitch, PP!Accept, Post!Accept, PP!Record, Post!Record, PP!Restore,
         Post!Restore, PP!Here, Post!Here, PP!Nil, Post!Nil, PP!LeaveTypes, Post!LeaveTypes,
         PP!ParkTypes, Post!ParkTypes, PP!YieldTypes, Post!YieldTypes, PP!EndTypes, Post!EndTypes,
         PP!StartTypes, Post!StartTypes, PP!SnapTypes, Post!SnapTypes
<1>2. PP!GCStart(ev) <=> Post!GCStart(ev)
  BY DEF PP!GCStart, Post!GCStart, PP!Accept, Post!Accept, PP!Record, Post!Record, PP!Restore,
         Post!Restore, PP!Here, Post!Here, PP!Nil, Post!Nil, PP!LeaveTypes, Post!LeaveTypes,
         PP!ParkTypes, Post!ParkTypes, PP!YieldTypes, Post!YieldTypes, PP!EndTypes, Post!EndTypes,
         PP!StartTypes, Post!StartTypes, PP!SnapTypes, Post!SnapTypes, PP!GCP, Post!GCP
<1>3. PP!GCDone(ev) <=> Post!GCDone(ev)
  BY DEF PP!GCDone, Post!GCDone, PP!Accept, Post!Accept, PP!Record, Post!Record, PP!Restore,
         Post!Restore, PP!Here, Post!Here, PP!Nil, Post!Nil, PP!LeaveTypes, Post!LeaveTypes,
         PP!ParkTypes, Post!ParkTypes, PP!YieldTypes, Post!YieldTypes, PP!EndTypes, Post!EndTypes,
         PP!StartTypes, Post!StartTypes, PP!SnapTypes, Post!SnapTypes
<1>4. PP!StopTheWorld(ev) <=> Post!StopTheWorld(ev)
  BY DEF PP!StopTheWorld, Post!StopTheWorld, PP!Accept, Post!Accept, PP!Record, Post!Record,
         PP!Restore, Post!Restore, PP!Here, Post!Here, PP!Nil, Post!Nil, PP!LeaveTypes,
         Post!LeaveTypes, PP!ParkTypes, Post!ParkTypes, PP!YieldTypes, Post!YieldTypes, PP!EndTypes,
         Post!EndTypes, PP!StartTypes, Post!StartTypes, PP!SnapTypes, Post!SnapTypes, PP!STW,
         Post!STW
<1>5. PP!Sweep(ev) <=> Post!Sweep(ev)
  BY DEF PP!Sweep, Post!Sweep, PP!Accept, Post!Accept, PP!Record, Post!Record, PP!Restore,
         Post!Restore, PP!Here, Post!Here, PP!Nil, Post!Nil, PP!LeaveTypes, Post!LeaveTypes,
         PP!ParkTypes, Post!ParkTypes, PP!YieldTypes, Post!YieldTypes, PP!EndTypes, Post!EndTypes,
         PP!StartTypes, Post!StartTypes, PP!SnapTypes, Post!SnapTypes
<1>6. PP!MarkAssist(ev) <=> Post!MarkAssist(ev)
  BY DEF PP!MarkAssist, Post!MarkAssist, PP!Accept, Post!Accept, PP!Record, Post!Record, PP!Restore,
         Post!Restore, PP!Here, Post!Here, PP!Nil, Post!Nil, PP!LeaveTypes, Post!LeaveTypes,
         PP!ParkTypes, Post!ParkTypes, PP!YieldTypes, Post!YieldTypes, PP!EndTypes, Post!EndTypes,
         PP!StartTypes, Post!StartTypes, PP!SnapTypes, Post!SnapTypes
<1>7. PP!GoAnnounced(ev) <=> Post!GoAnnounced(ev)
  BY DEF PP!GoAnnounced, Post!GoAnnounced, PP!Accept, Post!Accept, PP!Record, Post!Record,
         PP!Restore, Post!Restore, PP!Here, Post!Here, PP!Nil, Post!Nil, PP!LeaveTypes,
         Post!LeaveTypes, PP!ParkTypes, Post!ParkTypes, PP!YieldTypes, Post!YieldTypes, PP!EndTypes,
         Post!EndTypes, PP!StartTypes, Post!StartTypes, PP!SnapTypes, Post!SnapTypes
<1>8. PP!GoCreate(ev) <=> Post!GoCreate(ev)
  BY DEF PP!GoCreate, Post!GoCreate, PP!Accept, Post!Accept, PP!Record, Post!Record, PP!Restore,
         Post!Restore, PP!Here, Post!Here, PP!Nil, Post!Nil, PP!LeaveTypes, Post!LeaveTypes,
         PP!ParkTypes, Post!ParkTypes, PP!YieldTypes, Post!YieldTypes, PP!EndTypes, Post!EndTypes,
         PP!StartTypes, Post!StartTypes, PP!SnapTypes, Post!SnapTypes, PP!noG, Post!noG
<1>9. PP!GoStart(ev) <=> Post!GoStart(ev)
  BY DEF PP!GoStart, Post!GoStart, PP!Accept, Post!Accept, PP!Record, Post!Record, PP!Restore,
         Post!Restore, PP!Here, Post!Here, PP!Nil, Post!Nil, PP!LeaveTypes, Post!LeaveTypes,
         PP!ParkTypes, Post!ParkTypes, PP!YieldTypes, Post!YieldTypes, PP!EndTypes, Post!EndTypes,
         PP!StartTypes, Post!StartTypes, PP!SnapTypes, Post!SnapTypes, PP!Started, Post!Started,
         PP!Taken, Post!Taken
<1>10. PP!GoLeave(ev) <=> Post!GoLeave(ev)
  BY DEF PP!GoLeave, Post!GoLeave, PP!Accept, Post!Accept, PP!Record, Post!Record, PP!Restore,
         Post!Restore, PP!Here, Post!Here, PP!Nil, Post!Nil, PP!LeaveTypes, Post!LeaveTypes,
         PP!ParkTypes, Post!ParkTypes, PP!YieldTypes, Post!YieldTypes, PP!EndTypes, Post!EndTypes,
         PP!StartTypes, Post!StartTypes, PP!SnapTypes, Post!SnapTypes, PP!LeaveState,
         Post!LeaveState
<1>11. PP!GoUnblock(ev) <=> Post!GoUnblock(ev)
  BY DEF PP!GoUnblock, Post!GoUnblock, PP!Accept, Post!Accept, PP!Record, Post!Record, PP!Restore,
         Post!Restore, PP!Here, Post!Here, PP!Nil, Post!Nil, PP!LeaveTypes, Post!LeaveTypes,
         PP!ParkTypes, Post!ParkTypes, PP!YieldTypes, Post!YieldTypes, PP!EndTypes, Post!EndTypes,
         PP!StartTypes, Post!StartTypes, PP!SnapTypes, Post!SnapTypes, PP!TimerP, Post!TimerP,
         PP!NetpollP, Post!NetpollP
<1>12. PP!GoSysCall(ev) <=> Post!GoSysCall(ev)
  BY DEF PP!GoSysCall, Post!GoSysCall, PP!Accept, Post!Accept, PP!Record, Post!Record, PP!Restore,
         Post!Restore, PP!Here, Post!Here, PP!Nil, Post!Nil, PP!LeaveTypes, Post!LeaveTypes,
         PP!ParkTypes, Post!ParkTypes, PP!YieldTypes, Post!YieldTypes, PP!EndTypes, Post!EndTypes,
         PP!StartTypes, Post!StartTypes, PP!SnapTypes, Post!SnapTypes
<1>13. PP!GoSysExit(ev) <=> Post!GoSysExit(ev)
  BY DEF PP!GoSysExit, Post!GoSysExit, PP!Accept, Post!Accept, PP!Record, Post!Record, PP!Restore,
         Post!Restore, PP!Here, Post!Here, PP!Nil, Post!Nil, PP!LeaveTypes, Post!LeaveTypes,
         PP!ParkTypes, Post!ParkTypes, PP!YieldTypes, Post!YieldTypes, PP!EndTypes, Post!EndTypes,
         PP!StartTypes, Post!StartTypes, PP!SnapTypes, Post!SnapTypes
<1>14. PP!UserTask(ev) <=> Post!UserTask(ev)
  BY DEF PP!UserTask, Post!UserTask, PP!Accept, Post!Accept, PP!Record, Post!Record, PP!Restore,
         Post!Restore, PP!Here, Post!Here, PP!Nil, Post!Nil, PP!LeaveTypes, Post!LeaveTypes,
         PP!ParkTypes, Post!ParkTypes, PP!YieldTypes, Post!YieldTypes, PP!EndTypes, Post!EndTypes,
         PP!StartTypes, Post!StartTypes, PP!SnapTypes, Post!SnapTypes, PP!TaskEvents,
         Post!TaskEvents
<1>15. PP!UserRegion(ev) <=> Post!UserRegion(ev)
  BY DEF PP!UserRegion, Post!UserRegion, PP!Accept, Post!Accept, PP!Record, Post!Record, PP!Restore,
         Post!Restore, PP!Here, Post!Here, PP!Nil, Post!Nil, PP!LeaveTypes, Post!LeaveTypes,
         PP!ParkTypes, Post!ParkTypes, PP!YieldTypes, Post!YieldTypes, PP!EndTypes, Post!EndTypes,
         PP!StartTypes, Post!StartTypes, PP!SnapTypes, Post!SnapTypes, PP!Innermost, Post!Innermost
<1>16. PP!OtherEvent(ev) <=> Post!OtherEvent(ev)
  BY DEF PP!OtherEvent, Post!OtherEvent, PP!Accept, Post!Accept, PP!Record, Post!Record, PP!Restore,
         Post!Restore, PP!Here, Post!Here, PP!Nil, Post!Nil, PP!LeaveTypes, Post!LeaveTypes,
         PP!ParkTypes, Post!ParkTypes, PP!YieldTypes, Post!YieldTypes, PP!EndTypes, Post!EndTypes,
         PP!StartTypes, Post!StartTypes, PP!SnapTypes, Post!SnapTypes, PP!GoatTypes, Post!GoatTypes
<1> QED BY <1>1, <1>2, <1>3, <1>4, <1>5, <1>6, <1>7, <1>8, <1>9, <1>10, <1>11, <1>12, <1>13, <1>14,
           <1>15, <1>16 DEF PP!Case, Post!Case

\* A pass that went well so far: nothing was refused, what is proved of any
\* pass holds, and as there is one task all names are its.
Sound ==
    /\ verdict = "ok" /\ PP!LinkInv
    /\ \A i \in DOMAIN trace : trace[i].seq = Task
    /\ \A g \in Goroutine : ~pgs[g].known => pgs[g].evMarkAssist = 0

\* What the descriptors say after ev.
Advances(ev) ==
    /\ \A q \in Proc :
         /\ ps'[q].g = IF q = ev.p /\ ev.typ \in StartTypes THEN ev.g
                       ELSE IF q = ev.p /\ ev.typ \in LeaveTypes THEN NoG ELSE ps[q].g
         /\ Bit(ps'[q].running) = IF q = ev.p /\ ev.typ = "ProcStart" THEN 1
                                  ELSE IF q = ev.p /\ ev.typ = "ProcStop" THEN 0
                                  ELSE Bit(ps[q].running)
         /\ Bit(ps'[q].evSweep # 0) = IF q = ev.p /\ ev.typ = "GCSweepStart" THEN 1
                                      ELSE IF q = ev.p /\ ev.typ = "GCSweepDone" THEN 0
                                      ELSE Bit(ps[q].evSweep # 0)
    /\ \A h \in Goroutine :
         /\ pgs'[h].known = (pgs[h].known \/ h = ev.g \/ (ev.typ = "GoCreate" /\ h = ev.arg))
         /\ pgs'[h].state = IF ev.typ \in MoveTypes /\ Subject(ev) = h THEN Gets(ev.typ)
                            ELSE pgs[h].state
         /\ Bit(pgs'[h].evMarkAssist # 0) = IF h = ev.g /\ ev.typ = "GCMarkAssistStart" THEN 1
                                            ELSE IF h = ev.g /\ ev.typ = "GCMarkAssistDone" THEN 0
                                            ELSE Bit(pgs[h].evMarkAssist # 0)
    /\ Bit(evGC' # 0) = IF ev.typ = "GCStart" THEN 1
                        ELSE IF ev.typ = "GCDone" THEN 0 ELSE Bit(evGC # 0)
    /\ Bit(evSTW' # 0) = IF ev.typ = "GCSTWStart" THEN 1
                         ELSE IF ev.typ = "GCSTWDone" THEN 0 ELSE Bit(evSTW # 0)
    /\ Bit(tasks' # {}) = IF ev.typ = "UserTaskCreate" THEN 1
                          ELSE IF ev.typ = "UserTaskEnd" THEN 0 ELSE Bit(tasks # {})

LEMMA SoundBegins ==
    ASSUME Post!Init
    PROVE  Sound
<1>1. PP!Init
  BY DEF PP!Init, Post!Init, PP!G, Post!G, PP!P, Post!P, PP!noG, Post!noG, PP!noP, Post!noP,
         PP!Nil, Post!Nil, PP!FakePs, Post!FakePs, PP!TimerP, Post!TimerP, PP!NetpollP, Post!NetpollP,
         PP!SyscallP, Post!SyscallP, PP!GCP, Post!GCP
<1>2. PP!Inv
  BY <1>1, PP!InitHolds, PPAssumed, Sentinels
<1>3. PP!Holders /\ PP!History
  BY <1>1, PP!LinkInit, PPAssumed, Sentinels
<1>4. verdict = "ok" /\ trace = <<>> /\ \A g \in Goroutine : pgs[g].evMarkAssist = 0
  BY Sentinels DEF Post!Init, Post!G, Post!noG, Post!Nil
<1> QED BY <1>2, <1>3, <1>4 DEF Sound, PP!LinkInv

\* An event that fits is accepted, and moves the descriptors as it should.
LEMMA Accepted1 ==
    ASSUME Sound, NEW ev \in Post!InputEvents, ev.seq = Task, PP!Fits(ev), Post!Case(ev)
    PROVE  /\ verdict' = "ok" /\ PP!Effects(ev) /\ (PP!LinkInv)' /\ PP!LinkInv
           /\ ev \in PP!InputEvents
<1>1. ev \in PP!InputEvents /\ PP!Case(ev) /\ PP!LinkInv /\ PP!Inv
  BY SameWords, SameCase DEF Sound, PP!LinkInv
<1>2. PP!Effects(ev) /\ (PP!Inv)'
  BY <1>1, PP!CaseEffects, PPAssumed, Sentinels
<1>3. verdict' \in {verdict, "panic"}
  BY <1>1, PP!CaseAccepts, PPAssumed, Sentinels
<1>4. verdict' = "ok"
  BY <1>2, <1>3 DEF Sound, PP!Inv, PP!NoNilDereference
<1>5. (PP!Holders)' /\ (PP!History)'
  BY <1>1, PP!LinkKept, PPAssumed, Sentinels
<1> QED BY <1>1, <1>2, <1>4, <1>5 DEF PP!LinkInv

LEMMA AdvancesPs ==
    ASSUME NEW ev, Len(trace) \in Nat, PP!Runs(ev), NEW q \in Proc
    PROVE  /\ ps'[q].g = IF q = ev.p /\ ev.typ \in StartTypes THEN ev.g
                         ELSE IF q = ev.p /\ ev.typ \in LeaveTypes THEN NoG ELSE ps[q].g
           /\ Bit(ps'[q].running) = IF q = ev.p /\ ev.typ = "ProcStart" THEN 1
                                    ELSE IF q = ev.p /\ ev.typ = "ProcStop" THEN 0
                                    ELSE Bit(ps[q].running)
           /\ Bit(ps'[q].evSweep # 0) = IF q = ev.p /\ ev.typ = "GCSweepStart" THEN 1
                                        ELSE IF q = ev.p /\ ev.typ = "GCSweepDone" THEN 0
                                        ELSE Bit(ps[q].evSweep # 0)
<1>1. PP!RunsTo(ev, q, ps'[q]) /\ PP!Here = Len(trace) + 1 /\ PP!Nil = 0
  BY DEF PP!Runs, PP!Here, PP!Nil
<1>2. PP!Here # 0
  BY <1>1
<1>3. ps'[q].g = IF q = ev.p /\ ev.typ \in StartTypes THEN ev.g
                 ELSE IF q = ev.p /\ ev.typ \in LeaveTypes THEN NoG ELSE ps[q].g
  BY <1>1, PPSame DEF PP!RunsTo
<1>4. ps'[q].running = IF q = ev.p /\ ev.typ = "ProcStart" THEN TRUE
                       ELSE IF q = ev.p /\ ev.typ = "ProcStop" THEN FALSE ELSE ps[q].running
  BY <1>1 DEF PP!RunsTo
<1>5. ps'[q].evSweep = IF q = ev.p /\ ev.typ = "GCSweepStart" THEN PP!Here
                       ELSE IF q = ev.p /\ ev.typ = "GCSweepDone" THEN 0 ELSE ps[q].evSweep
  BY <1>1 DEF PP!RunsTo
<1> QED BY <1>2, <1>3, <1>4, <1>5 DEF Bit

LEMMA LeavesGet ==
    ASSUME NEW typ \in LeaveTypes
    PROVE  PP!LeaveState(typ) = Gets(typ)
BY PPSame DEF PP!LeaveState, Gets, LeaveTypes, ParkTypes, YieldTypes, EndTypes, StartTypes, SnapTypes

LEMMA AdvancesGs ==
    ASSUME NEW ev, Len(trace) \in Nat, PP!Moves(ev), ev.typ = "GoSysExit" => ev.g = ev.arg,
           NEW h \in Goroutine, ~pgs[h].known => pgs[h].evMarkAssist = 0, PP!Fits(ev)
    PROVE  /\ pgs'[h].known = (pgs[h].known \/ h = ev.g \/ (ev.typ = "GoCreate" /\ h = ev.arg))
           /\ pgs'[h].state = IF ev.typ \in MoveTypes /\ Subject(ev) = h THEN Gets(ev.typ)
                              ELSE pgs[h].state
           /\ Bit(pgs'[h].evMarkAssist # 0) = IF h = ev.g /\ ev.typ = "GCMarkAssistStart" THEN 1
                                              ELSE IF h = ev.g /\ ev.typ = "GCMarkAssistDone" THEN 0
                                              ELSE Bit(pgs[h].evMarkAssist # 0)
<1>1. PP!MovesTo(ev, h, pgs'[h]) /\ PP!Here = Len(trace) + 1 /\ PP!Nil = 0
  BY PPSame DEF PP!Moves, PP!Here
<1>2. PP!Here # 0
  BY <1>1
<1>3. pgs'[h].known = (pgs[h].known \/ h = ev.g \/ (ev.typ = "GoCreate" /\ h = ev.arg))
  BY <1>1 DEF PP!MovesTo, PP!Created
<1>4. pgs'[h].state = IF ev.typ \in {"GoCreate", "GoUnblock"} /\ h = ev.arg THEN "gRunnable"
                      ELSE IF ev.typ \in SnapTypes /\ h = ev.g THEN "gWaiting"
                      ELSE IF ev.typ \in StartTypes /\ h = ev.g THEN "gRunning"
                      ELSE IF ev.typ \in LeaveTypes /\ h = ev.g THEN Gets(ev.typ)
                      ELSE IF ev.typ = "GoSysExit" /\ h = ev.g THEN "gRunnable"
                      ELSE pgs[h].state
  BY <1>1, PPSame, LeavesGet DEF PP!MovesTo, PP!Created, PP!Does
<1>5. pgs'[h].state = IF ev.typ \in MoveTypes /\ Subject(ev) = h THEN Gets(ev.typ) ELSE pgs[h].state
  <2>1. /\ \A typ \in {"GoCreate", "GoUnblock", "GoSysExit"} : Gets(typ) = "gRunnable"
        /\ \A typ \in StartTypes : Gets(typ) = "gRunning"
        /\ \A typ \in SnapTypes : Gets(typ) = "gWaiting"
    <3>1. \A typ \in {"GoCreate", "GoUnblock", "GoSysExit"} : Gets(typ) = "gRunnable"
      BY DEF Gets, StartTypes, SnapTypes, YieldTypes, ParkTypes, EndTypes
    <3>2. \A typ \in StartTypes : Gets(typ) = "gRunning"
      BY DEF Gets, StartTypes, SnapTypes, YieldTypes, ParkTypes, EndTypes
    <3>3. \A typ \in SnapTypes : Gets(typ) = "gWaiting"
      BY DEF Gets, StartTypes, SnapTypes, YieldTypes, ParkTypes, EndTypes
    <3> QED BY <3>1, <3>2, <3>3
  <2>2. /\ StartTypes \cap LeaveTypes = {} /\ SnapTypes \cap (StartTypes \cup LeaveTypes) = {}
        /\ {"GoCreate", "GoUnblock", "GoSysExit"} \cap (StartTypes \cup LeaveTypes \cup SnapTypes) = {}
    BY DEF StartTypes, SnapTypes, LeaveTypes, ParkTypes, YieldTypes, EndTypes
  <2>3. /\ ev.typ \in {"GoCreate", "GoUnblock", "GoSysExit"} => Subject(ev) = ev.arg
        /\ ev.typ \in SnapTypes \cup StartTypes \cup LeaveTypes => Subject(ev) = ev.g
    BY Subjects
  <2>4. CASE ev.typ \in {"GoCreate", "GoUnblock", "GoSysExit"}
    BY <1>4, <2>1, <2>2, <2>3, <2>4 DEF MoveTypes
  <2>5. CASE ev.typ \in SnapTypes
    BY <1>4, <2>1, <2>2, <2>3, <2>5 DEF MoveTypes
  <2>6. CASE ev.typ \in StartTypes
    BY <1>4, <2>1, <2>2, <2>3, <2>6 DEF MoveTypes
  <2>7. CASE ev.typ \in LeaveTypes
    BY <1>4, <2>1, <2>2, <2>3, <2>7 DEF MoveTypes
  <2>8. CASE ev.typ \notin MoveTypes
    BY <1>4, <2>8 DEF MoveTypes
  <2> QED BY <2>4, <2>5, <2>6, <2>7, <2>8 DEF MoveTypes
<1>6. pgs'[h].evMarkAssist =
        IF h = ev.g /\ ev.typ = "GCMarkAssistStart" THEN PP!Here
        ELSE IF (h = ev.g /\ ev.typ = "GCMarkAssistDone") \/ (ev.typ = "GoCreate" /\ h = ev.arg) THEN 0
        ELSE pgs[h].evMarkAssist
  BY <1>1 DEF PP!MovesTo, PP!Created, PP!Does
<1>7. ev.typ = "GoCreate" /\ h = ev.arg => pgs[h].evMarkAssist = 0
  BY SameFits DEF Post!Fits, Post!LeaveTypes, Post!SnapTypes, Post!StartTypes, Post!ParkTypes,
                  Post!YieldTypes, Post!EndTypes
<1> QED BY <1>2, <1>3, <1>5, <1>6, <1>7 DEF Bit

LEMMA Proceeds ==
    ASSUME Sound, NEW ev \in Post!InputEvents, ev.seq = Task, PP!Fits(ev), Post!Case(ev),
           ev.typ = "GoSysExit" => ev.g = ev.arg
    PROVE  Sound' /\ Advances(ev)
<1>1. verdict' = "ok" /\ PP!Effects(ev) /\ (PP!LinkInv)' /\ PP!LinkInv
  BY Accepted1
<1>2. PP!Grows(ev) /\ PP!Moves(ev) /\ PP!Runs(ev) /\ PP!Opens(ev) /\ PP!SpanFits
  BY <1>1 DEF PP!Effects, PP!LinkInv, PP!Holders
<1>3. /\ Len(trace) \in Nat /\ DOMAIN trace = 1..Len(trace)
      /\ DOMAIN trace' = 1..(Len(trace) + 1)
      /\ \A i \in 1..Len(trace) : trace'[i].seq = trace[i].seq
      /\ trace'[Len(trace) + 1].seq = ev.seq
  BY <1>2 DEF PP!Grows, PP!Here
<1>4. \A i \in DOMAIN trace' : trace'[i].seq = Task
  <2> SUFFICES ASSUME NEW i \in 1..(Len(trace) + 1) PROVE trace'[i].seq = Task
    BY <1>3
  <2>1. CASE i = Len(trace) + 1
    BY <1>3, <2>1
  <2>2. CASE i # Len(trace) + 1
    <3>1. i \in 1..Len(trace)
      BY <1>3, <2>2
    <3> QED BY <1>3, <3>1 DEF Sound
  <2> QED BY <2>1, <2>2
<1>5. \A h \in Goroutine : ~pgs[h].known => pgs[h].evMarkAssist = 0
  BY DEF Sound
<1>6. \A g \in Goroutine : ~pgs'[g].known => pgs'[g].evMarkAssist = 0
  <2> SUFFICES ASSUME NEW g \in Goroutine, ~pgs'[g].known PROVE pgs'[g].evMarkAssist = 0
    OBVIOUS
  <2>1. PP!MovesTo(ev, g, pgs'[g])
    BY <1>2, PPSame DEF PP!Moves
  <2>2. ~pgs[g].known /\ g # ev.g /\ ~(ev.typ = "GoCreate" /\ g = ev.arg)
    BY <2>1 DEF PP!MovesTo, PP!Created
  <2>3. pgs'[g].evMarkAssist = pgs[g].evMarkAssist
    BY <2>1, <2>2 DEF PP!MovesTo, PP!Created, PP!Does
  <2> QED BY <1>5, <2>2, <2>3
<1>7. Sound'
  BY <1>1, <1>4, <1>6 DEF Sound
<1>8. /\ evGC' = IF ev.typ = "GCStart" THEN Len(trace) + 1 ELSE IF ev.typ = "GCDone" THEN 0 ELSE evGC
      /\ evSTW' = IF ev.typ = "GCSTWStart" THEN Len(trace) + 1
                  ELSE IF ev.typ = "GCSTWDone" THEN 0 ELSE evSTW
      /\ tasks' = IF ev.typ = "UserTaskCreate" THEN tasks \cup {Len(trace) + 1}
                  ELSE IF ev.typ = "UserTaskEnd" THEN tasks \ PP!TaskEvents(ev) ELSE tasks
  BY <1>2 DEF PP!Opens, PP!Here, PP!Nil
<1>9. PP!TaskEvents(ev) = tasks
  <2>1. \A i \in tasks : i \in DOMAIN trace
    BY <1>2 DEF PP!SpanFits, PP!SpanAt, PP!Unlinked
  <2> QED BY <2>1 DEF PP!TaskEvents, Sound
<1>10. Len(trace) + 1 # 0
  BY <1>3
<1>11. /\ Bit(evGC' # 0) = IF ev.typ = "GCStart" THEN 1
                           ELSE IF ev.typ = "GCDone" THEN 0 ELSE Bit(evGC # 0)
       /\ Bit(evSTW' # 0) = IF ev.typ = "GCSTWStart" THEN 1
                            ELSE IF ev.typ = "GCSTWDone" THEN 0 ELSE Bit(evSTW # 0)
       /\ Bit(tasks' # {}) = IF ev.typ = "UserTaskCreate" THEN 1
                             ELSE IF ev.typ = "UserTaskEnd" THEN 0 ELSE Bit(tasks # {})
  BY <1>8, <1>9, <1>10 DEF Bit
<1>12. \A q \in Proc :
         /\ ps'[q].g = IF q = ev.p /\ ev.typ \in StartTypes THEN ev.g
                       ELSE IF q = ev.p /\ ev.typ \in LeaveTypes THEN NoG ELSE ps[q].g
         /\ Bit(ps'[q].running) = IF q = ev.p /\ ev.typ = "ProcStart" THEN 1
                                  ELSE IF q = ev.p /\ ev.typ = "ProcStop" THEN 0
                                  ELSE Bit(ps[q].running)
         /\ Bit(ps'[q].evSweep # 0) = IF q = ev.p /\ ev.typ = "GCSweepStart" THEN 1
                                      ELSE IF q = ev.p /\ ev.typ = "GCSweepDone" THEN 0
                                      ELSE Bit(ps[q].evSweep # 0)
  BY <1>2, <1>3, AdvancesPs
<1>13. \A h \in Goroutine :
         /\ pgs'[h].known = (pgs[h].known \/ h = ev.g \/ (ev.typ = "GoCreate" /\ h = ev.arg))
         /\ pgs'[h].state = IF ev.typ \in MoveTypes /\ Subject(ev) = h THEN Gets(ev.typ)
                            ELSE pgs[h].state
         /\ Bit(pgs'[h].evMarkAssist # 0) = IF h = ev.g /\ ev.typ = "GCMarkAssistStart" THEN 1
                                            ELSE IF h = ev.g /\ ev.typ = "GCMarkAssistDone" THEN 0
                                            ELSE Bit(pgs[h].evMarkAssist # 0)
  BY <1>2, <1>3, <1>5, AdvancesGs
<1> QED BY <1>7, <1>11, <1>12, <1>13 DEF Advances
-----------------------------------------------------------------------------
(***************************************************************************)
(* The descriptors follow the runtime                                      *)
(***************************************************************************)
\* Event m of the trace is next, after those of S, and ev is what
\* postProcessTrace sees of it.
Turn(H, V, S, m, ev) ==
    /\ n \in Nat /\ Chronicle(H, V, n) /\ \A g \in Goroutine : V[n].mode[g] # "futile"
    /\ m \in Left(H) /\ m \in 1..n /\ S \subseteq Left(H)
    /\ \A K \in SUBSET Left(H) : Ordered(H, K) /\ m \in K => \A y \in K : y \in S <=> y < m
    /\ ev.typ = H[m].typ /\ ev.g = H[m].g /\ ev.arg = H[m].arg /\ ev.p = FakeP(H[m])
    /\ ev.seq = Task /\ ev \in Post!InputEvents

GCPair   == {"GCStart", "GCDone"}
STWPair  == {"GCSTWStart", "GCSTWDone"}
TaskPair == {"UserTaskCreate", "UserTaskEnd"}

\* Each descriptor says what the events seen so far say.
FollowsP(H, V, S, p, d) ==
    /\ Tracks(S, OnP(H, p), RunOf(H, V, p), d.g)
    /\ "ProcStart" \in Emits => Tracks(S, OnP(H, p), OnOf(V, p), Bit(d.running))
    /\ Tracks(S, OnP(H, p), SpanOf(V, SweepOf(p)), Bit(d.evSweep # 0))
FollowsG(H, V, S, g, d) ==
    /\ Tracks(S, OfG(H, g), StateOf(H, V, g), d.state)
    /\ Tracks(S, OfG(H, g), SpanOf(V, AssistOf(g)), Bit(d.evMarkAssist # 0))
    /\ d.known => \E y \in S : Of(H[y], g)
FollowsAll(H, V, S, gc, stw, made) ==
    /\ Tracks(S, Those(H, GCPair), SpanOf(V, GCSpan), Bit(gc # 0))
    /\ Tracks(S, Those(H, STWPair), SpanOf(V, STWSpan), Bit(stw # 0))
    /\ Tracks(S, Those(H, TaskPair), SpanOf(V, TaskSpan), Bit(made # {}))
Follows(H, V, S) ==
    /\ \A p \in Proc : FollowsP(H, V, S, p, ps[p])
    /\ \A g \in Goroutine : FollowsG(H, V, S, g, pgs[g])
    /\ FollowsAll(H, V, S, evGC, evSTW, tasks)

LEMMA Lists ==
    ASSUME NEW H
    PROVE  /\ \A p : OnP(H, p) \subseteq Left(H) /\ OnP(H, p) \subseteq 1..n
           /\ \A g : OfG(H, g) \subseteq Left(H) /\ OfG(H, g) \subseteq 1..n
           /\ \A typs : Those(H, typs) \subseteq Left(H) /\ Those(H, typs) \subseteq 1..n
BY DEF OnP, OfG, Those, Left

\* The events of a P, of a goroutine, or of a kind of global span, are in order.
LEMMA ListsOrdered ==
    ASSUME Ordinary, n \in Nat, NEW H, NEW V, Chronicle(H, V, n)
    PROVE  /\ \A p \in Proc : Ordered(H, OnP(H, p))
           /\ \A g \in Goroutine : Ordered(H, OfG(H, g))
           /\ \A typs \in {GCPair, STWPair, TaskPair} : Ordered(H, Those(H, typs))
<1>1. \A p \in Proc : Ordered(H, OnP(H, p))
  BY DEF Ordered, OnP, Tied
<1>2. \A g \in Goroutine : Ordered(H, OfG(H, g))
  BY DEF Ordered, OfG
<1>3. ASSUME NEW typs \in {GCPair, STWPair, TaskPair} PROVE Ordered(H, Those(H, typs))
  <2>1. typs \subseteq GlobalSpans /\ "GoSysExit" \notin typs
    BY <1>3 DEF GCPair, STWPair, TaskPair, GlobalSpans
  <2>2. CASE Clocks = "exact"
    BY <2>1, <2>2 DEF Ordered, Those, Tied
  <2>3. CASE Emits \cap GlobalSpans = {}
    <3>1. \A k \in Left(H) : H[k].typ \in Emits
      BY DEF Left, Chronicle, Did
    <3>2. Those(H, typs) = {}
      BY <2>1, <2>3, <3>1 DEF Those
    <3> QED BY <3>2 DEF Ordered
  <2> QED BY <2>2, <2>3 DEF Ordinary
<1> QED BY <1>1, <1>2, <1>3

\* One list, one more event: what is tracked moves as the list says.
LEMMA TracksStep ==
    ASSUME n \in Nat, NEW S, NEW K, K \subseteq 1..n, NEW val, Steady(K, val), NEW m \in 1..n,
           m \in K => \A y \in K : y \in S <=> y < m, NEW now, Tracks(S, K, val, now), NEW new,
           m \in K /\ now = val[m - 1] => new = val[m], m \notin K => new = now
    PROVE  Tracks(S \cup {m}, K, val, new)
<1>1. CASE m \in K
  <2>1. now = val[m - 1]
    BY <1>1, TracksAt
  <2>2. Tracks(S \cup {m}, K, val, val[m])
    BY <1>1, TracksOn
  <2> QED BY <1>1, <2>1, <2>2
<1>2. CASE m \notin K
  BY <1>2, TracksOff
<1> QED BY <1>1, <1>2

\* Before the next event, the descriptors are as it says.
LEMMA Already ==
    ASSUME Ordinary, NEW H, NEW V, NEW S, NEW m, NEW ev, Turn(H, V, S, m, ev), NEW val, NEW now,
           NEW K, K \in {OnP(H, p) : p \in Proc} \cup {OfG(H, g) : g \in Goroutine}
                         \cup {Those(H, typs) : typs \in {GCPair, STWPair, TaskPair}}
    PROVE  /\ m \in K => \A y \in K : y \in S <=> y < m
           /\ m \in K /\ Tracks(S, K, val, now) => now = val[m - 1]
<1>1. n \in Nat /\ Chronicle(H, V, n) /\ m \in 1..n
  BY DEF Turn
<1>2. Ordered(H, K) /\ K \in SUBSET Left(H) /\ K \subseteq 1..n
  BY <1>1, Lists, ListsOrdered
<1>3. m \in K => \A y \in K : y \in S <=> y < m
  BY <1>2 DEF Turn
<1>4. m \in K /\ Tracks(S, K, val, now) => now = val[m - 1]
  BY <1>1, <1>2, <1>3, TracksAt
<1> QED BY <1>3, <1>4

LEMMA FitsP ==
    ASSUME Ordinary, NEW H, NEW V, NEW S, NEW m, NEW ev, Turn(H, V, S, m, ev), Follows(H, V, S),
           ev.typ # "GoSysExit"
    PROVE  LET p == H[m].p
           IN  /\ p \in Proc /\ m \in OnP(H, p)
               /\ ev.typ \in StartTypes \cup {"ProcStop"} => ps[p].g = NoG
               /\ ev.typ \in LeaveTypes \cup {"GoSysCall", "GoCreate", "GoUnblock"} => ps[p].g = ev.g
               /\ ev.typ = "ProcStart" => ~ps[p].running
               /\ ev.typ = "ProcStop" => ps[p].running
               /\ ev.typ = "GCSweepStart" => ps[p].evSweep = 0
               /\ ev.typ = "GCSweepDone" => ps[p].evSweep # 0
<1>1. n \in Nat /\ Chronicle(H, V, n) /\ m \in 1..n /\ m \in Left(H) /\ ev.typ = H[m].typ /\ ev.g = H[m].g
  BY DEF Turn
<1>2. Did(V[m - 1], H[m], V[m]) /\ H[m] \in Tales /\ H[m].typ \in Emits
  BY <1>1 DEF Chronicle, Did
<1>3. PICK p \in Proc : p = H[m].p
  BY <1>2 DEF Tales
<1>4. m \in OnP(H, p)
  BY <1>1, <1>3 DEF OnP
<1>5. OnP(H, p) \in {OnP(H, q) : q \in Proc}
  OBVIOUS
<1>6. FollowsP(H, V, S, p, ps[p])
  BY DEF Follows
<1>7. RunOf(H, V, p)[m - 1] = ps[p].g
  BY <1>4, <1>5, <1>6, Already DEF FollowsP
<1>8. /\ ev.typ \in StartTypes \cup {"ProcStop"} => ps[p].g = NoG
      /\ ev.typ \in LeaveTypes \cup {"GoSysCall", "GoCreate", "GoUnblock"} => ps[p].g = ev.g
  BY <1>1, <1>4, <1>7, RunMoves
<1>9. m - 1 \in 0..n
  BY <1>1
<1>10. ev.typ \in {"ProcStart", "ProcStop"} => Bit(ps[p].running) = Bit(p \in V[m - 1].on)
  <2>1. ev.typ \in {"ProcStart", "ProcStop"} => "ProcStart" \in Emits
    BY <1>1, <1>2 DEF Ordinary
  <2>2. "ProcStart" \in Emits => Bit(ps[p].running) = OnOf(V, p)[m - 1]
    BY <1>4, <1>5, <1>6, Already DEF FollowsP
  <2> QED BY <1>9, <2>1, <2>2 DEF OnOf
<1>11. /\ ev.typ = "ProcStart" => ~ps[p].running
       /\ ev.typ = "ProcStop" => ps[p].running
  BY <1>1, <1>2, <1>3, <1>10 DEF Did, OnBy, Bit
<1>12. Bit(ps[p].evSweep # 0) = Bit(SweepOf(p) \in V[m - 1].open)
  <2>1. Bit(ps[p].evSweep # 0) = SpanOf(V, SweepOf(p))[m - 1]
    BY <1>4, <1>5, <1>6, Already DEF FollowsP
  <2> QED BY <1>9, <2>1 DEF SpanOf
<1>13. ev.typ \in SweepTypes => Key(H[m]) = SweepOf(p)
  BY <1>1, <1>3 DEF Key, SweepTypes
<1>14. /\ ev.typ = "GCSweepStart" => SweepOf(p) \notin V[m - 1].open
       /\ ev.typ = "GCSweepDone" => SweepOf(p) \in V[m - 1].open
  BY <1>1, <1>2, <1>13 DEF Did, SpansBy, Openers, SpanOpens, SpanCloses, SweepTypes
<1>15. /\ ev.typ = "GCSweepStart" => ps[p].evSweep = 0
       /\ ev.typ = "GCSweepDone" => ps[p].evSweep # 0
  BY <1>12, <1>14 DEF Bit
<1> QED BY <1>3, <1>4, <1>8, <1>11, <1>15

LEMMA FitsG ==
    ASSUME Ordinary, NEW H, NEW V, NEW S, NEW m, NEW ev, Turn(H, V, S, m, ev), Follows(H, V, S),
           NEW g \in Goroutine, m \in OfG(H, g)
    PROVE  /\ ev.typ \in MoveTypes /\ Subject(ev) = g => pgs[g].state = Needs(ev.typ)
           /\ ev.typ = "GCMarkAssistStart" /\ ev.g = g => pgs[g].evMarkAssist = 0
           /\ ev.typ = "GoCreate" /\ ev.arg = g => ~pgs[g].known
<1>1. n \in Nat /\ Chronicle(H, V, n) /\ m \in 1..n /\ m \in Left(H)
      /\ ev.typ = H[m].typ /\ ev.g = H[m].g /\ ev.arg = H[m].arg /\ m - 1 \in 0..n
  BY DEF Turn
<1>2. Did(V[m - 1], H[m], V[m])
  BY <1>1 DEF Chronicle
<1>3. OfG(H, g) \in {OfG(H, h) : h \in Goroutine}
  OBVIOUS
<1>4. FollowsG(H, V, S, g, pgs[g])
  BY DEF Follows
<1>5. StateOf(H, V, g)[m - 1] = pgs[g].state
  BY <1>3, <1>4, Already DEF FollowsG
<1>6. ev.typ \in MoveTypes /\ Subject(ev) = g => pgs[g].state = Needs(ev.typ)
  <2>1. Subject(ev) = Subject(H[m])
    BY <1>1 DEF Subject
  <2>2. H[m].typ \in MoveTypes /\ Subject(H[m]) = g => StateOf(H, V, g)[m - 1] = Needs(H[m].typ)
    BY <1>1, StateMoves
  <2> QED BY <1>1, <1>5, <2>1, <2>2
<1>7. Bit(pgs[g].evMarkAssist # 0) = Bit(AssistOf(g) \in V[m - 1].open)
  <2>1. Bit(pgs[g].evMarkAssist # 0) = SpanOf(V, AssistOf(g))[m - 1]
    BY <1>3, <1>4, Already DEF FollowsG
  <2> QED BY <1>1, <2>1 DEF SpanOf
<1>8. ev.typ = "GCMarkAssistStart" /\ ev.g = g => pgs[g].evMarkAssist = 0
  <2>1. ev.typ = "GCMarkAssistStart" /\ ev.g = g => Key(H[m]) = AssistOf(g)
    BY <1>1 DEF Key, SweepTypes
  <2>2. ev.typ = "GCMarkAssistStart" /\ ev.g = g => AssistOf(g) \notin V[m - 1].open
    BY <1>1, <1>2, <2>1 DEF Did, SpansBy, Openers, SpanOpens
  <2> QED BY <1>7, <2>2 DEF Bit
<1>9. ASSUME ev.typ = "GoCreate", ev.arg = g, pgs[g].known PROVE FALSE
  <2>1. PICK y \in S : Of(H[y], g)
    BY <1>4, <1>9 DEF FollowsG
  <2>2. y \in OfG(H, g) /\ y \in 1..n
    BY <2>1 DEF Turn, OfG, Left
  <2>3. y < m
    BY <1>3, <2>1, <2>2, Already
  <2> QED BY <1>1, <1>9, <2>1, <2>2, <2>3, NothingBefore
<1> QED BY <1>6, <1>8, <1>9

LEMMA FitsAll ==
    ASSUME Ordinary, NEW H, NEW V, NEW S, NEW m, NEW ev, Turn(H, V, S, m, ev), Follows(H, V, S)
    PROVE  /\ ev.typ = "GCStart" => evGC = 0
           /\ ev.typ = "GCDone" => evGC # 0
           /\ ev.typ = "GCSTWStart" => evSTW = 0
           /\ ev.typ = "GCSTWDone" => evSTW # 0
           /\ ev.typ = "UserTaskCreate" => tasks = {}
<1>1. n \in Nat /\ Chronicle(H, V, n) /\ m \in 1..n /\ m \in Left(H) /\ ev.typ = H[m].typ
      /\ m - 1 \in 0..n
  BY DEF Turn
<1>2. Did(V[m - 1], H[m], V[m])
  BY <1>1 DEF Chronicle
<1>3. FollowsAll(H, V, S, evGC, evSTW, tasks)
  BY DEF Follows
<1>4. ASSUME NEW typs \in {GCPair, STWPair, TaskPair}, NEW c, NEW now,
             Tracks(S, Those(H, typs), SpanOf(V, c), now), ev.typ \in typs
      PROVE  now = Bit(c \in V[m - 1].open)
  <2>1. m \in Those(H, typs)
    BY <1>1, <1>4 DEF Those
  <2>2. Those(H, typs) \in {Those(H, ts) : ts \in {GCPair, STWPair, TaskPair}}
    BY <1>4
  <2>3. now = SpanOf(V, c)[m - 1]
    BY <1>4, <2>1, <2>2, Already
  <2> QED BY <1>1, <2>3 DEF SpanOf
<1>5. ev.typ \in GCPair => Bit(evGC # 0) = Bit(GCSpan \in V[m - 1].open)
  BY <1>3, <1>4 DEF FollowsAll
<1>6. ev.typ \in STWPair => Bit(evSTW # 0) = Bit(STWSpan \in V[m - 1].open)
  BY <1>3, <1>4 DEF FollowsAll
<1>7. ev.typ \in TaskPair => Bit(tasks # {}) = Bit(TaskSpan \in V[m - 1].open)
  BY <1>3, <1>4 DEF FollowsAll
<1>8. /\ ev.typ \in GCPair => Key(H[m]) = GCSpan
      /\ ev.typ \in STWPair => Key(H[m]) = STWSpan
      /\ ev.typ \in TaskPair => Key(H[m]) = TaskSpan
  BY <1>1 DEF Key, SweepTypes, GCPair, STWPair, TaskPair
<1>9. /\ ev.typ \in {"GCStart", "GCSTWStart", "UserTaskCreate"} => Key(H[m]) \notin V[m - 1].open
      /\ ev.typ \in {"GCDone", "GCSTWDone"} => Key(H[m]) \in V[m - 1].open
  BY <1>1, <1>2 DEF Did, SpansBy, Openers, SpanOpens, SpanCloses
<1>10. /\ ev.typ = "GCStart" => evGC = 0
       /\ ev.typ = "GCDone" => evGC # 0
  BY <1>5, <1>8, <1>9 DEF GCPair, Bit
<1>11. /\ ev.typ = "GCSTWStart" => evSTW = 0
       /\ ev.typ = "GCSTWDone" => evSTW # 0
  BY <1>6, <1>8, <1>9 DEF STWPair, Bit
<1>12. ev.typ = "UserTaskCreate" => tasks = {}
  BY <1>7, <1>8, <1>9 DEF TaskPair, Bit
<1> QED BY <1>10, <1>11, <1>12

\* The next event passes the checks of its case.
LEMMA NextFits ==
    ASSUME Ordinary, NEW H, NEW V, NEW S, NEW m, NEW ev, Turn(H, V, S, m, ev), Follows(H, V, S), Sound
    PROVE  PP!Fits(ev) /\ (ev.typ = "GoSysExit" => ev.g = ev.arg)
<1>1. n \in Nat /\ Chronicle(H, V, n) /\ m \in 1..n /\ m \in Left(H) /\ m - 1 \in 0..n
      /\ ev.typ = H[m].typ /\ ev.g = H[m].g /\ ev.arg = H[m].arg /\ ev.p = FakeP(H[m])
      /\ ev \in Post!InputEvents /\ ev.seq = Task
  BY DEF Turn
<1>2. Did(V[m - 1], H[m], V[m])
  BY <1>1 DEF Chronicle
<1>3. ev.typ \in EventTypes \ LocalTypes /\ ev.g \in Goroutine \cup {NoG} /\ ev.arg \in Goroutine \cup {NoG}
  BY <1>1, <1>2 DEF Did, Tales
<1>4. /\ ev.typ = "GoSysExit" => ev.g = ev.arg
      /\ ev.typ \in ActTypes => ev.g # NoG
      /\ ev.typ \in MoveTypes => Subject(H[m]) \in Goroutine
  BY <1>1, <1>2 DEF Did, RunsBy, MovesBy, Ordinary
<1>5. /\ ev.typ \in {"GoCreate", "GoUnblock", "GoSysExit"} => Subject(ev) = ev.arg /\ Subject(H[m]) = ev.arg
      /\ ev.typ \in SnapTypes \cup StartTypes \cup LeaveTypes => Subject(ev) = ev.g /\ Subject(H[m]) = ev.g
  BY <1>1, Subjects
<1>6. ev.typ # "GoSysExit" /\ ~(ev.typ = "GoUnblock" /\ ev.p = TimerP) => ev.p = H[m].p
  BY <1>1 DEF FakeP
<1>7. PP!Agree /\ PP!RegionFits
  BY DEF Sound, PP!LinkInv, PP!Inv, PP!Holders
<1>8. /\ pgs[NoG].state = "gRunning"
      /\ \A p \in Proc : ps[p].g # NoG => pgs[ps[p].g].state = "gRunning"
  BY <1>7 DEF PP!Agree
<1>9. ev.typ \in MoveTypes => pgs[Subject(ev)].state = Needs(ev.typ)
  <2> SUFFICES ASSUME ev.typ \in MoveTypes PROVE pgs[Subject(ev)].state = Needs(ev.typ)
    OBVIOUS
  <2>1. Subject(ev) = Subject(H[m])
    BY <1>1 DEF Subject
  <2>2. PICK g \in Goroutine : g = Subject(ev)
    BY <1>4, <2>1
  <2>3. m \in OfG(H, g)
    BY <1>1, <2>1, <2>2 DEF OfG, Of
  <2> QED BY <2>2, <2>3, FitsG
<1>10. /\ ev.typ \in SnapTypes \cup StartTypes => pgs[ev.g].state = "gRunnable"
       /\ ev.typ = "GoUnblock" => pgs[ev.arg].state = "gWaiting"
       /\ ev.typ = "GoSysExit" => pgs[ev.g].state = "gWaiting"
  <2>1. /\ \A typ \in SnapTypes \cup StartTypes : typ \in MoveTypes /\ Needs(typ) = "gRunnable"
        /\ \A typ \in {"GoUnblock", "GoSysExit"} : typ \in MoveTypes /\ Needs(typ) = "gWaiting"
    <3>1. \A typ \in SnapTypes \cup StartTypes : typ \in MoveTypes /\ Needs(typ) = "gRunnable"
      BY DEF Needs, MoveTypes, SnapTypes, StartTypes, LeaveTypes, ParkTypes, YieldTypes, EndTypes
    <3>2. \A typ \in {"GoUnblock", "GoSysExit"} : typ \in MoveTypes /\ Needs(typ) = "gWaiting"
      BY DEF Needs, MoveTypes, SnapTypes, StartTypes, LeaveTypes, ParkTypes, YieldTypes, EndTypes
    <3> QED BY <3>1, <3>2
  <2> QED BY <1>4, <1>5, <1>9, <2>1
<1>11. ev.typ # "GoSysExit" =>
         LET p == H[m].p
         IN  /\ p \in Proc
             /\ ev.typ \in StartTypes \cup {"ProcStop"} => ps[p].g = NoG
             /\ ev.typ \in LeaveTypes \cup {"GoSysCall", "GoCreate", "GoUnblock"} => ps[p].g = ev.g
             /\ ev.typ = "ProcStart" => ~ps[p].running
             /\ ev.typ = "ProcStop" => ps[p].running
             /\ ev.typ = "GCSweepStart" => ps[p].evSweep = 0
             /\ ev.typ = "GCSweepDone" => ps[p].evSweep # 0
  BY FitsP
<1>12. ev.typ \in LeaveTypes \cup {"GoSysCall", "GoCreate", "GoUnblock"} => pgs[ev.g].state = "gRunning"
  <2>1. "GoSysExit" \notin LeaveTypes
    BY DEF LeaveTypes, ParkTypes, YieldTypes, EndTypes
  <2> QED BY <1>8, <1>11, <2>1
<1>13. ev.typ \in LeaveTypes \cup {"GoSysCall"} => ev.g # NoG
  BY <1>4 DEF ActTypes
<1>14. ev.typ = "GCMarkAssistStart" => pgs[ev.g].evMarkAssist = 0
  <2> SUFFICES ASSUME ev.typ = "GCMarkAssistStart" PROVE pgs[ev.g].evMarkAssist = 0
    OBVIOUS
  <2>1. PICK g \in Goroutine : g = ev.g
    BY <1>3, <1>4 DEF ActTypes, OwnSpans
  <2>2. m \in OfG(H, g)
    BY <1>1, <2>1 DEF OfG, Of
  <2> QED BY <2>1, <2>2, FitsG
<1>15. ev.typ = "GoCreate" => ~pgs[ev.arg].known
  <2> SUFFICES ASSUME ev.typ = "GoCreate" PROVE ~pgs[ev.arg].known
    OBVIOUS
  <2>1. PICK g \in Goroutine : g = ev.arg
    BY <1>4, <1>5 DEF MoveTypes
  <2>2. m \in OfG(H, g)
    BY <1>1, <1>5, <2>1 DEF OfG, Of
  <2> QED BY <2>1, <2>2, FitsG
<1>16. ev.typ = "UserRegionEnd" /\ regions[ev.g] # <<>> => trace[PP!Innermost(ev.g)].seq = ev.seq
  <2> SUFFICES ASSUME regions[ev.g] # <<>> PROVE trace[PP!Innermost(ev.g)].seq = ev.seq
    OBVIOUS
  <2>1. PICK g \in Goroutine \cup {NoG} : g = ev.g
    BY <1>3
  <2>2. regions[g] \in Seq(Nat)
    BY PPSame DEF Sound, PP!LinkInv, PP!Inv, PP!PostTypeOK
  <2>3. Len(regions[g]) \in DOMAIN regions[g]
    BY <2>1, <2>2
  <2>4. PP!Innermost(g) \in DOMAIN trace
    BY <1>7, <2>3, PPSame DEF PP!RegionFits, PP!Active, PP!Innermost, PP!SpanAt, PP!Unlinked
  <2> QED BY <1>1, <2>1, <2>4 DEF Sound
<1>17. ev.typ = "UserTaskCreate" => PP!TaskEvents(ev) = {}
  BY FitsAll DEF PP!TaskEvents
<1>18. ev.typ # PP!BadRegion
  BY <1>3 DEF PP!BadRegion, EventTypes, LeaveTypes, ParkTypes, YieldTypes, EndTypes, StartTypes,
              SnapTypes, LocalTypes, PlainTypes, GoatTypes
<1>19. PP!Nil = 0 /\ PP!TimerP = TimerP /\ PP!STW(ev) = evSTW /\ PP!SnapTypes = SnapTypes
       /\ PP!StartTypes = StartTypes /\ PP!LeaveTypes = LeaveTypes
  BY PPSame DEF PP!STW
<1>20. CASE ev.typ = "ProcStart"
  BY <1>20, <1>6, <1>11
     DEF PP!Fits, PP!SnapTypes, PP!StartTypes, PP!LeaveTypes, PP!ParkTypes, PP!YieldTypes,
         PP!EndTypes, PP!BadRegion
<1>21. CASE ev.typ = "ProcStop"
  BY <1>21, <1>6, <1>11
     DEF PP!Fits, PP!SnapTypes, PP!StartTypes, PP!LeaveTypes, PP!ParkTypes, PP!YieldTypes,
         PP!EndTypes, PP!BadRegion
<1>22. CASE ev.typ \in GCPair
  BY <1>22, FitsAll, <1>19
     DEF PP!Fits, PP!SnapTypes, PP!StartTypes, PP!LeaveTypes, PP!ParkTypes, PP!YieldTypes,
         PP!EndTypes, PP!BadRegion, GCPair
<1>23. CASE ev.typ \in STWPair
  BY <1>23, FitsAll, <1>19
     DEF PP!Fits, PP!SnapTypes, PP!StartTypes, PP!LeaveTypes, PP!ParkTypes, PP!YieldTypes,
         PP!EndTypes, PP!BadRegion, STWPair
<1>24. CASE ev.typ \in SweepTypes
  BY <1>24, <1>6, <1>11, <1>19
     DEF PP!Fits, PP!SnapTypes, PP!StartTypes, PP!LeaveTypes, PP!ParkTypes, PP!YieldTypes,
         PP!EndTypes, PP!BadRegion, SweepTypes
<1>25. CASE ev.typ = "GCMarkAssistStart"
  BY <1>25, <1>14, <1>19
     DEF PP!Fits, PP!SnapTypes, PP!StartTypes, PP!LeaveTypes, PP!ParkTypes, PP!YieldTypes,
         PP!EndTypes, PP!BadRegion
<1>26. CASE ev.typ \in SnapTypes
  BY <1>26, <1>10
     DEF PP!Fits, PP!SnapTypes, PP!StartTypes, PP!LeaveTypes, PP!ParkTypes, PP!YieldTypes,
         PP!EndTypes, PP!BadRegion, SnapTypes
<1>27. CASE ev.typ \in StartTypes
  BY <1>27, <1>6, <1>10, <1>11
     DEF PP!Fits, PP!SnapTypes, PP!StartTypes, PP!LeaveTypes, PP!ParkTypes, PP!YieldTypes,
         PP!EndTypes, PP!BadRegion, StartTypes
<1>28. CASE ev.typ = "GoCreate"
  BY <1>28, <1>6, <1>11, <1>12, <1>15
     DEF PP!Fits, PP!SnapTypes, PP!StartTypes, PP!LeaveTypes, PP!ParkTypes, PP!YieldTypes,
         PP!EndTypes, PP!BadRegion, PP!Running
<1>29. CASE ev.typ = "GoSysCall"
  BY <1>29, <1>6, <1>11, <1>12, <1>13
     DEF PP!Fits, PP!SnapTypes, PP!StartTypes, PP!LeaveTypes, PP!ParkTypes, PP!YieldTypes,
         PP!EndTypes, PP!BadRegion, PP!Running
<1>30. CASE ev.typ \in LeaveTypes
  BY <1>30, <1>6, <1>11, <1>12, <1>13
     DEF PP!Fits, PP!SnapTypes, PP!StartTypes, PP!LeaveTypes, PP!ParkTypes, PP!YieldTypes,
         PP!EndTypes, PP!BadRegion, PP!Running, LeaveTypes, ParkTypes, YieldTypes, EndTypes
<1>31. CASE ev.typ = "GoUnblock"
  BY <1>31, <1>6, <1>10, <1>11, <1>12, <1>19
     DEF PP!Fits, PP!SnapTypes, PP!StartTypes, PP!LeaveTypes, PP!ParkTypes, PP!YieldTypes,
         PP!EndTypes, PP!BadRegion
<1>32. CASE ev.typ = "GoSysExit"
  BY <1>4, <1>10, <1>32
     DEF PP!Fits, PP!SnapTypes, PP!StartTypes, PP!LeaveTypes, PP!ParkTypes, PP!YieldTypes,
         PP!EndTypes, PP!BadRegion
<1>33. CASE ev.typ = "UserTaskCreate"
  BY <1>33, <1>17
     DEF PP!Fits, PP!SnapTypes, PP!StartTypes, PP!LeaveTypes, PP!ParkTypes, PP!YieldTypes,
         PP!EndTypes, PP!BadRegion
<1>34. CASE ev.typ = "UserRegionEnd"
  BY <1>34, <1>16
     DEF PP!Fits, PP!SnapTypes, PP!StartTypes, PP!LeaveTypes, PP!ParkTypes, PP!YieldTypes,
         PP!EndTypes, PP!BadRegion
<1>35. CASE ev.typ \notin {"ProcStart", "ProcStop", "GCMarkAssistStart", "GoCreate", "GoSysCall", "GoUnblock",
                           "GoSysExit", "UserTaskCreate", "UserRegionEnd"}
                          \cup GCPair \cup STWPair \cup SweepTypes \cup SnapTypes \cup StartTypes \cup LeaveTypes
  BY <1>18, <1>19, <1>35 DEF PP!Fits, GCPair, STWPair, SweepTypes, PP!BadRegion
<1> QED BY <1>4, <1>20, <1>21, <1>22, <1>23, <1>24, <1>25, <1>26, <1>27,
           <1>28, <1>29, <1>30, <1>31, <1>32, <1>33, <1>34, <1>35

\* Each descriptor follows its list over the next event.
LEMMA NextP ==
    ASSUME Ordinary, NEW H, NEW V, NEW S, NEW m, NEW ev, Turn(H, V, S, m, ev), Follows(H, V, S),
           Advances(ev), NEW p \in Proc
    PROVE  FollowsP(H, V, S \cup {m}, p, ps'[p])
<1>1. /\ n \in Nat /\ Chronicle(H, V, n)
      /\ \A g \in Goroutine : V[n].mode[g] # "futile"
      /\ m \in 1..n /\ m - 1 \in 0..n /\ m \in 0..n /\ m \in Left(H) /\ ~MidWakeup
      /\ ev.typ = H[m].typ /\ ev.g = H[m].g /\ ev.p = FakeP(H[m])
  BY DEF Turn, Ordinary
<1>2. Did(V[m - 1], H[m], V[m]) /\ H[m] \in Tales
  BY <1>1 DEF Chronicle, Did
<1>3. FollowsP(H, V, S, p, ps[p]) /\ OnP(H, p) \in {OnP(H, q) : q \in Proc} /\ OnP(H, p) \subseteq 1..n
  BY Lists DEF Follows
<1>4. m \in OnP(H, p) => \A y \in OnP(H, p) : y \in S <=> y < m
  BY <1>3, Already
<1>5. m \in OnP(H, p) => H[m].p = p /\ ev.typ # "GoSysExit" /\ (ev.typ # "GoUnblock" => ev.p = p)
  BY <1>1 DEF OnP, FakeP
<1>6. m \notin OnP(H, p) => ev.typ \in {"GoSysExit", "GoUnblock"} \/ ev.p # p
  BY <1>1 DEF OnP, FakeP
<1>7. /\ ps'[p].g = IF p = ev.p /\ ev.typ \in StartTypes THEN ev.g
                    ELSE IF p = ev.p /\ ev.typ \in LeaveTypes THEN NoG ELSE ps[p].g
      /\ Bit(ps'[p].running) = IF p = ev.p /\ ev.typ = "ProcStart" THEN 1
                               ELSE IF p = ev.p /\ ev.typ = "ProcStop" THEN 0 ELSE Bit(ps[p].running)
      /\ Bit(ps'[p].evSweep # 0) = IF p = ev.p /\ ev.typ = "GCSweepStart" THEN 1
                                   ELSE IF p = ev.p /\ ev.typ = "GCSweepDone" THEN 0
                                   ELSE Bit(ps[p].evSweep # 0)
  BY DEF Advances
<1>8. {"GoSysExit", "GoUnblock"} \cap (StartTypes \cup LeaveTypes) = {}
  BY DEF StartTypes, LeaveTypes, ParkTypes, YieldTypes, EndTypes
<1>9. Tracks(S \cup {m}, OnP(H, p), RunOf(H, V, p), ps'[p].g)
  <2>1. Steady(OnP(H, p), RunOf(H, V, p))
    BY <1>1, RunSteady
  <2>2. m \notin OnP(H, p) => ps'[p].g = ps[p].g
    BY <1>6, <1>7, <1>8
  <2>3. ASSUME m \in OnP(H, p), ps[p].g = RunOf(H, V, p)[m - 1] PROVE ps'[p].g = RunOf(H, V, p)[m]
    <3>1. LET r == RunOf(H, V, p)[m - 1]
              s == RunOf(H, V, p)[m]
          IN  /\ H[m].typ \in StartTypes => s = H[m].g
              /\ H[m].typ \in LeaveTypes => s = NoG
              /\ H[m].typ \notin StartTypes \cup LeaveTypes => s = r
      BY <1>1, <2>3, RunMoves
    <3>2. StartTypes \cap LeaveTypes = {}
      BY DEF StartTypes, LeaveTypes, ParkTypes, YieldTypes, EndTypes
    <3> QED BY <1>1, <1>5, <1>7, <1>8, <2>3, <3>1, <3>2
  <2> QED BY <1>1, <1>3, <1>4, <2>1, <2>2, <2>3, TracksStep DEF FollowsP
<1>10. ASSUME "ProcStart" \in Emits
       PROVE  Tracks(S \cup {m}, OnP(H, p), OnOf(V, p), Bit(ps'[p].running))
  <2>1. Steady(OnP(H, p), OnOf(V, p))
    BY <1>1, OnSteady
  <2>2. m \notin OnP(H, p) => Bit(ps'[p].running) = Bit(ps[p].running)
    BY <1>6, <1>7
  <2>3. ASSUME m \in OnP(H, p), Bit(ps[p].running) = OnOf(V, p)[m - 1]
        PROVE  Bit(ps'[p].running) = OnOf(V, p)[m]
    <3>1. OnOf(V, p)[m - 1] = Bit(p \in V[m - 1].on) /\ OnOf(V, p)[m] = Bit(p \in V[m].on)
      BY <1>1 DEF OnOf
    <3>2. OnBy(V[m - 1], H[m], V[m])
      BY <1>2 DEF Did
    <3> QED BY <1>1, <1>5, <1>7, <2>3, <3>1, <3>2 DEF OnBy, Bit
  <2> QED BY <1>1, <1>3, <1>4, <1>10, <2>1, <2>2, <2>3, TracksStep DEF FollowsP
<1>11. Tracks(S \cup {m}, OnP(H, p), SpanOf(V, SweepOf(p)), Bit(ps'[p].evSweep # 0))
  <2>1. Steady(OnP(H, p), SpanOf(V, SweepOf(p)))
    <3>1. ASSUME NEW k \in (1..n) \ OnP(H, p), H[k].typ \in Openers \cup SpanCloses
          PROVE  Key(H[k]) # SweepOf(p)
      <4>1. k \notin Dropped(H, 1..n)
        BY <1>1, <3>1, DroppedTypes DEF Openers, SpanOpens, SpanCloses, FutileParks, WakeupTypes
      <4>2. H[k].p # p
        BY <3>1, <4>1 DEF OnP, Left, Openers, SpanOpens, SpanCloses
      <4> QED BY <3>1, <4>2 DEF Key, SweepOf, GCSpan, STWSpan, AssistOf, RegionOf, TaskSpan,
                                SweepTypes, Openers, SpanOpens, SpanCloses
    <3> QED BY <1>1, <3>1, SpanSteady
  <2>2. m \notin OnP(H, p) => Bit(ps'[p].evSweep # 0) = Bit(ps[p].evSweep # 0)
    BY <1>6, <1>7
  <2>3. ASSUME m \in OnP(H, p), Bit(ps[p].evSweep # 0) = SpanOf(V, SweepOf(p))[m - 1]
        PROVE  Bit(ps'[p].evSweep # 0) = SpanOf(V, SweepOf(p))[m]
    <3>1. /\ SpanOf(V, SweepOf(p))[m - 1] = Bit(SweepOf(p) \in V[m - 1].open)
          /\ SpanOf(V, SweepOf(p))[m] = Bit(SweepOf(p) \in V[m].open)
      BY <1>1 DEF SpanOf
    <3>2. SpansBy(V[m - 1], H[m], V[m])
      BY <1>2 DEF Did
    <3>3. CASE H[m].typ \in SweepTypes
      <4>1. Key(H[m]) = SweepOf(p)
        BY <1>5, <2>3, <3>3 DEF Key, SweepTypes
      <4> QED BY <1>1, <1>5, <1>7, <2>3, <3>1, <3>2, <3>3, <4>1
              DEF SpansBy, Bit, SweepTypes, Openers, SpanOpens, SpanCloses
    <3>4. CASE H[m].typ \notin SweepTypes
      <4>1. H[m].typ \in Openers \cup SpanCloses => Key(H[m]) # SweepOf(p)
        BY <3>4 DEF Key, SweepOf, GCSpan, STWSpan, AssistOf, RegionOf, TaskSpan,
                    SweepTypes, Openers, SpanOpens, SpanCloses
      <4>2. SweepOf(p) \in V[m].open <=> SweepOf(p) \in V[m - 1].open
        BY <3>2, <4>1 DEF SpansBy
      <4> QED BY <1>1, <1>7, <2>3, <3>1, <3>4, <4>2 DEF SweepTypes, Bit
    <3> QED BY <3>3, <3>4
  <2> QED BY <1>1, <1>3, <1>4, <2>1, <2>2, <2>3, TracksStep DEF FollowsP
<1> QED BY <1>9, <1>10, <1>11 DEF FollowsP

LEMMA NextG ==
    ASSUME Ordinary, NEW H, NEW V, NEW S, NEW m, NEW ev, Turn(H, V, S, m, ev), Follows(H, V, S),
           Advances(ev), NEW g \in Goroutine
    PROVE  FollowsG(H, V, S \cup {m}, g, pgs'[g])
<1>1. /\ n \in Nat /\ Chronicle(H, V, n)
      /\ \A h \in Goroutine : V[n].mode[h] # "futile"
      /\ m \in 1..n /\ m - 1 \in 0..n /\ m \in 0..n /\ m \in Left(H) /\ ~MidWakeup
      /\ ev.typ = H[m].typ /\ ev.g = H[m].g /\ ev.arg = H[m].arg
  BY DEF Turn, Ordinary
<1>2. Did(V[m - 1], H[m], V[m]) /\ H[m] \in Tales
  BY <1>1 DEF Chronicle, Did
<1>3. FollowsG(H, V, S, g, pgs[g]) /\ OfG(H, g) \in {OfG(H, h) : h \in Goroutine} /\ OfG(H, g) \subseteq 1..n
  BY Lists DEF Follows
<1>4. m \in OfG(H, g) => \A y \in OfG(H, g) : y \in S <=> y < m
  BY <1>3, Already
<1>5. Subject(ev) = Subject(H[m])
  BY <1>1 DEF Subject
<1>6. m \in OfG(H, g) <=> ev.g = g \/ Subject(ev) = g
  BY <1>1, <1>5 DEF OfG, Of
<1>7. /\ pgs'[g].known = (pgs[g].known \/ g = ev.g \/ (ev.typ = "GoCreate" /\ g = ev.arg))
      /\ pgs'[g].state = IF ev.typ \in MoveTypes /\ Subject(ev) = g THEN Gets(ev.typ) ELSE pgs[g].state
      /\ Bit(pgs'[g].evMarkAssist # 0) = IF g = ev.g /\ ev.typ = "GCMarkAssistStart" THEN 1
                                         ELSE IF g = ev.g /\ ev.typ = "GCMarkAssistDone" THEN 0
                                         ELSE Bit(pgs[g].evMarkAssist # 0)
  BY DEF Advances
<1>8. Tracks(S \cup {m}, OfG(H, g), StateOf(H, V, g), pgs'[g].state)
  <2>1. Steady(OfG(H, g), StateOf(H, V, g))
    BY <1>1, StateSteady
  <2>2. m \notin OfG(H, g) => pgs'[g].state = pgs[g].state
    BY <1>6, <1>7
  <2>3. ASSUME m \in OfG(H, g), pgs[g].state = StateOf(H, V, g)[m - 1]
        PROVE  pgs'[g].state = StateOf(H, V, g)[m]
    <3>1. IF H[m].typ \in MoveTypes /\ Subject(H[m]) = g
          THEN StateOf(H, V, g)[m] = Gets(H[m].typ)
          ELSE StateOf(H, V, g)[m] = StateOf(H, V, g)[m - 1]
      BY <1>1, <2>3, StateMoves
    <3> QED BY <1>1, <1>5, <1>7, <2>3, <3>1
  <2> QED BY <1>1, <1>3, <1>4, <2>1, <2>2, <2>3, TracksStep DEF FollowsG
<1>9. Tracks(S \cup {m}, OfG(H, g), SpanOf(V, AssistOf(g)), Bit(pgs'[g].evMarkAssist # 0))
  <2>1. Steady(OfG(H, g), SpanOf(V, AssistOf(g)))
    <3>1. ASSUME NEW k \in (1..n) \ OfG(H, g), H[k].typ \in Openers \cup SpanCloses
          PROVE  Key(H[k]) # AssistOf(g)
      <4>1. k \notin Dropped(H, 1..n)
        BY <1>1, <3>1, DroppedTypes DEF Openers, SpanOpens, SpanCloses, FutileParks, WakeupTypes
      <4>2. H[k].g # g
        BY <3>1, <4>1 DEF OfG, Of, Left
      <4> QED BY <3>1, <4>2 DEF Key, SweepOf, GCSpan, STWSpan, AssistOf, RegionOf, TaskSpan,
                                SweepTypes, Openers, SpanOpens, SpanCloses
    <3> QED BY <1>1, <3>1, SpanSteady
  <2>2. m \notin OfG(H, g) => Bit(pgs'[g].evMarkAssist # 0) = Bit(pgs[g].evMarkAssist # 0)
    BY <1>6, <1>7
  <2>3. ASSUME m \in OfG(H, g), Bit(pgs[g].evMarkAssist # 0) = SpanOf(V, AssistOf(g))[m - 1]
        PROVE  Bit(pgs'[g].evMarkAssist # 0) = SpanOf(V, AssistOf(g))[m]
    <3>1. /\ SpanOf(V, AssistOf(g))[m - 1] = Bit(AssistOf(g) \in V[m - 1].open)
          /\ SpanOf(V, AssistOf(g))[m] = Bit(AssistOf(g) \in V[m].open)
      BY <1>1 DEF SpanOf
    <3>2. SpansBy(V[m - 1], H[m], V[m])
      BY <1>2 DEF Did
    <3>3. CASE H[m].typ \in {"GCMarkAssistStart", "GCMarkAssistDone"} /\ H[m].g = g
      <4>1. Key(H[m]) = AssistOf(g)
        BY <3>3 DEF Key, SweepTypes
      <4> QED BY <1>1, <1>7, <2>3, <3>1, <3>2, <3>3, <4>1
              DEF SpansBy, Bit, Openers, SpanOpens, SpanCloses
    <3>4. CASE ~(H[m].typ \in {"GCMarkAssistStart", "GCMarkAssistDone"} /\ H[m].g = g)
      <4>1. H[m].typ \in Openers \cup SpanCloses => Key(H[m]) # AssistOf(g)
        BY <3>4 DEF Key, SweepOf, GCSpan, STWSpan, AssistOf, RegionOf, TaskSpan,
                    SweepTypes, Openers, SpanOpens, SpanCloses
      <4>2. AssistOf(g) \in V[m].open <=> AssistOf(g) \in V[m - 1].open
        BY <3>2, <4>1 DEF SpansBy
      <4> QED BY <1>1, <1>7, <2>3, <3>1, <3>4, <4>2 DEF Bit
    <3> QED BY <3>3, <3>4
  <2> QED BY <1>1, <1>3, <1>4, <2>1, <2>2, <2>3, TracksStep DEF FollowsG
<1>10. pgs'[g].known => \E y \in S \cup {m} : Of(H[y], g)
  <2> SUFFICES ASSUME pgs'[g].known PROVE \E y \in S \cup {m} : Of(H[y], g)
    OBVIOUS
  <2>1. CASE pgs[g].known
    BY <1>3, <2>1 DEF FollowsG
  <2>2. CASE ~pgs[g].known
    <3>1. g = ev.g \/ Subject(ev) = g
      BY <1>7, <2>2, Subjects
    <3> QED BY <1>1, <1>5, <3>1 DEF Of
  <2> QED BY <2>1, <2>2
<1> QED BY <1>8, <1>9, <1>10 DEF FollowsG

LEMMA NextAll ==
    ASSUME Ordinary, NEW H, NEW V, NEW S, NEW m, NEW ev, Turn(H, V, S, m, ev), Follows(H, V, S),
           Advances(ev)
    PROVE  FollowsAll(H, V, S \cup {m}, evGC', evSTW', tasks')
<1>1. /\ n \in Nat /\ Chronicle(H, V, n)
      /\ \A h \in Goroutine : V[n].mode[h] # "futile"
      /\ m \in 1..n /\ m - 1 \in 0..n /\ m \in 0..n /\ m \in Left(H) /\ ~MidWakeup
      /\ ev.typ = H[m].typ
  BY DEF Turn, Ordinary
<1>2. SpansBy(V[m - 1], H[m], V[m])
  BY <1>1 DEF Chronicle, Did
<1>3. ASSUME NEW typs \in {GCPair, STWPair, TaskPair}, NEW c, NEW now, NEW new, NEW a, NEW z,
             typs = {a, z}, a # z, a \in Openers, z \in SpanCloses,
             \A d : d.typ \in Openers \cup SpanCloses => (Key(d) = c <=> d.typ \in typs),
             Tracks(S, Those(H, typs), SpanOf(V, c), now),
             new = IF ev.typ = a THEN 1 ELSE IF ev.typ = z THEN 0 ELSE now
      PROVE  Tracks(S \cup {m}, Those(H, typs), SpanOf(V, c), new)
  <2>1. Those(H, typs) \in {Those(H, ts) : ts \in {GCPair, STWPair, TaskPair}} /\ Those(H, typs) \subseteq 1..n
    BY <1>3, Lists
  <2>2. m \in Those(H, typs) => \A y \in Those(H, typs) : y \in S <=> y < m
    BY <2>1, Already
  <2>3. Steady(Those(H, typs), SpanOf(V, c))
    <3>1. ASSUME NEW k \in (1..n) \ Those(H, typs), H[k].typ \in Openers \cup SpanCloses
          PROVE  Key(H[k]) # c
      <4>1. k \notin Dropped(H, 1..n)
        BY <1>1, <3>1, DroppedTypes DEF Openers, SpanOpens, SpanCloses, FutileParks, WakeupTypes
      <4>2. H[k].typ \notin typs
        BY <3>1, <4>1 DEF Those, Left
      <4> QED BY <1>3, <3>1, <4>2
    <3> QED BY <1>1, <3>1, SpanSteady
  <2>4. m \in Those(H, typs) <=> ev.typ \in typs
    BY <1>1 DEF Those
  <2>5. m \notin Those(H, typs) => new = now
    BY <1>3, <2>4
  <2>6. m \in Those(H, typs) => new = SpanOf(V, c)[m]
    <3> SUFFICES ASSUME m \in Those(H, typs) PROVE new = SpanOf(V, c)[m]
      OBVIOUS
    <3>1. SpanOf(V, c)[m] = Bit(c \in V[m].open)
      BY <1>1 DEF SpanOf
    <3>2. Key(H[m]) = c
      BY <1>1, <1>3, <2>4
    <3>3. CASE ev.typ = a
      <4>1. c \in V[m].open
        BY <1>1, <1>2, <1>3, <3>2, <3>3 DEF SpansBy
      <4> QED BY <1>3, <3>1, <3>3, <4>1 DEF Bit
    <3>4. CASE ev.typ = z
      <4>1. c \notin V[m].open
        BY <1>1, <1>2, <1>3, <3>2, <3>4 DEF SpansBy
      <4> QED BY <1>3, <3>1, <3>4, <4>1 DEF Bit
    <3> QED BY <1>3, <2>4, <3>3, <3>4
  <2> QED BY <1>1, <1>3, <2>1, <2>2, <2>3, <2>5, <2>6, TracksStep
<1>4. FollowsAll(H, V, S, evGC, evSTW, tasks)
  BY DEF Follows
<1>5. /\ Bit(evGC' # 0) = IF ev.typ = "GCStart" THEN 1
                          ELSE IF ev.typ = "GCDone" THEN 0 ELSE Bit(evGC # 0)
      /\ Bit(evSTW' # 0) = IF ev.typ = "GCSTWStart" THEN 1
                           ELSE IF ev.typ = "GCSTWDone" THEN 0 ELSE Bit(evSTW # 0)
      /\ Bit(tasks' # {}) = IF ev.typ = "UserTaskCreate" THEN 1
                            ELSE IF ev.typ = "UserTaskEnd" THEN 0 ELSE Bit(tasks # {})
  BY DEF Advances
<1>6. /\ \A d : d.typ \in Openers \cup SpanCloses => (Key(d) = GCSpan <=> d.typ \in GCPair)
      /\ \A d : d.typ \in Openers \cup SpanCloses => (Key(d) = STWSpan <=> d.typ \in STWPair)
      /\ \A d : d.typ \in Openers \cup SpanCloses => (Key(d) = TaskSpan <=> d.typ \in TaskPair)
  BY DEF Key, SweepOf, GCSpan, STWSpan, AssistOf, RegionOf, TaskSpan, SweepTypes, Openers,
         SpanOpens, SpanCloses, GCPair, STWPair, TaskPair
<1>7. Tracks(S \cup {m}, Those(H, GCPair), SpanOf(V, GCSpan), Bit(evGC' # 0))
  <2>1. GCPair = {"GCStart", "GCDone"} /\ "GCStart" \in Openers /\ "GCDone" \in SpanCloses
    BY DEF GCPair, Openers, SpanCloses
  <2> QED BY <1>3, <1>4, <1>5, <1>6, <2>1 DEF FollowsAll
<1>8. Tracks(S \cup {m}, Those(H, STWPair), SpanOf(V, STWSpan), Bit(evSTW' # 0))
  <2>1. STWPair = {"GCSTWStart", "GCSTWDone"} /\ "GCSTWStart" \in Openers /\ "GCSTWDone" \in SpanCloses
    BY DEF STWPair, Openers, SpanOpens, SpanCloses
  <2> QED BY <1>3, <1>4, <1>5, <1>6, <2>1 DEF FollowsAll
<1>9. Tracks(S \cup {m}, Those(H, TaskPair), SpanOf(V, TaskSpan), Bit(tasks' # {}))
  <2>1. TaskPair = {"UserTaskCreate", "UserTaskEnd"} /\ "UserTaskCreate" \in Openers /\ "UserTaskEnd" \in SpanCloses
    BY DEF TaskPair, Openers, SpanOpens, SpanCloses
  <2> QED BY <1>3, <1>4, <1>5, <1>6, <2>1 DEF FollowsAll
<1> QED BY <1>7, <1>8, <1>9 DEF FollowsAll

LEMMA FollowsFirst ==
    ASSUME Ordinary, n \in Nat, NEW H, NEW V, Chronicle(H, V, n),
           \A g \in Goroutine : V[n].mode[g] # "futile", Post!Init
    PROVE  Follows(H, V, {})
<1>1. First(V[0]) /\ 0 \in 0..n /\ ~MidWakeup
  BY DEF Chronicle, Ordinary
<1>2. ASSUME NEW k \in (1..n), H[k].typ \in Openers \cup SpanCloses
      PROVE  k \in Left(H)
  <2>1. k \notin Dropped(H, 1..n)
    BY <1>1, <1>2, DroppedTypes DEF Openers, SpanOpens, SpanCloses, FutileParks, WakeupTypes
  <2> QED BY <2>1 DEF Left
<1>3. \A c : SpanOf(V, c)[0] = 0
  BY <1>1 DEF SpanOf, First, Bit
<1>4. /\ \A p \in Proc : ps[p].g = NoG /\ ps[p].running = FALSE /\ ps[p].evSweep = 0
      /\ \A g \in Goroutine : pgs[g].state = "gDead" /\ pgs[g].known = FALSE /\ pgs[g].evMarkAssist = 0
      /\ evGC = 0 /\ evSTW = 0 /\ tasks = {}
  BY Sentinels DEF Post!Init, Post!P, Post!G, Post!noP, Post!noG, Post!Nil
<1>5. ASSUME NEW p \in Proc PROVE FollowsP(H, V, {}, p, ps[p])
  <2>1. Steady(OnP(H, p), RunOf(H, V, p)) /\ Steady(OnP(H, p), OnOf(V, p))
    BY <1>1, RunSteady, OnSteady
  <2>2. Steady(OnP(H, p), SpanOf(V, SweepOf(p)))
    <3>1. ASSUME NEW k \in (1..n) \ OnP(H, p), H[k].typ \in Openers \cup SpanCloses
          PROVE  Key(H[k]) # SweepOf(p)
      <4>1. H[k].p # p
        BY <1>2, <3>1 DEF OnP, Openers, SpanOpens, SpanCloses
      <4> QED BY <3>1, <4>1 DEF Key, SweepOf, GCSpan, STWSpan, AssistOf, RegionOf, TaskSpan,
                                SweepTypes, Openers, SpanOpens, SpanCloses
    <3> QED BY <3>1, SpanSteady
  <2>3. RunOf(H, V, p)[0] = NoG
    BY <1>1 DEF RunOf, Shown, First
  <2>4. "ProcStart" \in Emits => OnOf(V, p)[0] = 0
    BY <1>1 DEF OnOf, First, Bit
  <2>5. OnP(H, p) \subseteq 1..n
    BY Lists
  <2>6. Tracks({}, OnP(H, p), RunOf(H, V, p), ps[p].g)
    BY <1>4, <2>1, <2>3, <2>5, TracksFirst
  <2>7. "ProcStart" \in Emits => Tracks({}, OnP(H, p), OnOf(V, p), Bit(ps[p].running))
    <3>1. Bit(ps[p].running) = 0
      BY <1>4 DEF Bit
    <3> QED BY <2>1, <2>4, <2>5, <3>1, TracksFirst
  <2>8. Tracks({}, OnP(H, p), SpanOf(V, SweepOf(p)), Bit(ps[p].evSweep # 0))
    <3>1. Bit(ps[p].evSweep # 0) = 0
      BY <1>4 DEF Bit
    <3> QED BY <1>3, <2>2, <2>5, <3>1, TracksFirst
  <2> QED BY <2>6, <2>7, <2>8 DEF FollowsP
<1>6. ASSUME NEW g \in Goroutine PROVE FollowsG(H, V, {}, g, pgs[g])
  <2>1. Steady(OfG(H, g), StateOf(H, V, g))
    BY <1>1, StateSteady
  <2>2. Steady(OfG(H, g), SpanOf(V, AssistOf(g)))
    <3>1. ASSUME NEW k \in (1..n) \ OfG(H, g), H[k].typ \in Openers \cup SpanCloses
          PROVE  Key(H[k]) # AssistOf(g)
      <4>1. H[k].g # g
        BY <1>2, <3>1 DEF OfG, Of
      <4> QED BY <3>1, <4>1 DEF Key, SweepOf, GCSpan, STWSpan, AssistOf, RegionOf, TaskSpan,
                                SweepTypes, Openers, SpanOpens, SpanCloses
    <3> QED BY <3>1, SpanSteady
  <2>3. StateOf(H, V, g)[0] = "gDead"
    <3>1. ~Hidden(H, g, 0)
      BY DEF Hidden
    <3> QED BY <1>1, <3>1 DEF StateOf, First
  <2>4. OfG(H, g) \subseteq 1..n
    BY Lists
  <2>5. Tracks({}, OfG(H, g), StateOf(H, V, g), pgs[g].state)
    BY <1>4, <2>1, <2>3, <2>4, TracksFirst
  <2>6. Tracks({}, OfG(H, g), SpanOf(V, AssistOf(g)), Bit(pgs[g].evMarkAssist # 0))
    <3>1. Bit(pgs[g].evMarkAssist # 0) = 0
      BY <1>4 DEF Bit
    <3> QED BY <1>3, <2>2, <2>4, <3>1, TracksFirst
  <2> QED BY <1>4, <2>5, <2>6 DEF FollowsG
<1>7. ASSUME NEW typs \in {GCPair, STWPair, TaskPair}, NEW c,
             \A d : d.typ \in Openers \cup SpanCloses => (Key(d) = c <=> d.typ \in typs)
      PROVE  Tracks({}, Those(H, typs), SpanOf(V, c), 0)
  <2>1. Steady(Those(H, typs), SpanOf(V, c))
    <3>1. ASSUME NEW k \in (1..n) \ Those(H, typs), H[k].typ \in Openers \cup SpanCloses
          PROVE  Key(H[k]) # c
      BY <1>2, <1>7, <3>1 DEF Those
    <3> QED BY <3>1, SpanSteady
  <2>2. Those(H, typs) \subseteq 1..n
    BY Lists
  <2> QED BY <1>3, <2>1, <2>2, TracksFirst
<1>8. FollowsAll(H, V, {}, evGC, evSTW, tasks)
  <2>1. /\ \A d : d.typ \in Openers \cup SpanCloses => (Key(d) = GCSpan <=> d.typ \in GCPair)
        /\ \A d : d.typ \in Openers \cup SpanCloses => (Key(d) = STWSpan <=> d.typ \in STWPair)
        /\ \A d : d.typ \in Openers \cup SpanCloses => (Key(d) = TaskSpan <=> d.typ \in TaskPair)
    BY DEF Key, SweepOf, GCSpan, STWSpan, AssistOf, RegionOf, TaskSpan, SweepTypes, Openers,
           SpanOpens, SpanCloses, GCPair, STWPair, TaskPair
  <2>2. Bit(evGC # 0) = 0 /\ Bit(evSTW # 0) = 0 /\ Bit(tasks # {}) = 0
    BY <1>4 DEF Bit
  <2> QED BY <1>7, <2>1, <2>2 DEF FollowsAll
<1> QED BY <1>5, <1>6, <1>8 DEF Follows

\* postProcessTrace before event k of trace t: nothing was refused, and its
\* descriptors are what the events seen make them.
Met(H, V, s, t, k) ==
    /\ Chronicle(H, V, n) /\ \A g \in Goroutine : V[n].mode[g] # "futile"
    /\ StreamOf(H, s) /\ LeftOf(H, s, t)
    /\ Sound /\ Follows(H, V, Seen(t, k))

LEMMA ItsTurn ==
    ASSUME Ordinary, n \in Nat, NEW H, NEW V, NEW s, NEW t, NEW k \in 1..Len(t), Met(H, V, s, t, k)
    PROVE  Turn(H, V, Seen(t, k), t[k].n, Entry(t[k]))
<1>1. /\ Chronicle(H, V, n) /\ StreamOf(H, s) /\ LeftOf(H, s, t) /\ Len(t) \in Nat
      /\ \A g \in Goroutine : V[n].mode[g] # "futile"
  BY DEF Met, LeftOf
<1>2. \A i \in 1..Len(t) : t[i].n \in Left(H)
  BY <1>1, LeftHas
<1>3. PICK i \in 1..n : t[k] = Separated(s)[i]
  BY <1>1, LeftHas
<1> DEFINE ev == Separated(s)[i]
           m == t[k].n
<1>4. /\ ev.n = m /\ H[m].typ = ev.typ /\ H[m].g = ev.g /\ H[m].arg = ev.arg /\ ev.p = FakeP(s[i])
      /\ s[i].typ = ev.typ /\ s[i].g = ev.g /\ H[m].p = s[i].p
  BY <1>1, <1>3, SeparatedSame
<1>5. Entry(t[k]) = [typ |-> ev.typ, p |-> ev.p, g |-> ev.g, arg |-> ev.arg, seq |-> Task]
  BY <1>3 DEF Entry
<1>6. Entry(t[k]) \in Post!InputEvents
  BY <1>1, <1>3, AssumedKept
<1>7. m \in Left(H) /\ m \in 1..n /\ Seen(t, k) \subseteq Left(H)
  <2>1. \A j \in 1..(k - 1) : j \in 1..Len(t)
    BY <1>1
  <2> QED BY <1>2, <2>1 DEF Seen, Left
<1>8. FakeP(s[i]) = FakeP(H[m])
  BY <1>4 DEF FakeP
<1>9. ASSUME NEW K \in SUBSET Left(H), Ordered(H, K), m \in K
      PROVE  \A y \in K : y \in Seen(t, k) <=> y < m
  BY <1>1, <1>9, SeenBefore DEF Ordinary
<1> QED BY <1>1, <1>4, <1>5, <1>6, <1>7, <1>8, <1>9 DEF Turn

\* What the history says does not change while nothing is emitted.
LEMMA HistorySame ==
    ASSUME NEW H, NEW V, n' = n
    PROVE  /\ \A p : OnP(H, p)' = OnP(H, p) /\ RunOf(H, V, p)' = RunOf(H, V, p)
           /\ \A g : OfG(H, g)' = OfG(H, g) /\ StateOf(H, V, g)' = StateOf(H, V, g)
           /\ \A typs : Those(H, typs)' = Those(H, typs)
           /\ \A p : OnOf(V, p)' = OnOf(V, p)
           /\ \A c : SpanOf(V, c)' = SpanOf(V, c)
           /\ Dropped(H, 1..n)' = Dropped(H, 1..n)
<1>1. \A g : /\ Unblocks(H, g)' = Unblocks(H, g) /\ Acting(H, g)' = Acting(H, g)
             /\ Denies(H, g)' = Denies(H, g) /\ Halts(H, g)' = Halts(H, g)
  BY DEF Unblocks, Acting, Denies, Halts
<1>2. \A S, g, q : Vain(H, S, g, q)' <=> Vain(H, S, g, q)
  BY <1>1 DEF Vain
<1>3. \A S, g, q, x : In(H, S, g, q, x)' <=> In(H, S, g, q, x)
  BY <1>1 DEF In
<1>4. Dropped(H, 1..n)' = Dropped(H, 1..n)
  BY <1>1, <1>2, <1>3 DEF Dropped
<1>5. Left(H)' = Left(H)
  BY <1>4 DEF Left
<1>6. \A g, u, q : Vanishes(H, g, u, q)' <=> Vanishes(H, g, u, q)
  BY <1>1 DEF Vanishes
<1>7. \A g, k : Hidden(H, g, k)' <=> Hidden(H, g, k)
  BY <1>6 DEF Hidden
<1>8. \A p : RunOf(H, V, p)' = RunOf(H, V, p)
  BY <1>7 DEF RunOf, Shown
<1>9. \A g : StateOf(H, V, g)' = StateOf(H, V, g)
  BY <1>7 DEF StateOf
<1>10. \A p : OnP(H, p)' = OnP(H, p)
  BY <1>5 DEF OnP
<1>11. \A g : OfG(H, g)' = OfG(H, g)
  BY <1>5 DEF OfG
<1>12. \A typs : Those(H, typs)' = Those(H, typs)
  BY <1>5 DEF Those
<1>13. /\ \A p : OnOf(V, p)' = OnOf(V, p)
       /\ \A c : SpanOf(V, c)' = SpanOf(V, c)
  BY DEF OnOf, SpanOf
<1> QED BY <1>4, <1>8, <1>9, <1>10, <1>11, <1>12, <1>13

LEMMA LeftStays ==
    ASSUME n' = n, NEW H, NEW s, NEW t, StreamOf(H, s), LeftOf(H, s, t)
    PROVE  StreamOf(H, s)' /\ LeftOf(H, s, t)'
<1>1. StreamOf(H, s)'
  BY DEF StreamOf, Matches, Tied, Monotone
<1>2. Separated(s)' = Separated(s)
  BY DEF Separated, FakeP
<1>3. Dropped(H, 1..n)' = Dropped(H, 1..n)
  BY HistorySame
<1>4. Kept(t, Separated(s), Dropped(H, 1..n), n)
  BY DEF LeftOf
<1>5. Kept(t, Separated(s), Dropped(H, 1..n), n)'
  BY <1>2, <1>3, <1>4
<1> QED BY <1>1, <1>5 DEF LeftOf

\* It accepts event k, and is ready for the next one.
LEMMA MeetsNext ==
    ASSUME Ordinary, n \in Nat, NEW H, NEW V, NEW s, NEW t, NEW k \in 1..Len(t), Met(H, V, s, t, k),
           Post!Process(Entry(t[k])), n' = n
    PROVE  Met(H, V, s, t, k + 1)'
<1> DEFINE ev == Entry(t[k])
           m == t[k].n
           S == Seen(t, k)
<1>1. Turn(H, V, S, m, ev)
  BY ItsTurn
<1>2. Sound /\ Follows(H, V, S)
  BY DEF Met
<1> HIDE DEF ev, m, S
<1>3. PP!Fits(ev) /\ (ev.typ = "GoSysExit" => ev.g = ev.arg)
  BY <1>1, <1>2, NextFits
<1>4. Post!Case(ev)
  BY <1>3, SameFits DEF Post!Process, Post!Reject, ev
<1>5. ev \in Post!InputEvents /\ ev.seq = Task
  BY <1>1 DEF Turn
<1>6. Sound' /\ Advances(ev)
  BY <1>2, <1>3, <1>4, <1>5, Proceeds
<1>7. /\ \A p \in Proc : FollowsP(H, V, S \cup {m}, p, ps'[p])
      /\ \A g \in Goroutine : FollowsG(H, V, S \cup {m}, g, pgs'[g])
      /\ FollowsAll(H, V, S \cup {m}, evGC', evSTW', tasks')
  BY <1>1, <1>2, <1>6, NextP, NextG, NextAll
<1>8. Seen(t, k + 1) = S \cup {m}
  <2>1. Len(t) \in Nat
    BY DEF Met, LeftOf
  <2>2. 1..(k + 1 - 1) = 1..(k - 1) \cup {k}
    BY <2>1
  <2> QED BY <2>2 DEF Seen, S, m
<1>9. \A K, val, now, R : Tracks(R, K, val, now)' <=> Tracks(R, K, val, now)
  BY DEF Tracks, Cut
<1>10. \A p \in Proc : FollowsP(H, V, S \cup {m}, p, ps[p])'
  BY <1>7, <1>9, HistorySame DEF FollowsP
<1>11. \A g \in Goroutine : FollowsG(H, V, S \cup {m}, g, pgs[g])'
  <2>1. ASSUME NEW g \in Goroutine
        PROVE  /\ Tracks(S \cup {m}, OfG(H, g), StateOf(H, V, g), pgs[g].state)'
               /\ Tracks(S \cup {m}, OfG(H, g), SpanOf(V, AssistOf(g)), Bit(pgs[g].evMarkAssist # 0))'
    BY <1>7, <1>9, HistorySame DEF FollowsG
  <2>2. ASSUME NEW g \in Goroutine
        PROVE  pgs'[g].known => \E y \in S \cup {m} : Of(H[y], g)
    BY <1>7 DEF FollowsG
  <2> QED BY <2>1, <2>2 DEF FollowsG
<1>12. FollowsAll(H, V, S \cup {m}, evGC, evSTW, tasks)'
  BY <1>7, <1>9, HistorySame DEF FollowsAll
<1>13. Follows(H, V, Seen(t, k + 1))'
  BY <1>8, <1>10, <1>11, <1>12 DEF Follows, Seen
<1>14. /\ Chronicle(H, V, n) /\ StreamOf(H, s) /\ LeftOf(H, s, t)
       /\ \A g \in Goroutine : V[n].mode[g] # "futile"
  BY DEF Met
<1>15. StreamOf(H, s)' /\ LeftOf(H, s, t)'
  BY <1>14, LeftStays
<1> QED BY <1>6, <1>13, <1>14, <1>15 DEF Met

-----------------------------------------------------------------------------
(***************************************************************************)
(* The traces of programs are accepted                                     *)
(***************************************************************************)
LEMMA SoundStays ==
    ASSUME Sound, UNCHANGED post
    PROVE  Sound'
<1>1. UNCHANGED <<verdict, trace, pgs>> /\ UNCHANGED PP!post
  BY DEF post, PP!post
<1>2. PP!LinkInv /\ [PP!Next]_(PP!post)
  BY <1>1 DEF Sound
<1>3. (PP!LinkInv)'
  BY <1>2, PP!LinkNext, PPAssumed, Sentinels
<1> QED BY <1>1, <1>3 DEF Sound

LEMMA FollowsStays ==
    ASSUME n' = n, UNCHANGED post, NEW H, NEW V, NEW S, Follows(H, V, S)
    PROVE  Follows(H, V, S)'
<1>1. UNCHANGED <<ps, pgs, evGC, evSTW, tasks>>
  BY DEF post
<1>2. \A K, val, now, R : Tracks(R, K, val, now)' <=> Tracks(R, K, val, now)
  BY DEF Tracks, Cut
<1>3. \A p \in Proc : FollowsP(H, V, S, p, ps[p])'
  BY <1>1, <1>2, HistorySame DEF Follows, FollowsP
<1>4. \A g \in Goroutine : FollowsG(H, V, S, g, pgs[g])'
  <2>1. ASSUME NEW g \in Goroutine
        PROVE  /\ Tracks(S, OfG(H, g), StateOf(H, V, g), pgs[g].state)'
               /\ Tracks(S, OfG(H, g), SpanOf(V, AssistOf(g)), Bit(pgs[g].evMarkAssist # 0))'
    BY <1>1, <1>2, HistorySame DEF Follows, FollowsG
  <2>2. ASSUME NEW g \in Goroutine
        PROVE  pgs'[g].known => \E y \in S : Of(H[y], g)
    BY <1>1 DEF Follows, FollowsG
  <2> QED BY <2>1, <2>2 DEF FollowsG
<1>5. FollowsAll(H, V, S, evGC, evSTW, tasks)'
  BY <1>1, <1>2, HistorySame DEF Follows, FollowsAll
<1> QED BY <1>3, <1>4, <1>5 DEF Follows

\* postProcessTrace has not begun, or is before event `next`.
Faithful == /\ next = 0 => Post!Init
            /\ next # 0 => \E H, V : Met(H, V, events, input, next)

LEMMA FaithfulKept ==
    ASSUME Ordinary, PipeInv, Faithful, [PipeNext]_pvars
    PROVE  Faithful'
<1>1. next \in Nat /\ n \in Nat /\ (pc # "ordered" => next = 0)
  BY DEF PipeInv, Given, StreamInv, IInv, OrderTypeOK, TracerTypeOK
<1>2. CASE Parse
  <2>1. next' = 0 /\ UNCHANGED post
    BY <1>1, <1>2 DEF Parse, pipe, Trace, Reorder, Begin, Scan, Merge, CheckOrder, FixSysExits
  <2>2. (Post!Init)'
    BY <1>1, <1>2, <2>1 DEF Faithful, Post!Init, post, Parse, pipe, Trace, Reorder, Begin, Scan,
                            Merge, CheckOrder, FixSysExits
  <2> QED BY <2>1, <2>2 DEF Faithful
<1>3. CASE Prepare
  <2>1. /\ pc = "ordered" /\ next = 0 /\ next' = 1 /\ input' = removeFutile(Separated(events))
        /\ UNCHANGED post /\ n' = n /\ events' = events
    BY <1>3 DEF Prepare, vars, tracer, order
  <2>2. Post!Init /\ Monotone /\ \A g \in Goroutine : mode[g] # "futile"
    BY <2>1 DEF Faithful, PipeInv, Timely, Ordinary
  <2>3. PICK H, V : Chronicle(H, V, n) /\ V[n] = View /\ StreamOf(H, events)
    BY <2>1 DEF PipeInv, Ledger
  <2>4. \A g \in Goroutine : V[n].mode[g] # "futile"
    BY <2>2, <2>3, ViewFields
  <2> DEFINE s == events
             t == removeFutile(Separated(events))
  <2>5. LeftOf(H, s, t)
    <3>1. futile(Separated(events)) = Dropped(H, 1..n)
      BY <1>1, <2>2, <2>3, FutileIs
    <3> QED BY <1>1, <2>3, <3>1, InputKept DEF LeftOf
  <2>6. Sound' /\ Follows(H, V, {})'
    BY <1>1, <2>1, <2>2, <2>3, <2>4, SoundBegins, FollowsFirst, SoundStays, FollowsStays
  <2>7. Seen(t, 1) = {}
    <3>1. 1..(1 - 1) = {}
      OBVIOUS
    <3> QED BY <3>1 DEF Seen
  <2>8. Met(H, V, events, input, next)'
    <3> SUFFICES ASSUME NEW s0, NEW t0, s0 = s, t0 = t PROVE Met(H, V, s0, t0, 1)'
      BY <2>1
    <3>1. StreamOf(H, s0)' /\ LeftOf(H, s0, t0)'
      BY <2>1, <2>3, <2>5, LeftStays
    <3>2. Seen(t0, 1) = {}
      BY <2>7
    <3> QED BY <2>1, <2>3, <2>4, <2>6, <3>1, <3>2 DEF Met, Seen
  <2> QED BY <2>1, <2>8 DEF Faithful
<1>4. CASE Check
  <2>1. /\ next \in DOMAIN input /\ Post!Process(Entry(input[next])) /\ next' = next + 1
        /\ n' = n /\ events' = events /\ input' = input
    BY <1>4 DEF Check, vars, tracer, order
  <2>2. next # 0
    <3>1. DOMAIN <<>> = {}
      OBVIOUS
    <3> QED BY <2>1, <3>1 DEF PipeInv, Given
  <2>3. PICK H, V : Met(H, V, events, input, next)
    BY <2>2 DEF Faithful
  <2>4. PICK s, t : s = events /\ t = input
    OBVIOUS
  <2>5. next \in 1..Len(t)
    BY <2>1, <2>3, <2>4 DEF Met, LeftOf
  <2>6. PICK k \in 1..Len(t) : k = next
    BY <2>5
  <2>7. Met(H, V, s, t, k + 1)'
    BY <1>1, <2>1, <2>3, <2>4, <2>6, MeetsNext
  <2> QED BY <1>1, <2>1, <2>4, <2>6, <2>7 DEF Faithful
<1>5. CASE UNCHANGED pvars
  <2>1. UNCHANGED <<next, events, input, n>> /\ UNCHANGED post
    BY <1>5 DEF pvars, vars, tracer, order, pipe
  <2>2. CASE next = 0
    <3>1. (Post!Init)'
      BY <2>1, <2>2 DEF Faithful, Post!Init, post
    <3> QED BY <2>1, <2>2, <3>1 DEF Faithful
  <2>3. CASE next # 0
    <3>1. PICK H, V : Met(H, V, events, input, next)
      BY <2>3 DEF Faithful
    <3>2. PICK s, t, k : s = events /\ t = input /\ k = next
      OBVIOUS
    <3>3. StreamOf(H, s)' /\ LeftOf(H, s, t)' /\ Sound' /\ Follows(H, V, Seen(t, k))'
      BY <2>1, <3>1, <3>2, LeftStays, SoundStays, FollowsStays DEF Met
    <3>4. Met(H, V, s, t, k)'
      BY <2>1, <3>1, <3>2, <3>3 DEF Met
    <3> QED BY <2>1, <2>3, <3>2, <3>4 DEF Faithful
  <2> QED BY <2>2, <2>3
<1> QED BY <1>2, <1>3, <1>4, <1>5 DEF PipeNext, Return

\* The trace of an ordinary program is accepted by every stage: the merge
\* finds an order with no event out of time, each syscall exit finds its call,
\* and postProcessTrace finds every event where it expects one
\* (parser.go:102-117), whatever the program did, however its batches were
\* cut and wherever futile wakeups were removed.
THEOREM LegalTraces == Ordinary => (PipeSpec => []LegalAccepted)
<1> SUFFICES ASSUME Ordinary PROVE PipeSpec => []LegalAccepted
  OBVIOUS
<1>1. PipeInit => Faithful
  BY DEF PipeInit, Faithful
<1>2. PipeInv /\ Faithful /\ [PipeNext]_pvars => Faithful'
  BY FaithfulKept
<1>3. PipeInv /\ Faithful => LegalAccepted
  <2> SUFFICES ASSUME PipeInv, Faithful PROVE LegalAccepted
    OBVIOUS
  <2>1. pc # "timeOrder" /\ pc # "stray" /\ pc \notin Broken
    BY DEF PipeInv, StreamInv, IInv, NoBrokenMerge, NoStrayExit, Timely, Ordinary
  <2>2. verdict = "ok"
    BY DEF Faithful, Met, Sound, Post!Init
  <2> QED BY <2>1, <2>2 DEF LegalAccepted, Refused, Verdicts
<1> QED BY <1>1, <1>2, <1>3, PipeInductive, PTL DEF PipeSpec
-----------------------------------------------------------------------------
(***************************************************************************)
(* System calls                                                            *)
(***************************************************************************)
\* A goroutine that blocks in a system call does nothing else until its exit.
CallTypes == {"GoSysCall", "GoInSyscall"}

LEMMA CalledBefore ==
    ASSUME n \in Nat, NEW H, NEW V, Chronicle(H, V, n), NEW g \in Goroutine, NEW m \in 0..n,
           V[m].mode[g] = "syscall"
    PROVE  \E c \in 1..m : /\ H[c].typ \in CallTypes /\ H[c].g = g
                           /\ \A y \in (c + 1)..m : Of(H[y], g) => H[y].typ = "GoSysBlock"
<1> DEFINE Found(k) == \E c \in 1..k : /\ H[c].typ \in CallTypes /\ H[c].g = g
                         /\ \A y \in (c + 1)..k : Of(H[y], g) => H[y].typ = "GoSysBlock"
           S == {k \in 0..n : V[k].mode[g] = "syscall" /\ ~Found(k)}
<1> SUFFICES ASSUME S # {} PROVE FALSE
  OBVIOUS
<1>1. PICK k \in S : \A j \in S : k <= j
  <2>1. S \in SUBSET Nat
    OBVIOUS
  <2> HIDE DEF S
  <2> QED BY <2>1, HasLeast
<1>2. k \in 0..n /\ V[k].mode[g] = "syscall" /\ ~Found(k)
  OBVIOUS
<1>3. k # 0
  BY <1>2 DEF Chronicle, First
<1>4. k \in 1..n /\ k - 1 \in 0..n /\ k - 1 < k
  BY <1>2, <1>3
<1>5. CallsBy(V[k - 1], H[k], V[k])
  BY <1>4 DEF Chronicle, Did
<1>6. V[k - 1].mode[g] = "syscall" => Found(k - 1)
  BY <1>1, <1>4
<1> HIDE DEF S
<1>7. CASE ~Of(H[k], g)
  <2>1. V[k - 1].mode[g] = "syscall"
    BY <1>2, <1>5, <1>7 DEF CallsBy
  <2>2. PICK c \in 1..(k - 1) : /\ H[c].typ \in CallTypes /\ H[c].g = g
                         /\ \A y \in (c + 1)..(k - 1) : Of(H[y], g) => H[y].typ = "GoSysBlock"
    BY <1>6, <2>1
  <2>3. c \in 1..k /\ \A y \in (c + 1)..k : y = k \/ y \in (c + 1)..(k - 1)
    BY <1>4
  <2> QED BY <1>2, <1>7, <2>2, <2>3
<1>8. CASE Of(H[k], g) /\ H[k].typ = "GoSysBlock"
  <2>1. Subject(H[k]) = H[k].g
    BY <1>8, Subjects DEF LeaveTypes
  <2>2. V[k - 1].mode[g] = "syscall"
    BY <1>5, <1>8, <2>1 DEF CallsBy, Of
  <2>3. PICK c \in 1..(k - 1) : /\ H[c].typ \in CallTypes /\ H[c].g = g
                         /\ \A y \in (c + 1)..(k - 1) : Of(H[y], g) => H[y].typ = "GoSysBlock"
    BY <1>6, <2>2
  <2>4. c \in 1..k /\ \A y \in (c + 1)..k : y = k \/ y \in (c + 1)..(k - 1)
    BY <1>4
  <2> QED BY <1>2, <1>8, <2>3, <2>4
<1>9. CASE Of(H[k], g) /\ H[k].typ # "GoSysBlock"
  <2>1. H[k].typ \in CallTypes
    BY <1>2, <1>5, <1>9 DEF CallsBy, CallTypes
  <2>2. Subject(H[k]) \in {H[k].g, NoG}
    BY <2>1, Subjects DEF CallTypes, SnapTypes, MoveTypes, StartTypes, LeaveTypes, ParkTypes,
                          YieldTypes, EndTypes
  <2>3. H[k].g = g
    BY <1>9, <2>2, Sentinels DEF Of
  <2>4. \A y \in (k + 1)..k : FALSE
    BY <1>4
  <2> QED BY <1>2, <1>4, <2>1, <2>3, <2>4
<1> QED BY <1>7, <1>8, <1>9

\* d sets what the descriptor of g remembers as its last event.
Sets(d, g) ==
    \/ d.typ \in MoveTypes \ (EndTypes \cup {"GoSysBlock"}) /\ Subject(d) = g
    \/ d.typ = "GoSysCall" /\ d.g = g

\* After a call a goroutine runs until such an event, or waits in the call.
LEMMA CallOpen ==
    ASSUME n \in Nat, NEW H, NEW V, Chronicle(H, V, n), NEW g \in Goroutine, NEW c \in 1..n,
           H[c].typ = "GoSysCall", H[c].g = g, NEW m \in c..n,
           \A y \in (c + 1)..m : ~Sets(H[y], g)
    PROVE  \/ V[m].st[g] \in {"gRunning", "gDead"}
           \/ V[m].st[g] = "gWaiting" /\ V[m].mode[g] = "syscall"
<1> DEFINE Good(k) == \/ V[k].st[g] \in {"gRunning", "gDead"}
                      \/ V[k].st[g] = "gWaiting" /\ V[k].mode[g] = "syscall"
           S == {k \in c..m : ~Good(k)}
<1> SUFFICES ASSUME S # {} PROVE FALSE
  <2>1. m \in c..m
    OBVIOUS
  <2> QED BY <2>1
<1>1. PICK k \in S : \A j \in S : k <= j
  <2>1. S \in SUBSET Nat
    OBVIOUS
  <2> HIDE DEF S
  <2> QED BY <2>1, HasLeast
<1>2. k \in c..m /\ ~Good(k) /\ k \in 1..n /\ k - 1 \in 0..n
  OBVIOUS
<1>3. /\ Did(V[k - 1], H[k], V[k]) /\ ViewOK(V[k - 1]) /\ ViewOK(V[k])
      /\ CallsBy(V[k - 1], H[k], V[k])
  BY <1>2 DEF Chronicle, Did
<1>4. LeaveTypes \subseteq MoveTypes
  BY DEF MoveTypes
<1>5. k # c
  <2> SUFFICES ASSUME k = c PROVE FALSE
    OBVIOUS
  <2>1. H[k].typ \notin LeaveTypes /\ H[k].typ \notin MoveTypes /\ Of(H[k], g)
    BY DEF Of, MoveTypes, SnapTypes, StartTypes, LeaveTypes, ParkTypes, YieldTypes, EndTypes
  <2>2. V[k].st[g] = "gRunning"
    BY <1>3, <2>1, OfCases
  <2> QED BY <1>2, <2>2
<1>6. Good(k - 1) /\ k \in (c + 1)..m
  <2>1. k - 1 \in c..m /\ k - 1 < k /\ k \in (c + 1)..m
    BY <1>2, <1>5
  <2> QED BY <1>1, <2>1
<1>7. ~Sets(H[k], g)
  BY <1>6
<1> HIDE DEF S
<1>8. CASE ~Of(H[k], g)
  <2>1. V[k].st[g] = V[k - 1].st[g] /\ V[k].mode[g] = V[k - 1].mode[g]
    BY <1>3, <1>8, OthersKeep DEF CallsBy
  <2> QED BY <1>2, <1>6, <2>1
<1>9. CASE Of(H[k], g) /\ H[k].typ \in MoveTypes /\ Subject(H[k]) = g
  <2>1. H[k].typ \in EndTypes \cup {"GoSysBlock"}
    BY <1>7, <1>9 DEF Sets
  <2>2. H[k].typ \in LeaveTypes /\ (H[k].typ = "GoSysBlock" => H[k].g = g)
    BY <1>9, <2>1, Subjects DEF LeaveTypes
  <2>3. V[k].st[g] = Gets(H[k].typ)
    BY <1>3, <1>9, <2>2, OfCases
  <2>4. CASE H[k].typ \in EndTypes
    <3>1. Gets(H[k].typ) = "gDead"
      BY <2>4, MoveClasses DEF YieldTypes, EndTypes
    <3> QED BY <1>2, <2>3, <3>1
  <2>5. CASE H[k].typ = "GoSysBlock"
    <3>1. Gets(H[k].typ) = "gWaiting"
      BY <2>5, MoveClasses DEF YieldTypes, EndTypes
    <3>2. V[k].mode[g] = "syscall"
      BY <1>3, <2>2, <2>5 DEF CallsBy
    <3> QED BY <1>2, <2>3, <3>1, <3>2
  <2> QED BY <2>1, <2>4, <2>5
<1>10. CASE Of(H[k], g) /\ ~(H[k].typ \in MoveTypes /\ Subject(H[k]) = g)
  <2>1. V[k].st[g] = "gRunning"
    BY <1>3, <1>4, <1>10, OfCases
  <2> QED BY <1>2, <2>1
<1> QED BY <1>8, <1>9, <1>10


LEMMA ExitFollows ==
    ASSUME n \in Nat, ~LocalExits, NEW H, NEW V, Chronicle(H, V, n), NEW m \in 1..n,
           H[m].typ = "GoSysExit", NEW g, g = H[m].g
    PROVE  /\ g \in Goroutine
           /\ \E c \in 1..(m - 1) :
                /\ H[c].typ \in CallTypes /\ H[c].g = g
                /\ \A y \in (c + 1)..(m - 1) : Of(H[y], g) => H[y].typ = "GoSysBlock"
                /\ H[c].typ = "GoSysCall" => \E y \in (c + 1)..(m - 1) : Of(H[y], g)
<1>1. /\ m - 1 \in 0..n /\ Did(V[m - 1], H[m], V[m])
      /\ \A k \in 0..n : ViewOK(V[k])
  BY DEF Chronicle
<1>2. Subject(H[m]) = H[m].arg /\ H[m].arg = g /\ H[m].typ \in MoveTypes
  BY <1>1, Subjects DEF Did, RunsBy, MoveTypes
<1>3. g \in Goroutine /\ V[m - 1].st[g] = "gWaiting" /\ V[m - 1].mode[g] = "syscall"
  <2>1. Needs("GoSysExit") = "gWaiting"
    BY DEF Needs, SnapTypes, StartTypes, LeaveTypes, ParkTypes, YieldTypes, EndTypes
  <2>2. g \in Goroutine /\ V[m - 1].st[g] = "gWaiting"
    BY <1>1, <1>2, <2>1 DEF Did, MovesBy
  <2> QED BY <1>1, <1>2, <2>2 DEF Did, CallsBy
<1>4. PICK c \in 1..(m - 1) :
        /\ H[c].typ \in CallTypes /\ H[c].g = g
        /\ \A y \in (c + 1)..(m - 1) : Of(H[y], g) => H[y].typ = "GoSysBlock"
  BY <1>1, <1>3, CalledBefore
<1>5. ASSUME H[c].typ = "GoSysCall", \A y \in (c + 1)..(m - 1) : ~Of(H[y], g)
      PROVE  FALSE
  <2>1. c \in 1..n /\ c - 1 \in 0..n /\ c \in 0..n /\ c <= m - 1
    BY <1>1
  <2>2. Did(V[c - 1], H[c], V[c]) /\ ViewOK(V[c - 1]) /\ ViewOK(V[c])
    BY <2>1 DEF Chronicle
  <2>3. Of(H[c], g) /\ H[c].typ \notin MoveTypes /\ H[c].typ \notin LeaveTypes
    BY <1>4, <1>5 DEF Of, MoveTypes, SnapTypes, StartTypes, LeaveTypes, ParkTypes, YieldTypes,
                      EndTypes
  <2>4. V[c].st[g] = "gRunning"
    BY <1>3, <2>2, <2>3, OfCases
  <2>5. V[m - 1].st[g] = V[c].st[g]
    BY <1>1, <1>3, <1>5, <2>1, StillBetween
  <2> QED BY <1>3, <2>4, <2>5
<1> QED BY <1>3, <1>4, <1>5

\* In a call a goroutine is not unblocked.
LEMMA CallNotWoken ==
    ASSUME n \in Nat, NEW H, NEW V, Chronicle(H, V, n), NEW g \in Goroutine, NEW c \in 1..n,
           H[c].typ = "GoSysCall", H[c].g = g, NEW m \in 1..n, c < m,
           H[m].typ = "GoUnblock", H[m].arg = g
    PROVE  \E y \in (c + 1)..(m - 1) : Sets(H[y], g)
<1> SUFFICES ASSUME \A y \in (c + 1)..(m - 1) : ~Sets(H[y], g) PROVE FALSE
  OBVIOUS
<1>1. m - 1 \in c..n /\ Did(V[m - 1], H[m], V[m])
  BY DEF Chronicle
<1>2. Subject(H[m]) = g /\ H[m].typ \in MoveTypes
  BY Subjects DEF MoveTypes
<1>3. V[m - 1].st[g] = "gWaiting" /\ V[m - 1].mode[g] # "syscall"
  <2>1. Needs("GoUnblock") = "gWaiting"
    BY DEF Needs, SnapTypes, StartTypes, LeaveTypes, ParkTypes, YieldTypes, EndTypes
  <2> QED BY <1>1, <1>2, <2>1 DEF Did, MovesBy, CallsBy
<1> QED BY <1>1, <1>3, CallOpen

\* Nor does it look so once futile wakeups are removed.
LEMMA WokenLeft ==
    ASSUME n \in Nat, ~MidWakeup, NEW H, NEW V, Chronicle(H, V, n),
           \A h \in Goroutine : V[n].mode[h] # "futile", NEW g \in Goroutine, NEW c \in 1..n,
           H[c].typ = "GoSysCall", H[c].g = g, NEW m \in 1..n, c < m,
           H[m].typ = "GoUnblock", H[m].arg = g
    PROVE  \E y \in (c + 1)..(m - 1) : y \in Left(H) /\ Sets(H[y], g)
<1> DEFINE S == {y \in (c + 1)..(m - 1) : Sets(H[y], g)}
<1>1. S \in SUBSET Nat /\ S # {}
  BY CallNotWoken
<1>2. PICK y \in S : \A x \in S : y <= x
  <2> HIDE DEF S
  <2> QED BY <1>1, HasLeast
<1>3. y \in (c + 1)..(m - 1) /\ Sets(H[y], g) /\ y \in 1..n
  BY <1>2
<1>4. \A x \in (c + 1)..(m - 1) : Sets(H[x], g) => y <= x
  BY <1>2
<1> HIDE DEF S
<1> SUFFICES ASSUME y \notin Left(H) PROVE FALSE
  BY <1>3
<1>5. PICK h \in Goroutine : \E u, q \in 1..n : Vanishes(H, h, u, q) /\ Inside(H, h, u, q, y)
  BY <1>3, VanishedAre DEF Left
<1>6. PICK u, q \in 1..n : Vanishes(H, h, u, q) /\ Inside(H, h, u, q, y)
  BY <1>5
<1>7. /\ H[u].typ = "GoUnblock" /\ H[u].arg = h /\ H[q].typ \in FutileParks /\ H[q].g = h /\ u < q
      /\ \A x \in (u + 1)..(q - 1) : Of(H[x], h) => H[x].g = h /\ H[x].typ \in WakeupTypes \cup SweepTypes
  BY <1>6 DEF Vanishes, Unblocks, Halts
<1>8. h = g /\ y \in u..q
  <2>1. CASE y = u
    <3>1. Subject(H[y]) = h /\ H[y].typ # "GoSysCall"
      BY <1>7, <2>1, Subjects
    <3> QED BY <1>3, <1>7, <2>1, <3>1 DEF Sets
  <2>2. CASE y = q
    <3>1. Subject(H[y]) = h /\ H[y].typ # "GoSysCall"
      BY <1>7, <2>2, Subjects DEF FutileParks, LeaveTypes, ParkTypes
    <3> QED BY <1>3, <1>7, <2>2, <3>1 DEF Sets
  <2>3. CASE u < y /\ y < q /\ Of(H[y], h) /\ H[y].typ \notin SweepTypes
    <3>1. H[y].g = h /\ H[y].typ \in WakeupTypes
      BY <1>3, <1>6, <1>7, <2>3
    <3>2. Subject(H[y]) \in {h, NoG} /\ H[y].typ # "GoSysCall"
      BY <3>1, Subjects DEF WakeupTypes, StartTypes, LeaveTypes, YieldTypes, MoveTypes, SnapTypes,
                            ParkTypes, EndTypes
    <3> QED BY <1>3, <2>3, <3>2, Sentinels DEF Sets
  <2> QED BY <1>6, <2>1, <2>2, <2>3 DEF Inside
<1>9. c < u
  <2>1. c # u
    BY <1>7
  <2>2. c \notin (u + 1)..(q - 1)
    BY <1>7, <1>8 DEF Of, WakeupTypes, SweepTypes
  <2> QED BY <1>3, <1>6, <1>8, <2>1, <2>2
<1>10. Sets(H[u], g)
  BY <1>7, <1>8, Subjects DEF Sets, MoveTypes, EndTypes
<1>11. u \in (c + 1)..(m - 1) /\ u = y
  BY <1>3, <1>4, <1>6, <1>8, <1>9, <1>10
<1>12. PICK x \in (c + 1)..(u - 1) : Sets(H[x], g)
  BY <1>6, <1>7, <1>8, <1>9, CallNotWoken
<1> QED BY <1>4, <1>11, <1>12

\* What postProcessTrace is given tells the same of each goroutine, in the
\* same order.
LEMMA Places ==
    ASSUME Ordinary, n \in Nat, NEW H, NEW V, Chronicle(H, V, n), NEW s, StreamOf(H, s),
           NEW t, LeftOf(H, s, t)
    PROVE  /\ \A k \in 1..Len(t) :
                LET d == H[t[k].n]
                IN  /\ t[k].n \in Left(H) /\ t[k].n \in 1..n
                    /\ d.typ = t[k].typ /\ d.g = t[k].g /\ d.arg = t[k].arg
                    /\ \A g : Of(t[k], g) <=> Of(d, g)
                    /\ \A g : Sets(t[k], g) <=> Sets(d, g)
           /\ \A y \in Left(H) : \E k \in 1..Len(t) : t[k].n = y
           /\ \A i, j \in 1..Len(t) : \A g \in Goroutine :
                Of(t[i], g) /\ Of(t[j], g) => (i < j <=> t[i].n < t[j].n)
<1>1. ASSUME NEW k \in 1..Len(t)
      PROVE  LET d == H[t[k].n]
             IN  /\ t[k].n \in Left(H) /\ t[k].n \in 1..n
                 /\ d.typ = t[k].typ /\ d.g = t[k].g /\ d.arg = t[k].arg
  <2>1. t[k].n \in Left(H)
    BY LeftHas
  <2>2. PICK i \in 1..n : t[k] = Separated(s)[i]
    BY LeftHas
  <2> QED BY <2>1, <2>2, SeparatedSame
<1>2. ASSUME NEW k \in 1..Len(t)
      PROVE  /\ \A g : Of(t[k], g) <=> Of(H[t[k].n], g)
             /\ \A g : Sets(t[k], g) <=> Sets(H[t[k].n], g)
  <2>1. Subject(H[t[k].n]) = Subject(t[k])
    BY <1>1 DEF Subject
  <2> QED BY <1>1, <2>1 DEF Of, Sets
<1>3. \A y \in Left(H) : \E k \in 1..Len(t) : t[k].n = y
  BY LeftHas
<1>4. ASSUME NEW i \in 1..Len(t), NEW j \in 1..Len(t), NEW g \in Goroutine,
             Of(t[i], g), Of(t[j], g)
      PROVE  i < j <=> t[i].n < t[j].n
  <2>1. Len(t) \in Nat /\ t[i].n \in 1..n /\ t[j].n \in 1..n
    BY <1>1 DEF LeftOf
  <2>2. i < j => t[i].n < t[j].n
    BY <1>2, <1>4, LeftOrder DEF Ordinary
  <2>3. j < i => t[j].n < t[i].n
    BY <1>2, <1>4, LeftOrder DEF Ordinary
  <2>4. i = j => t[i].n = t[j].n
    OBVIOUS
  <2> QED BY <2>1, <2>2, <2>3, <2>4
<1> QED BY <1>1, <1>2, <1>3, <1>4

\* A syscall exit has its call before it, with nothing of the goroutine between
\* but that it blocked; and from a call, a goroutine is not unblocked before it
\* did something else.
ExitsFollow(t) ==
    \A k \in 1..Len(t) : t[k].typ = "GoSysExit" =>
        \E i \in 1..(k - 1) :
            /\ t[i].typ \in CallTypes /\ t[i].g = t[k].g
            /\ \A x \in (i + 1)..(k - 1) : Of(t[x], t[k].g) => t[x].typ = "GoSysBlock"
            /\ t[i].typ = "GoSysCall" => \E x \in (i + 1)..(k - 1) : t[x].g = t[k].g
WakesFollow(t) ==
    \A k \in 1..Len(t) : \A i \in 1..(k - 1) :
        t[k].typ = "GoUnblock" /\ t[i].typ = "GoSysCall" /\ t[i].g = t[k].arg =>
            \E x \in (i + 1)..(k - 1) : Sets(t[x], t[k].arg)

LEMMA ExitsLeft ==
    ASSUME Ordinary, n \in Nat, NEW H, NEW V, Chronicle(H, V, n), NEW s, StreamOf(H, s),
           NEW t, LeftOf(H, s, t), \A h \in Goroutine : V[n].mode[h] # "futile"
    PROVE  ExitsFollow(t)
<1> SUFFICES ASSUME NEW k \in 1..Len(t), t[k].typ = "GoSysExit"
             PROVE  \E i \in 1..(k - 1) :
                      /\ t[i].typ \in CallTypes /\ t[i].g = t[k].g
                      /\ \A x \in (i + 1)..(k - 1) : Of(t[x], t[k].g) => t[x].typ = "GoSysBlock"
                      /\ t[i].typ = "GoSysCall" => \E x \in (i + 1)..(k - 1) : t[x].g = t[k].g
  BY DEF ExitsFollow
<1> DEFINE g == t[k].g
           m == t[k].n
<1>0. Len(t) \in Nat
  BY DEF LeftOf
<1>1. m \in 1..n /\ H[m].typ = "GoSysExit" /\ H[m].g = g
  BY Places
<1>2. g \in Goroutine
  BY <1>1, ExitFollows DEF Ordinary
<1>2a. ASSUME NEW x \in 1..Len(t)
       PROVE  /\ t[x].n \in 1..n /\ H[t[x].n].typ = t[x].typ
              /\ Of(t[x], g) <=> Of(H[t[x].n], g)
  <2>1. t[x].n \in 1..n /\ H[t[x].n].typ = t[x].typ
    BY Places
  <2>2. \A h : Of(t[x], h) <=> Of(H[t[x].n], h)
    BY Places, Zenon
  <2> QED BY <2>1, <2>2
<1>2b. \A x, z \in 1..Len(t) : Of(t[x], g) /\ Of(t[z], g) => (x < z <=> t[x].n < t[z].n)
  BY <1>2, Places
<1>3. PICK c \in 1..(m - 1) :
        /\ H[c].typ \in CallTypes /\ H[c].g = g
        /\ \A y \in (c + 1)..(m - 1) : Of(H[y], g) => H[y].typ = "GoSysBlock"
        /\ H[c].typ = "GoSysCall" => \E y \in (c + 1)..(m - 1) : Of(H[y], g)
  BY <1>1, ExitFollows DEF Ordinary
<1>4. ASSUME NEW y \in 1..n, H[y].typ \in CallTypes \cup {"GoSysBlock"}
      PROVE  \E i \in 1..Len(t) : t[i].n = y
  <2>1. y \notin Dropped(H, 1..n)
    BY <1>4, DroppedTypes DEF Ordinary, CallTypes, FutileParks, WakeupTypes
  <2> QED BY <2>1, Places DEF Left
<1>5. c \in 1..n /\ c < m
  BY <1>1
<1>6. PICK i \in 1..Len(t) : t[i].n = c
  BY <1>3, <1>4, <1>5
<1>7. t[i].typ = H[c].typ /\ t[i].g = g /\ Of(t[i], g) /\ Of(t[k], g)
  BY <1>3, <1>6, Places DEF Of
<1>8. i < k
  BY <1>2b, <1>5, <1>6, <1>7
<1>9. ASSUME NEW x \in (i + 1)..(k - 1), Of(t[x], g)
      PROVE  t[x].typ = "GoSysBlock"
  <2>1. x \in 1..Len(t) /\ i < x /\ x < k
    BY <1>0
  <2>2. c < t[x].n /\ t[x].n < m /\ t[x].n \in 1..n
    BY <1>2a, <1>2b, <1>6, <1>7, <1>9, <2>1
  <2>3. Of(H[t[x].n], g) /\ H[t[x].n].typ = t[x].typ
    BY <1>2a, <1>9, <2>1
  <2>4. t[x].n \in (c + 1)..(m - 1)
    BY <1>1, <2>2
  <2> QED BY <1>3, <2>3, <2>4
<1>10. ASSUME t[i].typ = "GoSysCall"
       PROVE  \E x \in (i + 1)..(k - 1) : t[x].g = g
  <2>1. PICK y \in (c + 1)..(m - 1) : Of(H[y], g)
    BY <1>3, <1>7, <1>10
  <2>2. H[y].typ = "GoSysBlock" /\ y \in 1..n /\ c < y /\ y < m
    BY <1>1, <1>3, <2>1
  <2>3. PICK x \in 1..Len(t) : t[x].n = y
    BY <1>4, <2>2
  <2>4. Of(t[x], g) /\ t[x].typ = "GoSysBlock"
    BY <1>2a, <2>1, <2>2, <2>3
  <2>5. t[x].g = g
    BY <2>4, Subjects DEF Of, LeaveTypes
  <2>6. i < x /\ x < k
    BY <1>2b, <1>6, <1>7, <2>2, <2>3, <2>4
  <2>7. x \in (i + 1)..(k - 1)
    BY <2>6
  <2> QED BY <2>5, <2>7
<1>11. i \in 1..(k - 1)
  BY <1>8
<1> HIDE DEF g, m
<1>12. /\ t[i].typ \in CallTypes /\ t[i].g = g
       /\ \A x \in (i + 1)..(k - 1) : Of(t[x], g) => t[x].typ = "GoSysBlock"
       /\ t[i].typ = "GoSysCall" => \E x \in (i + 1)..(k - 1) : t[x].g = g
  BY <1>3, <1>7, <1>9, <1>10
<1> QED BY <1>11, <1>12 DEF g

LEMMA WakesLeft ==
    ASSUME Ordinary, n \in Nat, NEW H, NEW V, Chronicle(H, V, n), NEW s, StreamOf(H, s),
           NEW t, LeftOf(H, s, t), \A h \in Goroutine : V[n].mode[h] # "futile"
    PROVE  WakesFollow(t)
<1> SUFFICES ASSUME NEW k \in 1..Len(t), NEW i \in 1..(k - 1), t[k].typ = "GoUnblock",
                    t[i].typ = "GoSysCall", t[i].g = t[k].arg
             PROVE  \E x \in (i + 1)..(k - 1) : Sets(t[x], t[k].arg)
  BY DEF WakesFollow
<1>0. Len(t) \in Nat /\ i \in 1..Len(t) /\ i < k
  BY DEF LeftOf
<1> DEFINE g == t[k].arg
           m == t[k].n
           c == t[i].n
<1>1. /\ m \in 1..n /\ H[m].typ = "GoUnblock" /\ H[m].arg = g
      /\ c \in 1..n /\ H[c].typ = "GoSysCall" /\ H[c].g = g
  BY <1>0, Places
<1>2. g \in Goroutine
  <2>1. Did(V[m - 1], H[m], V[m])
    BY <1>1 DEF Chronicle
  <2>2. Subject(H[m]) = g /\ H[m].typ \in MoveTypes
    BY <1>1, Subjects DEF MoveTypes
  <2> QED BY <2>1, <2>2 DEF Did, MovesBy
<1>3. Of(t[i], g) /\ Of(t[k], g)
  BY Subjects DEF Of
<1>3a. ASSUME NEW x \in 1..Len(t)
       PROVE  Sets(t[x], g) <=> Sets(H[t[x].n], g)
  <2>1. \A h : Sets(t[x], h) <=> Sets(H[t[x].n], h)
    BY Places
  <2> QED BY <2>1
<1>3b. \A x, z \in 1..Len(t) : Of(t[x], g) /\ Of(t[z], g) => (x < z <=> t[x].n < t[z].n)
  BY <1>2, Places
<1>4. c < m
  BY <1>0, <1>3, <1>3b
<1>5. PICK y \in (c + 1)..(m - 1) : y \in Left(H) /\ Sets(H[y], g)
  BY <1>1, <1>2, <1>4, WokenLeft DEF Ordinary
<1>6. PICK x \in 1..Len(t) : t[x].n = y
  BY <1>5, Places
<1>7. Sets(t[x], g)
  BY <1>3a, <1>5, <1>6
<1>8. Of(t[x], g)
  BY <1>7 DEF Sets, Of
<1>9. i < x /\ x < k
  BY <1>0, <1>1, <1>3, <1>3b, <1>5, <1>6, <1>8
<1>10. x \in (i + 1)..(k - 1)
  BY <1>9
<1> QED BY <1>7, <1>10
-----------------------------------------------------------------------------
(***************************************************************************)
(* Which exit a call is linked to                                          *)
(***************************************************************************)
\* What an accepted event does to the calls of the trace, and to what the
\* descriptors remember.
LEMMA CallMoves ==
    ASSUME Sound, NEW ev \in Post!InputEvents, ev.seq = Task, PP!Fits(ev), Post!Case(ev),
           ev.typ = "GoSysExit" => ev.g = ev.arg, NEW k, k = Len(trace) + 1
    PROVE  /\ Len(trace) \in Nat /\ DOMAIN trace = 1..Len(trace)
           /\ Len(trace') = k /\ DOMAIN trace' = 1..k
           /\ trace'[k].typ = ev.typ /\ trace'[k].g = ev.g /\ trace'[k].link = 0
           /\ \A i \in 1..Len(trace) : trace'[i].typ = trace[i].typ /\ trace'[i].g = trace[i].g
           /\ \A i \in 1..Len(trace) : trace[i].typ = "GoSysCall" =>
                LET ends == \/ ev.typ = "GoSysExit" /\ pgs[ev.g].ev = i
                            \/ ev.typ = "GoUnblock" /\ pgs[ev.arg].ev = i
                IN  /\ trace'[i].link = IF ends THEN k ELSE trace[i].link
                    /\ ends => trace[i].link = 0
           /\ \A g \in PP!G :
                /\ pgs[g].ev \in 0..Len(trace)
                /\ pgs'[g].ev = IF Sets(ev, g) THEN (IF ev.typ \in StartTypes THEN 0 ELSE k)
                                ELSE pgs[g].ev
           /\ ev.g \in PP!G /\ ev.arg \in PP!G
<1>1. /\ PP!Effects(ev) /\ PP!Inv /\ PP!Holders /\ ev \in PP!InputEvents
      /\ ev.g \in PP!G /\ ev.arg \in PP!G
  <2>1. PP!Effects(ev) /\ PP!LinkInv /\ ev \in PP!InputEvents
    BY Accepted1
  <2>2. ev.g \in PP!G /\ ev.arg \in PP!G
    BY <2>1 DEF PP!InputEvents, PP!G
  <2> QED BY <2>1, <2>2 DEF PP!LinkInv
<1>2. PP!Here = k /\ PP!Nil = 0 /\ PP!Grows(ev) /\ PP!Moves(ev)
  BY <1>1 DEF PP!Here, PP!Nil, PP!Effects
<1>3. /\ Len(trace) \in Nat /\ DOMAIN trace = 1..Len(trace)
      /\ Len(trace') = k /\ DOMAIN trace' = 1..k
      /\ trace'[k].typ = ev.typ /\ trace'[k].g = ev.g /\ trace'[k].link = 0
      /\ \A i \in 1..Len(trace) :
           /\ trace'[i].typ = trace[i].typ /\ trace'[i].g = trace[i].g
           /\ trace'[i].link = IF PP!LinkedBy(i, ev) THEN k ELSE trace[i].link
  BY <1>2 DEF PP!Grows
<1>4. ASSUME NEW i \in 1..Len(trace), trace[i].typ = "GoSysCall"
      PROVE  /\ PP!LinkedBy(i, ev) <=> \/ ev.typ = "GoSysExit" /\ pgs[ev.g].ev = i
                                       \/ ev.typ = "GoUnblock" /\ pgs[ev.arg].ev = i
             /\ PP!LinkedBy(i, ev) => trace[i].link = 0
  <2>1. ASSUME PP!LinkedBy(i, ev)
        PROVE  trace[i].link = 0 /\ ev.typ \in {"GoSysExit", "GoUnblock"}
    <3>1. i \in DOMAIN trace
      BY <1>3
    <3>2. trace[i].link = PP!Nil /\ PP!Pairs(i, ev)
      BY <1>1, <2>1, <3>1, PP!Targets, PPAssumed, Sentinels
    <3>3. ~PP!Readied(i, ev.g)
      BY <1>4 DEF PP!Readied, PP!YieldTypes
    <3>4. ~PP!StartsAt(i, ev.g)
      BY <1>4 DEF PP!StartsAt, PP!StartTypes
    <3>5. ev.typ \in {"GoSysExit", "GoUnblock"}
      BY <1>4, <3>2, <3>3, <3>4 DEF PP!Pairs
    <3> QED BY <1>2, <3>2, <3>5
  <2>2. PP!LinkedBy(i, ev) /\ ev.typ = "GoSysExit" => pgs[ev.g].ev = i
    BY DEF PP!LinkedBy, PP!StartTypes, PP!LeaveTypes, PP!ParkTypes, PP!YieldTypes, PP!EndTypes
  <2>3. PP!LinkedBy(i, ev) /\ ev.typ = "GoUnblock" => pgs[ev.arg].ev = i
    BY DEF PP!LinkedBy, PP!StartTypes, PP!LeaveTypes, PP!ParkTypes, PP!YieldTypes, PP!EndTypes
  <2>4. ev.typ = "GoSysExit" /\ pgs[ev.g].ev = i => PP!LinkedBy(i, ev)
    BY <1>4 DEF PP!LinkedBy
  <2>5. ev.typ = "GoUnblock" /\ pgs[ev.arg].ev = i => PP!LinkedBy(i, ev)
    BY DEF PP!LinkedBy
  <2> QED BY <2>1, <2>2, <2>3, <2>4, <2>5
<1>5. ASSUME NEW g \in PP!G
      PROVE  pgs[g].ev \in 0..Len(trace)
  <2>1. CASE pgs[g].ev = 0
    BY <1>3, <2>1
  <2>2. CASE pgs[g].ev # 0
    <3>1. PP!Unlinked(pgs[g].ev)
      BY <1>1, <1>2, <2>2 DEF PP!Holders, PP!EvFits, PP!Held
    <3> QED BY <1>3, <3>1 DEF PP!Unlinked
  <2> QED BY <2>1, <2>2
<1>6. ASSUME NEW g \in PP!G
      PROVE  pgs'[g].ev = IF Sets(ev, g) THEN (IF ev.typ \in StartTypes THEN 0 ELSE k) ELSE pgs[g].ev
  <2>1. PP!MovesTo(ev, g, pgs'[g])
    BY <1>2 DEF PP!Moves
  <2>2. pgs'[g].ev =
          IF \/ PP!Created(ev, g) \/ (ev.typ = "GoUnblock" /\ g = ev.arg)
             \/ PP!Does(ev, g, PP!SnapTypes \cup PP!ParkTypes \cup PP!YieldTypes
                               \cup {"GoSysCall", "GoSysExit"})
          THEN k ELSE IF PP!Does(ev, g, PP!StartTypes) THEN 0 ELSE pgs[g].ev
    BY <1>2, <2>1 DEF PP!MovesTo
  <2>3. (PP!Created(ev, g) \/ (ev.typ = "GoUnblock" /\ g = ev.arg)
          \/ PP!Does(ev, g, PP!SnapTypes \cup PP!ParkTypes \cup PP!YieldTypes
                            \cup {"GoSysCall", "GoSysExit"}))
        <=> Sets(ev, g) /\ ev.typ \notin StartTypes
    BY PPSame, Subjects DEF PP!Created, PP!Does, Sets, MoveTypes, SnapTypes, StartTypes, LeaveTypes,
                            ParkTypes, YieldTypes, EndTypes
  <2>4. PP!Does(ev, g, PP!StartTypes) <=> Sets(ev, g) /\ ev.typ \in StartTypes
    BY PPSame, Subjects DEF PP!Does, Sets, MoveTypes, StartTypes, EndTypes
  <2> QED BY <2>2, <2>3, <2>4
<1> QED BY <1>1, <1>3, <1>4, <1>5, <1>6

\* Event j of t is the exit of call i: Ends, said of what postProcessTrace is
\* given.
Answers(t, i, j) ==
    /\ t[i].typ = "GoSysCall" /\ t[j].typ = "GoSysExit" /\ t[j].g = t[i].g
    /\ i < j
    /\ {t[x].typ : x \in {l \in (i + 1)..(j - 1) : t[l].g = t[i].g}} = {"GoSysBlock"}

\* postProcessTrace before event k of t: a goroutine's descriptor has a call as
\* its last event until something else sets it, and the calls are linked to
\* their exits.
Linked(t, k) ==
    /\ Len(trace) = k - 1 /\ DOMAIN trace = 1..(k - 1)
    /\ \A i \in 1..(k - 1) : trace[i].typ = t[i].typ /\ trace[i].g = t[i].g
    /\ \A i \in 1..(k - 1) : t[i].typ = "GoSysCall" =>
         /\ \A g \in Goroutine \cup {NoG} :
              pgs[g].ev = i <=> t[i].g = g /\ \A x \in (i + 1)..(k - 1) : ~Sets(t[x], g)
         /\ trace[i].link \in 0..(k - 1)
         /\ \A j \in 1..(k - 1) : trace[i].link = j <=> Answers(t, i, j)

\* An exit answers the call of its goroutine that nothing else followed.
LEMMA AnswerLast ==
    ASSUME NEW t, Len(t) \in Nat, ExitsFollow(t), NEW k \in 1..Len(t), t[k].typ = "GoSysExit",
           NEW i \in 1..(k - 1), t[i].typ = "GoSysCall", t[i].g = t[k].g, t[k].g \in Goroutine
    PROVE  Answers(t, i, k) <=> \A x \in (i + 1)..(k - 1) : ~Sets(t[x], t[k].g)
<1> DEFINE g == t[k].g
<1>1. PICK c \in 1..(k - 1) :
        /\ t[c].typ \in CallTypes /\ t[c].g = g
        /\ \A x \in (c + 1)..(k - 1) : Of(t[x], g) => t[x].typ = "GoSysBlock"
        /\ t[c].typ = "GoSysCall" => \E x \in (c + 1)..(k - 1) : t[x].g = g
  BY DEF ExitsFollow
<1>2. i <= c
  <2>1. Of(t[i], g)
    BY DEF Of
  <2>2. i \notin (c + 1)..(k - 1)
    BY <1>1, <2>1
  <2> QED BY <2>2
<1>3. ASSUME Answers(t, i, k)
      PROVE  \A x \in (i + 1)..(k - 1) : ~Sets(t[x], g)
  <2>1. \A x \in (i + 1)..(k - 1) : t[x].g = g => t[x].typ = "GoSysBlock"
    <3> SUFFICES ASSUME NEW x \in (i + 1)..(k - 1), t[x].g = g PROVE t[x].typ = "GoSysBlock"
      OBVIOUS
    <3>1. t[x].typ \in {t[y].typ : y \in {l \in (i + 1)..(k - 1) : t[l].g = t[i].g}}
      OBVIOUS
    <3> QED BY <1>3, <3>1 DEF Answers
  <2>2. c = i
    <3>1. c \notin (i + 1)..(k - 1)
      BY <1>1, <2>1 DEF CallTypes
    <3> QED BY <1>2, <3>1
  <2> SUFFICES ASSUME NEW x \in (i + 1)..(k - 1), Sets(t[x], g) PROVE FALSE
    OBVIOUS
  <2>3. Of(t[x], g)
    BY DEF Sets, Of
  <2>4. t[x].typ = "GoSysBlock"
    BY <1>1, <2>2, <2>3
  <2> QED BY <2>4 DEF Sets
<1>4. ASSUME \A x \in (i + 1)..(k - 1) : ~Sets(t[x], g)
      PROVE  Answers(t, i, k)
  <2>1. Sets(t[c], g)
    <3>1. CASE t[c].typ = "GoSysCall"
      BY <1>1, <3>1 DEF Sets
    <3>2. CASE t[c].typ = "GoInSyscall"
      <4>1. Subject(t[c]) = g
        BY <1>1, <3>2, Subjects DEF SnapTypes
      <4>2. t[c].typ \in MoveTypes \ (EndTypes \cup {"GoSysBlock"})
        BY <3>2 DEF MoveTypes, SnapTypes, EndTypes
      <4> QED BY <4>1, <4>2 DEF Sets
    <3> QED BY <1>1, <3>1, <3>2 DEF CallTypes
  <2>2. c = i
    BY <1>2, <1>4, <2>1
  <2>3. \A x \in (i + 1)..(k - 1) : t[x].g = g => t[x].typ = "GoSysBlock"
    BY <1>1, <2>2 DEF Of
  <2>4. PICK x \in (i + 1)..(k - 1) : t[x].g = g
    BY <1>1, <2>2
  <2>5. {t[y].typ : y \in {l \in (i + 1)..(k - 1) : t[l].g = t[i].g}} = {"GoSysBlock"}
    BY <2>3, <2>4
  <2>6. i < k
    OBVIOUS
  <2> QED BY <2>5, <2>6, Zenon DEF Answers
<1> QED BY <1>3, <1>4

LEMMA LinkedNext ==
    ASSUME NEW t, NEW k \in 1..Len(t), Len(t) \in Nat, ExitsFollow(t), WakesFollow(t),
           Linked(t, k), Sound, NEW ev, ev = Entry(t[k]), ev \in Post!InputEvents, ev.seq = Task,
           PP!Fits(ev), Post!Case(ev), ev.typ = "GoSysExit" => ev.g = ev.arg /\ ev.g \in Goroutine
    PROVE  Linked(t, k + 1)'
<1>1. /\ ev.typ = t[k].typ /\ ev.g = t[k].g /\ ev.arg = t[k].arg
      /\ \A g : Sets(ev, g) <=> Sets(t[k], g)
  <2>1. ev.typ = t[k].typ /\ ev.g = t[k].g /\ ev.arg = t[k].arg
    BY DEF Entry
  <2>2. Subject(ev) = Subject(t[k])
    BY <2>1 DEF Subject
  <2> QED BY <2>1, <2>2 DEF Sets
<1>2. Len(trace) = k - 1 /\ k = Len(trace) + 1 /\ DOMAIN trace = 1..(k - 1)
  BY DEF Linked
<1>3. /\ Len(trace') = k /\ DOMAIN trace' = 1..k
      /\ trace'[k].typ = ev.typ /\ trace'[k].g = ev.g /\ trace'[k].link = 0
      /\ \A i \in 1..(k - 1) : trace'[i].typ = trace[i].typ /\ trace'[i].g = trace[i].g
  BY <1>2, CallMoves
<1>4. ASSUME NEW i \in 1..(k - 1), t[i].typ = "GoSysCall"
      PROVE  LET ends == \/ ev.typ = "GoSysExit" /\ pgs[ev.g].ev = i
                         \/ ev.typ = "GoUnblock" /\ pgs[ev.arg].ev = i
             IN  /\ trace'[i].link = IF ends THEN k ELSE trace[i].link
                 /\ ends => trace[i].link = 0
  <2>1. trace[i].typ = "GoSysCall"
    BY <1>4 DEF Linked
  <2> QED BY <1>2, <2>1, CallMoves
<1>5. /\ ev.g \in Goroutine \cup {NoG} /\ ev.arg \in Goroutine \cup {NoG}
      /\ \A g \in Goroutine \cup {NoG} :
           /\ pgs[g].ev \in 0..(k - 1)
           /\ pgs'[g].ev = IF Sets(ev, g) THEN (IF ev.typ \in StartTypes THEN 0 ELSE k)
                           ELSE pgs[g].ev
  BY <1>2, CallMoves, PPSame
<1>6. \A i \in 1..k : trace'[i].typ = t[i].typ /\ trace'[i].g = t[i].g
  <2>1. \A i \in 1..k : i = k \/ i \in 1..(k - 1)
    OBVIOUS
  <2> QED BY <1>1, <1>3, <2>1 DEF Linked
<1>7. ASSUME NEW i \in 1..k, t[i].typ = "GoSysCall", NEW g \in Goroutine \cup {NoG}
      PROVE  pgs'[g].ev = i <=> t[i].g = g /\ \A x \in (i + 1)..k : ~Sets(t[x], g)
  <2>1. CASE i = k
    <3>1. Sets(ev, g) <=> ev.g = g
      BY <1>1, <1>7, <2>1 DEF Sets, MoveTypes, SnapTypes, StartTypes, LeaveTypes, ParkTypes,
                              YieldTypes, EndTypes
    <3>2. ev.typ \notin StartTypes
      BY <1>1, <1>7, <2>1 DEF StartTypes
    <3>3. \A x \in (i + 1)..k : FALSE
      BY <2>1
    <3> QED BY <1>1, <1>5, <2>1, <3>1, <3>2, <3>3
  <2>2. CASE i # k
    <3>1. i \in 1..(k - 1)
      BY <2>2
    <3>2. pgs[g].ev = i <=> t[i].g = g /\ \A x \in (i + 1)..(k - 1) : ~Sets(t[x], g)
      BY <1>7, <3>1 DEF Linked
    <3>3. \A x \in (i + 1)..k : x = k \/ x \in (i + 1)..(k - 1)
      BY <3>1
    <3>4. k \in (i + 1)..k /\ \A x \in (i + 1)..(k - 1) : x \in (i + 1)..k
      BY <3>1
    <3>5. CASE Sets(ev, g)
      <4>1. pgs'[g].ev # i
        BY <1>5, <3>1, <3>5
      <4>2. Sets(t[k], g)
        BY <1>1, <3>5
      <4> QED BY <3>4, <4>1, <4>2
    <3>6. CASE ~Sets(ev, g)
      <4>1. pgs'[g].ev = pgs[g].ev
        BY <1>5, <3>6
      <4>2. ~Sets(t[k], g)
        BY <1>1, <3>6
      <4> QED BY <3>2, <3>3, <3>4, <4>1, <4>2
    <3> QED BY <3>5, <3>6
  <2> QED BY <2>1, <2>2
<1>8. ASSUME NEW i \in 1..k, t[i].typ = "GoSysCall"
      PROVE  /\ trace'[i].link \in 0..k
             /\ \A j \in 1..k : trace'[i].link = j <=> Answers(t, i, j)
  <2>1. CASE i = k
    <3>1. trace'[i].link = 0
      BY <1>3, <2>1
    <3>2. \A j \in 1..k : ~Answers(t, i, j)
      BY <2>1 DEF Answers
    <3> QED BY <3>1, <3>2
  <2>2. CASE i # k
    <3>1. i \in 1..(k - 1)
      BY <2>2
    <3>2. /\ trace[i].link \in 0..(k - 1)
          /\ \A j \in 1..(k - 1) : trace[i].link = j <=> Answers(t, i, j)
          /\ \A g \in Goroutine \cup {NoG} :
               pgs[g].ev = i <=> t[i].g = g /\ \A x \in (i + 1)..(k - 1) : ~Sets(t[x], g)
      BY <1>8, <3>1 DEF Linked
    <3> DEFINE ends == \/ ev.typ = "GoSysExit" /\ pgs[ev.g].ev = i
                       \/ ev.typ = "GoUnblock" /\ pgs[ev.arg].ev = i
    <3>3. trace'[i].link = (IF ends THEN k ELSE trace[i].link) /\ (ends => trace[i].link = 0)
      BY <1>4, <1>8, <3>1
    <3>4. ends <=> Answers(t, i, k)
      <4>1. CASE ev.typ = "GoSysExit" /\ t[i].g = t[k].g
        <5>1. ends <=> \A x \in (i + 1)..(k - 1) : ~Sets(t[x], t[k].g)
          BY <1>1, <1>5, <3>2, <4>1
        <5>2. t[k].g \in Goroutine /\ t[k].typ = "GoSysExit"
          BY <1>1, <4>1
        <5> QED BY <1>8, <3>1, <4>1, <5>1, <5>2, AnswerLast
      <4>2. CASE ev.typ = "GoSysExit" /\ t[i].g # t[k].g
        BY <1>1, <1>5, <3>2, <4>2 DEF Answers
      <4>3. CASE ev.typ = "GoUnblock"
        <5>1. ~ends
          <6> SUFFICES ASSUME pgs[ev.arg].ev = i PROVE FALSE
            BY <4>3
          <6>1. t[i].g = ev.arg /\ \A x \in (i + 1)..(k - 1) : ~Sets(t[x], ev.arg)
            BY <1>5, <3>2
          <6>2. \E x \in (i + 1)..(k - 1) : Sets(t[x], t[k].arg)
            BY <1>1, <1>8, <3>1, <4>3, <6>1 DEF WakesFollow
          <6> QED BY <1>1, <6>1, <6>2
        <5> QED BY <1>1, <4>3, <5>1 DEF Answers
      <4>4. CASE ev.typ \notin {"GoSysExit", "GoUnblock"}
        BY <1>1, <4>4 DEF Answers
      <4> QED BY <4>1, <4>2, <4>3, <4>4
    <3> HIDE DEF ends
    <3>5. trace'[i].link \in 0..k
      BY <3>2, <3>3
    <3>6. trace'[i].link = k <=> Answers(t, i, k)
      BY <3>2, <3>3, <3>4
    <3>7. ASSUME NEW j \in 1..(k - 1)
          PROVE  trace'[i].link = j <=> Answers(t, i, j)
      BY <3>2, <3>3
    <3>8. \A j \in 1..k : j = k \/ j \in 1..(k - 1)
      OBVIOUS
    <3> QED BY <3>5, <3>6, <3>7, <3>8
  <2> QED BY <2>1, <2>2
<1>9. k + 1 - 1 = k
  OBVIOUS
<1>10. \A i \in 1..k : t[i].typ = "GoSysCall" =>
         /\ \A g \in Goroutine \cup {NoG} :
              pgs'[g].ev = i <=> t[i].g = g /\ \A x \in (i + 1)..k : ~Sets(t[x], g)
         /\ trace'[i].link \in 0..k
         /\ \A j \in 1..k : trace'[i].link = j <=> Answers(t, i, j)
  BY <1>7, <1>8
<1> QED BY <1>3, <1>6, <1>9, <1>10 DEF Linked

LEMMA LinkedAccepted ==
    ASSUME Ordinary, n \in Nat, NEW H, NEW V, NEW s, NEW t, NEW k \in 1..Len(t), Met(H, V, s, t, k),
           Post!Process(Entry(t[k])), Linked(t, k)
    PROVE  Linked(t, k + 1)'
<1> DEFINE ev == Entry(t[k])
           m == t[k].n
           S == Seen(t, k)
<1>1. Turn(H, V, S, m, ev)
  BY ItsTurn
<1>2. /\ Sound /\ Follows(H, V, S) /\ Chronicle(H, V, n) /\ StreamOf(H, s) /\ LeftOf(H, s, t)
      /\ \A g \in Goroutine : V[n].mode[g] # "futile"
  BY DEF Met
<1>3. Len(t) \in Nat /\ ExitsFollow(t) /\ WakesFollow(t)
  BY <1>2, ExitsLeft, WakesLeft DEF LeftOf
<1> HIDE DEF ev, m, S
<1>4. PP!Fits(ev) /\ (ev.typ = "GoSysExit" => ev.g = ev.arg)
  BY <1>1, <1>2, NextFits
<1>5. Post!Case(ev)
  BY <1>4, SameFits DEF Post!Process, Post!Reject, ev
<1>6. ev \in Post!InputEvents /\ ev.seq = Task /\ m \in 1..n /\ ev.typ = H[m].typ /\ ev.g = H[m].g
  BY <1>1 DEF Turn
<1>7. ev.typ = "GoSysExit" => ev.g \in Goroutine
  <2> SUFFICES ASSUME ev.typ = "GoSysExit" PROVE ev.g \in Goroutine
    OBVIOUS
  <2>1. PICK x \in 1..n : x = m
    BY <1>6
  <2>2. PICK g : g = H[x].g
    OBVIOUS
  <2>3. H[x].typ = "GoSysExit" /\ ev.g = g /\ ~LocalExits
    BY <1>6, <2>1, <2>2 DEF Ordinary
  <2> QED BY <1>2, <2>2, <2>3, ExitFollows
<1>8. PICK e : e = Entry(t[k])
  OBVIOUS
<1>9. e = ev
  BY <1>8 DEF ev
<1> QED BY <1>2, <1>3, <1>4, <1>5, <1>6, <1>7, <1>8, <1>9, LinkedNext

\* postProcessTrace has not begun, or has linked what it has seen.
Called == /\ next = 0 => trace = <<>>
          /\ next # 0 => Linked(input, next)

LEMMA CalledKept ==
    ASSUME Ordinary, PipeInv, Faithful, Called, [PipeNext]_pvars
    PROVE  Called'
<1>1. next \in Nat /\ n \in Nat /\ (pc # "ordered" => next = 0)
  BY DEF PipeInv, Given, StreamInv, IInv, OrderTypeOK, TracerTypeOK
<1>2. CASE Parse
  <2>1. next' = 0 /\ trace' = trace /\ next = 0
    BY <1>1, <1>2 DEF Parse, pipe, post, Trace, Reorder, Begin, Scan, Merge, CheckOrder, FixSysExits
  <2> QED BY <2>1 DEF Called
<1>3. CASE Prepare
  <2>1. next = 0 /\ next' = 1 /\ trace' = trace
    BY <1>3 DEF Prepare, post
  <2>2. trace' = <<>>
    BY <2>1 DEF Called
  <2>3. Len(trace') = 0 /\ DOMAIN trace' = {} /\ 1..0 = {}
    BY <2>2
  <2>4. PICK t0 : t0 = input'
    OBVIOUS
  <2>5. Linked(t0, 1)'
    BY <2>3 DEF Linked
  <2> QED BY <2>1, <2>4, <2>5 DEF Called
<1>4. CASE Check
  <2>1. /\ next \in DOMAIN input /\ Post!Process(Entry(input[next])) /\ next' = next + 1
        /\ input' = input
    BY <1>4 DEF Check
  <2>2. next # 0
    <3>1. DOMAIN <<>> = {}
      OBVIOUS
    <3> QED BY <2>1, <3>1 DEF PipeInv, Given
  <2>3. PICK H, V : Met(H, V, events, input, next)
    BY <2>2 DEF Faithful
  <2>4. PICK s, t : s = events /\ t = input
    OBVIOUS
  <2>5. next \in 1..Len(t)
    BY <2>1, <2>3, <2>4 DEF Met, LeftOf
  <2>6. PICK k \in 1..Len(t) : k = next
    BY <2>5
  <2>7. Linked(t, k)
    BY <2>2, <2>4, <2>6 DEF Called
  <2>8. Linked(t, k + 1)'
    BY <1>1, <2>1, <2>3, <2>4, <2>6, <2>7, LinkedAccepted
  <2> QED BY <1>1, <2>1, <2>4, <2>6, <2>8 DEF Called
<1>5. CASE UNCHANGED pvars
  <2>1. UNCHANGED <<next, input, trace, pgs>>
    BY <1>5 DEF pvars, pipe, post
  <2>2. PICK t, k : t = input /\ k = next
    OBVIOUS
  <2>3. Linked(t, k) => Linked(t, k)'
    BY <2>1 DEF Linked
  <2> QED BY <2>1, <2>2, <2>3 DEF Called
<1> QED BY <1>2, <1>3, <1>4, <1>5 DEF PipeNext, Return

LEMMA CalledLinks ==
    ASSUME PipeInv, Called
    PROVE  SysCallLinks
<1> SUFFICES ASSUME NEW i \in DOMAIN trace, trace[i].typ = "GoSysCall"
             PROVE  trace[i].link = IF \E j \in DOMAIN trace : Ends(i, j)
                                    THEN CHOOSE j \in DOMAIN trace : Ends(i, j) ELSE Post!Nil
  BY DEF SysCallLinks
<1>1. next # 0
  <2>1. DOMAIN <<>> = {}
    OBVIOUS
  <2> QED BY <2>1 DEF Called
<1>2. PICK t, k : t = input /\ k = next
  OBVIOUS
<1>3. Linked(t, k)
  BY <1>1, <1>2 DEF Called
<1>4. k \in Nat
  BY <1>2 DEF PipeInv, Given
<1>5. DOMAIN trace = 1..(k - 1) /\ i \in 1..(k - 1)
      /\ \A x \in 1..(k - 1) : trace[x].typ = t[x].typ /\ trace[x].g = t[x].g
  BY <1>3 DEF Linked
<1>6. trace[i].link \in 0..(k - 1) /\ \A j \in 1..(k - 1) : trace[i].link = j <=> Answers(t, i, j)
  BY <1>3, <1>5 DEF Linked
<1>7. ASSUME NEW j \in 1..(k - 1)
      PROVE  Ends(i, j) <=> Answers(t, i, j)
  <2>1. trace[i].g = t[i].g /\ trace[j].g = t[j].g /\ trace[i].typ = t[i].typ /\ trace[j].typ = t[j].typ
    BY <1>5
  <2>2. {trace[x].typ : x \in {l \in (i + 1)..(j - 1) : trace[l].g = trace[i].g}}
        = {t[x].typ : x \in {l \in (i + 1)..(j - 1) : t[l].g = t[i].g}}
    <3>1. \A l \in (i + 1)..(j - 1) : trace[l].typ = t[l].typ /\ trace[l].g = t[l].g
      BY <1>4, <1>5
    <3> QED BY <2>1, <3>1
  <2> QED BY <2>1, <2>2 DEF Ends, Answers
<1>8. \A j \in DOMAIN trace : Ends(i, j) <=> trace[i].link = j
  BY <1>5, <1>6, <1>7
<1>9. CASE \E j \in DOMAIN trace : Ends(i, j)
  <2>1. trace[i].link \in DOMAIN trace /\ Ends(i, trace[i].link)
    BY <1>8, <1>9
  <2>2. (CHOOSE j \in DOMAIN trace : Ends(i, j)) = trace[i].link
    BY <1>8, <2>1
  <2> QED BY <1>9, <2>2
<1>10. CASE ~\E j \in DOMAIN trace : Ends(i, j)
  <2>1. trace[i].link \notin 1..(k - 1)
    BY <1>5, <1>8, <1>10
  <2>2. trace[i].link = 0 /\ Post!Nil = 0
    BY <1>4, <1>6, <2>1 DEF Post!Nil
  <2> QED BY <1>10, <2>2
<1> QED BY <1>9, <1>10

\* In the trace of an ordinary program every system call the goroutine blocked
\* in is linked to its own exit, and to nothing else, and one that it did not
\* block in, or whose exit was not traced, to none (parser.go:55, 786-790):
\* exits are written late, moved to where they happened, and read after events
\* of other goroutines, and wakeups are removed around them.
THEOREM CallsLinked == Ordinary => (PipeSpec => []SysCallLinks)
<1> SUFFICES ASSUME Ordinary PROVE PipeSpec => []SysCallLinks
  OBVIOUS
<1>1. PipeInit => Faithful /\ Called
  BY DEF PipeInit, Faithful, Called, Post!Init
<1>2. PipeInv /\ Faithful /\ Called /\ [PipeNext]_pvars => Faithful' /\ Called'
  BY FaithfulKept, CalledKept
<1>3. PipeInv /\ Called => SysCallLinks
  BY CalledLinks
<1> QED BY <1>1, <1>2, <1>3, PipeInductive, PTL DEF PipeSpec
=============================================================================
