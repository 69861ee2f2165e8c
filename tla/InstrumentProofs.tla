--------------------------- MODULE InstrumentProofs ---------------------------
(***************************************************************************)
(* Instrumentation only adds, and stops only where it must: for packages   *)
(* of any size that declare and call anything, in whatever way they are    *)
(* instrumented.                                                           *)
(*                                                                         *)
(* Each rewriting is a walk over the tree that leaves it as it is, but for *)
(* what it puts in; a walk is a recursive function of the number of nodes  *)
(* visited, and what holds after each visit holds after the last.          *)
(***************************************************************************)
EXTENDS Instrumentation, FiniteSetTheorems, WellFoundedInduction, TLAPS

SyntaxKinds == {"File", "Func", "Block", "Ident", "Expr", "Defer", "Send", "Recv", "Go", "Range",
                "If", "Select", "Default", "Clause", "Switch", "Case", "Label", "Var", "Sched", "Start"}
Ops == Calls \cup FuncNames \cup {"", "goat", "yields", "closure", "Done"}

Nodes == [kind : SyntaxKinds, op : Ops, depth : Nat, begins : BOOLEAN, list : BOOLEAN, id : Nat]

\* Every function has a body.
Tree(t) == t \in Seq(Nodes) /\ Len(t) > 0 /\ t[Len(t)].kind # "Func"

\* The package as written: nodes are numbered, and all but the files are inside one.
Source(t) ==
    /\ Tree(t) /\ t[1].kind = "File"
    /\ \A i \in DOMAIN t : t[i].id = i /\ (t[i].kind = "File" <=> t[i].depth = 0)

InstrumentInv ==
    /\ pc \in {"source", "identified", "rewritten", "returned", "panic"}
    /\ Source(src)
    /\ pc # "source" => mode \in AllModes
    /\ OnlyAdds
-----------------------------------------------------------------------------
LEMMA HasLeast ==
    ASSUME NEW S \in SUBSET Nat, S # {}
    PROVE  \E k \in S : \A j \in S : k <= j
<1>1. PICK k \in S : \A j \in S : ~(<<j, k>> \in OpToRel(<, Nat))
  BY NatLessThanWellFounded, WFMin
<1>2. \A j \in S : ~(j < k)
  BY <1>1 DEF OpToRel
<1> QED BY <1>2

\* What holds of 0, and of every number if of the one before, holds of all up to n.
LEMMA UpTo ==
    ASSUME NEW n \in Nat, NEW S, 0 \in S, \A k \in 1..n : k - 1 \in S => k \in S
    PROVE  \A k \in 0..n : k \in S
<1> DEFINE R == {k \in 0..n : k \notin S}
<1> SUFFICES ASSUME R # {} PROVE FALSE
  OBVIOUS
<1>1. PICK k \in R : \A j \in R : k <= j
  <2>1. R \in SUBSET Nat
    OBVIOUS
  <2> HIDE DEF R
  <2> QED BY <2>1, HasLeast
<1>2. k \in 1..n /\ k - 1 \notin R /\ k - 1 \in 0..n
  BY <1>1
<1> QED BY <1>1, <1>2

\* A walk of n visits that begins with a; F is what a visit makes of what was
\* there before it.
Walk(W, n, S, a, F) == W \in [0..n -> S] /\ W[0] = a /\ \A k \in 1..n : W[k] = F[<<W[k - 1], k>>]

\* A walk exists, whatever a visit makes of what was there before it.
LEMMA WalkExists ==
    ASSUME NEW n \in Nat, NEW S, NEW a \in S, NEW F \in [S \X (1..n) -> S]
    PROVE  \E W : Walk(W, n, S, a, F)
<1> DEFINE Walks(m) == {W \in [0..m -> S] : W = [k \in 0..m |-> IF k = 0 THEN a ELSE F[<<W[k - 1], k>>]]}
           R == {m \in 0..n : Walks(m) # {}}
<1>1. 0 \in R
  <2> DEFINE W == [k \in 0..0 |-> a]
  <2>1. W \in [0..0 -> S]
    OBVIOUS
  <2>2. W = [k \in 0..0 |-> IF k = 0 THEN a ELSE F[<<W[k - 1], k>>]]
    OBVIOUS
  <2> HIDE DEF W
  <2> QED BY <2>1, <2>2
<1>2. ASSUME NEW m \in 1..n, m - 1 \in R PROVE m \in R
  <2>1. PICK V \in [0..(m - 1) -> S] :
            V = [k \in 0..(m - 1) |-> IF k = 0 THEN a ELSE F[<<V[k - 1], k>>]]
    BY <1>2
  <2> DEFINE W == [k \in 0..m |-> IF k = m THEN F[<<V[m - 1], m>>] ELSE V[k]]
  <2>2. F[<<V[m - 1], m>>] \in S
    BY <2>1
  <2>3. W \in [0..m -> S]
    BY <2>1, <2>2
  <2>4. ASSUME NEW k \in 0..m PROVE W[k] = IF k = 0 THEN a ELSE F[<<W[k - 1], k>>]
    <3>1. k # 0 => W[k - 1] = V[k - 1]
      OBVIOUS
    <3>2. CASE k = m
      <4>1. W[k] = F[<<V[m - 1], m>>] /\ k # 0
        BY <3>2
      <4> HIDE DEF W
      <4> QED BY <3>1, <3>2, <4>1
    <3>3. CASE k # m
      <4>1. k \in 0..(m - 1)
        BY <3>3
      <4>2. V[k] = IF k = 0 THEN a ELSE F[<<V[k - 1], k>>]
        BY <2>1, <4>1
      <4> QED BY <3>1, <3>3, <4>2
    <3> QED BY <3>2, <3>3
  <2>5. W = [k \in 0..m |-> IF k = 0 THEN a ELSE F[<<W[k - 1], k>>]]
    <3> HIDE DEF W
    <3> QED BY <2>3, <2>4
  <2>6. W \in Walks(m)
    <3> HIDE DEF W
    <3> QED BY <2>3, <2>5
  <2> HIDE DEF Walks, W
  <2> QED BY <2>6
<1>3. n \in R
  <2> HIDE DEF R
  <2> QED BY <1>1, <1>2, UpTo
<1>4. PICK W \in Walks(n) : TRUE
  <2> HIDE DEF Walks
  <2> QED BY <1>3
<1>5. W \in [0..n -> S] /\ \A k \in 0..n : W[k] = IF k = 0 THEN a ELSE F[<<W[k - 1], k>>]
  BY <1>4
<1>6. 0 \in 0..n /\ \A k \in 1..n : k \in 0..n /\ k # 0
  OBVIOUS
<1> HIDE DEF Walks
<1> QED BY <1>5, <1>6 DEF Walk
-----------------------------------------------------------------------------
(***************************************************************************)
(* What an edit leaves as it was                                           *)
(***************************************************************************)
LEMMA PlainKeeps ==
    ASSUME NEW a \in Nodes, NEW b \in Nodes, Plain(a) = Plain(b)
    PROVE  a.id = b.id /\ a.kind = b.kind
<1>1. ASSUME NEW x \in Nodes PROVE Plain(x).id = x.id /\ Plain(x).kind = x.kind
  BY DEF Plain, Nodes
<1> QED BY <1>1

\* Nodes may change in ways Plain does not tell.
LEMMA SameExtends ==
    ASSUME NEW s \in Seq(Nodes), \A i \in DOMAIN s : s[i].id = i,
           NEW t \in Seq(Nodes), Len(t) = Len(s), \A i \in DOMAIN s : Plain(t[i]) = Plain(s[i])
    PROVE  Extends(t, s)
<1>1. DOMAIN t = DOMAIN s /\ DOMAIN s = 1..Len(s)
  OBVIOUS
<1>2. \A i \in DOMAIN s : t[i] \in Nodes /\ s[i] \in Nodes
  BY <1>1
<1>3. \A i \in DOMAIN s : t[i].id = i
  BY <1>2, PlainKeeps
<1> QED BY <1>1, <1>3 DEF Extends

LEMMA ExtendsSame ==
    ASSUME NEW s \in Seq(Nodes), NEW r \in Seq(Nodes), Len(r) = Len(s),
           \A i \in DOMAIN s : Plain(r[i]) = Plain(s[i]),
           NEW t \in Seq(Nodes), Extends(t, r)
    PROVE  Extends(t, s)
<1>1. DOMAIN r = DOMAIN s
  OBVIOUS
<1>2. \A i \in DOMAIN s : r[i] \in Nodes /\ s[i] \in Nodes
  BY <1>1
<1>3. \A i \in DOMAIN s : r[i].id = s[i].id
  BY <1>2, PlainKeeps
<1> QED BY <1>1, <1>3 DEF Extends

LEMMA AppendExtends ==
    ASSUME NEW s \in Seq(Nodes), \A i \in DOMAIN s : s[i].id = i,
           NEW t \in Seq(Nodes), Extends(t, s),
           NEW a \in Nodes, a.id = Len(s) + 1, NEW b \in Nodes, Plain(b) = Plain(a)
    PROVE  Extends(Append(t, b), Append(s, a))
<1> DEFINE S == Append(s, a)
           T == Append(t, b)
<1>1. /\ DOMAIN S = 1..(Len(s) + 1) /\ S[Len(s) + 1] = a /\ \A i \in DOMAIN s : S[i] = s[i]
      /\ DOMAIN T = 1..(Len(t) + 1) /\ T[Len(t) + 1] = b /\ \A i \in DOMAIN t : T[i] = t[i]
      /\ DOMAIN s = 1..Len(s) /\ DOMAIN t = 1..Len(t) /\ Len(s) \in Nat /\ Len(t) \in Nat
  OBVIOUS
<1>2. b.id = Len(s) + 1
  BY PlainKeeps
<1>3. ASSUME NEW k \in DOMAIN t PROVE t[k].id \in 0..Len(s)
  <2>1. CASE Injected(t[k])
    BY <1>1, <2>1 DEF Injected
  <2>2. CASE ~Injected(t[k])
    <3>1. PICK i \in DOMAIN s : Plain(t[k]) = Plain(s[i])
      BY <2>2 DEF Extends
    <3>2. t[k] \in Nodes /\ s[i] \in Nodes
      OBVIOUS
    <3> QED BY <1>1, <3>1, <3>2, PlainKeeps
  <2> QED BY <2>1, <2>2
<1>4. ASSUME NEW i \in DOMAIN S PROVE \E k \in DOMAIN T : T[k].id = S[i].id
  <2>1. CASE i \in DOMAIN s
    <3>1. PICK k \in DOMAIN t : t[k].id = s[i].id
      BY <2>1 DEF Extends
    <3> QED BY <1>1, <2>1, <3>1
  <2>2. CASE i = Len(s) + 1
    BY <1>1, <1>2, <2>2
  <2> QED BY <1>1, <2>1, <2>2
<1>5. ASSUME NEW k \in DOMAIN T, ~Injected(T[k])
      PROVE  /\ \E i \in DOMAIN S : Plain(T[k]) = Plain(S[i])
             /\ \A j \in DOMAIN T : j < k => T[j].id < T[k].id
  <2>1. CASE k \in DOMAIN t
    <3>1. PICK i \in DOMAIN s : Plain(t[k]) = Plain(s[i])
      BY <1>1, <1>5, <2>1 DEF Extends
    <3>2. \A j \in DOMAIN t : j < k => t[j].id < t[k].id
      BY <1>1, <1>5, <2>1 DEF Extends
    <3>3. \A j \in DOMAIN T : j < k => j \in DOMAIN t
      BY <1>1, <2>1
    <3> HIDE DEF S, T
    <3> QED BY <1>1, <2>1, <3>1, <3>2, <3>3
  <2>2. CASE k = Len(t) + 1
    <3>1. \A j \in DOMAIN T : j < k => j \in DOMAIN t
      BY <1>1, <2>2
    <3>2. \A j \in DOMAIN T : j < k => T[j].id < T[k].id
      <4> HIDE DEF S, T
      <4> QED BY <1>1, <1>2, <1>3, <2>2, <3>1
    <3>3. Len(s) + 1 \in DOMAIN S /\ Plain(T[k]) = Plain(S[Len(s) + 1])
      BY <1>1, <2>2
    <3> QED BY <3>2, <3>3
  <2> QED BY <1>1, <2>1, <2>2
<1> HIDE DEF S, T
<1>6. Extends(T, S)
  BY <1>4, <1>5 DEF Extends
<1> QED BY <1>6 DEF S, T

\* What is put in.
Fresh(nodes) ==
    nodes \in Seq(Nodes) /\ \A k \in DOMAIN nodes : nodes[k].id = 0 /\ nodes[k].kind # "Func"

LEMMA Joined ==
    ASSUME NEW a \in Seq(Nodes), NEW b \in Seq(Nodes)
    PROVE  /\ a \o b \in Seq(Nodes) /\ Len(a \o b) = Len(a) + Len(b)
           /\ \A k \in 1..Len(a) : (a \o b)[k] = a[k]
           /\ \A k \in 1..Len(b) : (a \o b)[Len(a) + k] = b[k]
<1>1. a \o b \in Seq(Nodes) /\ Len(a \o b) = Len(a) + Len(b)
  OBVIOUS
<1>2. ASSUME NEW k \in 1..Len(a) PROVE (a \o b)[k] = a[k]
  OBVIOUS
<1>3. ASSUME NEW k \in 1..Len(b) PROVE (a \o b)[Len(a) + k] = b[k]
  OBVIOUS
<1> QED BY <1>1, <1>2, <1>3

LEMMA Inserted ==
    ASSUME NEW t \in Seq(Nodes), NEW i \in 0..Len(t), NEW nodes \in Seq(Nodes)
    PROVE  LET T == Insert(t, i, nodes)
               m == Len(nodes)
           IN  /\ T \in Seq(Nodes) /\ Len(T) = Len(t) + m
               /\ \A k \in 1..i : T[k] = t[k]
               /\ \A k \in 1..m : T[i + k] = nodes[k]
               /\ \A k \in (i + 1)..Len(t) : T[k + m] = t[k]
<1> DEFINE A == SubSeq(t, 1, i)
           B == SubSeq(t, i + 1, Len(t))
<1>1. A \in Seq(Nodes) /\ Len(A) = i /\ \A k \in 1..i : A[k] = t[k]
  OBVIOUS
<1>2. B \in Seq(Nodes) /\ Len(B) = Len(t) - i /\ \A k \in 1..(Len(t) - i) : B[k] = t[i + k]
  OBVIOUS
<1> DEFINE C == A \o nodes
<1> HIDE DEF A, B
<1>3. /\ C \in Seq(Nodes) /\ Len(C) = i + Len(nodes)
      /\ \A k \in 1..i : C[k] = A[k]
      /\ \A k \in 1..Len(nodes) : C[i + k] = nodes[k]
  BY <1>1, Joined
<1> HIDE DEF C
<1> DEFINE T == C \o B
<1>4. /\ T \in Seq(Nodes) /\ Len(T) = Len(t) + Len(nodes)
      /\ \A k \in 1..(i + Len(nodes)) : T[k] = C[k]
      /\ \A k \in 1..(Len(t) - i) : T[i + Len(nodes) + k] = B[k]
  <2>1. /\ T \in Seq(Nodes) /\ Len(T) = Len(C) + Len(B)
        /\ \A k \in 1..Len(C) : T[k] = C[k]
        /\ \A k \in 1..Len(B) : T[Len(C) + k] = B[k]
    BY <1>2, <1>3, Joined
  <2>2. Len(nodes) \in Nat /\ Len(t) \in Nat
    OBVIOUS
  <2> HIDE DEF T
  <2> QED BY <1>2, <1>3, <2>1, <2>2
<1>5. Insert(t, i, nodes) = T
  BY DEF Insert, A, B, C
<1> HIDE DEF T
<1>6. ASSUME NEW k \in (i + 1)..Len(t) PROVE T[k + Len(nodes)] = t[k]
  <2>1. k - i \in 1..(Len(t) - i) /\ k + Len(nodes) = i + Len(nodes) + (k - i) /\ i + (k - i) = k
    OBVIOUS
  <2>2. T[i + Len(nodes) + (k - i)] = B[k - i] /\ B[k - i] = t[i + (k - i)]
    BY <1>2, <1>4, <2>1
  <2> QED BY <2>1, <2>2
<1>7. \A k \in 1..i : T[k] = t[k]
  BY <1>1, <1>3, <1>4
<1>8. \A k \in 1..Len(nodes) : T[i + k] = nodes[k]
  BY <1>3, <1>4
<1> QED BY <1>4, <1>5, <1>6, <1>7, <1>8

LEMMA InsertExtends ==
    ASSUME NEW s \in Seq(Nodes), NEW t, Tree(t), Extends(t, s), NEW i \in 1..Len(t),
           NEW nodes, Fresh(nodes)
    PROVE  /\ Tree(Insert(t, i, nodes)) /\ Extends(Insert(t, i, nodes), s)
           /\ Len(Insert(t, i, nodes)) = Len(t) + Len(nodes)
<1> DEFINE T == Insert(t, i, nodes)
           m == Len(nodes)
           At(k) == IF k <= i THEN k ELSE k + m
<1>1. t \in Seq(Nodes) /\ nodes \in Seq(Nodes) /\ m \in Nat /\ Len(t) \in Nat
  BY DEF Tree, Fresh
<1>2. /\ T \in Seq(Nodes) /\ Len(T) = Len(t) + m
      /\ \A k \in 1..i : T[k] = t[k]
      /\ \A k \in 1..m : T[i + k] = nodes[k]
      /\ \A k \in (i + 1)..Len(t) : T[k + m] = t[k]
  <2>1. i \in 0..Len(t)
    BY <1>1
  <2> QED BY <1>1, <2>1, Inserted, Zenon
<1> HIDE DEF T, m
<1>3. ASSUME NEW k \in DOMAIN T
      PROVE  \/ Injected(T[k]) /\ T[k].kind # "Func"
             \/ \E l \in DOMAIN t : k = At(l) /\ T[k] = t[l]
  <2>0. k \in 1..(Len(t) + m)
    BY <1>2
  <2>1. CASE k <= i
    BY <1>2, <2>0, <2>1, k \in DOMAIN t
  <2>2. CASE k > i /\ k <= i + m
    <3>1. k - i \in 1..m /\ k = i + (k - i)
      BY <1>1, <2>0, <2>2
    <3>2. T[k] = nodes[k - i] /\ k - i \in DOMAIN nodes
      BY <1>1, <1>2, <3>1 DEF m
    <3> QED BY <3>2 DEF Fresh, Injected
  <2>3. CASE k > i + m
    <3>1. k - m \in (i + 1)..Len(t) /\ k = (k - m) + m
      BY <1>1, <2>0, <2>3
    <3>2. T[(k - m) + m] = t[k - m]
      BY <1>2, <3>1
    <3>3. k - m \in DOMAIN t /\ ~(k - m <= i)
      BY <1>1, <3>1
    <3> QED BY <3>1, <3>2, <3>3
  <2> QED BY <1>1, <2>0, <2>1, <2>2, <2>3
<1>4. ASSUME NEW l \in DOMAIN t PROVE At(l) \in DOMAIN T /\ T[At(l)] = t[l]
  <2>1. l \in 1..Len(t) /\ DOMAIN T = 1..(Len(t) + m)
    BY <1>1, <1>2
  <2>2. CASE l <= i
    BY <1>1, <1>2, <2>1, <2>2
  <2>3. CASE ~(l <= i)
    <3>1. l \in (i + 1)..Len(t) /\ l + m \in 1..(Len(t) + m)
      BY <1>1, <2>1, <2>3
    <3> QED BY <1>2, <2>1, <2>3, <3>1
  <2> QED BY <2>2, <2>3
<1>5. ASSUME NEW l \in DOMAIN t, NEW k \in DOMAIN t, At(l) < At(k) PROVE l < k
  BY <1>1, <1>5
<1>6. \A j \in DOMAIN s : \E k \in DOMAIN T : T[k].id = s[j].id
  <2> TAKE j \in DOMAIN s
  <2>1. PICK l \in DOMAIN t : t[l].id = s[j].id
    BY DEF Extends
  <2> HIDE DEF At
  <2> QED BY <1>4, <2>1
<1>7. ASSUME NEW k \in DOMAIN T, ~Injected(T[k])
      PROVE  /\ \E j \in DOMAIN s : Plain(T[k]) = Plain(s[j])
             /\ \A j \in DOMAIN T : j < k => T[j].id < T[k].id
  <2> HIDE DEF At
  <2>1. PICK l \in DOMAIN t : k = At(l) /\ T[k] = t[l]
    BY <1>3, <1>7
  <2>2. \E j \in DOMAIN s : Plain(t[l]) = Plain(s[j])
    BY <1>7, <2>1 DEF Extends
  <2>3. \A j \in DOMAIN t : j < l => t[j].id < t[l].id
    BY <1>7, <2>1 DEF Extends
  <2>4. ASSUME NEW j \in DOMAIN T, j < k PROVE T[j].id < T[k].id
    <3>1. CASE Injected(T[j])
      <4>1. T[k] \in Nodes
        BY <1>2
      <4>2. T[k].id \in Nat \ {0}
        BY <1>7, <4>1 DEF Injected, Nodes
      <4> QED BY <3>1, <4>2 DEF Injected
    <3>2. CASE ~Injected(T[j])
      <4>1. PICK h \in DOMAIN t : j = At(h) /\ T[j] = t[h]
        BY <1>3, <3>2
      <4> QED BY <1>5, <2>1, <2>3, <2>4, <4>1
    <3> QED BY <3>1, <3>2
  <2> QED BY <2>1, <2>2, <2>4
<1>8. Extends(T, s)
  BY <1>6, <1>7 DEF Extends
<1>9. Tree(T)
  <2>1. Len(T) \in DOMAIN T /\ Len(T) > 0
    BY <1>1, <1>2 DEF Tree
  <2>2. ASSUME NEW l \in DOMAIN t, Len(T) = At(l) PROVE l = Len(t)
    BY <1>1, <1>2, <2>2
  <2>3. T[Len(T)].kind # "Func"
    <3> HIDE DEF At
    <3> QED BY <1>3, <2>1, <2>2 DEF Tree
  <2> QED BY <1>2, <2>1, <2>3 DEF Tree
<1> QED BY <1>2, <1>8, <1>9 DEF T, m
-----------------------------------------------------------------------------
(***************************************************************************)
(* What changes nodes in place                                             *)
(***************************************************************************)
LEMMA EndFound ==
    ASSUME NEW t \in Seq(Nodes), NEW i \in 1..Len(t)
    PROVE  /\ End(t, i) \in i..Len(t)
           /\ \A k \in (i + 1)..End(t, i) : t[k].depth > t[i].depth
           /\ End(t, i) = Len(t) \/ t[End(t, i) + 1].depth <= t[i].depth
<1>1. /\ Len(t) \in Nat /\ i \in Nat
      /\ \A k \in 1..Len(t) : t[k].depth \in Nat
  <2>1. \A k \in 1..Len(t) : t[k] \in Nodes
    OBVIOUS
  <2> QED BY <2>1 DEF Nodes
<1> DEFINE S == {j \in (i + 1)..Len(t) : t[j].depth <= t[i].depth}
<1>2. End(t, i) = IF S = {} THEN Len(t) ELSE Min(S) - 1
  BY DEF End
<1>3. CASE S = {}
  BY <1>1, <1>2, <1>3
<1>4. CASE S # {}
  <2>1. PICK j \in S : \A k \in S : j <= k
    <3>1. S \in SUBSET Nat
      BY <1>1
    <3> HIDE DEF S
    <3> QED BY <1>4, <3>1, HasLeast
  <2>2. Min(S) \in S /\ \A k \in S : Min(S) <= k
    <3> HIDE DEF S
    <3> QED BY <2>1 DEF Min
  <2> DEFINE m == Min(S)
  <2>3. m \in (i + 1)..Len(t) /\ t[m].depth <= t[i].depth
    BY <2>2
  <2>4. \A k \in (i + 1)..(m - 1) : ~(t[k].depth <= t[i].depth)
    <3>1. \A k \in (i + 1)..(m - 1) : k \in (i + 1)..Len(t) /\ ~(m <= k)
      BY <1>1, <2>3
    <3>2. \A k \in (i + 1)..(m - 1) : k \notin S
      BY <2>2, <3>1
    <3> QED BY <3>1, <3>2
  <2>5. End(t, i) = m - 1
    BY <1>2, <1>4
  <2> HIDE DEF m, S
  <2> QED BY <1>1, <2>3, <2>4, <2>5
<1> QED BY <1>3, <1>4

\* The nodes of a file are those up to the next one.
LEMMA FileFound ==
    ASSUME NEW t, Source(t), NEW i \in DOMAIN t
    PROVE  FileOf(t, i) \in DOMAIN t /\ t[FileOf(t, i)].kind = "File"
<1>1. t \in Seq(Nodes) /\ Len(t) \in Nat /\ DOMAIN t = 1..Len(t) /\ i \in 1..Len(t)
  BY DEF Source, Tree
<1> DEFINE S == {d \in 0..(i - 1) : t[i - d].kind = "File"}
<1>2. PICK d \in S : \A e \in S : d <= e
  <2>1. i - 1 \in 0..(i - 1) /\ i - (i - 1) = 1
    BY <1>1
  <2>2. i - 1 \in S /\ S \in SUBSET Nat
    BY <2>1 DEF Source
  <2> HIDE DEF S
  <2> QED BY <2>2, HasLeast
<1> DEFINE h == i - d
<1>3. h \in 1..i /\ t[h].kind = "File" /\ h \in 1..Len(t)
  BY <1>1, <1>2
<1>4. ASSUME NEW k \in (h + 1)..i PROVE t[k].depth \in Nat /\ t[k].depth # 0
  <2>1. i - k \in 0..(i - 1) /\ ~(d <= i - k) /\ i - (i - k) = k /\ k \in DOMAIN t
    BY <1>1, <1>2
  <2>2. t[k].kind # "File"
    BY <1>2, <2>1
  <2>3. t[k] \in Nodes
    BY <1>1, <2>1
  <2> QED BY <2>1, <2>2, <2>3 DEF Source, Nodes
<1>5. t[h].depth = 0
  BY <1>1, <1>3 DEF Source
<1>6. i <= End(t, h)
  <2>1. /\ End(t, h) \in h..Len(t)
        /\ End(t, h) = Len(t) \/ t[End(t, h) + 1].depth <= t[h].depth
    BY <1>1, <1>3, EndFound
  <2>2. ASSUME End(t, h) < i PROVE FALSE
    <3>1. End(t, h) + 1 \in (h + 1)..i /\ End(t, h) # Len(t)
      BY <1>1, <1>3, <2>1, <2>2
    <3> QED BY <1>4, <1>5, <2>1, <3>1
  <2> QED BY <1>1, <1>3, <2>1, <2>2
<1>7. i \in {h} \cup Below(t, h)
  <2>1. End(t, h) \in Int
    BY <1>1, <1>3, EndFound
  <2> QED BY <1>1, <1>3, <1>6, <2>1 DEF Below
<1> HIDE DEF h, S
<1>8. FileOf(t, i) = CHOOSE g \in 1..i : t[g].kind = "File" /\ i \in {g} \cup Below(t, g)
  BY DEF FileOf
<1>9. FileOf(t, i) \in 1..i /\ t[FileOf(t, i)].kind = "File"
  BY <1>3, <1>7, <1>8
<1> QED BY <1>1, <1>9

LEMMA ImportsSame ==
    ASSUME NEW t, Source(t), NEW files,
           \A f \in files : f \in DOMAIN t /\ t[f].kind = "File"
    PROVE  /\ Source(AddImport(t, files)) /\ Len(AddImport(t, files)) = Len(t)
           /\ \A i \in DOMAIN t : Plain(AddImport(t, files)[i]) = Plain(t[i])
<1>1. t \in Seq(Nodes) /\ Len(t) \in Nat /\ DOMAIN t = 1..Len(t) /\ Len(t) > 0
  BY DEF Source, Tree
<1> DEFINE T == AddImport(t, files)
<1>2. T = [i \in 1..Len(t) |-> IF i \in files THEN [t[i] EXCEPT !.op = "goat"] ELSE t[i]]
  BY <1>1 DEF AddImport
<1>3. ASSUME NEW i \in 1..Len(t)
      PROVE  /\ T[i] \in Nodes /\ T[i].kind = t[i].kind /\ T[i].depth = t[i].depth
             /\ T[i].id = t[i].id /\ Plain(T[i]) = Plain(t[i])
  <2>1. t[i] \in Nodes /\ T[i] = IF i \in files THEN [t[i] EXCEPT !.op = "goat"] ELSE t[i]
    BY <1>1, <1>2
  <2>2. CASE i \in files
    <3>1. "goat" \in Ops
      BY Zenon DEF Ops
    <3>2. T[i] = [t[i] EXCEPT !.op = "goat"] /\ t[i].kind = "File"
      BY <2>1, <2>2
    <3> HIDE DEF T
    <3> QED BY <2>1, <3>1, <3>2 DEF Nodes, Plain
  <2>3. CASE i \notin files
    BY <2>1, <2>3
  <2> QED BY <2>2, <2>3
<1>4. T \in Seq(Nodes) /\ Len(T) = Len(t) /\ DOMAIN T = 1..Len(t)
  <2>1. T \in [1..Len(t) -> Nodes]
    BY <1>2, <1>3
  <2> QED BY <1>1, <2>1
<1> HIDE DEF T
<1>5. Source(T)
  <2>1. 1 \in 1..Len(t) /\ Len(t) \in 1..Len(t)
    BY <1>1
  <2> QED BY <1>1, <1>3, <1>4, <2>1 DEF Source, Tree
<1> QED BY <1>1, <1>3, <1>4, <1>5 DEF T

LEMMA DefersSame ==
    ASSUME NEW t, Source(t)
    PROVE  /\ Tree(ConvertDefers(t)) /\ Len(ConvertDefers(t)) = Len(t)
           /\ \A i \in DOMAIN t : Plain(ConvertDefers(t)[i]) = Plain(t[i])
<1>1. t \in Seq(Nodes) /\ Len(t) \in Nat /\ DOMAIN t = 1..Len(t) /\ Len(t) > 0
  BY DEF Source, Tree
<1> DEFINE T == ConvertDefers(t)
<1>2. T = [i \in 1..Len(t) |-> IF t[i].kind = "Defer" THEN [t[i] EXCEPT !.op = "closure"] ELSE t[i]]
  BY <1>1 DEF ConvertDefers, astNode_convertDeferNoSched
<1>3. ASSUME NEW i \in 1..Len(t)
      PROVE  T[i] \in Nodes /\ T[i].kind = t[i].kind /\ Plain(T[i]) = Plain(t[i])
  <2>1. /\ t[i] \in Nodes
        /\ T[i] = IF t[i].kind = "Defer" THEN [t[i] EXCEPT !.op = "closure"] ELSE t[i]
    BY <1>1, <1>2
  <2>2. "closure" \in Ops
    BY Zenon DEF Ops
  <2> HIDE DEF T
  <2> QED BY <2>1, <2>2 DEF Nodes, Plain
<1>4. T \in Seq(Nodes) /\ Len(T) = Len(t) /\ DOMAIN T = 1..Len(t)
  <2>1. T \in [1..Len(t) -> Nodes]
    BY <1>2, <1>3
  <2> QED BY <1>1, <2>1
<1> HIDE DEF T
<1>5. Tree(T)
  <2>1. Len(t) \in 1..Len(t)
    BY <1>1
  <2> QED BY <1>1, <1>3, <1>4, <2>1 DEF Source, Tree
<1> QED BY <1>1, <1>3, <1>4, <1>5 DEF T
-----------------------------------------------------------------------------
(***************************************************************************)
(* The walks                                                               *)
(***************************************************************************)
SchedState(lines) == [out : Seq(Nodes), lines : SUBSET lines, panic : BOOLEAN]

\* What has been visited is there, and nothing else of the package.
Visited(acc, t, k) ==
    ~acc.panic => /\ Extends(acc.out, SubSeq(t, 1, k))
                  /\ k > 0 => /\ Len(acc.out) > 0
                              /\ acc.out[Len(acc.out)].kind = t[k].kind

LEMMA SchedTyped ==
    ASSUME NEW lines, NEW acc \in SchedState(lines), NEW t \in Seq(Nodes), NEW i \in 1..Len(t)
    PROVE  /\ SchedVisit(acc, t, i) \in SchedState(lines)
           /\ ~SchedVisit(acc, t, i).panic =>
                /\ ~acc.panic
                /\ \E before, n :
                     /\ SchedVisit(acc, t, i).out = Append(before, n)
                     /\ before = acc.out \/ \E x \in Nodes : x.id = 0 /\ before = Append(acc.out, x)
                     /\ n \in Nodes /\ n.kind = t[i].kind /\ Plain(n) = Plain(t[i])
<1> DEFINE new == SchedVisit(acc, t, i)
           n == t[i]
           l == Line(t, i)
           c == astNode_convertDefer(n)
           x == astNode_sched(n.depth)
<1>1. n \in Nodes
  OBVIOUS
<1>2. acc.out \in Seq(Nodes) /\ acc.lines \subseteq lines /\ acc.panic \in BOOLEAN
  BY DEF SchedState
<1>3. Converts(n) => c \in Nodes /\ c.kind = n.kind /\ Plain(c) = Plain(n)
  <2>1. "yields" \in Ops
    BY Zenon DEF Ops
  <2> QED BY <1>1, <2>1 DEF astNode_convertDefer, Converts, Nodes, Plain
<1>4. x \in Nodes /\ x.id = 0
  <2>1. "goat" \in Ops
    BY Zenon DEF Ops
  <2> QED BY <1>1, <2>1 DEF astNode_sched, Stmt, Node, Nodes, SyntaxKinds
<1> HIDE DEF c, x, l, n
<1>5. CASE l \notin acc.lines
  <2>1. new = [acc EXCEPT !.out = Append(@, n)]
    BY <1>5 DEF SchedVisit, n, l
  <2> HIDE DEF new
  <2>2. new = [out |-> Append(acc.out, n), lines |-> acc.lines, panic |-> acc.panic]
    BY <2>1 DEF SchedState
  <2>3. Append(acc.out, n) \in Seq(Nodes)
    BY <1>1, <1>2
  <2>4. new.out = Append(acc.out, n) /\ new.panic = acc.panic /\ new \in SchedState(lines)
    BY <1>2, <2>2, <2>3 DEF SchedState
  <2> QED BY <1>1, <2>4 DEF new, n
<1>6. CASE l \in acc.lines /\ Converts(n)
  <2>1. new = [acc EXCEPT !.out = Append(@, c), !.lines = @ \ {l}]
    BY <1>6 DEF SchedVisit, n, l, c
  <2> HIDE DEF new
  <2>2. new = [out |-> Append(acc.out, c), lines |-> acc.lines \ {l}, panic |-> acc.panic]
    BY <2>1 DEF SchedState
  <2>3. Append(acc.out, c) \in Seq(Nodes)
    BY <1>2, <1>3, <1>6
  <2>4. new.out = Append(acc.out, c) /\ new.panic = acc.panic /\ new \in SchedState(lines)
    BY <1>2, <2>2, <2>3 DEF SchedState
  <2> QED BY <1>3, <1>6, <2>4 DEF new, n
<1>7. CASE l \in acc.lines /\ ~Converts(n) /\ CanInsert(n)
  <2>1. new = [acc EXCEPT !.out = @ \o <<x, n>>, !.lines = @ \ {l}]
    BY <1>7 DEF SchedVisit, n, l, x
  <2>2. acc.out \o <<x, n>> = Append(Append(acc.out, x), n)
    BY <1>1, <1>2, <1>4
  <2> HIDE DEF new
  <2>3. Append(acc.out, x) \in Seq(Nodes)
    BY <1>2, <1>4
  <2>5. new = [out |-> Append(Append(acc.out, x), n), lines |-> acc.lines \ {l}, panic |-> acc.panic]
    <3> HIDE DEF x
    <3> QED BY <2>1, <2>2 DEF SchedState
  <2>6. Append(Append(acc.out, x), n) \in Seq(Nodes)
    BY <1>1, <2>3
  <2>4. /\ new.out = Append(Append(acc.out, x), n) /\ new.panic = acc.panic
        /\ new \in SchedState(lines)
    BY <1>2, <2>5, <2>6 DEF SchedState
  <2> QED BY <1>1, <1>4, <2>4 DEF new, n
<1>8. CASE l \in acc.lines /\ ~Converts(n) /\ ~CanInsert(n)
  <2>1. new = [acc EXCEPT !.panic = TRUE]
    BY <1>8 DEF SchedVisit, n, l
  <2> HIDE DEF new
  <2>2. new.panic /\ new \in SchedState(lines)
    BY <1>2, <2>1 DEF SchedState
  <2> QED BY <2>2 DEF new
<1> QED BY <1>5, <1>6, <1>7, <1>8

LEMMA FreshExtends ==
    ASSUME NEW s, NEW t \in Seq(Nodes), Extends(t, s), NEW x \in Nodes, x.id = 0
    PROVE  Extends(Append(t, x), s)
<1> DEFINE T == Append(t, x)
<1>1. /\ DOMAIN T = 1..(Len(t) + 1) /\ T[Len(t) + 1] = x /\ \A k \in DOMAIN t : T[k] = t[k]
      /\ DOMAIN t = 1..Len(t) /\ Len(t) \in Nat
  OBVIOUS
<1> HIDE DEF T
<1>2. \A k \in DOMAIN T : ~Injected(T[k]) => k \in DOMAIN t
  BY <1>1 DEF Injected
<1>3. \A k \in DOMAIN t, j \in DOMAIN T : j < k => j \in DOMAIN t
  BY <1>1
<1>4. DOMAIN t \subseteq DOMAIN T
  BY <1>1
<1>5. Extends(T, s)
  BY <1>1, <1>2, <1>3, <1>4 DEF Extends
<1> QED BY <1>5 DEF T

LEMMA SchedVisited ==
    ASSUME NEW lines, NEW acc \in SchedState(lines), NEW t, Source(t), NEW i \in 1..Len(t),
           Visited(acc, t, i - 1)
    PROVE  Visited(SchedVisit(acc, t, i), t, i)
<1> DEFINE new == SchedVisit(acc, t, i)
<1> SUFFICES ASSUME ~new.panic
             PROVE  /\ Extends(new.out, SubSeq(t, 1, i))
                    /\ Len(new.out) > 0 /\ new.out[Len(new.out)].kind = t[i].kind
  BY Zenon DEF Visited
<1>1. t \in Seq(Nodes) /\ Len(t) \in Nat /\ t[i] \in Nodes /\ t[i].id = i
  BY DEF Source, Tree
<1>2. PICK before, n :
        /\ new.out = Append(before, n)
        /\ before = acc.out \/ \E x \in Nodes : x.id = 0 /\ before = Append(acc.out, x)
        /\ n \in Nodes /\ n.kind = t[i].kind /\ Plain(n) = Plain(t[i])
  BY <1>1, SchedTyped
<1>3. acc.out \in Seq(Nodes) /\ ~acc.panic
  BY <1>1, SchedTyped DEF SchedState
<1> HIDE DEF new
<1> DEFINE s == SubSeq(t, 1, i - 1)
<1>4. /\ s \in Seq(Nodes) /\ Len(s) = i - 1 /\ SubSeq(t, 1, i) = Append(s, t[i])
      /\ \A k \in DOMAIN s : s[k].id = k
  <2>1. /\ s \in Seq(Nodes) /\ Len(s) = i - 1 /\ \A k \in 1..(i - 1) : s[k] = t[k]
        /\ DOMAIN s = 1..(i - 1)
    BY <1>1
  <2>2. /\ SubSeq(t, 1, i) \in Seq(Nodes) /\ Len(SubSeq(t, 1, i)) = i
        /\ \A k \in 1..i : SubSeq(t, 1, i)[k] = t[k]
    BY <1>1
  <2>3. \A k \in 1..(i - 1) : t[k].id = k
    BY <1>1 DEF Source
  <2> HIDE DEF s
  <2>4. Append(s, t[i]) \in Seq(Nodes) /\ Len(Append(s, t[i])) = i
    BY <1>1, <2>1
  <2>5. \A k \in 1..i : Append(s, t[i])[k] = SubSeq(t, 1, i)[k]
    BY <1>1, <2>1, <2>2
  <2>6. SubSeq(t, 1, i) = Append(s, t[i])
    BY <2>2, <2>4, <2>5
  <2> QED BY <2>1, <2>3, <2>6
<1> HIDE DEF s
<1>5. Extends(acc.out, s)
  BY <1>3 DEF Visited, s
<1>6. before \in Seq(Nodes) /\ Extends(before, s)
  <2>1. CASE before = acc.out
    BY <1>3, <1>5, <2>1
  <2>2. CASE before # acc.out
    <3>1. PICK x \in Nodes : x.id = 0 /\ before = Append(acc.out, x)
      BY <1>2, <2>2
    <3> QED BY <1>3, <1>5, <3>1, FreshExtends
  <2> QED BY <2>1, <2>2
<1>7. Extends(Append(before, n), Append(s, t[i]))
  <2>1. t[i].id = Len(s) + 1
    BY <1>1, <1>4
  <2> QED BY <1>1, <1>2, <1>4, <1>6, <2>1, AppendExtends
<1>8. Len(Append(before, n)) > 0 /\ Append(before, n)[Len(Append(before, n))] = n
  BY <1>2, <1>6
<1> QED BY <1>2, <1>4, <1>7, <1>8

\* What the walk of the yields reaches, if P is kept by each visit.
LEMMA SchedReaches ==
    ASSUME NEW t \in Seq(Nodes), NEW lines,
           NEW P, <<0, [out |-> <<>>, lines |-> lines, panic |-> FALSE]>> \in P,
           \A k \in 1..Len(t), x \in SchedState(lines) : <<k - 1, x>> \in P => <<k, SchedVisit(x, t, k)>> \in P
    PROVE  InjectSched(t, lines) \in SchedState(lines) /\ <<Len(t), InjectSched(t, lines)>> \in P
<1> DEFINE S == SchedState(lines)
           base == [out |-> <<>>, lines |-> lines, panic |-> FALSE]
           F == [a \in S \X (1..Len(t)) |-> SchedVisit(a[1], t, a[2])]
           Walks(W) == W = [i \in 0..Len(t) |-> IF i = 0 THEN base ELSE SchedVisit(W[i - 1], t, i)]
           V == CHOOSE W : Walks(W)
<1>1. Len(t) \in Nat
  OBVIOUS
<1>2. base \in S
  BY DEF SchedState
<1>3. \E W \in [0..Len(t) -> S] : Walks(W)
  <2>1. F \in [S \X (1..Len(t)) -> S]
    BY <1>1, SchedTyped
  <2> HIDE DEF base, S
  <2>2. PICK W \in [0..Len(t) -> S] :
          W[0] = base /\ \A k \in 1..Len(t) : W[k] = F[<<W[k - 1], k>>]
    <3> HIDE DEF F
    <3>1. \E W : Walk(W, Len(t), S, base, F)
      BY <1>1, <1>2, <2>1, WalkExists
    <3> QED BY <3>1 DEF Walk
  <2>3. ASSUME NEW k \in 0..Len(t)
        PROVE  W[k] = IF k = 0 THEN base ELSE SchedVisit(W[k - 1], t, k)
    <3>1. W[k] = IF k = 0 THEN base ELSE F[<<W[k - 1], k>>]
      <4> HIDE DEF F
      <4>1. k = 0 \/ (k \in 1..Len(t) /\ k # 0)
        BY <1>1
      <4> QED BY <2>2, <4>1
    <3>2. k # 0 => <<W[k - 1], k>> \in S \X (1..Len(t))
      BY <1>1
    <3>3. k # 0 => F[<<W[k - 1], k>>] = SchedVisit(W[k - 1], t, k)
      BY <3>2
    <3> QED BY <3>1, <3>3
  <2> QED BY <2>3
<1>4. InjectSched(t, lines) = V[Len(t)]
  BY DEF InjectSched
<1>5. Walks(V)
  <2> HIDE DEF Walks
  <2> QED BY <1>3
<1> HIDE DEF V
<1> DEFINE R == {k \in 0..Len(t) : V[k] \in S /\ <<k, V[k]>> \in P}
<1>6. 0 \in R
  <2>1. V[0] = base /\ 0 \in 0..Len(t)
    BY <1>1, <1>5
  <2> HIDE DEF S
  <2> QED BY <1>2, <2>1
<1>7. ASSUME NEW k \in 1..Len(t), k - 1 \in R PROVE k \in R
  <2>1. V[k] = SchedVisit(V[k - 1], t, k)
    <3>1. k \in 0..Len(t) /\ k # 0
      BY <1>1
    <3>2. \A i \in 0..Len(t) : V[i] = IF i = 0 THEN base ELSE SchedVisit(V[i - 1], t, i)
      <4> HIDE DEF base
      <4> QED BY <1>5
    <3> HIDE DEF base
    <3> QED BY <3>1, <3>2, Zenon
  <2>2. V[k - 1] \in S /\ <<k - 1, V[k - 1]>> \in P
    BY <1>7
  <2> HIDE DEF Walks
  <2>3. V[k] \in S
    BY <1>1, <2>1, <2>2, SchedTyped
  <2>4. <<k, V[k]>> \in P
    <3> HIDE DEF base
    <3> QED BY <2>1, <2>2
  <2> QED BY <1>1, <2>3, <2>4
<1>8. Len(t) \in R
  <2> HIDE DEF R
  <2>1. \A k \in 0..Len(t) : k \in R
    BY <1>1, <1>6, <1>7, UpTo, Zenon
  <2> QED BY <1>1, <2>1
<1> QED BY <1>4, <1>8

LEMMA SchedKeeps ==
    ASSUME NEW t, Source(t), NEW lines, ~InjectSched(t, lines).panic
    PROVE  Tree(InjectSched(t, lines).out) /\ Extends(InjectSched(t, lines).out, t)
<1> DEFINE r == InjectSched(t, lines)
           base == [out |-> <<>>, lines |-> lines, panic |-> FALSE]
           P == {a \in Nat \X SchedState(lines) : Visited(a[2], t, a[1])}
<1>1. t \in Seq(Nodes) /\ Len(t) \in Nat /\ Len(t) > 0 /\ t[Len(t)].kind # "Func"
  BY DEF Source, Tree
<1>2. <<0, base>> \in P
  <2>1. base \in SchedState(lines)
    BY DEF SchedState
  <2>2. Visited(base, t, 0)
    BY <1>1 DEF Visited, Extends
  <2> HIDE DEF base
  <2> QED BY <2>1, <2>2
<1>3. ASSUME NEW k \in 1..Len(t), NEW x \in SchedState(lines), <<k - 1, x>> \in P
      PROVE  <<k, SchedVisit(x, t, k)>> \in P
  <2>1. Visited(x, t, k - 1) /\ k \in Nat
    BY <1>3
  <2>2. Visited(SchedVisit(x, t, k), t, k) /\ SchedVisit(x, t, k) \in SchedState(lines)
    BY <1>1, <2>1, SchedVisited, SchedTyped
  <2> QED BY <2>1, <2>2
<1>4. r \in SchedState(lines) /\ <<Len(t), r>> \in P
  <2> HIDE DEF P
  <2> QED BY <1>1, <1>2, <1>3, SchedReaches
<1>5. /\ Extends(r.out, SubSeq(t, 1, Len(t)))
      /\ Len(r.out) > 0 /\ r.out[Len(r.out)].kind = t[Len(t)].kind
  <2> HIDE DEF r
  <2>1. Visited(r, t, Len(t))
    BY <1>4
  <2> QED BY <1>1, <2>1 DEF Visited, r
<1>6. SubSeq(t, 1, Len(t)) = t /\ r.out \in Seq(Nodes)
  BY <1>1, <1>4 DEF SchedState
<1> QED BY <1>1, <1>5, <1>6 DEF Tree

\* The trees an edit makes: nothing of s is missing.
Edited(s) == {t \in Seq(Nodes) : Tree(t) /\ Extends(t, s)}

LEMMA RangeEdits ==
    ASSUME NEW s \in Seq(Nodes), NEW k \in Nat, NEW x \in Edited(s)
    PROVE  RangeVisit(x, k) \in Edited(s)
<1> SUFFICES ASSUME k \in DOMAIN x, x[k].kind = "Range" PROVE RangeVisit(x, k) \in Edited(s)
  BY DEF RangeVisit
<1> DEFINE nodes == <<astNode_sched(x[k].depth + 2)>>
           new == Insert(x, End(x, k), nodes)
<1>1. /\ x \in Seq(Nodes) /\ Tree(x) /\ Extends(x, s) /\ Len(x) \in Nat
      /\ k \in 1..Len(x) /\ x[k] \in Nodes
  BY DEF Edited, Tree
<1>2. Fresh(nodes) /\ Len(nodes) = 1
  <2>1. "goat" \in Ops
    BY Zenon DEF Ops
  <2>2. x[k].depth + 2 \in Nat
    BY <1>1 DEF Nodes
  <2> QED BY <2>1, <2>2 DEF astNode_sched, Stmt, Node, Nodes, SyntaxKinds, Fresh
<1>3. End(x, k) \in 1..Len(x)
  <2>1. End(x, k) \in k..Len(x)
    BY <1>1, EndFound
  <2> QED BY <1>1, <2>1
<1> HIDE DEF nodes
<1>4. Tree(new) /\ Extends(new, s)
  <2> DEFINE j == End(x, k)
  <2>1. j \in 1..Len(x)
    BY <1>3
  <2> HIDE DEF j
  <2>2. Tree(Insert(x, j, nodes)) /\ Extends(Insert(x, j, nodes), s)
    BY <1>1, <1>2, <2>1, InsertExtends
  <2> QED BY <2>2 DEF j
<1>5. RangeVisit(x, k) = new
  BY DEF RangeVisit, nodes
<1> HIDE DEF new
<1> QED BY <1>4, <1>5 DEF Edited, Tree

\* What a walk of edits reaches, if P is kept by each of them.
LEMMA RangeReaches ==
    ASSUME NEW t \in Seq(Nodes), NEW S, t \in S,
           \A x \in S, k \in Nat : RangeVisit(x, k) \in S,
           NEW P, <<0, t>> \in P,
           \A k \in 1..(2 * Len(t)), x \in S : <<k - 1, x>> \in P => <<k, RangeVisit(x, k)>> \in P
    PROVE  InjectRange(t) \in S /\ <<2 * Len(t), InjectRange(t)>> \in P
<1> DEFINE n == 2 * Len(t)
           F == [a \in S \X (1..n) |-> RangeVisit(a[1], a[2])]
           Walks(W) == W = [k \in 0..n |-> IF k = 0 THEN t ELSE RangeVisit(W[k - 1], k)]
           V == CHOOSE W : Walks(W)
<1>1. n \in Nat /\ t \in S /\ \A k \in 1..n : k \in Nat /\ k \in 0..n /\ k # 0
  OBVIOUS
<1>2. ASSUME NEW x \in S, NEW k \in 1..n PROVE RangeVisit(x, k) \in S
  BY <1>1
<1>3. \E W : Walks(W)
  <2>1. F \in [S \X (1..n) -> S]
    BY <1>2
  <2>2. PICK W \in [0..n -> S] : W[0] = t /\ \A k \in 1..n : W[k] = F[<<W[k - 1], k>>]
    <3> HIDE DEF F, n
    <3>1. \E W : Walk(W, n, S, t, F)
      BY <1>1, <2>1, WalkExists
    <3> QED BY <3>1 DEF Walk
  <2>3. ASSUME NEW k \in 0..n
        PROVE  W[k] = IF k = 0 THEN t ELSE RangeVisit(W[k - 1], k)
    <3>1. W[k] = IF k = 0 THEN t ELSE F[<<W[k - 1], k>>]
      <4> HIDE DEF F
      <4>1. k = 0 \/ (k \in 1..n /\ k # 0)
        BY <1>1
      <4> QED BY <2>2, <4>1
    <3>2. k # 0 => <<W[k - 1], k>> \in S \X (1..n)
      <4>1. k # 0 => k \in 1..n /\ k - 1 \in 0..n
        <5> HIDE DEF n
        <5> QED BY <1>1
      <4> HIDE DEF n
      <4> QED BY <2>2, <4>1
    <3>3. k # 0 => F[<<W[k - 1], k>>] = RangeVisit(W[k - 1], k)
      BY <3>2
    <3> QED BY <3>1, <3>3
  <2> QED BY <2>3
<1>4. InjectRange(t) = V[n]
  BY DEF InjectRange
<1>5. \A k \in 0..n : V[k] = IF k = 0 THEN t ELSE RangeVisit(V[k - 1], k)
  <2>1. Walks(V)
    <3> HIDE DEF Walks
    <3> QED BY <1>3
  <2> HIDE DEF V
  <2> QED BY <2>1
<1>6. \A k \in 1..n, x \in S : <<k - 1, x>> \in P => <<k, RangeVisit(x, k)>> \in P
  OBVIOUS
<1> HIDE DEF V, Walks, n
<1>7. V[n] \in S /\ <<n, V[n]>> \in P
  <2> DEFINE R == {k \in 0..n : V[k] \in S /\ <<k, V[k]>> \in P}
  <2>1. 0 \in R
    BY <1>1, <1>5
  <2>2. ASSUME NEW k \in 1..n, k - 1 \in R PROVE k \in R
    <3>1. V[k] = RangeVisit(V[k - 1], k) /\ k \in 0..n
      BY <1>1, <1>5
    <3>2. V[k - 1] \in S /\ <<k - 1, V[k - 1]>> \in P
      BY <2>2
    <3> QED BY <1>2, <1>6, <3>1, <3>2
  <2> HIDE DEF R
  <2>3. \A k \in 0..n : k \in R
    BY <1>1, <2>1, <2>2, UpTo, Zenon
  <2> QED BY <1>1, <2>3 DEF R
<1> QED BY <1>4, <1>7 DEF n

LEMMA RangeKeeps ==
    ASSUME NEW s \in Seq(Nodes), NEW t, Tree(t), Extends(t, s)
    PROVE  Tree(InjectRange(t)) /\ Extends(InjectRange(t), s)
<1> DEFINE S == Edited(s)
           P == Nat \X S
<1>1. t \in Seq(Nodes) /\ t \in S /\ \A k \in 1..(2 * Len(t)) : k \in Nat
  BY DEF Tree, Edited
<1>2. \A x \in S, k \in Nat : RangeVisit(x, k) \in S
  BY RangeEdits
<1> HIDE DEF S
<1>3. \A k \in 1..(2 * Len(t)), x \in S : <<k - 1, x>> \in P => <<k, RangeVisit(x, k)>> \in P
  BY <1>1, <1>2
<1>4. <<0, t>> \in P
  BY <1>1
<1> HIDE DEF P
<1>5. InjectRange(t) \in S
  BY <1>1, <1>2, <1>3, <1>4, RangeReaches
<1> QED BY <1>5 DEF S, Edited

LEMMA StartIsFresh ==
    ASSUME NEW d \in Nat, NEW m PROVE Fresh(goatMain(d, m)) /\ Len(goatMain(d, m)) \in Nat
<1>1. "goat" \in Ops
  BY Zenon DEF Ops
<1>2. \A kind \in {"Start", "Go", "Defer"} :
         /\ Stmt(kind, "goat", d) \in Nodes
         /\ Stmt(kind, "goat", d).id = 0 /\ Stmt(kind, "goat", d).kind # "Func"
  BY <1>1 DEF Stmt, Node, Nodes, SyntaxKinds
<1> QED BY <1>2 DEF goatMain, astNode_goatMain, astNode_goatRaceMain, Fresh

\* A function is never the last node, so that there is a place inside it.
LEMMA MainEdits ==
    ASSUME NEW s \in Seq(Nodes), NEW m, NEW k \in Nat, NEW x \in Edited(s)
    PROVE  MainVisit(x, k, m) \in Edited(s)
<1> SUFFICES ASSUME k \in DOMAIN x, Traced(x[k]) PROVE MainVisit(x, k, m) \in Edited(s)
  BY DEF MainVisit
<1> DEFINE nodes == goatMain(x[k].depth + 2, m)
           new == Insert(x, k + 1, nodes)
<1>1. /\ x \in Seq(Nodes) /\ Tree(x) /\ Extends(x, s) /\ Len(x) \in Nat
      /\ k \in 1..Len(x) /\ x[k] \in Nodes /\ x[k].kind = "Func"
  BY DEF Edited, Tree, Traced
<1>2. Fresh(nodes) /\ Len(nodes) \in Nat
  <2>1. x[k].depth + 2 \in Nat
    BY <1>1 DEF Nodes
  <2> QED BY <2>1, StartIsFresh
<1>3. MainVisit(x, k, m) = new
  BY DEF MainVisit, nodes
<1> HIDE DEF nodes
<1>4. k + 1 \in 1..Len(x)
  BY <1>1 DEF Tree
<1>5. Tree(new) /\ Extends(new, s)
  BY <1>1, <1>2, <1>4, InsertExtends
<1> HIDE DEF new
<1> QED BY <1>3, <1>5 DEF Edited, Tree

LEMMA MainReaches ==
    ASSUME NEW t \in Seq(Nodes), NEW m, NEW S, t \in S,
           \A x \in S, k \in Nat : MainVisit(x, k, m) \in S,
           NEW P, <<0, t>> \in P,
           \A k \in 1..(4 * Len(t)), x \in S : <<k - 1, x>> \in P => <<k, MainVisit(x, k, m)>> \in P
    PROVE  InjectMain(t, m) \in S /\ <<4 * Len(t), InjectMain(t, m)>> \in P
<1> DEFINE n == 4 * Len(t)
           F == [a \in S \X (1..n) |-> MainVisit(a[1], a[2], m)]
           Walks(W) == W = [k \in 0..n |-> IF k = 0 THEN t ELSE MainVisit(W[k - 1], k, m)]
           V == CHOOSE W : Walks(W)
<1>1. n \in Nat /\ t \in S /\ \A k \in 1..n : k \in Nat /\ k \in 0..n /\ k # 0
  OBVIOUS
<1>2. ASSUME NEW x \in S, NEW k \in 1..n PROVE MainVisit(x, k, m) \in S
  BY <1>1
<1>3. \E W : Walks(W)
  <2>1. F \in [S \X (1..n) -> S]
    BY <1>2
  <2>2. PICK W \in [0..n -> S] : W[0] = t /\ \A k \in 1..n : W[k] = F[<<W[k - 1], k>>]
    <3> HIDE DEF F, n
    <3>1. \E W : Walk(W, n, S, t, F)
      BY <1>1, <2>1, WalkExists
    <3> QED BY <3>1 DEF Walk
  <2>3. ASSUME NEW k \in 0..n
        PROVE  W[k] = IF k = 0 THEN t ELSE MainVisit(W[k - 1], k, m)
    <3>1. W[k] = IF k = 0 THEN t ELSE F[<<W[k - 1], k>>]
      <4> HIDE DEF F
      <4>1. k = 0 \/ (k \in 1..n /\ k # 0)
        BY <1>1
      <4> QED BY <2>2, <4>1
    <3>2. k # 0 => <<W[k - 1], k>> \in S \X (1..n)
      <4>1. k # 0 => k \in 1..n /\ k - 1 \in 0..n
        <5> HIDE DEF n
        <5> QED BY <1>1
      <4> HIDE DEF n
      <4> QED BY <2>2, <4>1
    <3>3. k # 0 => F[<<W[k - 1], k>>] = MainVisit(W[k - 1], k, m)
      BY <3>2
    <3> QED BY <3>1, <3>3
  <2> QED BY <2>3
<1>4. InjectMain(t, m) = V[n]
  BY DEF InjectMain
<1>5. \A k \in 0..n : V[k] = IF k = 0 THEN t ELSE MainVisit(V[k - 1], k, m)
  <2>1. Walks(V)
    <3> HIDE DEF Walks
    <3> QED BY <1>3
  <2> HIDE DEF V
  <2> QED BY <2>1
<1>6. \A k \in 1..n, x \in S : <<k - 1, x>> \in P => <<k, MainVisit(x, k, m)>> \in P
  OBVIOUS
<1> HIDE DEF V, Walks, n
<1>7. V[n] \in S /\ <<n, V[n]>> \in P
  <2> DEFINE R == {k \in 0..n : V[k] \in S /\ <<k, V[k]>> \in P}
  <2>1. 0 \in R
    BY <1>1, <1>5
  <2>2. ASSUME NEW k \in 1..n, k - 1 \in R PROVE k \in R
    <3>1. V[k] = MainVisit(V[k - 1], k, m) /\ k \in 0..n
      BY <1>1, <1>5
    <3>2. V[k - 1] \in S /\ <<k - 1, V[k - 1]>> \in P
      BY <2>2
    <3> QED BY <1>2, <1>6, <3>1, <3>2
  <2> HIDE DEF R
  <2>3. \A k \in 0..n : k \in R
    BY <1>1, <2>1, <2>2, UpTo, Zenon
  <2> QED BY <1>1, <2>3 DEF R
<1> QED BY <1>4, <1>7 DEF n

LEMMA MainKeeps ==
    ASSUME NEW s \in Seq(Nodes), NEW t, Tree(t), Extends(t, s), NEW m
    PROVE  Tree(InjectMain(t, m)) /\ Extends(InjectMain(t, m), s)
<1> DEFINE S == Edited(s)
           P == Nat \X S
<1>1. t \in Seq(Nodes) /\ t \in S /\ \A k \in 1..(4 * Len(t)) : k \in Nat
  BY DEF Tree, Edited
<1>2. \A x \in S, k \in Nat : MainVisit(x, k, m) \in S
  BY MainEdits
<1> HIDE DEF S
<1>3. \A k \in 1..(4 * Len(t)), x \in S : <<k - 1, x>> \in P => <<k, MainVisit(x, k, m)>> \in P
  BY <1>1, <1>2
<1>4. <<0, t>> \in P
  BY <1>1
<1> HIDE DEF P
<1>5. InjectMain(t, m) \in S
  BY <1>1, <1>2, <1>3, <1>4, MainReaches
<1> QED BY <1>5 DEF S, Edited
-----------------------------------------------------------------------------
(***************************************************************************)
(* The packages                                                            *)
(***************************************************************************)
\* The nodes a piece of code is made of, and those it may end with.
Inner  == {n \in Nodes : n.depth > 0 /\ n.kind # "File"}
Ending == {n \in Inner : n.kind # "Func"}

Fitting(piece) ==
    /\ piece \in Seq(Nodes) /\ Len(piece) > 0 /\ piece[Len(piece)].kind # "Func"
    /\ \A k \in DOMAIN piece : piece[k].kind = "File" <=> piece[k].depth = 0

LEMMA InnerNodes ==
    ASSUME NEW d \in Nat, d > 0, NEW op \in Ops, NEW kind \in SyntaxKinds \ {"File"}
    PROVE  /\ Stmt(kind, op, d) \in Inner /\ Part(kind, op, d) \in Inner
           /\ kind # "Func" => /\ Stmt(kind, op, d) \in Ending /\ Part(kind, op, d) \in Ending
                               /\ Later(Part(kind, op, d)) \in Ending
                               /\ [Stmt(kind, op, d) EXCEPT !.begins = FALSE] \in Ending
BY DEF Inner, Ending, Stmt, Part, Node, Nodes, Later

LEMMA FittingPieces ==
    /\ \A a \in Ending : Fitting(<<a>>)
    /\ \A a \in Inner, b \in Ending : Fitting(<<a, b>>)
    /\ \A a \in Inner, b \in Inner, c \in Ending : Fitting(<<a, b, c>>)
<1>1. ASSUME NEW a \in Ending PROVE Fitting(<<a>>)
  BY DEF Inner, Ending, Nodes, Fitting
<1>2. ASSUME NEW a \in Inner, NEW b \in Ending PROVE Fitting(<<a, b>>)
  <2> DEFINE t == <<a, b>>
  <2>1. t \in Seq(Nodes) /\ Len(t) = 2 /\ DOMAIN t = {1, 2} /\ t[1] = a /\ t[2] = b
    BY DEF Inner, Ending
  <2> HIDE DEF t
  <2>2. Fitting(t)
    BY <2>1 DEF Inner, Ending, Nodes, Fitting
  <2> QED BY <2>2 DEF t
<1>3. ASSUME NEW a \in Inner, NEW b \in Inner, NEW c \in Ending PROVE Fitting(<<a, b, c>>)
  <2> DEFINE t == <<a, b, c>>
  <2>1. /\ t \in Seq(Nodes) /\ Len(t) = 3 /\ DOMAIN t = {1, 2, 3}
        /\ t[1] = a /\ t[2] = b /\ t[3] = c
    BY DEF Inner, Ending
  <2> HIDE DEF t
  <2>2. Fitting(t)
    BY <2>1 DEF Inner, Ending, Nodes, Fitting
  <2> QED BY <2>2 DEF t
<1> QED BY <1>1, <1>2, <1>3

LEMMA OpsMembers == "" \in Ops /\ "Done" \in Ops /\ Calls \subseteq Ops /\ FuncNames \subseteq Ops
BY Zenon DEF Ops

StatementKinds == {"Expr", "Defer", "Send", "Recv", "Go", "Range", "If", "Select", "Switch", "Label",
                   "Var", "Default", "Clause", "Case"}

\* The nodes of the pieces, whatever their names.
LEMMA PieceNodes ==
    ASSUME NEW d \in Nat, d > 0, NEW x \in Ops, NEW o \in Ops
    PROVE  /\ \A k \in StatementKinds :
                Stmt(k, x, d) \in Ending
           /\ Stmt("Func", o, d) \in Inner
           /\ \A k \in {"Block", "Ident", "Recv"} :
                Part(k, o, d + 1) \in Ending /\ Later(Part(k, o, d + 1)) \in Ending
           /\ Part("Block", x, d + 1) \in Ending /\ Part("Recv", x, d + 1) \in Ending
           /\ Part("Ident", o, d + 2) \in Ending
           /\ [Stmt("Send", x, d + 2) EXCEPT !.begins = FALSE] \in Ending
           /\ Later(Part("If", x, d)) \in Ending
           /\ Ending \subseteq Inner
<1>1. d + 1 \in Nat /\ d + 1 > 0 /\ d + 2 \in Nat /\ d + 2 > 0
  OBVIOUS
<1>2. \A k \in StatementKinds :
         Stmt(k, x, d) \in Ending
  BY InnerNodes DEF SyntaxKinds, StatementKinds
<1>3. \A k \in {"Block", "Ident", "Recv"} :
         Part(k, o, d + 1) \in Ending /\ Later(Part(k, o, d + 1)) \in Ending
  BY <1>1, InnerNodes DEF SyntaxKinds
<1>4. Part("Block", x, d + 1) \in Ending /\ Part("Recv", x, d + 1) \in Ending
  BY <1>1, InnerNodes DEF SyntaxKinds
<1>5. Part("Ident", o, d + 2) \in Ending /\ [Stmt("Send", x, d + 2) EXCEPT !.begins = FALSE] \in Ending
  BY <1>1, InnerNodes DEF SyntaxKinds
<1>6. Stmt("Func", o, d) \in Inner /\ Later(Part("If", x, d)) \in Ending
  BY InnerNodes DEF SyntaxKinds
<1> QED BY <1>2, <1>3, <1>4, <1>5, <1>6 DEF Ending

LEMMA SimpleFits ==
    ASSUME NEW d \in Nat, d > 0, NEW piece \in Simple(d)
    PROVE  Fitting(piece)
<1>1. \A o \in Ops : Ident(o, d + 1) \in Ending /\ Later(Ident(o, d + 1)) \in Ending
  BY PieceNodes, OpsMembers, Zenon DEF Ident
<1>2. \A k \in {"Expr", "Defer", "Send", "Recv", "Go", "Range", "If", "Select", "Switch"} :
         Stmt(k, "", d) \in Ending
  <2>1. {"Expr", "Defer", "Send", "Recv", "Go", "Range", "If", "Select", "Switch"} \subseteq StatementKinds
    BY DEF StatementKinds
  <2> QED BY <2>1, PieceNodes, OpsMembers, Zenon
<1>3. Block(d + 1) \in Ending /\ Part("Recv", "", d + 1) \in Ending /\ Ending \subseteq Inner
  BY PieceNodes, OpsMembers, Zenon DEF Block
<1>4. CASE \E o \in Calls : \/ piece = <<Stmt("Expr", "", d), Ident(o, d + 1)>>
                            \/ piece = <<Stmt("Defer", "", d), Ident(o, d + 1)>>
                            \/ piece = <<Stmt("Expr", "", d), Later(Ident(o, d + 1))>>
  BY <1>1, <1>2, <1>3, <1>4, OpsMembers, FittingPieces, Zenon
<1>5. CASE \/ piece = <<Stmt("Send", "", d)>> \/ piece = <<Stmt("Recv", "", d)>>
           \/ piece = <<Stmt("Recv", "", d), Ident("Done", d + 1)>>
           \/ piece = <<Stmt("If", "", d), Part("Recv", "", d + 1), Block(d + 1)>>
  BY <1>1, <1>2, <1>3, <1>5, OpsMembers, FittingPieces, Zenon
<1>6. CASE \E k \in {"Go", "Defer", "Range", "If", "Select", "Switch"} :
              piece = <<Stmt(k, "", d), Block(d + 1)>>
  BY <1>2, <1>3, <1>6, FittingPieces, Zenon
<1> QED BY <1>4, <1>5, <1>6, Zenon DEF Simple

\* The nodes of a labelled piece: the label, and the piece with a first node
\* that is no element of a list.
LEMMA LabelledNodes ==
    ASSUME NEW l \in Nodes, NEW p \in Seq(Nodes), Len(p) > 0
    PROVE  LET q == <<l, [p[1] EXCEPT !.list = FALSE]>> \o Tail(p)
           IN  /\ q \in Seq(Nodes) /\ Len(q) = Len(p) + 1 /\ q[1] = l
               /\ q[2] = [p[1] EXCEPT !.list = FALSE]
               /\ \A k \in 2..Len(p) : q[k + 1] = p[k]
<1> DEFINE h == [p[1] EXCEPT !.list = FALSE]
           f == <<l, h>>
           v == Tail(p)
           q == f \o v
<1>1. h \in Nodes
  <2>1. p[1] \in Nodes
    OBVIOUS
  <2> QED BY <2>1 DEF Nodes
<1> HIDE DEF h
<1>2. f \in Seq(Nodes) /\ Len(f) = 2 /\ f[1] = l /\ f[2] = h
  BY <1>1
<1>3. /\ v \in Seq(Nodes) /\ Len(v) = Len(p) - 1
      /\ \A k \in 1..(Len(p) - 1) : v[k] = p[k + 1]
  OBVIOUS
<1> HIDE DEF f, h, v
<1>4. /\ q \in Seq(Nodes) /\ Len(q) = 2 + Len(v) /\ q[1] = l /\ q[2] = h
      /\ \A k \in 1..Len(v) : q[2 + k] = v[k]
  <2>1. /\ q \in Seq(Nodes) /\ Len(q) = Len(f) + Len(v)
        /\ \A k \in 1..Len(f) : q[k] = f[k]
        /\ \A k \in 1..Len(v) : q[Len(f) + k] = v[k]
    BY <1>2, <1>3, Joined, Zenon
  <2> HIDE DEF q
  <2> QED BY <1>2, <2>1
<1> HIDE DEF q
<1>5. ASSUME NEW k \in 2..Len(p) PROVE q[k + 1] = p[k]
  <2>1. k - 1 \in 1..(Len(p) - 1) /\ 2 + (k - 1) = k + 1 /\ (k - 1) + 1 = k
    OBVIOUS
  <2> QED BY <1>3, <1>4, <2>1
<1> QED BY <1>3, <1>4, <1>5 DEF q, f, h, v

LEMMA StatementsFit ==
    ASSUME NEW d \in Nat, d > 0, NEW piece \in Statements(d)
    PROVE  Fitting(piece)
<1>1. CASE piece \in Simple(d)
  BY <1>1, SimpleFits
<1>2. CASE piece \in Labelled(d)
  <2>1. PICK p \in Simple(d + 1) : piece = <<Stmt("Label", "", d), [p[1] EXCEPT !.list = FALSE]>> \o Tail(p)
    BY <1>2 DEF Labelled
  <2>2. Fitting(p)
    BY SimpleFits
  <2> DEFINE l == Stmt("Label", "", d)
  <2>3. l \in Ending
    BY OpsMembers, PieceNodes DEF StatementKinds
  <2> HIDE DEF l
  <2>4. l \in Nodes /\ l.kind # "File" /\ l.depth # 0
    BY <2>3 DEF Ending, Inner, Nodes
  <2>5. p \in Seq(Nodes) /\ Len(p) > 0 /\ Len(p) \in Nat /\ p[1] \in Nodes /\ DOMAIN p = 1..Len(p)
    BY <2>2 DEF Fitting
  <2>6. /\ piece \in Seq(Nodes) /\ Len(piece) = Len(p) + 1 /\ piece[1] = l
        /\ piece[2] = [p[1] EXCEPT !.list = FALSE]
        /\ \A k \in 2..Len(p) : piece[k + 1] = p[k]
    <3> DEFINE q == <<l, [p[1] EXCEPT !.list = FALSE]>> \o Tail(p)
    <3>1. piece = q
      BY <2>1 DEF l
    <3>2. /\ q \in Seq(Nodes) /\ Len(q) = Len(p) + 1 /\ q[1] = l
          /\ q[2] = [p[1] EXCEPT !.list = FALSE]
          /\ \A k \in 2..Len(p) : q[k + 1] = p[k]
      BY <2>4, <2>5, LabelledNodes
    <3> HIDE DEF q
    <3> QED BY <3>1, <3>2
  <2>7. piece[2].kind = p[1].kind /\ piece[2].depth = p[1].depth
    BY <2>5, <2>6 DEF Nodes
  <2>8. ASSUME NEW k \in 2..(Len(p) + 1)
        PROVE  piece[k].kind = p[k - 1].kind /\ piece[k].depth = p[k - 1].depth
    <3>1. CASE k = 2
      BY <2>7, <3>1
    <3>2. CASE k # 2
      <4>1. k - 1 \in 2..Len(p) /\ (k - 1) + 1 = k
        BY <2>5, <3>2
      <4> QED BY <2>6, <4>1
    <3> QED BY <3>1, <3>2
  <2>9. \A k \in 2..(Len(p) + 1) : k - 1 \in 1..Len(p)
    BY <2>5
  <2>10. \A k \in 1..(Len(p) + 1) : piece[k].kind = "File" <=> piece[k].depth = 0
    <3>1. \A k \in 1..(Len(p) + 1) : k = 1 \/ k \in 2..(Len(p) + 1)
      BY <2>5
    <3> QED BY <2>2, <2>4, <2>5, <2>6, <2>8, <2>9, <3>1 DEF Fitting
  <2>11. piece[Len(p) + 1].kind # "Func"
    <3>1. Len(p) + 1 \in 2..(Len(p) + 1) /\ (Len(p) + 1) - 1 = Len(p)
      BY <2>5
    <3> QED BY <2>2, <2>8, <3>1 DEF Fitting
  <2> QED BY <2>5, <2>6, <2>10, <2>11 DEF Fitting
<1> QED BY <1>1, <1>2, Zenon DEF Statements

LEMMA OthersFit ==
    ASSUME NEW d \in Nat, d > 0, NEW piece \in Clauses(d) \cup Cases(d) \cup Declarations(d) \cup ElseIfs(d)
    PROVE  Fitting(piece)
<1>1. /\ Stmt("Default", "", d) \in Ending /\ Stmt("Clause", "", d) \in Ending
      /\ Stmt("Case", "", d) \in Ending /\ Stmt("Var", "", d) \in Ending
      /\ Part("Recv", "", d + 1) \in Ending /\ \A o \in Ops : Ident(o, d + 2) \in Ending
      /\ Block(d + 1) \in Ending /\ \A o \in Ops : Stmt("Func", o, d) \in Inner
      /\ \A o \in Ops : Ident(o, d + 1) \in Ending
      /\ [Stmt("Send", "", d + 2) EXCEPT !.begins = FALSE] \in Ending
      /\ Later(Part("If", "", d)) \in Ending /\ Ending \subseteq Inner
  <2>1. {"Default", "Clause", "Case", "Var"} \subseteq StatementKinds
    BY DEF StatementKinds
  <2> QED BY <2>1, PieceNodes, OpsMembers, Zenon DEF Ident, Block
<1>2. CASE piece \in Clauses(d)
  BY <1>1, <1>2, OpsMembers, FittingPieces, Zenon DEF Clauses
<1>3. CASE piece \in Cases(d)
  BY <1>1, <1>3, OpsMembers, FittingPieces, Zenon DEF Cases
<1>4. CASE piece \in Declarations(d)
  <2>1. Declared \subseteq Ops
    BY OpsMembers, Zenon DEF Declared
  <2>2. CASE \E o \in Declared : piece = <<Stmt("Func", o, d), Block(d + 1)>>
    BY <1>1, <2>1, <2>2, FittingPieces, Zenon
  <2>3. CASE \E o \in Declared \ {"main", "Test"} :
                piece = <<Stmt("Func", o, d), Block(d + 1), [Stmt("Send", "", d + 2) EXCEPT !.begins = FALSE]>>
    <3> DEFINE send == [Stmt("Send", "", d + 2) EXCEPT !.begins = FALSE]
    <3>1. PICK o \in Declared \ {"main", "Test"} : piece = <<Stmt("Func", o, d), Block(d + 1), send>>
      BY <2>3
    <3>2. Stmt("Func", o, d) \in Inner /\ Block(d + 1) \in Inner /\ send \in Ending
      BY <1>1, <2>1, Zenon
    <3> HIDE DEF send
    <3> QED BY <3>1, <3>2, FittingPieces, Zenon
  <2>4. CASE \E o \in Calls : piece = <<Stmt("Var", "", d), Ident(o, d + 1)>>
    BY <1>1, <2>4, OpsMembers, FittingPieces, Zenon
  <2> QED BY <1>4, <2>2, <2>3, <2>4, Zenon DEF Declarations
<1>5. CASE piece \in ElseIfs(d)
  BY <1>1, <1>5, OpsMembers, FittingPieces, Zenon DEF ElseIfs
<1> QED BY <1>2, <1>3, <1>4, <1>5, Zenon

LEMMA PiecesFit ==
    ASSUME Source(src), NEW i \in DOMAIN src, NEW piece \in Pieces(i)
    PROVE  Fitting(piece)
<1> DEFINE d == src[i].depth + 1
<1>1. d \in Nat /\ d > 0
  <2>1. src[i] \in Nodes
    BY DEF Source, Tree
  <2> QED BY <2>1 DEF Nodes
<1> HIDE DEF d
<1>2. piece \in Statements(d) \cup Clauses(d) \cup Cases(d) \cup Declarations(d) \cup ElseIfs(d)
  BY Zenon DEF Pieces, d
<1> QED BY <1>1, <1>2, StatementsFit, OthersFit, Zenon

LEMMA SourceAdds ==
    ASSUME Source(src), NEW piece, Fitting(piece), Add(piece)
    PROVE  Source(src')
<1> DEFINE new == [k \in DOMAIN piece |-> [piece[k] EXCEPT !.id = Len(src) + k]]
<1>1. /\ src \in Seq(Nodes) /\ Len(src) \in Nat /\ Len(src) > 0
      /\ piece \in Seq(Nodes) /\ Len(piece) \in Nat /\ Len(piece) > 0 /\ DOMAIN piece = 1..Len(piece)
  BY DEF Source, Tree, Fitting
<1>2. ASSUME NEW k \in 1..Len(piece)
      PROVE  /\ new[k] \in Nodes /\ new[k].kind = piece[k].kind /\ new[k].depth = piece[k].depth
             /\ new[k].id = Len(src) + k
  <2>1. piece[k] \in Nodes /\ Len(src) + k \in Nat
    BY <1>1
  <2>2. new[k] = [piece[k] EXCEPT !.id = Len(src) + k]
    BY <1>1
  <2> HIDE DEF new
  <2> QED BY <2>1, <2>2 DEF Nodes
<1>3. new \in Seq(Nodes) /\ Len(new) = Len(piece)
  <2>1. new = [k \in 1..Len(piece) |-> [piece[k] EXCEPT !.id = Len(src) + k]]
    BY <1>1
  <2>2. new \in [1..Len(piece) -> Nodes]
    BY <1>2, <2>1
  <2> HIDE DEF new
  <2> QED BY <1>1, <2>2
<1> DEFINE T == src'
<1>4. T = src \o new
  BY DEF Add
<1> HIDE DEF new, T
<1>5. /\ T \in Seq(Nodes) /\ Len(T) = Len(src) + Len(piece)
      /\ \A k \in 1..Len(src) : T[k] = src[k]
      /\ \A k \in 1..Len(piece) : T[Len(src) + k] = new[k]
  <2>1. /\ src \o new \in Seq(Nodes) /\ Len(src \o new) = Len(src) + Len(new)
        /\ \A k \in 1..Len(src) : (src \o new)[k] = src[k]
        /\ \A k \in 1..Len(new) : (src \o new)[Len(src) + k] = new[k]
    BY <1>1, <1>3, Joined
  <2> QED BY <1>3, <1>4, <2>1
<1>6. ASSUME NEW i \in 1..(Len(src) + Len(piece))
      PROVE  T[i].id = i /\ (T[i].kind = "File" <=> T[i].depth = 0)
  <2>1. CASE i \in 1..Len(src)
    BY <1>1, <1>5, <2>1 DEF Source
  <2>2. CASE i \notin 1..Len(src)
    <3>1. i - Len(src) \in 1..Len(piece) /\ i = Len(src) + (i - Len(src))
      BY <1>1, <2>2
    <3>2. T[i] = new[i - Len(src)]
      BY <1>5, <3>1
    <3> QED BY <1>1, <1>2, <3>1, <3>2 DEF Fitting
  <2> QED BY <2>1, <2>2
<1>7. T[1].kind = "File" /\ T[Len(T)].kind # "Func"
  <2>1. 1 \in 1..Len(src) /\ Len(piece) \in 1..Len(piece)
    BY <1>1
  <2> QED BY <1>1, <1>2, <1>5, <2>1 DEF Source, Fitting
<1>8. Len(T) > 0 /\ DOMAIN T = 1..(Len(src) + Len(piece))
  BY <1>1, <1>5
<1> QED BY <1>5, <1>6, <1>7, <1>8 DEF Source, Tree, T
-----------------------------------------------------------------------------
(***************************************************************************)
(* The Instrument functions                                                *)
(***************************************************************************)
LEMMA SourceExtends ==
    ASSUME NEW t, Source(t), NEW r, Tree(r), Len(r) = Len(t),
           \A i \in DOMAIN t : Plain(r[i]) = Plain(t[i])
    PROVE  Extends(r, t)
BY SameExtends DEF Source, Tree

LEMMA TraceOnlyKeeps ==
    ASSUME NEW t, Source(t) PROVE Extends(rewrite_traceOnly(t), t)
<1> DEFINE r == AddImport(t, tracefiles(t))
           c == ConvertDefers(r)
<1>1. \A f \in tracefiles(t) : f \in DOMAIN t /\ t[f].kind = "File"
  BY FileFound DEF tracefiles
<1>2. Source(r) /\ Len(r) = Len(t) /\ \A i \in DOMAIN t : Plain(r[i]) = Plain(t[i])
  BY <1>1, ImportsSame
<1> HIDE DEF r
<1>3. Tree(c) /\ Len(c) = Len(r) /\ \A i \in DOMAIN r : Plain(c[i]) = Plain(r[i])
  BY <1>2, DefersSame
<1> HIDE DEF c
<1>4. /\ t \in Seq(Nodes) /\ r \in Seq(Nodes) /\ DOMAIN t = 1..Len(t) /\ DOMAIN r = 1..Len(r)
      /\ Len(t) \in Nat
  BY <1>2 DEF Source, Tree
<1>5. Extends(c, t)
  BY <1>2, <1>3, <1>4, SourceExtends
<1>6. Extends(InjectMain(c, "traceOnly"), t)
  BY <1>3, <1>4, <1>5, MainKeeps
<1> QED BY <1>6 DEF rewrite_traceOnly, r, c

LEMMA SchedRewriteKeeps ==
    ASSUME NEW t, Source(t), NEW us, NEW m, ~rewrite_sched(t, us, m).panic
    PROVE  Extends(rewrite_sched(t, us, m).out, t)
<1> DEFINE files == concfiles(t, us, m)
           a == AddImport(t, files)
           r == InjectSched(a, conclines(us, m))
           g == InjectRange(r.out)
<1>1. \A f \in files : f \in DOMAIN t /\ t[f].kind = "File"
  BY FileFound DEF concfiles
<1> HIDE DEF files
<1>2. Source(a) /\ Len(a) = Len(t) /\ \A i \in DOMAIN t : Plain(a[i]) = Plain(t[i])
  BY <1>1, ImportsSame
<1>3. rewrite_sched(t, us, m) = [panic |-> r.panic, out |-> InjectMain(g, m)]
  BY DEF rewrite_sched, files
<1> HIDE DEF a
<1>4. ~r.panic
  BY <1>3
<1>5. Tree(r.out) /\ Extends(r.out, a)
  BY <1>2, <1>4, SchedKeeps
<1> DEFINE o == r.out
<1> HIDE DEF r, o
<1>6. t \in Seq(Nodes) /\ a \in Seq(Nodes) /\ o \in Seq(Nodes)
  BY <1>2, <1>5 DEF Source, Tree, o
<1>7. Tree(o) /\ Extends(o, t)
  BY <1>2, <1>5, <1>6, ExtendsSame DEF o
<1>8. Tree(g) /\ Extends(g, t)
  BY <1>6, <1>7, RangeKeeps DEF o
<1> HIDE DEF g
<1>9. Extends(InjectMain(g, m), t)
  BY <1>6, <1>8, MainKeeps
<1> QED BY <1>3, <1>9

LEMMA FileNode == File \in Nodes /\ File.kind = "File" /\ File.id = 1 /\ File.depth = 0
<1>1. \A op \in Ops : LET n == Node("File", op, 0, TRUE, FALSE, 1)
                     IN  n \in Nodes /\ n.kind = "File" /\ n.id = 1 /\ n.depth = 0
  BY DEF Node, Nodes, SyntaxKinds
<1> QED BY <1>1, OpsMembers, Zenon DEF File

LEMMA InstrumentStarts == Init => InstrumentInv
<1> SUFFICES ASSUME Init PROVE InstrumentInv
  OBVIOUS
<1>1. File \in Nodes /\ File.kind = "File" /\ File.id = 1 /\ File.depth = 0
  BY FileNode
<1>2. src = <<File>> /\ pc = "source"
  BY Zenon DEF Init
<1> QED BY <1>1, <1>2 DEF InstrumentInv, Source, Tree, OnlyAdds

LEMMA InstrumentKept == InstrumentInv /\ [Next]_vars => InstrumentInv'
<1> SUFFICES ASSUME InstrumentInv, [Next]_vars PROVE InstrumentInv'
  OBVIOUS
<1> USE DEF InstrumentInv
<1>1. CASE Write
  <2>1. PICK piece : Add(piece) /\ (piece = <<File>> \/ \E i \in Open : piece \in Pieces(i))
    BY <1>1 DEF Write
  <2>2. Fitting(piece)
    <3>1. CASE piece = <<File>>
      <4>1. File \in Nodes /\ File.kind = "File" /\ File.depth = 0
        BY FileNode
      <4> QED BY <3>1, <4>1 DEF Fitting
    <3>2. CASE \E i \in Open : piece \in Pieces(i)
      BY <3>2, PiecesFit, Zenon DEF Open
    <3> QED BY <2>1, <3>1, <3>2
  <2>3. Source(src')
    BY <2>1, <2>2, SourceAdds
  <2>4. pc' = pc /\ pc = "source"
    BY <2>1 DEF Add
  <2> QED BY <2>3, <2>4 DEF OnlyAdds
<1>2. CASE First
  BY <1>2, InstrumentAssumption DEF First, OnlyAdds
<1>3. CASE Rewrite
  <2>1. pc = "identified" /\ src' = src /\ mode' = mode /\ Source(src)
    BY <1>3 DEF Rewrite
  <2>2. CASE mode = "traceOnly"
    <3>1. pc' = "rewritten" /\ out' = rewrite_traceOnly(src)
      BY <1>3, <2>2 DEF Rewrite
    <3>2. Extends(out', src)
      BY <2>1, <3>1, TraceOnlyKeeps
    <3> QED BY <2>1, <3>1, <3>2 DEF OnlyAdds
  <2>3. CASE mode # "traceOnly"
    <3> DEFINE r == rewrite_sched(src, usages, mode)
    <3>1. /\ pc' = IF r.panic THEN "panic" ELSE "rewritten"
          /\ out' = IF r.panic THEN <<>> ELSE r.out
      BY <1>3, <2>3 DEF Rewrite
    <3>2. ~r.panic => Extends(r.out, src)
      BY <2>1, SchedRewriteKeeps
    <3> HIDE DEF r
    <3> QED BY <2>1, <3>1, <3>2 DEF OnlyAdds
  <2> QED BY <2>2, <2>3
<1>4. CASE Second
  BY <1>4 DEF Second, OnlyAdds
<1>5. CASE Finished \/ UNCHANGED vars
  BY <1>5 DEF Finished, vars, OnlyAdds
<1> QED BY <1>1, <1>2, <1>3, <1>4, <1>5 DEF Next

\* The package is a sequence of trees whose nodes are numbered, and what the
\* rewritings return extends it.
THEOREM InstrumentInductive == Spec => []InstrumentInv
BY InstrumentStarts, InstrumentKept, PTL DEF Spec

\* However large the package and whatever it declares and calls, none of the
\* Instrument functions loses, doubles, changes or moves any of its nodes
\* (rewrite.go: trees are edited while they are walked).
THEOREM NothingIsLost == Spec => []OnlyAdds
<1>1. InstrumentInv => OnlyAdds
  BY DEF InstrumentInv
<1> QED BY <1>1, InstrumentInductive, PTL
-----------------------------------------------------------------------------
(***************************************************************************)
(* Trees                                                                   *)
(***************************************************************************)
Under(t, h, i)   == h < i /\ \A k \in (h + 1)..i : t[k].depth > t[h].depth
ChildOf(t, h, i) == Under(t, h, i) /\ t[i].depth = t[h].depth + 1

LEMMA BelowIsUnder ==
    ASSUME NEW t \in Seq(Nodes), NEW h \in 1..Len(t)
    PROVE  /\ \A i \in 1..Len(t) : i \in Below(t, h) <=> Under(t, h, i)
           /\ Below(t, h) \subseteq 1..Len(t)
<1>1. /\ Len(t) \in Nat /\ End(t, h) \in h..Len(t)
      /\ \A k \in (h + 1)..End(t, h) : t[k].depth > t[h].depth
      /\ End(t, h) = Len(t) \/ t[End(t, h) + 1].depth <= t[h].depth
  BY EndFound
<1> DEFINE e == End(t, h)
<1> HIDE DEF e
<1>2. ASSUME NEW k \in 1..Len(t) PROVE t[k].depth \in Nat
  <2>1. t[k] \in Nodes
    OBVIOUS
  <2> QED BY <2>1 DEF Nodes
<1>3. ASSUME NEW i \in 1..Len(t), i \in (h + 1)..e PROVE Under(t, h, i)
  BY <1>1, <1>3 DEF Under, e
<1>4. ASSUME NEW i \in 1..Len(t), Under(t, h, i) PROVE i \in (h + 1)..e
  <2>1. ASSUME e < i PROVE FALSE
    <3>1. e + 1 \in (h + 1)..i /\ e # Len(t) /\ e + 1 \in 1..Len(t)
      BY <1>1, <2>1 DEF e
    <3>2. t[e + 1].depth > t[h].depth /\ t[e + 1].depth <= t[h].depth
      BY <1>1, <1>4, <3>1 DEF Under, e
    <3> QED BY <1>2, <3>1, <3>2
  <2> QED BY <1>1, <1>4, <2>1 DEF Under, e
<1>5. Below(t, h) = (h + 1)..e
  BY DEF Below, e
<1>6. (h + 1)..e \subseteq 1..Len(t)
  BY <1>1 DEF e
<1> QED BY <1>3, <1>4, <1>5, <1>6

LEMMA ChildrenAre ==
    ASSUME NEW t \in Seq(Nodes), NEW h \in 1..Len(t)
    PROVE  Children(t, h) = {i \in 1..Len(t) : ChildOf(t, h, i)}
BY BelowIsUnder DEF Children, ChildOf

LEMMA ParentIs ==
    ASSUME NEW t \in Seq(Nodes), NEW i \in 1..Len(t), NEW h \in 1..Len(t), ChildOf(t, h, i)
    PROVE  Parent(t, i) = h
<1>1. ASSUME NEW k \in 1..Len(t) PROVE t[k].depth \in Nat
  <2>1. t[k] \in Nodes
    OBVIOUS
  <2> QED BY <2>1 DEF Nodes
<1> DEFINE P(g) == t[g].depth = t[i].depth - 1 /\ i <= End(t, g)
<1>2. ASSUME NEW g \in 1..(i - 1) PROVE P(g) <=> ChildOf(t, g, i)
  <2>1. g \in 1..Len(t) /\ End(t, g) \in g..Len(t) /\ Len(t) \in Nat
    <3>1. g \in 1..Len(t)
      OBVIOUS
    <3> QED BY <3>1, EndFound
  <2>2. i \in Below(t, g) <=> Under(t, g, i)
    BY <2>1, BelowIsUnder
  <2>3. i \in Below(t, g) <=> i <= End(t, g)
    BY <2>1 DEF Below
  <2>4. t[g].depth \in Nat /\ t[i].depth \in Nat
    BY <1>1, <2>1
  <2>5. i \in (g + 1)..i
    OBVIOUS
  <2> QED BY <2>2, <2>3, <2>4, <2>5 DEF ChildOf
<1>3. h \in 1..(i - 1)
  BY DEF ChildOf, Under
<1>4. ASSUME NEW g \in 1..(i - 1), ChildOf(t, g, i), NEW f \in 1..(i - 1), ChildOf(t, f, i), g < f
      PROVE  FALSE
  <2>1. f \in (g + 1)..i /\ f \in 1..Len(t) /\ g \in 1..Len(t)
    BY <1>4
  <2>2. t[f].depth > t[g].depth /\ t[i].depth = t[g].depth + 1 /\ t[i].depth = t[f].depth + 1
    BY <1>4, <2>1 DEF ChildOf, Under
  <2> QED BY <1>1, <2>1, <2>2
<1>5. \A g \in 1..(i - 1) : P(g) => g = h
  BY <1>2, <1>3, <1>4
<1>6. Parent(t, i) = CHOOSE g \in 1..(i - 1) : P(g)
  BY DEF Parent
<1>7. P(h)
  BY <1>2, <1>3
<1> HIDE DEF P
<1> QED BY <1>3, <1>5, <1>6, <1>7

\* How a package is built, as far as the rewritings go.
Case(n) == n.kind \in {"Clause", "Default", "Case"}

Branching == {"Select", "Switch"}
Holding   == Branching \cup {"Func", "Range"}

Shape(n) ==
    /\ n.kind \in {"File", "Ident", "Block"} => ~n.list
    /\ n.kind \in {"File", "Func", "Var"} \/ Case(n) => n.begins
    /\ n.kind \in {"Func", "Var"} \/ Case(n) => n.list
    /\ n.kind = "Block" => ~n.begins

\* Of what begins a line, this alone is no element of a list.
Listed(kind, holder) == kind # "Ident" /\ holder # "Label" /\ ~(kind = "If" /\ holder = "If")

HoldsCases(t, h) == h > 1 /\ t[h].kind = "Block" /\ t[h - 1].kind \in Branching

Fits(t, h, i) ==
    /\ t[i].begins => (t[i].list <=> Listed(t[i].kind, t[h].kind))
    /\ Case(t[i]) <=> HoldsCases(t, h)
    /\ t[h].kind \in Branching => i = h + 1
    /\ t[h].kind # "Ident" /\ (t[h].kind \in {"Send", "Recv"} => t[i].kind = "Ident")

Attached(t, i) == Shape(t[i]) /\ (t[i].depth > 0 => \E h \in 1..(i - 1) : ChildOf(t, h, i) /\ Fits(t, h, i))
Followed(t, i) ==
    /\ t[i].kind \in Holding =>
          i < Len(t) /\ t[i + 1].kind = "Block" /\ t[i + 1].depth = t[i].depth + 1
    /\ t[i].kind = "File" /\ i < Len(t) => t[i + 1].begins

Grammar(t) == \A i \in DOMAIN t : Attached(t, i) /\ Followed(t, i)

\* What may be written after node i, the last of its depth: a piece of code that
\* begins a line and is one statement, declaration or case.
Bare == {"Send", "Recv"}
Forms(piece, d) ==
    /\ piece \in Seq(Nodes) /\ Len(piece) \in 1..3
    /\ \A k \in 1..Len(piece) : Shape(piece[k])
    /\ piece[1].begins /\ piece[1].depth = d
    /\ Len(piece) > 1 => /\ piece[2].depth = d + 1 /\ piece[2].kind \in {"Ident", "Block", "Recv"}
                         /\ piece[2].kind = "Recv" => ~piece[2].begins
                         /\ piece[1].kind \notin {"Block", "Ident"}
                         /\ piece[1].kind \in Bare => piece[2].kind = "Ident"
    /\ Len(piece) > 2 => /\ piece[3].depth \in {d + 1, d + 2} /\ piece[3].kind \in {"Ident", "Block", "Send"}
                         /\ ~piece[3].begins /\ piece[1].kind \notin Branching \cup Bare
                         /\ piece[3].depth = d + 2 =>
                               piece[2].kind = "Block" \/ (piece[2].kind = "Recv" /\ piece[3].kind = "Ident")
    /\ piece[1].kind = "File" => Len(piece) = 1
    /\ piece[1].kind \in Holding => Len(piece) > 1 /\ piece[2].kind = "Block"

Goes(n, t, i) ==
    /\ n.list <=> Listed(n.kind, t[i].kind)
    /\ Case(n) <=> HoldsCases(t, i)
    /\ t[i].kind \notin Branching \cup Bare \cup {"Ident"}

LEMMA GrammarGrows ==
    ASSUME NEW s \in Seq(Nodes), Len(s) > 0, Grammar(s),
           NEW new, NEW d \in Nat, Forms(new, d),
           d > 0 => \E i \in 1..Len(s) : /\ d = s[i].depth + 1 /\ Goes(new[1], s, i)
                                         /\ \A k \in (i + 1)..Len(s) : s[k].depth > s[i].depth
    PROVE  Grammar(s \o new)
<1> DEFINE T == s \o new
           n == Len(s)
           m == Len(new)
<1>1. /\ T \in Seq(Nodes) /\ Len(T) = n + m /\ n \in Nat /\ n > 0 /\ m \in 1..3
      /\ \A k \in 1..n : T[k] = s[k]
      /\ \A k \in 1..m : T[n + k] = new[k]
  BY Joined DEF Forms
<1> HIDE DEF T, n, m
<1>2. DOMAIN s = 1..n /\ DOMAIN T = 1..(n + m) /\ Len(s) = n /\ Len(new) = m
  BY <1>1 DEF n, m
<1>3. \A k \in 1..(n + m) : T[k].depth \in Nat
  <2>1. \A k \in 1..(n + m) : T[k] \in Nodes
    BY <1>1, <1>2
  <2> QED BY <2>1 DEF Nodes
<1>4. ASSUME NEW i \in 1..n, NEW h \in 1..(i - 1)
      PROVE  (ChildOf(s, h, i) => ChildOf(T, h, i)) /\ (Fits(s, h, i) => Fits(T, h, i))
  <2>1. T[i] = s[i] /\ T[h] = s[h] /\ \A k \in (h + 1)..i : T[k] = s[k]
    BY <1>1
  <2>2. h > 1 => T[h - 1] = s[h - 1]
    BY <1>1
  <2> QED BY <2>1, <2>2 DEF ChildOf, Under, Fits, HoldsCases
<1>5. ASSUME NEW i \in 1..n PROVE Attached(T, i) /\ Followed(T, i)
  <2>1. Attached(s, i) /\ Followed(s, i) /\ T[i] = s[i]
    BY <1>1, <1>2 DEF Grammar
  <2>2. Attached(T, i)
    BY <1>4, <2>1 DEF Attached
  <2>3. Followed(T, i)
    <3>1. CASE i < n
      <4>1. T[i + 1] = s[i + 1]
        BY <1>1, <3>1
      <4> QED BY <1>1, <1>2, <2>1, <3>1, <4>1 DEF Followed
    <3>2. CASE i = n
      <4>1. T[n + 1].begins
        BY <1>1, <1>2 DEF Forms
      <4> QED BY <1>1, <1>2, <2>1, <3>2, <4>1 DEF Followed
    <3> QED BY <1>1, <3>1, <3>2
  <2> QED BY <2>2, <2>3
<1>6. Attached(T, n + 1)
  <2>1. T[n + 1] = new[1] /\ Shape(new[1]) /\ new[1].depth = d /\ n + 1 \in 1..(n + m)
    BY <1>1, <1>2 DEF Forms
  <2>2. ASSUME d > 0 PROVE \E h \in 1..n : ChildOf(T, h, n + 1) /\ Fits(T, h, n + 1)
    <3>1. PICK i \in 1..n : /\ d = s[i].depth + 1 /\ Goes(new[1], s, i)
                            /\ \A k \in (i + 1)..n : s[k].depth > s[i].depth
      BY <1>2, <2>2
    <3>2. T[i] = s[i] /\ (i > 1 => T[i - 1] = s[i - 1])
      BY <1>1
    <3>3. ASSUME NEW k \in (i + 1)..(n + 1) PROVE T[k].depth > T[i].depth
      <4>1. CASE k = n + 1
        <5>1. T[i].depth \in Nat
          BY <1>1, <1>3
        <5> QED BY <2>1, <3>1, <3>2, <4>1, <5>1
      <4>2. CASE k # n + 1
        <5>1. k \in (i + 1)..n /\ k \in 1..n
          BY <1>1, <4>2
        <5> QED BY <1>1, <3>1, <3>2, <5>1
      <4> QED BY <4>1, <4>2
    <3>4. Fits(T, i, n + 1)
      BY <1>1, <1>2, <2>1, <3>1, <3>2 DEF Fits, Goes, HoldsCases, Bare, Forms
    <3>5. ChildOf(T, i, n + 1)
      <4>1. i < n + 1 /\ T[n + 1].depth = T[i].depth + 1
        BY <1>1, <2>1, <3>1, <3>2
      <4> QED BY <3>3, <4>1 DEF ChildOf, Under
    <3> QED BY <3>4, <3>5
  <2>3. (n + 1) - 1 = n
    BY <1>1
  <2> QED BY <2>1, <2>2, <2>3 DEF Attached
<1>7. ASSUME m > 1 PROVE Attached(T, n + 2)
  <2>1. /\ T[n + 1] = new[1] /\ T[n + 2] = new[2] /\ Shape(new[2]) /\ new[1].depth = d
        /\ new[2].depth = d + 1 /\ new[2].kind \in {"Ident", "Block", "Recv"}
        /\ (new[2].kind = "Recv" => ~new[2].begins) /\ new[1].kind \notin {"Block", "Ident"}
        /\ (new[1].kind \in Bare => new[2].kind = "Ident")
    BY <1>1, <1>2, <1>7 DEF Forms
  <2>2. ChildOf(T, n + 1, n + 2)
    BY <1>1, <2>1 DEF ChildOf, Under
  <2>3. Fits(T, n + 1, n + 2)
    BY <1>1, <2>1 DEF Fits, Case, HoldsCases, Listed, Shape, Branching, Bare
  <2>4. n + 1 \in 1..((n + 2) - 1)
    BY <1>1
  <2> QED BY <2>1, <2>2, <2>3, <2>4 DEF Attached
<1>8. ASSUME m > 2 PROVE Attached(T, n + 3)
  <2>1. /\ T[n + 1] = new[1] /\ T[n + 2] = new[2] /\ T[n + 3] = new[3] /\ Shape(new[3])
        /\ new[1].depth = d /\ new[2].depth = d + 1 /\ new[3].depth \in {d + 1, d + 2}
        /\ new[2].kind \in {"Ident", "Block", "Recv"} /\ new[3].kind \in {"Ident", "Block", "Send"}
        /\ new[1].kind \notin {"Block", "Ident"} /\ ~new[3].begins /\ new[1].kind \notin Branching \cup Bare
        /\ new[3].depth = d + 2 =>
              new[2].kind = "Block" \/ (new[2].kind = "Recv" /\ new[3].kind = "Ident")
    BY <1>1, <1>2, <1>8 DEF Forms
  <2>2. CASE new[3].depth = d + 1
    <3>1. ChildOf(T, n + 1, n + 3)
      <4>1. ASSUME NEW k \in ((n + 1) + 1)..(n + 3) PROVE T[k].depth > T[n + 1].depth
        <5>1. k = n + 2 \/ k = n + 3
          BY <1>1
        <5> QED BY <2>1, <2>2, <5>1
      <4> QED BY <1>1, <2>1, <2>2, <4>1 DEF ChildOf, Under
    <3>2. Fits(T, n + 1, n + 3)
      BY <2>1 DEF Fits, Case, HoldsCases, Bare
    <3>3. n + 1 \in 1..((n + 3) - 1)
      BY <1>1
    <3> QED BY <2>1, <3>1, <3>2, <3>3 DEF Attached
  <2>3. CASE new[3].depth = d + 2
    <3>1. ChildOf(T, n + 2, n + 3)
      <4>1. ASSUME NEW k \in ((n + 2) + 1)..(n + 3) PROVE T[k].depth > T[n + 2].depth
        <5>1. k = n + 3
          BY <1>1
        <5> QED BY <2>1, <2>3, <5>1
      <4> QED BY <1>1, <2>1, <2>3, <4>1 DEF ChildOf, Under
    <3>2. Fits(T, n + 2, n + 3)
      <4>1. (n + 2) - 1 = n + 1
        BY <1>1
      <4> QED BY <2>1, <2>3, <4>1 DEF Fits, Case, HoldsCases, Branching
    <3>3. n + 2 \in 1..((n + 3) - 1)
      BY <1>1
    <3> QED BY <2>1, <3>1, <3>2, <3>3 DEF Attached
  <2> QED BY <2>1, <2>2, <2>3
<1>9. /\ Followed(T, n + 1)
      /\ m > 1 => Followed(T, n + 2)
      /\ m > 2 => Followed(T, n + 3)
  <2>1. T[n + 1] = new[1] /\ (m > 1 => T[n + 2] = new[2]) /\ (m > 2 => T[n + 3] = new[3])
    BY <1>1
  <2>2. Followed(T, n + 1)
    <3>1. new[1].kind = "File" => m = 1
      BY <1>2 DEF Forms
    <3> QED BY <1>1, <1>2, <2>1, <3>1 DEF Followed, Forms
  <2>3. m > 1 => Followed(T, n + 2)
    BY <1>1, <1>2, <2>1 DEF Followed, Forms, Holding, Branching
  <2>4. m > 2 => Followed(T, n + 3)
    BY <1>1, <1>2, <2>1 DEF Followed, Forms, Holding, Branching
  <2> QED BY <2>2, <2>3, <2>4
<1>10. ASSUME NEW i \in 1..(n + m) PROVE Attached(T, i) /\ Followed(T, i)
  <2>1. i \in 1..n \/ i = n + 1 \/ (m > 1 /\ i = n + 2) \/ (m > 2 /\ i = n + 3)
    BY <1>1
  <2> QED BY <1>5, <1>6, <1>7, <1>8, <1>9, <2>1
<1> QED BY <1>2, <1>10 DEF Grammar, T

\* The nodes a piece begins with, and may go on with.
Heads(d)   == {n \in Nodes : Shape(n) /\ n.begins /\ n.depth = d /\ n.kind \notin {"File", "Block", "Ident"}}
Starts(d)  == {n \in Heads(d) : n.list /\ ~Case(n)}
Seconds(d) == {n \in Nodes : Shape(n) /\ n.depth = d + 1 /\ n.kind \in {"Ident", "Block", "Recv"}
                             /\ (n.kind = "Recv" => ~n.begins)}
Thirds(d)  == {n \in Nodes : Shape(n) /\ n.depth \in {d + 1, d + 2} /\ n.kind \in {"Ident", "Block", "Send"}
                             /\ ~n.begins}

LEMMA FormsOf ==
    ASSUME NEW d \in Nat, NEW a \in Heads(d), NEW b \in Seconds(d), NEW c \in Thirds(d)
    PROVE  /\ a.kind \notin Holding => Forms(<<a>>, d) /\ <<a>>[1] = a
           /\ (a.kind \notin Holding \/ b.kind = "Block") /\ (a.kind \in Bare => b.kind = "Ident") =>
                Forms(<<a, b>>, d) /\ <<a, b>>[1] = a
           /\ /\ a.kind \notin Branching \cup Bare /\ (a.kind \in Holding => b.kind = "Block")
              /\ (c.depth = d + 2 => b.kind = "Block" \/ (b.kind = "Recv" /\ c.kind = "Ident"))
              => Forms(<<a, b, c>>, d) /\ <<a, b, c>>[1] = a
<1>1. a \in Nodes /\ b \in Nodes /\ c \in Nodes
  BY DEF Heads, Seconds, Thirds
<1>2. ASSUME a.kind \notin Holding PROVE Forms(<<a>>, d)
  <2> DEFINE t == <<a>>
  <2>1. t \in Seq(Nodes) /\ Len(t) = 1 /\ t[1] = a
    BY <1>1
  <2> HIDE DEF t
  <2>2. Forms(t, d)
    BY <1>2, <2>1 DEF Heads, Forms
  <2> QED BY <2>2 DEF t
<1>3. ASSUME a.kind \notin Holding \/ b.kind = "Block", a.kind \in Bare => b.kind = "Ident"
      PROVE  Forms(<<a, b>>, d)
  <2> DEFINE t == <<a, b>>
  <2>1. t \in Seq(Nodes) /\ Len(t) = 2 /\ t[1] = a /\ t[2] = b
    BY <1>1
  <2> HIDE DEF t
  <2>2. \A k \in 1..2 : Shape(t[k])
    BY <2>1 DEF Heads, Seconds
  <2>3. Forms(t, d)
    BY <1>3, <2>1, <2>2 DEF Heads, Seconds, Forms
  <2> QED BY <2>3 DEF t
<1>4. ASSUME a.kind \notin Branching \cup Bare, a.kind \in Holding => b.kind = "Block",
             c.depth = d + 2 => b.kind = "Block" \/ (b.kind = "Recv" /\ c.kind = "Ident")
      PROVE  Forms(<<a, b, c>>, d)
  <2> DEFINE t == <<a, b, c>>
  <2>1. t \in Seq(Nodes) /\ Len(t) = 3 /\ t[1] = a /\ t[2] = b /\ t[3] = c
    BY <1>1
  <2> HIDE DEF t
  <2>2. \A k \in 1..3 : Shape(t[k])
    BY <2>1 DEF Heads, Seconds, Thirds
  <2>3. Forms(t, d)
    BY <1>4, <2>1, <2>2 DEF Heads, Seconds, Thirds, Forms
  <2> QED BY <2>3 DEF t
<1>5. <<a>>[1] = a /\ <<a, b>>[1] = a /\ <<a, b, c>>[1] = a
  OBVIOUS
<1>6. a.kind \notin Holding => Forms(<<a>>, d)
  BY <1>2
<1>7. (a.kind \notin Holding \/ b.kind = "Block") /\ (a.kind \in Bare => b.kind = "Ident") => Forms(<<a, b>>, d)
  BY <1>3
<1>8. /\ a.kind \notin Branching \cup Bare /\ (a.kind \in Holding => b.kind = "Block")
      /\ (c.depth = d + 2 => b.kind = "Block" \/ (b.kind = "Recv" /\ c.kind = "Ident"))
      => Forms(<<a, b, c>>, d)
  BY <1>4
<1> QED BY <1>5, <1>6, <1>7, <1>8

\* The kinds of nodes of the pieces, and where each may stand.
StartKinds == {"Expr", "Defer", "Send", "Recv", "Go", "Range", "If", "Select", "Switch", "Label"}

LEMMA StartForm ==
    ASSUME NEW d \in Nat, NEW o \in Ops,
           NEW k \in StartKinds \cup {"Var", "Func", "Default", "Clause", "Case"}
    PROVE  /\ Stmt(k, o, d) \in Heads(d) /\ Stmt(k, o, d).list /\ Stmt(k, o, d).kind = k
           /\ k \in StartKinds \cup {"Var", "Func"} => Stmt(k, o, d) \in Starts(d)
<1> DEFINE n == Stmt(k, o, d)
<1>1. k \in SyntaxKinds
  BY DEF SyntaxKinds, StartKinds
<1>2. n \in Nodes /\ n.kind = k /\ n.depth = d /\ n.begins /\ n.list
  BY <1>1 DEF Stmt, Node, Nodes
<1> HIDE DEF n
<1>3. n \in Heads(d) /\ (k \in StartKinds \cup {"Var", "Func"} => n \in Starts(d))
  BY <1>2 DEF Heads, Starts, Shape, Case, StartKinds
<1> QED BY <1>2, <1>3 DEF n

LEMMA PartForm ==
    ASSUME NEW d \in Nat, NEW o \in Ops
    PROVE  /\ Part("Ident", o, d + 1) \in Seconds(d) /\ Part("Ident", o, d + 1).kind = "Ident"
           /\ Part("Block", o, d + 1) \in Seconds(d) /\ Part("Block", o, d + 1).kind = "Block"
           /\ Part("Block", o, d + 1) \in Thirds(d) /\ Part("Block", o, d + 1).depth = d + 1
           /\ Part("Recv", o, d + 1) \in Seconds(d) /\ Part("Recv", o, d + 1).kind = "Recv"
           /\ Part("Ident", o, d + 2) \in Thirds(d) /\ Part("Ident", o, d + 2).kind = "Ident"
<1>1. d + 1 \in Nat /\ d + 2 \in Nat
  OBVIOUS
<1>2. ASSUME NEW k \in {"Ident", "Block", "Recv"}
      PROVE  /\ Part(k, o, d + 1) \in Seconds(d) /\ Part(k, o, d + 1).kind = k
             /\ Part(k, o, d + 1).depth = d + 1
             /\ k # "Recv" => Part(k, o, d + 1) \in Thirds(d) /\ Part(k, o, d + 2) \in Thirds(d)
                              /\ Part(k, o, d + 2).kind = k
  <2> DEFINE n == Part(k, o, d + 1)
             f == Part(k, o, d + 2)
  <2>1. k \in SyntaxKinds
    BY DEF SyntaxKinds
  <2>2. /\ n \in Nodes /\ n.kind = k /\ n.depth = d + 1 /\ ~n.begins /\ ~n.list
        /\ f \in Nodes /\ f.kind = k /\ f.depth = d + 2 /\ ~f.begins /\ ~f.list
    BY <1>1, <2>1 DEF Part, Node, Nodes
  <2> HIDE DEF n, f
  <2>3. n \in Seconds(d) /\ (k # "Recv" => n \in Thirds(d) /\ f \in Thirds(d))
    BY <2>2 DEF Seconds, Thirds, Shape, Case
  <2> QED BY <2>2, <2>3 DEF n, f
<1> QED BY <1>2

LEMMA EditedForm ==
    ASSUME NEW d \in Nat, NEW o \in Ops
    PROVE  /\ Later(Part("Ident", o, d + 1)) \in Seconds(d)
           /\ [Stmt("Send", o, d + 2) EXCEPT !.begins = FALSE] \in Thirds(d)
           /\ Later(Part("If", o, d)) \in Heads(d) /\ Later(Part("If", o, d)).kind = "If"
           /\ ~Later(Part("If", o, d)).list
<1>1. /\ "Ident" \in SyntaxKinds /\ "Send" \in SyntaxKinds /\ "If" \in SyntaxKinds
      /\ d + 1 \in Nat /\ d + 2 \in Nat
  BY DEF SyntaxKinds
<1> DEFINE l == Later(Part("Ident", o, d + 1))
           s == [Stmt("Send", o, d + 2) EXCEPT !.begins = FALSE]
           n == Later(Part("If", o, d))
<1>2. l \in Nodes /\ l.kind = "Ident" /\ l.depth = d + 1 /\ l.begins /\ ~l.list
  BY <1>1 DEF Part, Later, Node, Nodes
<1>3. s \in Nodes /\ s.kind = "Send" /\ s.depth = d + 2 /\ ~s.begins /\ s.list
  BY <1>1 DEF Stmt, Node, Nodes
<1>4. n \in Nodes /\ n.kind = "If" /\ n.depth = d /\ n.begins /\ ~n.list
  BY <1>1 DEF Part, Later, Node, Nodes
<1> HIDE DEF l, s, n
<1>5. l \in Seconds(d) /\ s \in Thirds(d) /\ n \in Heads(d)
  BY <1>2, <1>3, <1>4 DEF Heads, Seconds, Thirds, Shape, Case
<1> QED BY <1>4, <1>5 DEF l, s, n

\* The kinds that matter, of pieces of one, two and three nodes.
LEMMA FormsBy ==
    ASSUME NEW d \in Nat, NEW a \in Heads(d)
    PROVE  /\ a.kind \notin {"Select", "Switch", "Func", "Range"} => Forms(<<a>>, d) /\ <<a>>[1] = a
           /\ \A b \in Seconds(d) :
                \/ a.kind \notin {"Select", "Switch", "Func", "Range", "Send", "Recv"}
                \/ a.kind \notin {"Send", "Recv"} /\ b.kind = "Block"
                \/ a.kind \in {"Send", "Recv"} /\ b.kind = "Ident"
                => Forms(<<a, b>>, d) /\ <<a, b>>[1] = a
           /\ \A b \in Seconds(d), c \in Thirds(d) :
                \/ a.kind \in {"If", "Clause"} /\ c.depth = d + 1
                \/ a.kind \in {"If", "Clause"} /\ b.kind = "Recv" /\ c.kind = "Ident"
                \/ a.kind = "Func" /\ b.kind = "Block"
                => Forms(<<a, b, c>>, d) /\ <<a, b, c>>[1] = a
<1>1. (\E b \in Seconds(d) : TRUE) /\ \E c \in Thirds(d) : TRUE
  BY PartForm, OpsMembers, Zenon
<1>3. d + 1 # d + 2
  OBVIOUS
<1>4. ASSUME NEW b \in Seconds(d), NEW c \in Thirds(d)
      PROVE  /\ a.kind \notin {"Select", "Switch", "Func", "Range"} => Forms(<<a>>, d) /\ <<a>>[1] = a
             /\ \/ a.kind \notin {"Select", "Switch", "Func", "Range", "Send", "Recv"}
                \/ a.kind \notin {"Send", "Recv"} /\ b.kind = "Block"
                \/ a.kind \in {"Send", "Recv"} /\ b.kind = "Ident"
                => Forms(<<a, b>>, d) /\ <<a, b>>[1] = a
             /\ \/ a.kind \in {"If", "Clause"} /\ c.depth = d + 1
                \/ a.kind \in {"If", "Clause"} /\ b.kind = "Recv" /\ c.kind = "Ident"
                \/ a.kind = "Func" /\ b.kind = "Block"
                => Forms(<<a, b, c>>, d) /\ <<a, b, c>>[1] = a
  BY <1>3, <1>4, FormsOf DEF Holding, Branching, Bare
<1> QED BY <1>1, <1>4, Zenon

LEMMA SimpleForm ==
    ASSUME NEW d \in Nat, NEW piece \in Simple(d)
    PROVE  Forms(piece, d) /\ piece[1] \in Starts(d) /\ piece[1].kind \notin {"Func", "Var"}
<1>1. Starts(d) \subseteq Heads(d)
  BY DEF Starts
<1>2. /\ \A o \in Ops : Ident(o, d + 1) \in Seconds(d) /\ Ident(o, d + 1).kind = "Ident"
      /\ \A o \in Ops : Later(Ident(o, d + 1)) \in Seconds(d)
      /\ Block(d + 1) \in Seconds(d) /\ Block(d + 1).kind = "Block"
      /\ Block(d + 1) \in Thirds(d) /\ Block(d + 1).depth = d + 1
      /\ Part("Recv", "", d + 1) \in Seconds(d)
  BY PartForm, EditedForm, OpsMembers, Zenon DEF Ident, Block
<1>3. \A k \in StartKinds : Stmt(k, "", d) \in Starts(d) /\ Stmt(k, "", d).kind = k
  BY StartForm, OpsMembers, Zenon
<1>4. ASSUME NEW k \in StartKinds, NEW a \in Starts(d), a.kind = k
      PROVE  /\ k \in {"Send", "Recv"} => Forms(<<a>>, d) /\ <<a>>[1] = a
             /\ \A b \in Seconds(d) :
                  \/ k \in {"Expr", "Defer"}
                  \/ k \notin {"Send", "Recv"} /\ b.kind = "Block"
                  \/ k \in {"Send", "Recv"} /\ b.kind = "Ident"
                  => Forms(<<a, b>>, d) /\ <<a, b>>[1] = a
             /\ \A b \in Seconds(d), c \in Thirds(d) :
                  k = "If" /\ c.depth = d + 1 => Forms(<<a, b, c>>, d) /\ <<a, b, c>>[1] = a
             /\ a.kind \notin {"Func", "Var"}
  BY <1>1, <1>4, FormsBy DEF StartKinds
<1>5. {"Expr", "Defer", "Send", "Recv", "Go", "Range", "If", "Select", "Switch"} \subseteq StartKinds
  BY DEF StartKinds
<1>6. CASE \E o \in Calls : \/ piece = <<Stmt("Expr", "", d), Ident(o, d + 1)>>
                            \/ piece = <<Stmt("Defer", "", d), Ident(o, d + 1)>>
                            \/ piece = <<Stmt("Expr", "", d), Later(Ident(o, d + 1))>>
  <2>1. "Expr" \in StartKinds /\ "Defer" \in StartKinds /\ "Expr" \in {"Expr", "Defer"} /\ "Defer" \in {"Expr", "Defer"}
    BY <1>5
  <2>2. ASSUME NEW k \in {"Expr", "Defer"}, NEW b \in Seconds(d)
        PROVE  /\ Forms(<<Stmt(k, "", d), b>>, d) /\ <<Stmt(k, "", d), b>>[1] \in Starts(d)
               /\ <<Stmt(k, "", d), b>>[1].kind \notin {"Func", "Var"}
    <3>1. k \in StartKinds
      BY <2>1
    <3>2. Stmt(k, "", d) \in Starts(d) /\ Stmt(k, "", d).kind = k
      BY <1>3, <3>1, Zenon
    <3> QED BY <1>4, <3>1, <3>2, Zenon
  <2> QED BY <1>2, <1>6, <2>1, <2>2, OpsMembers, Zenon
<1>7. CASE \/ piece = <<Stmt("Send", "", d)>> \/ piece = <<Stmt("Recv", "", d)>>
           \/ piece = <<Stmt("Recv", "", d), Ident("Done", d + 1)>>
  <2>1. "Send" \in StartKinds /\ "Recv" \in StartKinds /\ "Send" \in {"Send", "Recv"} /\ "Recv" \in {"Send", "Recv"}
    BY <1>5
  <2>2. ASSUME NEW k \in {"Send", "Recv"}
        PROVE  /\ Forms(<<Stmt(k, "", d)>>, d) /\ <<Stmt(k, "", d)>>[1] \in Starts(d)
               /\ <<Stmt(k, "", d)>>[1].kind \notin {"Func", "Var"}
               /\ \A o \in Ops : /\ Forms(<<Stmt(k, "", d), Ident(o, d + 1)>>, d)
                                  /\ <<Stmt(k, "", d), Ident(o, d + 1)>>[1] \in Starts(d)
                                  /\ <<Stmt(k, "", d), Ident(o, d + 1)>>[1].kind \notin {"Func", "Var"}
    <3>1. k \in StartKinds
      BY <2>1
    <3>2. Stmt(k, "", d) \in Starts(d) /\ Stmt(k, "", d).kind = k
      BY <1>3, <3>1, Zenon
    <3> QED BY <1>2, <1>4, <3>1, <3>2, Zenon
  <2> QED BY <1>7, <2>1, <2>2, OpsMembers, Zenon
<1>8. CASE piece = <<Stmt("If", "", d), Part("Recv", "", d + 1), Block(d + 1)>>
  <2>1. "If" \in StartKinds
    BY <1>5
  <2> QED BY <1>2, <1>3, <1>4, <1>8, <2>1, Zenon
<1>9. CASE \E k \in {"Go", "Defer", "Range", "If", "Select", "Switch"} : piece = <<Stmt(k, "", d), Block(d + 1)>>
  <2>1. PICK k \in {"Go", "Defer", "Range", "If", "Select", "Switch"} : piece = <<Stmt(k, "", d), Block(d + 1)>>
    BY <1>9
  <2>2. k \in StartKinds /\ k \notin {"Send", "Recv"}
    BY <1>5
  <2> QED BY <1>2, <1>3, <1>4, <2>1, <2>2, Zenon
<1> QED BY <1>6, <1>7, <1>8, <1>9, Zenon DEF Simple

\* Nodes may differ in what is not asked for.
LEMMA FormsLike ==
    ASSUME NEW d \in Nat, NEW p, Forms(p, d), NEW q \in Seq(Nodes), Len(q) = Len(p),
           \A k \in 1..Len(p) : /\ q[k].kind = p[k].kind /\ q[k].depth = p[k].depth
                                /\ q[k].begins = p[k].begins /\ Shape(q[k])
    PROVE  Forms(q, d)
<1>1. Len(p) \in 1..3
  BY DEF Forms
<1>2. 1 \in 1..Len(p) /\ (Len(p) > 1 => 2 \in 1..Len(p)) /\ (Len(p) > 2 => 3 \in 1..Len(p))
  BY <1>1
<1> QED BY <1>1, <1>2 DEF Forms

\* A labelled statement is two pieces, the second inside of the first.
Labels(piece, d) ==
    /\ piece \in Seq(Nodes) /\ Len(piece) > 1 /\ Forms(<<piece[1]>>, d) /\ piece[1].kind = "Label"
    /\ Forms(Tail(piece), d + 1) /\ ~piece[2].list /\ ~Case(piece[2])

LEMMA LabelledForm ==
    ASSUME NEW d \in Nat, NEW piece \in Labelled(d)
    PROVE  Labels(piece, d) /\ piece[1] \in Starts(d)
<1>1. PICK p \in Simple(d + 1) : piece = <<Stmt("Label", "", d), [p[1] EXCEPT !.list = FALSE]>> \o Tail(p)
  BY DEF Labelled
<1> DEFINE l == Stmt("Label", "", d)
<1>2. d + 1 \in Nat
  OBVIOUS
<1>3. Forms(p, d + 1) /\ p[1] \in Starts(d + 1) /\ p[1].kind \notin {"Func", "Var"}
  BY <1>2, SimpleForm, Zenon
<1>4. l \in Starts(d) /\ l.kind = "Label"
  <2>1. \A o \in Ops : Stmt("Label", o, d) \in Starts(d) /\ Stmt("Label", o, d).kind = "Label"
    BY StartForm DEF StartKinds
  <2> QED BY <2>1, OpsMembers, Zenon
<1>5. l \in Nodes /\ l \in Heads(d)
  <2> HIDE DEF l
  <2> QED BY <1>4 DEF Starts, Heads
<1>6. Forms(<<l>>, d)
  <2> HIDE DEF l
  <2> QED BY <1>4, <1>5, FormsBy
<1> HIDE DEF l
<1>7. p \in Seq(Nodes) /\ Len(p) \in 1..3 /\ p[1] \in Nodes
  BY <1>3 DEF Forms
<1>8. /\ piece \in Seq(Nodes) /\ Len(piece) = Len(p) + 1 /\ piece[1] = l
      /\ piece[2] = [p[1] EXCEPT !.list = FALSE]
      /\ \A k \in 2..Len(p) : piece[k + 1] = p[k]
  <2> DEFINE q == <<l, [p[1] EXCEPT !.list = FALSE]>> \o Tail(p)
  <2>1. piece = q
    BY <1>1 DEF l
  <2>2. /\ q \in Seq(Nodes) /\ Len(q) = Len(p) + 1 /\ q[1] = l
        /\ q[2] = [p[1] EXCEPT !.list = FALSE]
        /\ \A k \in 2..Len(p) : q[k + 1] = p[k]
    BY <1>5, <1>7, LabelledNodes
  <2> HIDE DEF q
  <2> QED BY <2>1, <2>2
<1>9. /\ piece[2].kind = p[1].kind /\ piece[2].depth = p[1].depth /\ piece[2].begins = p[1].begins
      /\ ~piece[2].list
  BY <1>7, <1>8 DEF Nodes
<1>10. ~Case(piece[2]) /\ Shape(piece[2])
  BY <1>3, <1>9 DEF Starts, Heads, Case, Shape
<1> DEFINE v == Tail(piece)
<1>11. /\ v \in Seq(Nodes) /\ Len(v) = Len(p)
       /\ \A k \in 1..Len(p) : v[k] = piece[k + 1]
  BY <1>7, <1>8
<1> HIDE DEF v
<1>12. ASSUME NEW k \in 1..Len(p)
       PROVE  v[k].kind = p[k].kind /\ v[k].depth = p[k].depth /\ v[k].begins = p[k].begins /\ Shape(v[k])
  <2>1. v[k] = piece[k + 1]
    BY <1>11
  <2>2. CASE k = 1
    BY <1>9, <1>10, <2>1, <2>2
  <2>3. CASE k # 1
    <3>1. k \in 2..Len(p)
      BY <1>7, <2>3
    <3>2. piece[k + 1] = p[k] /\ Shape(p[k])
      BY <1>3, <1>8, <3>1 DEF Forms
    <3> QED BY <2>1, <3>2
  <2> QED BY <2>2, <2>3
<1>13. Forms(v, d + 1)
  BY <1>2, <1>3, <1>11, <1>12, FormsLike
<1>14. Len(piece) > 1
  BY <1>7, <1>8
<1> QED BY <1>4, <1>6, <1>8, <1>9, <1>10, <1>13, <1>14 DEF Labels, v

LEMMA OthersForm ==
    ASSUME NEW d \in Nat, NEW piece
    PROVE  /\ piece \in Clauses(d) \cup Cases(d) =>
                Forms(piece, d) /\ Case(piece[1]) /\ piece[1].list /\ piece[1].kind # "If"
           /\ piece \in Declarations(d) => Forms(piece, d) /\ piece[1] \in Starts(d)
           /\ piece \in ElseIfs(d) =>
                Forms(piece, d) /\ ~Case(piece[1]) /\ ~piece[1].list /\ piece[1].kind = "If"
<1>1. Starts(d) \subseteq Heads(d)
  BY DEF Starts
<1>2. /\ \A o \in Ops : Ident(o, d + 1) \in Seconds(d) /\ Ident(o, d + 1).kind = "Ident"
      /\ \A o \in Ops : Ident(o, d + 2) \in Thirds(d) /\ Ident(o, d + 2).kind = "Ident"
      /\ Block(d + 1) \in Seconds(d) /\ Block(d + 1).kind = "Block"
      /\ Block(d + 1) \in Thirds(d) /\ Block(d + 1).depth = d + 1
      /\ Part("Recv", "", d + 1) \in Seconds(d) /\ Part("Recv", "", d + 1).kind = "Recv"
      /\ [Stmt("Send", "", d + 2) EXCEPT !.begins = FALSE] \in Thirds(d)
      /\ LET n == Later(Part("If", "", d)) IN  n \in Heads(d) /\ n.kind = "If" /\ ~n.list
  BY PartForm, EditedForm, OpsMembers, Zenon DEF Ident, Block
<1>3. \A k \in {"Default", "Clause", "Case"} :
          Stmt(k, "", d) \in Heads(d) /\ Stmt(k, "", d).list /\ Stmt(k, "", d).kind = k
  <2>1. {"Default", "Clause", "Case"} \subseteq StartKinds \cup {"Var", "Func", "Default", "Clause", "Case"}
    OBVIOUS
  <2> QED BY <2>1, StartForm, OpsMembers, Zenon
<1>4. /\ \A f \in Ops : Stmt("Func", f, d) \in Starts(d) /\ Stmt("Func", f, d).kind = "Func"
      /\ Stmt("Var", "", d) \in Starts(d) /\ Stmt("Var", "", d).kind = "Var"
  <2>1. {"Func", "Var"} \subseteq StartKinds \cup {"Var", "Func", "Default", "Clause", "Case"}
        /\ {"Func", "Var"} \subseteq StartKinds \cup {"Var", "Func"}
    OBVIOUS
  <2> QED BY <2>1, StartForm, OpsMembers, Zenon
<1>5. ASSUME NEW a \in Heads(d), a.list, a.kind \in {"Default", "Clause", "Case"}
      PROVE  /\ Forms(<<a>>, d) /\ <<a>>[1] = a /\ Case(a) /\ a.kind # "If"
             /\ \A b \in Seconds(d) : Forms(<<a, b>>, d) /\ <<a, b>>[1] = a
             /\ \A b \in Seconds(d), c \in Thirds(d) :
                  a.kind = "Clause" /\ b.kind = "Recv" /\ c.kind = "Ident" =>
                    Forms(<<a, b, c>>, d) /\ <<a, b, c>>[1] = a
  BY <1>5, FormsBy DEF Case
<1>6. ASSUME NEW a \in Heads(d), a.kind = "Func", NEW b \in Seconds(d), b.kind = "Block"
      PROVE  /\ Forms(<<a, b>>, d) /\ <<a, b>>[1] = a
             /\ \A c \in Thirds(d) : Forms(<<a, b, c>>, d) /\ <<a, b, c>>[1] = a
  BY <1>6, FormsBy
<1>7. ASSUME piece \in Clauses(d) \cup Cases(d)
      PROVE  Forms(piece, d) /\ Case(piece[1]) /\ piece[1].list /\ piece[1].kind # "If"
  <2>1. ASSUME NEW k \in {"Default", "Clause", "Case"}, piece = <<Stmt(k, "", d)>>
        PROVE  Forms(piece, d) /\ Case(piece[1]) /\ piece[1].list /\ piece[1].kind # "If"
    <3>1. Stmt(k, "", d) \in Heads(d) /\ Stmt(k, "", d).list /\ Stmt(k, "", d).kind \in {"Default", "Clause", "Case"}
      BY <1>3, Zenon
    <3> QED BY <1>5, <2>1, <3>1, Zenon
  <2>2. ASSUME NEW o \in Calls, piece = <<Stmt("Clause", "", d), Part("Recv", "", d + 1), Ident(o, d + 2)>>
        PROVE  Forms(piece, d) /\ Case(piece[1]) /\ piece[1].list /\ piece[1].kind # "If"
    <3>1. /\ Stmt("Clause", "", d) \in Heads(d) /\ Stmt("Clause", "", d).list
          /\ Stmt("Clause", "", d).kind \in {"Default", "Clause", "Case"} /\ Stmt("Clause", "", d).kind = "Clause"
      BY <1>3, Zenon
    <3> QED BY <1>2, <1>5, <2>2, <3>1, OpsMembers, Zenon
  <2>3. ASSUME NEW o \in Calls, piece = <<Stmt("Case", "", d), Ident(o, d + 1)>>
        PROVE  Forms(piece, d) /\ Case(piece[1]) /\ piece[1].list /\ piece[1].kind # "If"
    <3>1. Stmt("Case", "", d) \in Heads(d) /\ Stmt("Case", "", d).list /\ Stmt("Case", "", d).kind \in {"Default", "Clause", "Case"}
      BY <1>3, Zenon
    <3> QED BY <1>2, <1>5, <2>3, <3>1, OpsMembers, Zenon
  <2>4. "Default" \in {"Default", "Clause", "Case"} /\ "Clause" \in {"Default", "Clause", "Case"}
        /\ "Case" \in {"Default", "Clause", "Case"}
    OBVIOUS
  <2>5. CASE piece \in Clauses(d)
    BY <2>5, <2>1, <2>2, <2>4, Zenon DEF Clauses
  <2>6. CASE piece \in Cases(d)
    BY <2>6, <2>1, <2>3, <2>4, Zenon DEF Cases
  <2> QED BY <1>7, <2>5, <2>6
<1>8. ASSUME piece \in Declarations(d) PROVE Forms(piece, d) /\ piece[1] \in Starts(d)
  <2>1. ASSUME NEW f \in Ops, piece = <<Stmt("Func", f, d), Block(d + 1)>>
        PROVE  Forms(piece, d) /\ piece[1] \in Starts(d)
    BY <1>1, <1>2, <1>4, <1>6, <2>1, Zenon
  <2>2. ASSUME NEW f \in Ops,
               piece = <<Stmt("Func", f, d), Block(d + 1), [Stmt("Send", "", d + 2) EXCEPT !.begins = FALSE]>>
        PROVE  Forms(piece, d) /\ piece[1] \in Starts(d)
    BY <1>1, <1>2, <1>4, <1>6, <2>2, Zenon
  <2>3. ASSUME NEW o \in Ops, piece = <<Stmt("Var", "", d), Ident(o, d + 1)>>
        PROVE  Forms(piece, d) /\ piece[1] \in Starts(d)
    <3>1. ASSUME NEW a \in Heads(d), a.kind = "Var", NEW b \in Seconds(d)
          PROVE  Forms(<<a, b>>, d) /\ <<a, b>>[1] = a
      BY <3>1, FormsBy
    <3> QED BY <1>1, <1>2, <1>4, <2>3, <3>1, Zenon
  <2> QED BY <1>8, <2>1, <2>2, <2>3, OpsMembers, Zenon DEF Declarations, Declared
<1>9. ASSUME piece \in ElseIfs(d)
      PROVE  Forms(piece, d) /\ ~Case(piece[1]) /\ ~piece[1].list /\ piece[1].kind = "If"
  <2> DEFINE n == Later(Part("If", "", d))
  <2>1. n \in Heads(d) /\ n.kind = "If" /\ ~n.list
    BY <1>2, Zenon
  <2>2. piece = <<n, Part("Recv", "", d + 1), Block(d + 1)>>
    BY <1>9, Zenon DEF ElseIfs
  <2> HIDE DEF n
  <2>3. ~Case(n)
    BY <2>1 DEF Case
  <2>4. ASSUME NEW b \in Seconds(d), NEW c \in Thirds(d), c.depth = d + 1
        PROVE  Forms(<<n, b, c>>, d) /\ <<n, b, c>>[1] = n
    BY <2>1, <2>4, FormsBy
  <2> QED BY <1>2, <2>1, <2>2, <2>3, <2>4, Zenon
<1> QED BY <1>7, <1>8, <1>9

LEMMA ParentFits ==
    ASSUME NEW t \in Seq(Nodes), NEW i \in 1..Len(t), Attached(t, i), t[i].depth > 0
    PROVE  /\ Parent(t, i) \in 1..(i - 1) /\ ChildOf(t, Parent(t, i), i) /\ Fits(t, Parent(t, i), i)
           /\ \A h \in 1..Len(t) : ChildOf(t, h, i) => Fits(t, h, i)
<1>1. PICK h \in 1..(i - 1) : ChildOf(t, h, i) /\ Fits(t, h, i)
  BY DEF Attached
<1>2. h \in 1..Len(t)
  OBVIOUS
<1>3. \A g \in 1..Len(t) : ChildOf(t, g, i) => Parent(t, i) = g
  BY ParentIs
<1> QED BY <1>1, <1>2, <1>3

\* The body of a select, a switch, a function or a loop comes next.
LEMMA BodyOf ==
    ASSUME NEW t \in Seq(Nodes), NEW h \in 1..(Len(t) - 1), t[h + 1].depth = t[h].depth + 1
    PROVE  ChildOf(t, h, h + 1) /\ Parent(t, h + 1) = h
<1>1. h \in 1..Len(t) /\ h + 1 \in 1..Len(t) /\ h < h + 1
  OBVIOUS
<1>2. t[h] \in Nodes
  BY <1>1
<1>3. ASSUME NEW k \in (h + 1)..(h + 1) PROVE t[k].depth > t[h].depth
  <2>1. k = h + 1 /\ t[h].depth \in Nat
    BY <1>2 DEF Nodes
  <2> QED BY <2>1
<1>4. ChildOf(t, h, h + 1)
  BY <1>1, <1>3 DEF ChildOf, Under
<1> QED BY <1>1, <1>4, ParentIs

LEMMA PiecesForm ==
    ASSUME Source(src), Grammar(src), NEW i \in DOMAIN src, NEW piece \in Pieces(i)
    PROVE  /\ Forms(piece, src[i].depth + 1) \/ Labels(piece, src[i].depth + 1)
           /\ Goes(piece[1], src, i)
<1> DEFINE d == src[i].depth + 1
           holder == IF i > 1 THEN src[Parent(src, i)].kind ELSE "none"
<1>1. /\ src \in Seq(Nodes) /\ Len(src) \in Nat /\ i \in 1..Len(src) /\ d \in Nat /\ src[i].depth \in Nat
      /\ Attached(src, i)
  <2>1. src \in Seq(Nodes) /\ Len(src) \in Nat /\ i \in 1..Len(src) /\ src[i] \in Nodes
    BY DEF Source, Tree
  <2> QED BY <2>1 DEF Nodes, Grammar
<1>2. ASSUME piece \in Statements(d)
      PROVE  (Forms(piece, d) \/ Labels(piece, d)) /\ piece[1] \in Starts(d)
  <2>1. CASE piece \in Simple(d)
    BY <1>1, <2>1, SimpleForm, Zenon
  <2>2. CASE piece \in Labelled(d)
    BY <1>1, <2>2, LabelledForm, Zenon
  <2> QED BY <1>2, <2>1, <2>2, Zenon DEF Statements
<1>3. ASSUME piece[1] \in Starts(d), src[i].kind \in {"File", "Block", "Clause", "Default", "Case"},
             ~HoldsCases(src, i)
      PROVE  Goes(piece[1], src, i)
  BY <1>3 DEF Goes, Starts, Heads, Listed, Branching, Bare
<1>4. src[i].kind # "Block" => ~HoldsCases(src, i)
  BY DEF HoldsCases
<1>5. CASE src[i].kind = "File"
  <2>1. piece \in Declarations(d)
    BY <1>5, Zenon DEF Pieces
  <2>2. Forms(piece, d) /\ piece[1] \in Starts(d)
    BY <1>1, <2>1, OthersForm, Zenon
  <2>3. Goes(piece[1], src, i)
    BY <1>3, <1>4, <1>5, <2>2
  <2> QED BY <2>2, <2>3
<1>6. CASE src[i].kind = "Block"
  <2>1. holder \in Branching <=> HoldsCases(src, i)
    <3>1. src[i].depth > 0 /\ i > 1
      BY <1>1, <1>6 DEF Source
    <3>2. Parent(src, i) \in 1..(i - 1) /\ Fits(src, Parent(src, i), i)
      BY <1>1, <3>1, ParentFits
    <3>3. ASSUME holder \in Branching PROVE HoldsCases(src, i)
      <4>1. src[Parent(src, i)].kind \in Branching
        BY <3>1, <3>3
      <4>2. i = Parent(src, i) + 1
        BY <3>2, <4>1 DEF Fits
      <4>3. i - 1 = Parent(src, i)
        BY <1>1, <3>2, <4>2
      <4> QED BY <1>6, <3>1, <4>1, <4>3 DEF HoldsCases
    <3>4. ASSUME HoldsCases(src, i) PROVE holder \in Branching
      <4>1. i - 1 \in 1..(Len(src) - 1) /\ i - 1 \in DOMAIN src /\ (i - 1) + 1 = i
        BY <1>1, <3>1
      <4>2. Followed(src, i - 1) /\ src[i - 1].kind \in Branching
        BY <3>4, <4>1 DEF Grammar, HoldsCases
      <4>3. src[(i - 1) + 1].depth = src[i - 1].depth + 1
        BY <4>1, <4>2 DEF Followed, Holding
      <4>4. Parent(src, (i - 1) + 1) = i - 1
        BY <1>1, <4>1, <4>3, BodyOf
      <4> QED BY <3>1, <4>1, <4>2, <4>4
    <3> QED BY <3>3, <3>4
  <2>2. /\ holder = "Select" => piece \in Clauses(d)
        /\ holder = "Switch" => piece \in Cases(d)
        /\ holder \notin {"Select", "Switch"} => piece \in Statements(d)
    BY <1>6, Zenon DEF Pieces
  <2> HIDE DEF holder
  <2>3. CASE holder \in Branching
    <3>1. Forms(piece, d) /\ Case(piece[1]) /\ piece[1].list /\ piece[1].kind # "If"
      <4>1. piece \in Clauses(d) \cup Cases(d)
        BY <2>2, <2>3 DEF Branching
      <4> QED BY <1>1, <4>1, OthersForm, Zenon
    <3>2. HoldsCases(src, i)
      BY <2>1, <2>3
    <3> QED BY <1>6, <3>1, <3>2 DEF Goes, Listed, Branching, Bare, Case
  <2>4. CASE holder \notin Branching
    <3>1. (Forms(piece, d) \/ Labels(piece, d)) /\ piece[1] \in Starts(d)
      BY <1>2, <2>2, <2>4 DEF Branching
    <3> QED BY <1>3, <1>6, <2>1, <2>4, <3>1
  <2> QED BY <2>3, <2>4
<1>7. CASE src[i].kind \in {"Clause", "Default", "Case"}
  <2>1. piece \in Statements(d)
    BY <1>7, Zenon DEF Pieces
  <2>2. (Forms(piece, d) \/ Labels(piece, d)) /\ piece[1] \in Starts(d)
    BY <1>2, <2>1
  <2> QED BY <1>3, <1>4, <1>7, <2>2
<1>8. CASE src[i].kind = "If"
  <2>1. piece \in ElseIfs(d)
    BY <1>8, Zenon DEF Pieces
  <2>2. Forms(piece, d) /\ ~Case(piece[1]) /\ ~piece[1].list /\ piece[1].kind = "If"
    BY <1>1, <2>1, OthersForm, Zenon
  <2> QED BY <1>4, <1>8, <2>2 DEF Goes, Listed, Branching, Bare
<1>9. CASE src[i].kind \notin {"File", "Block", "Clause", "Default", "Case", "If"}
  BY <1>9, Zenon DEF Pieces
<1> QED BY <1>5, <1>6, <1>7, <1>8, <1>9

\* Appending a piece only numbers its nodes.
LEMMA NumberedForms ==
    ASSUME NEW n \in Nat, NEW piece \in Seq(Nodes)
    PROVE  LET new == [k \in DOMAIN piece |-> [piece[k] EXCEPT !.id = n + k]]
           IN  /\ new \in Seq(Nodes) /\ Len(new) = Len(piece)
               /\ \A k \in 1..Len(piece) :
                     /\ new[k].kind = piece[k].kind /\ new[k].depth = piece[k].depth
                     /\ new[k].begins = piece[k].begins /\ new[k].list = piece[k].list
                     /\ new[k].op = piece[k].op
                     /\ Shape(piece[k]) => Shape(new[k])
<1> DEFINE new == [k \in DOMAIN piece |-> [piece[k] EXCEPT !.id = n + k]]
<1>1. Len(piece) \in Nat /\ DOMAIN piece = 1..Len(piece)
  OBVIOUS
<1>2. ASSUME NEW k \in 1..Len(piece)
      PROVE  /\ new[k] \in Nodes /\ new[k].kind = piece[k].kind /\ new[k].depth = piece[k].depth
             /\ new[k].begins = piece[k].begins /\ new[k].list = piece[k].list /\ new[k].op = piece[k].op
  <2>1. piece[k] \in Nodes /\ n + k \in Nat
    BY <1>1
  <2>2. new[k] = [piece[k] EXCEPT !.id = n + k]
    BY <1>1
  <2> HIDE DEF new
  <2> QED BY <2>1, <2>2 DEF Nodes
<1>3. new \in Seq(Nodes) /\ Len(new) = Len(piece)
  <2>1. new = [k \in 1..Len(piece) |-> [piece[k] EXCEPT !.id = n + k]]
    BY <1>1
  <2>2. new \in [1..Len(piece) -> Nodes]
    BY <1>2, <2>1
  <2> HIDE DEF new
  <2> QED BY <1>1, <2>2
<1>4. ASSUME NEW k \in 1..Len(piece), Shape(piece[k]) PROVE Shape(new[k])
  <2> HIDE DEF new
  <2> QED BY <1>2, <1>4 DEF Shape, Case
<1> HIDE DEF new
<1>5. /\ new \in Seq(Nodes) /\ Len(new) = Len(piece)
      /\ \A k \in 1..Len(piece) :
            /\ new[k].kind = piece[k].kind /\ new[k].depth = piece[k].depth
            /\ new[k].begins = piece[k].begins /\ new[k].list = piece[k].list
            /\ new[k].op = piece[k].op
            /\ Shape(piece[k]) => Shape(new[k])
  BY <1>2, <1>3, <1>4
<1> QED BY <1>5 DEF new

\* The statement under a label goes in with the label.
LEMMA LabelsGrow ==
    ASSUME NEW s \in Seq(Nodes), Len(s) > 0, Grammar(s),
           NEW new, NEW d \in Nat, Labels(new, d), d > 0,
           \E i \in 1..Len(s) : /\ d = s[i].depth + 1 /\ Goes(new[1], s, i)
                                /\ \A k \in (i + 1)..Len(s) : s[k].depth > s[i].depth
    PROVE  Grammar(s \o new)
<1> DEFINE a == <<new[1]>>
           S == s \o a
           b == Tail(new)
           m == Len(new)
<1>1. new \in Seq(Nodes) /\ m \in Nat /\ m > 1 /\ new[1] \in Nodes
  BY DEF Labels
<1>2. a \in Seq(Nodes) /\ Len(a) = 1 /\ a[1] = new[1] /\ Forms(a, d)
  BY <1>1 DEF Labels
<1>3. b \in Seq(Nodes) /\ Len(b) = m - 1 /\ \A k \in 1..(m - 1) : b[k] = new[k + 1]
  BY <1>1
<1>4. Forms(b, d + 1) /\ ~new[2].list /\ ~Case(new[2]) /\ new[1].kind = "Label"
  BY DEF Labels
<1> HIDE DEF a, b, m
<1>5. Grammar(S)
  BY <1>2, GrammarGrows
<1>6. /\ S \in Seq(Nodes) /\ Len(S) = Len(s) + 1
      /\ \A k \in 1..Len(s) : S[k] = s[k]
      /\ S[Len(s) + 1] = new[1]
  <2>1. /\ s \o a \in Seq(Nodes) /\ Len(s \o a) = Len(s) + Len(a)
        /\ \A k \in 1..Len(s) : (s \o a)[k] = s[k]
        /\ \A k \in 1..Len(a) : (s \o a)[Len(s) + k] = a[k]
    BY <1>2, Joined, Zenon
  <2>2. 1 \in 1..Len(a)
    BY <1>2
  <2> HIDE DEF S
  <2> QED BY <1>2, <2>1, <2>2 DEF S
<1> HIDE DEF S
<1>7. new[1].depth = d
  BY <1>2 DEF Forms
<1>8. /\ Len(s) + 1 \in 1..Len(S) /\ d + 1 = S[Len(s) + 1].depth + 1 /\ d + 1 \in Nat /\ d + 1 > 0
      /\ Len(S) > 0
      /\ \A k \in (Len(s) + 1 + 1)..Len(S) : S[k].depth > S[Len(s) + 1].depth
  BY <1>6, <1>7
<1>9. Goes(b[1], S, Len(s) + 1)
  <2>1. b[1] = new[2]
    <3>1. 1 \in 1..(m - 1) /\ 1 + 1 = 2
      BY <1>1
    <3> QED BY <1>3, <3>1
  <2> QED BY <1>4, <1>6, <2>1 DEF Goes, Listed, HoldsCases, Branching, Bare
<1>10. Grammar(S \o b)
  BY <1>4, <1>5, <1>6, <1>8, <1>9, GrammarGrows
<1>11. S \o b = s \o new
  <2>1. /\ S \o b \in Seq(Nodes) /\ Len(S \o b) = Len(S) + Len(b)
        /\ \A k \in 1..Len(S) : (S \o b)[k] = S[k]
        /\ \A k \in 1..Len(b) : (S \o b)[Len(S) + k] = b[k]
    BY <1>3, <1>6, Joined
  <2>2. /\ s \o new \in Seq(Nodes) /\ Len(s \o new) = Len(s) + Len(new)
        /\ \A k \in 1..Len(s) : (s \o new)[k] = s[k]
        /\ \A k \in 1..Len(new) : (s \o new)[Len(s) + k] = new[k]
    BY <1>1, Joined
  <2> DEFINE U == S \o b
             V == s \o new
  <2>3. Len(s) \in Nat /\ Len(U) = Len(s) + m /\ Len(V) = Len(s) + m
    BY <1>1, <1>3, <1>6, <2>1, <2>2 DEF m
  <2> HIDE DEF U, V
  <2>4. ASSUME NEW k \in 1..(Len(s) + m) PROVE U[k] = V[k]
    <3>1. CASE k <= Len(s)
      BY <1>6, <2>1, <2>2, <2>3, <3>1 DEF U, V
    <3>2. CASE k = Len(s) + 1
      <4>1. 1 \in 1..Len(new) /\ k \in 1..Len(S)
        BY <1>1, <1>6, <2>3, <3>2 DEF m
      <4> QED BY <1>6, <2>1, <2>2, <3>2, <4>1 DEF U, V
    <3>3. CASE k > Len(s) + 1
      <4> DEFINE j == k - (Len(s) + 1)
      <4>1. j \in 1..(m - 1) /\ j + 1 \in 1..Len(new) /\ k = Len(S) + j /\ k = Len(s) + (j + 1)
        BY <1>1, <1>6, <2>3, <3>3 DEF m
      <4> HIDE DEF j
      <4>2. U[k] = b[j] /\ V[k] = new[j + 1]
        BY <1>3, <2>1, <2>2, <4>1 DEF U, V
      <4> QED BY <1>3, <4>1, <4>2
    <3> QED BY <2>3, <3>1, <3>2, <3>3
  <2>5. U \in Seq(Nodes) /\ V \in Seq(Nodes)
    BY <2>1, <2>2 DEF U, V
  <2>6. DOMAIN U = 1..(Len(s) + m) /\ DOMAIN V = 1..(Len(s) + m) /\ U = [k \in DOMAIN U |-> U[k]] /\ V = [k \in DOMAIN V |-> V[k]]
    BY <2>3, <2>5
  <2>7. U = V
    BY <2>4, <2>6
  <2> QED BY <2>7 DEF U, V
<1> QED BY <1>10, <1>11

LEMMA GrammarAdds ==
    ASSUME Source(src), Grammar(src), NEW piece, NEW d \in Nat, Add(piece),
           Forms(piece, d) \/ (Labels(piece, d) /\ d > 0),
           d > 0 => \E i \in Open : d = src[i].depth + 1 /\ Goes(piece[1], src, i)
    PROVE  Grammar(src')
<1> DEFINE new == [k \in DOMAIN piece |-> [piece[k] EXCEPT !.id = Len(src) + k]]
<1>1. /\ src \in Seq(Nodes) /\ Len(src) \in Nat /\ Len(src) > 0
      /\ piece \in Seq(Nodes) /\ Len(piece) \in Nat /\ Len(piece) > 0
  BY DEF Source, Tree, Forms, Labels
<1>2. /\ new \in Seq(Nodes) /\ Len(new) = Len(piece)
      /\ \A k \in 1..Len(piece) :
                     /\ new[k].kind = piece[k].kind /\ new[k].depth = piece[k].depth
                     /\ new[k].begins = piece[k].begins /\ new[k].list = piece[k].list
                     /\ new[k].op = piece[k].op
                     /\ Shape(piece[k]) => Shape(new[k])
  BY <1>1, NumberedForms
<1>3. src' = src \o new
  BY DEF Add
<1> HIDE DEF new
<1>4. 1 \in 1..Len(piece)
  BY <1>1
<1>5. d > 0 => \E i \in 1..Len(src) : /\ d = src[i].depth + 1 /\ Goes(new[1], src, i)
                                      /\ \A k \in (i + 1)..Len(src) : src[k].depth > src[i].depth
  <2>1. SUFFICES ASSUME NEW i \in Open, d = src[i].depth + 1, Goes(piece[1], src, i)
        PROVE  /\ i \in 1..Len(src) /\ Goes(new[1], src, i)
               /\ \A k \in (i + 1)..Len(src) : src[k].depth > src[i].depth
    OBVIOUS
  <2>2. /\ i \in DOMAIN src /\ DOMAIN src = 1..Len(src)
        /\ \A k \in (i + 1)..Len(src) : src[k].depth > src[i].depth
    BY <1>1 DEF Open
  <2>3. new[1].kind = piece[1].kind /\ new[1].list = piece[1].list
    BY <1>2, <1>4
  <2>4. Goes(new[1], src, i)
    BY <2>1, <2>3 DEF Goes, Case
  <2> QED BY <2>2, <2>4
<1>6. ASSUME Forms(piece, d) PROVE Grammar(src \o new)
  <2>1. \A k \in 1..Len(piece) : Shape(piece[k])
    BY <1>6 DEF Forms
  <2>2. Forms(new, d)
    BY <1>2, <1>6, <2>1, FormsLike
  <2> QED BY <1>1, <1>5, <2>2, GrammarGrows
<1>7. ASSUME Labels(piece, d), d > 0 PROVE Grammar(src \o new)
  <2> DEFINE p == Tail(piece)
             q == Tail(new)
             a == <<piece[1]>>
             b == <<new[1]>>
             m == Len(piece)
  <2>1. m \in Nat /\ m > 1 /\ Forms(a, d) /\ Forms(p, d + 1) /\ ~piece[2].list /\ ~Case(piece[2])
        /\ piece[1].kind = "Label"
    BY <1>7 DEF Labels
  <2>2. p \in Seq(Nodes) /\ Len(p) = m - 1 /\ \A k \in 1..(m - 1) : p[k] = piece[k + 1]
    BY <1>1, <2>1
  <2>3. q \in Seq(Nodes) /\ Len(q) = m - 1 /\ \A k \in 1..(m - 1) : q[k] = new[k + 1]
    BY <1>2, <2>1
  <2>4. a \in Seq(Nodes) /\ Len(a) = 1 /\ a[1] = piece[1] /\ b \in Seq(Nodes) /\ Len(b) = 1 /\ b[1] = new[1]
    <3>1. piece[1] \in Nodes /\ new[1] \in Nodes
      BY <1>1, <1>2, <1>4
    <3> QED BY <3>1
  <2>5. m = Len(piece)
    OBVIOUS
  <2> HIDE DEF p, q, a, b, m
  <2>6. \A k \in 1..Len(a) : /\ b[k].kind = a[k].kind /\ b[k].depth = a[k].depth
                             /\ b[k].begins = a[k].begins /\ Shape(b[k])
    <3>1. Shape(a[1])
      <4>1. 1 \in 1..Len(a)
        BY <2>4
      <4> QED BY <2>1, <4>1 DEF Forms
    <3>2. \A k \in 1..Len(a) : k = 1
      BY <2>4
    <3> QED BY <1>2, <1>4, <2>4, <3>1, <3>2
  <2>7. Forms(b, d)
    BY <2>1, <2>4, <2>6, FormsLike
  <2>8. ASSUME NEW k \in 1..Len(p)
        PROVE  /\ q[k].kind = p[k].kind /\ q[k].depth = p[k].depth
               /\ q[k].begins = p[k].begins /\ Shape(q[k])
    <3>1. k \in 1..(m - 1) /\ k + 1 \in 1..Len(piece)
      BY <2>1, <2>2, <2>5
    <3>2. Shape(p[k])
      BY <2>1 DEF Forms
    <3> QED BY <1>2, <2>2, <2>3, <3>1, <3>2
  <2>9. d + 1 \in Nat
    OBVIOUS
  <2>10. Forms(q, d + 1)
    BY <2>1, <2>2, <2>3, <2>8, <2>9, FormsLike
  <2>11. new[2].kind = piece[2].kind /\ new[2].list = piece[2].list /\ new[1].kind = piece[1].kind
    <3>1. 2 \in 1..Len(piece)
      BY <2>1, <2>5
    <3> QED BY <1>2, <1>4, <3>1
  <2>12. Labels(new, d)
    BY <1>2, <2>1, <2>5, <2>7, <2>10, <2>11 DEF Labels, Case, b, q
  <2> QED BY <1>1, <1>5, <1>7, <2>12, LabelsGrow
<1> QED BY <1>3, <1>6, <1>7

\* What is written holds none of the marks of what is injected.
Unmarked(t) == \A i \in DOMAIN t : t[i].op \notin {"goat", "yields"}

Written == Calls \cup FuncNames \cup {"", "Done"}

LEMMA PieceOps ==
    ASSUME NEW k, NEW o, NEW d
    PROVE  /\ Stmt(k, o, d).op = o /\ Part(k, o, d).op = o /\ Later(Part(k, o, d)).op = o
           /\ [Stmt(k, o, d) EXCEPT !.begins = FALSE].op = o
           /\ Ident(o, d).op = o /\ Later(Ident(o, d)).op = o
BY DEF Stmt, Part, Later, Node, Ident

LEMMA OpsOf ==
    ASSUME NEW a, a.op \in Written, NEW b, b.op \in Written, NEW c, c.op \in Written
    PROVE  /\ \A k \in DOMAIN <<a>> : <<a>>[k].op \in Written
           /\ \A k \in DOMAIN <<a, b>> : <<a, b>>[k].op \in Written
           /\ \A k \in DOMAIN <<a, b, c>> : <<a, b, c>>[k].op \in Written
OBVIOUS

LEMMA SimpleOps ==
    ASSUME NEW d \in Nat, NEW piece \in Simple(d)
    PROVE  \A k \in DOMAIN piece : piece[k].op \in Written
<1>1. "" \in Written /\ "Done" \in Written /\ \A o \in Calls : o \in Written
  BY DEF Written
<1>2. \A k, o, e : o \in Written => Stmt(k, o, e).op \in Written /\ Ident(o, e).op \in Written
          /\ Later(Ident(o, e)).op \in Written /\ Part(k, o, e).op \in Written
  BY PieceOps
<1>3. \A e : Block(e).op \in Written
  BY <1>1, <1>2, Zenon DEF Block
<1>4. CASE \E o \in Calls : \/ piece = <<Stmt("Expr", "", d), Ident(o, d + 1)>>
                            \/ piece = <<Stmt("Defer", "", d), Ident(o, d + 1)>>
                            \/ piece = <<Stmt("Expr", "", d), Later(Ident(o, d + 1))>>
  BY <1>1, <1>2, <1>4, OpsOf, Zenon
<1>5. CASE \/ piece = <<Stmt("Send", "", d)>> \/ piece = <<Stmt("Recv", "", d)>>
           \/ piece = <<Stmt("Recv", "", d), Ident("Done", d + 1)>>
           \/ piece = <<Stmt("If", "", d), Part("Recv", "", d + 1), Block(d + 1)>>
  BY <1>1, <1>2, <1>3, <1>5, OpsOf, Zenon
<1>6. CASE \E k \in {"Go", "Defer", "Range", "If", "Select", "Switch"} : piece = <<Stmt(k, "", d), Block(d + 1)>>
  BY <1>1, <1>2, <1>3, <1>6, OpsOf, Zenon
<1> QED BY <1>4, <1>5, <1>6, Zenon DEF Simple

LEMMA OtherOps ==
    ASSUME NEW d \in Nat, NEW piece \in Clauses(d) \cup Cases(d) \cup Declarations(d) \cup ElseIfs(d)
    PROVE  \A k \in DOMAIN piece : piece[k].op \in Written
<1>1. "" \in Written /\ \A o \in Calls \cup FuncNames : o \in Written
  BY DEF Written
<1>2. \A k, o, e : o \in Written => Stmt(k, o, e).op \in Written /\ Ident(o, e).op \in Written
          /\ Later(Part(k, o, e)).op \in Written /\ Part(k, o, e).op \in Written
          /\ [Stmt(k, o, e) EXCEPT !.begins = FALSE].op \in Written
  BY PieceOps
<1>3. \A e : Block(e).op \in Written
  BY <1>1, <1>2, Zenon DEF Block
<1>4. CASE piece \in Clauses(d)
  BY <1>1, <1>2, <1>4, OpsOf, Zenon DEF Clauses
<1>5. CASE piece \in Cases(d)
  BY <1>1, <1>2, <1>5, OpsOf, Zenon DEF Cases
<1>6. CASE piece \in Declarations(d)
  BY <1>1, <1>2, <1>3, <1>6, OpsOf, Zenon DEF Declarations, Declared
<1>7. CASE piece \in ElseIfs(d)
  BY <1>1, <1>2, <1>3, <1>7, OpsOf, Zenon DEF ElseIfs
<1> QED BY <1>4, <1>5, <1>6, <1>7, Zenon

LEMMA LabelledOps ==
    ASSUME NEW d \in Nat, NEW piece \in Labelled(d)
    PROVE  \A k \in DOMAIN piece : piece[k].op \in Written
<1>1. PICK p \in Simple(d + 1) : piece = <<Stmt("Label", "", d), [p[1] EXCEPT !.list = FALSE]>> \o Tail(p)
  BY DEF Labelled
<1> DEFINE l == Stmt("Label", "", d)
<1>2. d + 1 \in Nat
  OBVIOUS
<1>3. Forms(p, d + 1) /\ \A k \in DOMAIN p : p[k].op \in Written
  BY <1>2, SimpleForm, SimpleOps, Zenon
<1>4. l \in Nodes /\ l.op \in Written
  <2>1. \A o \in Ops : Stmt("Label", o, d) \in Starts(d)
    BY StartForm DEF StartKinds
  <2>2. l \in Starts(d)
    BY <2>1, OpsMembers, Zenon
  <2>3. l.op \in Written
    <3>1. \A o \in Written : Stmt("Label", o, d).op \in Written
      BY PieceOps
    <3>2. "" \in Written
      BY DEF Written
    <3> QED BY <3>1, <3>2, Zenon
  <2> HIDE DEF l
  <2> QED BY <2>2, <2>3 DEF Starts, Heads
<1>5. l \in Nodes
  BY <1>4
<1> HIDE DEF l
<1>7. p \in Seq(Nodes) /\ Len(p) \in 1..3 /\ p[1] \in Nodes /\ DOMAIN p = 1..Len(p)
  BY <1>3 DEF Forms
<1>8. /\ piece \in Seq(Nodes) /\ Len(piece) = Len(p) + 1 /\ piece[1] = l
      /\ piece[2] = [p[1] EXCEPT !.list = FALSE]
      /\ \A k \in 2..Len(p) : piece[k + 1] = p[k]
  <2> DEFINE q == <<l, [p[1] EXCEPT !.list = FALSE]>> \o Tail(p)
  <2>1. piece = q
    BY <1>1 DEF l
  <2>2. /\ q \in Seq(Nodes) /\ Len(q) = Len(p) + 1 /\ q[1] = l
        /\ q[2] = [p[1] EXCEPT !.list = FALSE]
        /\ \A k \in 2..Len(p) : q[k + 1] = p[k]
    <3>1. p \in Seq(Nodes) /\ Len(p) > 0
      BY <1>7
    <3> QED BY <1>5, <3>1, LabelledNodes
  <2> HIDE DEF q
  <2> QED BY <2>1, <2>2
<1>9. piece[2].op = p[1].op /\ p[1].op \in Written
  <2>1. \A h \in Nodes : [h EXCEPT !.list = FALSE].op = h.op
    BY DEF Nodes
  <2>2. 1 \in DOMAIN p
    BY <1>7
  <2> QED BY <1>3, <1>7, <1>8, <2>1, <2>2, Zenon
<1>10. ASSUME NEW k \in DOMAIN piece PROVE piece[k].op \in Written
  <2>1. k \in 1..(Len(p) + 1)
    BY <1>8
  <2>2. CASE k = 1
    BY <1>4, <1>8, <2>2
  <2>3. CASE k = 2
    BY <1>9, <2>3
  <2>4. CASE k > 2
    <3>1. k - 1 \in 2..Len(p) /\ (k - 1) + 1 = k /\ k - 1 \in DOMAIN p
      BY <1>7, <2>1, <2>4
    <3> QED BY <1>3, <1>8, <3>1
  <2> QED BY <1>7, <2>1, <2>2, <2>3, <2>4
<1> QED BY <1>10

LEMMA UnmarkedAdds ==
    ASSUME Source(src), Unmarked(src), NEW piece, Add(piece),
           piece = <<File>> \/ \E i \in Open : piece \in Pieces(i)
    PROVE  Unmarked(src')
<1>1. Written \cap {"goat", "yields"} = {}
  BY InstrumentAssumption DEF Written
<1>2. Fitting(piece) /\ \A k \in DOMAIN piece : piece[k].op \in Written
  <2>1. CASE piece = <<File>>
    <3>1. File \in Nodes /\ File.kind = "File" /\ File.depth = 0
      BY FileNode
    <3>2. File.op \in Written
      BY DEF File, Node, Written
    <3> QED BY <2>1, <3>1, <3>2 DEF Fitting
  <2>2. CASE \E i \in Open : piece \in Pieces(i)
    <3>1. PICK i \in Open : piece \in Pieces(i)
      BY <2>2
    <3>2. i \in DOMAIN src
      BY <3>1 DEF Open
    <3> DEFINE d == src[i].depth + 1
    <3>3. d \in Nat
      <4>1. src[i] \in Nodes
        BY <3>2 DEF Source, Tree
      <4> QED BY <4>1 DEF Nodes
    <3>4. piece \in Statements(d) \cup Clauses(d) \cup Cases(d) \cup Declarations(d) \cup ElseIfs(d)
      BY <3>1, Zenon DEF Pieces
    <3> HIDE DEF d
    <3>5. \A k \in DOMAIN piece : piece[k].op \in Written
      BY <3>3, <3>4, SimpleOps, LabelledOps, OtherOps, Zenon DEF Statements
    <3> QED BY <3>1, <3>2, <3>5, PiecesFit
  <2> QED BY <2>1, <2>2
<1> DEFINE new == [k \in DOMAIN piece |-> [piece[k] EXCEPT !.id = Len(src) + k]]
<1>3. piece \in Seq(Nodes) /\ src \in Seq(Nodes) /\ Len(src) \in Nat
  BY <1>2 DEF Fitting, Source, Tree
<1>4. new \in Seq(Nodes) /\ Len(new) = Len(piece) /\ \A k \in 1..Len(piece) : new[k].op = piece[k].op
  BY <1>3, NumberedForms
<1>5. src' = src \o new
  BY DEF Add
<1> HIDE DEF new
<1>6. /\ src \o new \in Seq(Nodes) /\ Len(src \o new) = Len(src) + Len(new)
      /\ \A k \in 1..Len(src) : (src \o new)[k] = src[k]
      /\ \A k \in 1..Len(new) : (src \o new)[Len(src) + k] = new[k]
  BY <1>3, <1>4, Joined
<1>7. ASSUME NEW k \in DOMAIN (src \o new) PROVE (src \o new)[k].op \notin {"goat", "yields"}
  <2>1. k \in 1..(Len(src) + Len(new)) /\ DOMAIN src = 1..Len(src) /\ DOMAIN piece = 1..Len(piece)
    BY <1>3, <1>6
  <2>2. CASE k <= Len(src)
    <3>1. k \in DOMAIN src
      BY <1>3, <2>1, <2>2
    <3> QED BY <1>6, <2>1, <3>1 DEF Unmarked
  <2>3. CASE k > Len(src)
    <3>1. k - Len(src) \in 1..Len(new) /\ Len(src) + (k - Len(src)) = k
      BY <1>3, <1>4, <2>1, <2>3
    <3>2. (src \o new)[k] = new[k - Len(src)]
      BY <1>6, <3>1
    <3> QED BY <1>1, <1>2, <1>4, <2>1, <3>1, <3>2
  <2> QED BY <1>3, <2>1, <2>2, <2>3
<1> QED BY <1>5, <1>7 DEF Unmarked
-----------------------------------------------------------------------------
(***************************************************************************)
(* Lines                                                                   *)
(***************************************************************************)
LEMMA HasGreatest ==
    ASSUME NEW n \in Nat, NEW S \in SUBSET (0..n), S # {}
    PROVE  \E k \in S : \A j \in S : j <= k
<1> DEFINE R == {k \in 0..n : n - k \in S}
<1>1. R \in SUBSET Nat /\ R # {}
  <2>1. PICK k \in S : TRUE
    OBVIOUS
  <2>2. n - k \in 0..n /\ n - (n - k) = k
    BY <2>1
  <2>3. n - k \in R
    BY <2>1, <2>2
  <2>4. R \in SUBSET Nat
    OBVIOUS
  <2> HIDE DEF R
  <2> QED BY <2>3, <2>4
<1>2. PICK k \in R : \A j \in R : k <= j
  BY <1>1, HasLeast
<1>3. ASSUME NEW j \in S PROVE j <= n - k
  <2>1. n - j \in R /\ k \in 0..n
    <3>1. n - (n - j) = j /\ n - j \in 0..n
      OBVIOUS
    <3> QED BY <3>1
  <2> QED BY <1>2, <2>1
<1> QED BY <1>2, <1>3

LEMMA LinesCount ==
    ASSUME NEW t \in Seq(Nodes)
    PROVE  /\ Line(t, 0) = 0
           /\ \A i \in 0..Len(t) : Line(t, i) \in Nat
           /\ \A i \in 1..Len(t) : Line(t, i) = Line(t, i - 1) + (IF t[i].begins THEN 1 ELSE 0)
<1> DEFINE B(i) == {j \in 1..i : t[j].begins}
<1>1. ASSUME NEW i \in 0..Len(t) PROVE IsFiniteSet(B(i)) /\ Cardinality(B(i)) \in Nat
  <2>1. IsFiniteSet(1..i)
    BY FS_Interval
  <2>2. B(i) \subseteq 1..i
    OBVIOUS
  <2> HIDE DEF B
  <2> QED BY <2>1, <2>2, FS_Subset, FS_CardinalityType
<1>2. B(0) = {}
  OBVIOUS
<1>3. ASSUME NEW i \in 1..Len(t)
      PROVE  Cardinality(B(i)) = Cardinality(B(i - 1)) + (IF t[i].begins THEN 1 ELSE 0)
  <2>1. i - 1 \in 0..Len(t) /\ 1..i = (1..(i - 1)) \cup {i} /\ i \notin 1..(i - 1)
    OBVIOUS
  <2>2. CASE t[i].begins
    <3>1. B(i) = B(i - 1) \cup {i} /\ i \notin B(i - 1)
      BY <2>1, <2>2
    <3>2. IsFiniteSet(B(i - 1))
      BY <1>1, <2>1
    <3> HIDE DEF B
    <3> QED BY <2>2, <3>1, <3>2, FS_AddElement
  <2>3. CASE ~t[i].begins
    <3>1. B(i) = B(i - 1)
      BY <2>1, <2>3
    <3>2. Cardinality(B(i - 1)) \in Nat
      BY <1>1, <2>1
    <3> HIDE DEF B
    <3> QED BY <2>3, <3>1, <3>2
  <2> QED BY <2>2, <2>3
<1>4. ASSUME NEW i PROVE Line(t, i) = Cardinality(B(i))
  BY DEF Line
<1>5. Cardinality({}) = 0
  BY FS_EmptySet
<1> HIDE DEF B
<1> QED BY <1>1, <1>2, <1>3, <1>4, <1>5

LEMMA LinesGrow ==
    ASSUME NEW t \in Seq(Nodes), NEW i \in 0..Len(t), NEW j \in 0..Len(t), i <= j
    PROVE  /\ Line(t, i) <= Line(t, j)
           /\ i < j /\ t[j].begins => Line(t, i) < Line(t, j)
           /\ (\A k \in (i + 1)..j : ~t[k].begins) => Line(t, i) = Line(t, j)
<1> DEFINE R == {k \in 0..Len(t) : i <= k => Line(t, i) <= Line(t, k)}
           Q == {k \in 0..Len(t) : k <= j /\ (\A h \in (i + 1)..j : ~t[h].begins) /\ i <= k => Line(t, i) = Line(t, k)}
<1>1. Len(t) \in Nat /\ \A k \in 0..Len(t) : Line(t, k) \in Nat
  BY LinesCount
<1>2. \A k \in 0..Len(t) : k \in R
  <2>1. 0 \in R
    BY <1>1
  <2>2. ASSUME NEW k \in 1..Len(t), k - 1 \in R PROVE k \in R
    <3>1. Line(t, k) = Line(t, k - 1) + (IF t[k].begins THEN 1 ELSE 0) /\ k \in 0..Len(t) /\ k - 1 \in 0..Len(t)
      BY LinesCount
    <3>2. Line(t, k - 1) <= Line(t, k)
      BY <1>1, <3>1, SMTT(30)
    <3>3. i <= k => i = k \/ i <= k - 1
      OBVIOUS
    <3> QED BY <1>1, <2>2, <3>1, <3>2, <3>3
  <2> HIDE DEF R
  <2> QED BY <1>1, <2>1, <2>2, UpTo, Zenon
<1>3. \A k \in 0..Len(t) : k \in Q
  <2>1. 0 \in Q
    BY <1>1
  <2>2. ASSUME NEW k \in 1..Len(t), k - 1 \in Q PROVE k \in Q
    <3>1. Line(t, k) = Line(t, k - 1) + (IF t[k].begins THEN 1 ELSE 0) /\ k \in 0..Len(t) /\ k - 1 \in 0..Len(t)
      BY LinesCount
    <3> SUFFICES ASSUME k <= j, \A h \in (i + 1)..j : ~t[h].begins, i <= k PROVE Line(t, i) = Line(t, k)
      BY <3>1
    <3>2. CASE k = i
      BY <3>2
    <3>3. CASE k > i
      <4>1. k \in (i + 1)..j /\ i <= k - 1 /\ k - 1 <= j
        BY <3>3
      <4>2. ~t[k].begins /\ Line(t, i) = Line(t, k - 1)
        BY <2>2, <4>1
      <4> QED BY <1>1, <3>1, <4>2
    <3> QED BY <3>2, <3>3
  <2> HIDE DEF Q
  <2> QED BY <1>1, <2>1, <2>2, UpTo, Zenon
<1>4. ASSUME i < j, t[j].begins PROVE Line(t, i) < Line(t, j)
  <2>1. j \in 1..Len(t) /\ j - 1 \in 0..Len(t) /\ i <= j - 1
    BY <1>4
  <2>2. Line(t, j) = Line(t, j - 1) + 1
    BY <1>4, <2>1, LinesCount
  <2>3. Line(t, i) <= Line(t, j - 1)
    BY <1>2, <2>1
  <2> QED BY <1>1, <2>1, <2>2, <2>3
<1> QED BY <1>2, <1>3, <1>4

\* A line begins in one place.
LEMMA LineBegins ==
    ASSUME NEW t \in Seq(Nodes), NEW i \in 1..Len(t), t[1].begins
    PROVE  \E h \in 1..i : /\ t[h].begins /\ Line(t, h) = Line(t, i)
                           /\ \A k \in (h + 1)..i : ~t[k].begins
                           /\ \A g \in 1..Len(t) : t[g].begins /\ Line(t, g) = Line(t, i) => g = h
<1> DEFINE S == {h \in 1..i : t[h].begins}
<1>1. S \in SUBSET (0..i) /\ S # {} /\ i \in Nat
  <2>1. 1 \in S
    OBVIOUS
  <2> QED BY <2>1
<1>2. PICK h \in S : \A j \in S : j <= h
  BY <1>1, HasGreatest
<1>3. h \in 1..i /\ t[h].begins /\ \A k \in (h + 1)..i : ~t[k].begins
  BY <1>2
<1>4. Line(t, h) = Line(t, i)
  BY <1>3, LinesGrow
<1>5. ASSUME NEW g \in 1..Len(t), t[g].begins, Line(t, g) = Line(t, i) PROVE g = h
  <2>1. g \in 0..Len(t) /\ h \in 0..Len(t) /\ Line(t, g) \in Nat /\ Line(t, h) \in Nat
    BY <1>3, LinesCount
  <2>2. g < h => Line(t, g) < Line(t, h)
    BY <1>3, <2>1, LinesGrow
  <2>3. h < g => Line(t, h) < Line(t, g)
    BY <1>3, <1>5, <2>1, LinesGrow
  <2> QED BY <1>3, <1>4, <1>5, <2>1, <2>2, <2>3
<1> QED BY <1>3, <1>4, <1>5
-----------------------------------------------------------------------------
(***************************************************************************)
(* Where InjectSched yields                                                *)
(***************************************************************************)
Scheduled(t, lines, i) == t[i].begins /\ Line(t, i) \in lines
Yielding(t, lines, i)  == Scheduled(t, lines, i) /\ ~Converts(t[i])
Blocked(t, lines, i)   == Yielding(t, lines, i) /\ ~CanInsert(t[i])

\* What node i becomes.
Made(t, lines, i) ==
    IF Scheduled(t, lines, i) /\ Converts(t[i]) THEN astNode_convertDefer(t[i]) ELSE t[i]

\* o is what is made of the first k nodes of t, of which the ith went to pos[i].
Copied(o, t, k, lines, pos) ==
    /\ pos \in [1..k -> 1..Len(o)]
    /\ \A i, j \in 1..k : i < j => pos[i] < pos[j]
    /\ \A i \in 1..k : o[pos[i]] = Made(t, lines, i)
    /\ \A i \in 1..k : Yielding(t, lines, i) => pos[i] > 1 /\ o[pos[i] - 1] = astNode_sched(t[i].depth)
    /\ \A r \in 1..Len(o) :
          \/ \E i \in 1..k : pos[i] = r
          \/ \E i \in 1..k : Yielding(t, lines, i) /\ pos[i] = r + 1 /\ o[r] = astNode_sched(t[i].depth)

\* The state of the walk after k nodes.
Yielded(acc, t, k, lines) ==
    /\ acc.panic <=> \E i \in 1..k : Blocked(t, lines, i)
    /\ ~acc.panic => /\ acc.lines = {l \in lines : l > Line(t, k)}
                     /\ \E pos : Copied(acc.out, t, k, lines, pos)

LEMMA CopiedNext ==
    ASSUME NEW t \in Seq(Nodes), NEW lines, NEW k \in 1..Len(t), NEW o \in Seq(Nodes),
           \E pos : Copied(o, t, k - 1, lines, pos),
           NEW x \in Seq(Nodes), NEW e \in 1..2, Len(x) = Len(o) + e,
           \A r \in 1..Len(o) : x[r] = o[r], x[Len(o) + e] = Made(t, lines, k),
           Yielding(t, lines, k) <=> e = 2,
           e = 2 => x[Len(o) + 1] = astNode_sched(t[k].depth)
    PROVE  \E pos : Copied(x, t, k, lines, pos)
<1>1. PICK old : Copied(o, t, k - 1, lines, old)
  OBVIOUS
<1> DEFINE n == Len(o)
           pos == [i \in 1..k |-> IF i = k THEN n + e ELSE old[i]]
<1>2. n \in Nat /\ Len(x) = n + e /\ k \in Nat /\ \A i \in 1..k : i = k \/ i \in 1..(k - 1)
  OBVIOUS
<1>3. \A i \in 1..(k - 1) : old[i] \in 1..n
  BY <1>1 DEF Copied
<1>4. pos[k] = n + e /\ \A i \in 1..(k - 1) : pos[i] = old[i]
  BY <1>2
<1>5. pos \in [1..k -> 1..(n + e)]
  BY <1>2, <1>3
<1> HIDE DEF n, pos
<1>6. ASSUME NEW i \in 1..k, NEW j \in 1..k, i < j PROVE pos[i] < pos[j]
  <2>1. i \in 1..(k - 1)
    BY <1>6
  <2>2. CASE j = k
    BY <1>2, <1>3, <1>4, <2>1, <2>2
  <2>3. CASE j # k
    BY <1>1, <1>2, <1>4, <1>6, <2>1, <2>3 DEF Copied
  <2> QED BY <2>2, <2>3
<1>7. ASSUME NEW i \in 1..k
      PROVE  /\ x[pos[i]] = Made(t, lines, i)
             /\ Yielding(t, lines, i) =>
                  pos[i] > 1 /\ x[pos[i] - 1] = astNode_sched(t[i].depth)
  <2>1. CASE i = k
    BY <1>2, <1>4, <2>1 DEF n
  <2>2. CASE i # k
    <3>1. i \in 1..(k - 1) /\ pos[i] = old[i] /\ old[i] \in 1..n /\ x[old[i]] = o[old[i]]
      BY <1>2, <1>3, <1>4, <2>2 DEF n
    <3>2. old[i] > 1 => x[old[i] - 1] = o[old[i] - 1]
      <4>1. \A q \in 1..n : q > 1 => q - 1 \in 1..n
        BY <1>2
      <4> QED BY <3>1, <4>1 DEF n
    <3>3. /\ o[old[i]] = Made(t, lines, i)
          /\ Yielding(t, lines, i) =>
               old[i] > 1 /\ o[old[i] - 1] = astNode_sched(t[i].depth)
      BY <1>1, <3>1 DEF Copied
    <3>4. x[pos[i]] = Made(t, lines, i)
      BY <3>1, <3>3
    <3> QED BY <3>1, <3>2, <3>3, <3>4
  <2> QED BY <2>1, <2>2
<1>8. ASSUME NEW r \in 1..(n + e)
      PROVE  \/ \E i \in 1..k : pos[i] = r
             \/ \E i \in 1..k : Yielding(t, lines, i) /\ pos[i] = r + 1
                                /\ x[r] = astNode_sched(t[i].depth)
  <2>1. CASE r = n + e
    BY <1>2, <1>4, <2>1
  <2>2. CASE r # n + e /\ r > n
    <3>1. e = 2 /\ r = n + 1 /\ k \in 1..k
      BY <1>2, <2>2
    <3>2. Yielding(t, lines, k) /\ pos[k] = r + 1
      BY <1>2, <1>4, <3>1
    <3>3. x[r] = astNode_sched(t[k].depth)
      BY <3>1 DEF n
    <3> QED BY <3>1, <3>2, <3>3
  <2>3. CASE r <= n
    <3>1. r \in 1..n /\ x[r] = o[r]
      BY <1>2, <2>3 DEF n
    <3>2. \/ \E i \in 1..(k - 1) : old[i] = r
          \/ \E i \in 1..(k - 1) : Yielding(t, lines, i) /\ old[i] = r + 1
                                   /\ o[r] = astNode_sched(t[i].depth)
      BY <1>1, <3>1 DEF Copied, n
    <3>3. \A i \in 1..(k - 1) : i \in 1..k
      BY <1>2
    <3> QED BY <1>4, <3>1, <3>2, <3>3
  <2> QED BY <1>2, <2>1, <2>2, <2>3
<1>9. Copied(x, t, k, lines, pos)
  BY <1>2, <1>5, <1>6, <1>7, <1>8 DEF Copied
<1> QED BY <1>9

LEMMA YieldedNext ==
    ASSUME NEW t \in Seq(Nodes), NEW lines \in SUBSET Nat, NEW k \in 1..Len(t),
           NEW acc \in SchedState(lines), Yielded(acc, t, k - 1, lines)
    PROVE  Yielded(SchedVisit(acc, t, k), t, k, lines)
<1> DEFINE l == Line(t, k)
           n == t[k]
           new == SchedVisit(acc, t, k)
<1>1. /\ acc.out \in Seq(Nodes) /\ n \in Nodes /\ k \in Nat
      /\ acc = [out |-> acc.out, lines |-> acc.lines, panic |-> acc.panic]
      /\ l \in Nat /\ l = Line(t, k - 1) + (IF n.begins THEN 1 ELSE 0) /\ Line(t, k - 1) \in Nat
      /\ \A i \in 1..k : i = k \/ i \in 1..(k - 1)
      /\ \A i \in 1..(k - 1) : i \in 1..k
  <2>1. k \in 0..Len(t) /\ k - 1 \in 0..Len(t)
    OBVIOUS
  <2> QED BY <2>1, LinesCount DEF SchedState
<1> HIDE DEF l, n
<1>2. CASE acc.panic
  <2>1. new.panic
    BY <1>1, <1>2 DEF SchedVisit
  <2>2. \E i \in 1..k : Blocked(t, lines, i)
    BY <1>1, <1>2 DEF Yielded
  <2> QED BY <2>1, <2>2 DEF Yielded
<1>3. CASE ~acc.panic
  <2>1. /\ acc.lines = {h \in lines : h > Line(t, k - 1)}
        /\ \E pos : Copied(acc.out, t, k - 1, lines, pos)
        /\ \A i \in 1..(k - 1) : ~Blocked(t, lines, i)
    BY <1>3 DEF Yielded
  <2>2. l \in acc.lines <=> n.begins /\ l \in lines
    BY <1>1, <2>1
  <2>3. acc.lines \ {l} = {h \in lines : h > l}
    <3>1. CASE n.begins
      BY <1>1, <2>1, <3>1
    <3>2. CASE ~n.begins
      BY <1>1, <2>1, <3>2
    <3> QED BY <3>1, <3>2
  <2>4. Yielding(t, lines, k) <=> l \in acc.lines /\ ~Converts(n)
    BY <2>2 DEF Yielding, Scheduled, l, n
  <2>5. CASE l \notin acc.lines \/ Converts(n)
    <3>1. PICK b \in Nodes : /\ new.out = Append(acc.out, b) /\ ~new.panic
                             /\ new.lines = acc.lines \ {l} /\ b = Made(t, lines, k)
      <4>1. CASE l \notin acc.lines
        <5>1. new = [acc EXCEPT !.out = Append(@, n)]
          BY <4>1 DEF SchedVisit, l, n
        <5> QED BY <1>1, <1>3, <2>2, <4>1, <5>1 DEF Made, Scheduled, l, n
      <4>2. CASE l \in acc.lines /\ Converts(n)
        <5>1. new = [acc EXCEPT !.out = Append(@, astNode_convertDefer(n)), !.lines = @ \ {l}]
          BY <4>2 DEF SchedVisit, l, n
        <5>2. astNode_convertDefer(n) \in Nodes /\ astNode_convertDefer(n) = Made(t, lines, k)
          <6>1. "yields" \in Ops
            BY Zenon DEF Ops
          <6> QED BY <1>1, <2>2, <4>2, <6>1 DEF astNode_convertDefer, Made, Scheduled, Nodes, l, n
        <5> HIDE DEF new
        <5> QED BY <1>1, <1>3, <5>1, <5>2
      <4> QED BY <2>5, <4>1, <4>2
    <3> HIDE DEF new
    <3>2. /\ new.out \in Seq(Nodes) /\ Len(new.out) = Len(acc.out) + 1
          /\ \A r \in 1..Len(acc.out) : new.out[r] = acc.out[r]
          /\ new.out[Len(acc.out) + 1] = b
      BY <1>1, <3>1
    <3>3. ~Yielding(t, lines, k)
      BY <2>4, <2>5
    <3>4. \E pos : Copied(new.out, t, k, lines, pos)
      <4>1. new.out[Len(acc.out) + 1] = Made(t, lines, k)
        BY <3>1, <3>2 DEF n
      <4> DEFINE e == 1
                 o == acc.out
                 x == new.out
      <4>2. /\ e \in 1..2 /\ (Yielding(t, lines, k) <=> e = 2) /\ x \in Seq(Nodes) /\ o \in Seq(Nodes)
            /\ e # 2 /\ Len(x) = Len(o) + e /\ x[Len(o) + e] = Made(t, lines, k)
            /\ \A r \in 1..Len(o) : x[r] = o[r]
            /\ \E pos : Copied(o, t, k - 1, lines, pos)
        BY <1>1, <2>1, <3>2, <3>3, <4>1
      <4> HIDE DEF e, o, x
      <4>3. \E pos : Copied(x, t, k, lines, pos)
        BY <4>2, CopiedNext
      <4> QED BY <4>3 DEF x
    <3>5. \A i \in 1..k : ~Blocked(t, lines, i)
      BY <1>1, <2>1, <3>3 DEF Blocked
    <3>6. new.lines = {h \in lines : h > Line(t, k)}
      BY <2>3, <3>1 DEF l
    <3> QED BY <3>1, <3>4, <3>5, <3>6 DEF Yielded, new
  <2>6. CASE l \in acc.lines /\ ~Converts(n) /\ CanInsert(n)
    <3> DEFINE s == astNode_sched(n.depth)
    <3>1. new = [acc EXCEPT !.out = @ \o <<s, n>>, !.lines = @ \ {l}]
      BY <2>6 DEF SchedVisit, l, n
    <3>2. s \in Nodes
      <4>1. "goat" \in Ops
        BY Zenon DEF Ops
      <4>2. n.depth \in Nat
        BY <1>1 DEF Nodes
      <4> QED BY <4>1, <4>2 DEF astNode_sched, Stmt, Node, Nodes, SyntaxKinds
    <3> HIDE DEF new, s
    <3>3. new.out = acc.out \o <<s, n>> /\ new.lines = acc.lines \ {l} /\ ~new.panic
      BY <1>1, <1>3, <3>1
    <3>4. /\ new.out \in Seq(Nodes) /\ Len(new.out) = Len(acc.out) + 2
          /\ \A r \in 1..Len(acc.out) : new.out[r] = acc.out[r]
          /\ new.out[Len(acc.out) + 1] = s /\ new.out[Len(acc.out) + 2] = n
      <4> DEFINE b == <<s, n>>
      <4>1. b \in Seq(Nodes) /\ Len(b) = 2 /\ b[1] = s /\ b[2] = n
        BY <1>1, <3>2
      <4> HIDE DEF b
      <4>2. /\ acc.out \o b \in Seq(Nodes) /\ Len(acc.out \o b) = Len(acc.out) + 2
            /\ \A r \in 1..Len(acc.out) : (acc.out \o b)[r] = acc.out[r]
            /\ \A r \in 1..2 : (acc.out \o b)[Len(acc.out) + r] = b[r]
        <5>1. \A r \in 1..Len(b) : (acc.out \o b)[Len(acc.out) + r] = b[r]
          BY <1>1, <4>1, Joined
        <5>2. /\ acc.out \o b \in Seq(Nodes) /\ Len(acc.out \o b) = Len(acc.out) + Len(b)
              /\ \A r \in 1..Len(acc.out) : (acc.out \o b)[r] = acc.out[r]
          BY <1>1, <4>1, Joined
        <5> QED BY <4>1, <5>1, <5>2
      <4>3. new.out = acc.out \o b
        BY <3>3 DEF b
      <4> QED BY <4>1, <4>2, <4>3
    <3>5. Yielding(t, lines, k)
      BY <2>4, <2>6
    <3>6. \E pos : Copied(new.out, t, k, lines, pos)
      <4>1. new.out[Len(acc.out) + 2] = Made(t, lines, k)
        BY <2>6, <3>4 DEF n, Made
      <4> DEFINE e == 2
                 o == acc.out
                 x == new.out
      <4>2. /\ e \in 1..2 /\ (Yielding(t, lines, k) <=> e = 2) /\ x \in Seq(Nodes) /\ o \in Seq(Nodes)
            /\ Len(x) = Len(o) + e /\ x[Len(o) + e] = Made(t, lines, k)
            /\ \A r \in 1..Len(o) : x[r] = o[r]
            /\ x[Len(o) + 1] = astNode_sched(t[k].depth)
            /\ \E pos : Copied(o, t, k - 1, lines, pos)
        BY <1>1, <2>1, <3>2, <3>4, <3>5, <4>1 DEF n, s
      <4> HIDE DEF e, o, x
      <4>3. \E pos : Copied(x, t, k, lines, pos)
        BY <4>2, CopiedNext
      <4> QED BY <4>3 DEF x
    <3>7. \A i \in 1..k : ~Blocked(t, lines, i)
      <4>1. CanInsert(t[k])
        BY <2>6 DEF n
      <4> QED BY <1>1, <2>1, <4>1 DEF Blocked
    <3>8. new.lines = {h \in lines : h > Line(t, k)}
      BY <2>3, <3>3 DEF l
    <3> QED BY <3>3, <3>6, <3>7, <3>8 DEF Yielded, new
  <2>7. CASE l \in acc.lines /\ ~Converts(n) /\ ~CanInsert(n)
    <3>1. new = [acc EXCEPT !.panic = TRUE]
      BY <2>7 DEF SchedVisit, l, n
    <3>2. new.panic
      BY <1>1, <3>1
    <3>3. Blocked(t, lines, k) /\ k \in 1..k
      BY <1>1, <2>4, <2>7 DEF Blocked, n
    <3> QED BY <3>2, <3>3 DEF Yielded
  <2> QED BY <2>5, <2>6, <2>7
<1> QED BY <1>2, <1>3

\* InjectSched stops at the first line that cannot begin with a yield.
LEMMA SchedYields ==
    ASSUME NEW t \in Seq(Nodes), NEW lines \in SUBSET (Nat \ {0})
    PROVE  Yielded(InjectSched(t, lines), t, Len(t), lines) /\ InjectSched(t, lines) \in SchedState(lines)
<1> DEFINE base == [out |-> <<>>, lines |-> lines, panic |-> FALSE]
           P == {a \in Nat \X SchedState(lines) : Yielded(a[2], t, a[1], lines)}
<1>1. Len(t) \in Nat /\ lines \in SUBSET Nat
  OBVIOUS
<1>2. <<0, base>> \in P
  <2>1. base \in SchedState(lines)
    BY DEF SchedState
  <2>2. lines = {l \in lines : l > Line(t, 0)}
    <3>1. Line(t, 0) = 0
      BY LinesCount
    <3>2. \A l \in lines : l > 0
      OBVIOUS
    <3> QED BY <3>1, <3>2
  <2>3. Copied(<<>>, t, 0, lines, <<>>)
    BY DEF Copied
  <2>4. Yielded(base, t, 0, lines)
    BY <2>2, <2>3 DEF Yielded
  <2> HIDE DEF base
  <2> QED BY <2>1, <2>4
<1>3. ASSUME NEW k \in 1..Len(t), NEW x \in SchedState(lines), <<k - 1, x>> \in P
      PROVE  <<k, SchedVisit(x, t, k)>> \in P
  <2>1. Yielded(x, t, k - 1, lines) /\ k \in Nat
    BY <1>3
  <2>2. Yielded(SchedVisit(x, t, k), t, k, lines) /\ SchedVisit(x, t, k) \in SchedState(lines)
    BY <1>1, <2>1, YieldedNext, SchedTyped
  <2> QED BY <2>1, <2>2
<1>4. InjectSched(t, lines) \in SchedState(lines) /\ <<Len(t), InjectSched(t, lines)>> \in P
  <2> HIDE DEF P
  <2> QED BY <1>1, <1>2, <1>3, SchedReaches
<1> DEFINE r == InjectSched(t, lines)
<1> HIDE DEF r
<1>5. Yielded(r, t, Len(t), lines)
  BY <1>4 DEF r
<1> QED BY <1>4, <1>5 DEF r
-----------------------------------------------------------------------------
(***************************************************************************)
(* What Go does not parse: statements among the cases of a select or of a  *)
(* switch                                                                  *)
(***************************************************************************)
LEMMA MadeLike ==
    ASSUME NEW t \in Seq(Nodes), NEW lines, NEW i \in 1..Len(t)
    PROVE  LET n == Made(t, lines, i)
           IN  /\ n \in Nodes /\ n.kind = t[i].kind /\ n.depth = t[i].depth /\ n.begins = t[i].begins
               /\ n.list = t[i].list /\ n.id = t[i].id
               /\ n.op = IF Scheduled(t, lines, i) /\ Converts(t[i]) THEN "yields" ELSE t[i].op
               /\ ~Converts(t[i]) => n = t[i]
<1>1. t[i] \in Nodes
  OBVIOUS
<1>2. "yields" \in Ops
  BY Zenon DEF Ops
<1> QED BY <1>1, <1>2 DEF Made, astNode_convertDefer, Nodes

LEMMA SchedNode ==
    ASSUME NEW d \in Nat
    PROVE  LET n == astNode_sched(d)
           IN  n \in Nodes /\ n.kind = "Sched" /\ n.depth = d /\ n.op = "goat" /\ n.id = 0
<1>1. "goat" \in Ops
  BY Zenon DEF Ops
<1> QED BY <1>1 DEF astNode_sched, Stmt, Node, Nodes, SyntaxKinds

Blocks(t) == \A i \in 1..Len(t) : t[i].kind \in Holding =>
                i < Len(t) /\ t[i + 1].kind = "Block" /\ t[i + 1].depth = t[i].depth + 1

Strays(t, i, j) == t[i].kind \in Branching /\ ChildOf(t, i + 1, j) /\ ~Case(t[j])
Stray(t) == \E i, j \in 1..Len(t) : Strays(t, i, j)

LEMMA ParsesIs ==
    ASSUME NEW t \in Seq(Nodes), Blocks(t)
    PROVE  Parses(t) <=> ~Stray(t)
<1>1. DOMAIN t = 1..Len(t) /\ Len(t) \in Nat
  OBVIOUS
<1>2. ASSUME NEW i \in 1..Len(t), t[i].kind \in Branching
      PROVE  /\ i + 1 \in 1..Len(t)
             /\ Children(t, i + 1) = {j \in 1..Len(t) : ChildOf(t, i + 1, j)}
  <2>1. i + 1 \in 1..Len(t)
    BY <1>1, <1>2 DEF Blocks, Holding
  <2> QED BY <2>1, ChildrenAre
<1>3. \A k : t[k].kind \in {"Select", "Switch"} <=> t[k].kind \in Branching
  BY DEF Branching
<1> QED BY <1>1, <1>2, <1>3 DEF Parses, Stray, Strays, Case

\* Where the nodes have gone, and what was put in.
Moved(o, t, pos) ==
    /\ \A i \in 1..Len(t) : /\ pos[i] \in 1..Len(o) /\ o[pos[i]].kind = t[i].kind
                            /\ o[pos[i]].depth = t[i].depth /\ o[pos[i]].id = t[i].id
    /\ \A i, j \in 1..Len(t) : i < j <=> pos[i] < pos[j]

YieldBefore(o, t, lines, pos) ==
    \A i \in 1..Len(t) : Yielding(t, lines, i) =>
        /\ pos[i] > 1 /\ pos[i] - 1 \in 1..Len(o)
        /\ o[pos[i] - 1].kind = "Sched" /\ o[pos[i] - 1].depth = t[i].depth
        /\ o[pos[i] - 1].op = "goat" /\ o[pos[i] - 1].id = 0

MovedOrYield(o, t, lines, pos, r) ==
    \/ \E i \in 1..Len(t) : pos[i] = r
    \/ \E i \in 1..Len(t) : /\ Yielding(t, lines, i) /\ pos[i] = r + 1
                            /\ o[r].kind = "Sched" /\ o[r].depth = t[i].depth

LEMMA CopiedIs ==
    ASSUME NEW t \in Seq(Nodes), NEW lines, NEW o \in Seq(Nodes), NEW pos, Copied(o, t, Len(t), lines, pos)
    PROVE  /\ Moved(o, t, pos) /\ YieldBefore(o, t, lines, pos)
           /\ \A r \in 1..Len(o) : MovedOrYield(o, t, lines, pos, r)
<1>0. Len(o) \in Nat
  OBVIOUS
<1>1. ASSUME NEW i \in 1..Len(t)
      PROVE  /\ pos[i] \in 1..Len(o) /\ o[pos[i]].kind = t[i].kind /\ o[pos[i]].depth = t[i].depth
             /\ o[pos[i]].id = t[i].id
  <2>1. pos[i] \in 1..Len(o) /\ o[pos[i]] = Made(t, lines, i)
    BY DEF Copied
  <2> QED BY <2>1, MadeLike
<1>2. ASSUME NEW i \in 1..Len(t)
      PROVE  LET n == astNode_sched(t[i].depth)
             IN  n.kind = "Sched" /\ n.depth = t[i].depth /\ n.op = "goat" /\ n.id = 0
  <2>1. t[i] \in Nodes
    OBVIOUS
  <2>2. t[i].depth \in Nat
    BY <2>1 DEF Nodes
  <2> QED BY <2>2, SchedNode
<1>3. ASSUME NEW i \in 1..Len(t), Yielding(t, lines, i)
      PROVE  /\ pos[i] > 1 /\ pos[i] - 1 \in 1..Len(o)
             /\ o[pos[i] - 1].kind = "Sched" /\ o[pos[i] - 1].depth = t[i].depth
             /\ o[pos[i] - 1].op = "goat" /\ o[pos[i] - 1].id = 0
  <2>1. pos[i] > 1 /\ o[pos[i] - 1] = astNode_sched(t[i].depth)
    BY <1>3 DEF Copied
  <2> QED BY <1>0, <1>1, <1>2, <2>1
<1>4. ASSUME NEW i \in 1..Len(t), NEW j \in 1..Len(t) PROVE i < j <=> pos[i] < pos[j]
  <2>1. (i < j => pos[i] < pos[j]) /\ (j < i => pos[j] < pos[i])
    BY DEF Copied
  <2>2. i = j \/ i < j \/ j < i
    OBVIOUS
  <2> QED BY <1>1, <2>1, <2>2
<1>5. ASSUME NEW r \in 1..Len(o)
      PROVE  MovedOrYield(o, t, lines, pos, r)
  <2>1. \/ \E i \in 1..Len(t) : pos[i] = r
        \/ \E i \in 1..Len(t) : Yielding(t, lines, i) /\ pos[i] = r + 1 /\ o[r] = astNode_sched(t[i].depth)
    BY DEF Copied
  <2> QED BY <1>2, <2>1 DEF MovedOrYield
<1>6. Moved(o, t, pos)
  BY <1>1, <1>4 DEF Moved
<1>7. YieldBefore(o, t, lines, pos)
  BY <1>3 DEF YieldBefore
<1> QED BY <1>5, <1>6, <1>7

LEMMA PosNext ==
    ASSUME NEW t \in Seq(Nodes), NEW lines, NEW o \in Seq(Nodes), NEW pos, Copied(o, t, Len(t), lines, pos)
    PROVE  \A i \in 1..Len(t) : i < Len(t) /\ ~Yielding(t, lines, i + 1) => pos[i + 1] = pos[i] + 1
<1> DEFINE n == Len(t)
<1>0. n \in Nat /\ Copied(o, t, n, lines, pos)
  OBVIOUS
<1> HIDE DEF n
<1> SUFFICES ASSUME NEW i \in 1..n, i < n, ~Yielding(t, lines, i + 1)
             PROVE  pos[i + 1] = pos[i] + 1
  BY DEF n
<1>1. /\ i + 1 \in 1..n /\ pos[i] \in 1..Len(o) /\ pos[i + 1] \in 1..Len(o) /\ pos[i] < pos[i + 1]
      /\ Len(o) \in Nat
  BY <1>0 DEF Copied
<1>2. pos[i] + 1 \in 1..Len(o) /\ pos[i] + 1 <= pos[i + 1]
  BY <1>1
<1>3. ASSUME NEW j \in 1..n, pos[j] > pos[i] PROVE j = i + 1 \/ pos[i + 1] < pos[j]
  <2>1. j # i /\ ~(j < i)
    <3>1. j < i => pos[j] < pos[i]
      BY <1>0 DEF Copied
    <3>2. pos[j] \in 1..Len(o)
      BY <1>0 DEF Copied
    <3> QED BY <1>1, <1>3, <3>1, <3>2
  <2>2. j = i + 1 \/ i + 1 < j
    BY <2>1
  <2> QED BY <1>1, <1>0, <2>2 DEF Copied
<1>4. CASE \E j \in 1..n : pos[j] = pos[i] + 1
  <2>1. PICK j \in 1..n : pos[j] = pos[i] + 1
    BY <1>4
  <2>2. pos[j] > pos[i]
    BY <1>1, <2>1
  <2> QED BY <1>1, <1>2, <1>3, <2>1, <2>2
<1>5. CASE \E j \in 1..n : Yielding(t, lines, j) /\ pos[j] = (pos[i] + 1) + 1
  <2>1. PICK j \in 1..n : Yielding(t, lines, j) /\ pos[j] = (pos[i] + 1) + 1
    BY <1>5
  <2>2. pos[j] > pos[i] /\ j # i + 1
    BY <1>1, <2>1
  <2> QED BY <1>1, <1>2, <1>3, <2>1, <2>2
<1> QED BY <1>2, <1>4, <1>5, <1>0 DEF Copied

\* A node of a select or a function was copied, with its block behind it.
LEMMA CopiedBlock ==
    ASSUME NEW t \in Seq(Nodes), Grammar(t), NEW lines, NEW o \in Seq(Nodes), NEW pos,
           Copied(o, t, Len(t), lines, pos), NEW r \in 1..Len(o), o[r].kind \in Holding
    PROVE  \E i \in 1..Len(t) : /\ pos[i] = r /\ o[r].kind = t[i].kind /\ o[r].depth = t[i].depth /\ i < Len(t) /\ pos[i + 1] = r + 1
                                /\ t[i + 1].kind = "Block" /\ t[i + 1].depth = t[i].depth + 1
<1>0. Moved(o, t, pos) /\ MovedOrYield(o, t, lines, pos, r)
  BY CopiedIs
<1>1. o[r].kind # "Sched"
  BY DEF Holding, Branching
<1>2. PICK i \in 1..Len(t) : pos[i] = r
  BY <1>0, <1>1 DEF MovedOrYield
<1>3. o[r].kind = t[i].kind /\ o[r].depth = t[i].depth
  BY <1>0, <1>2 DEF Moved
<1>4. i < Len(t) /\ t[i + 1].kind = "Block" /\ t[i + 1].depth = t[i].depth + 1
  <2>1. t[i].kind \in Holding /\ i \in DOMAIN t
    BY <1>3
  <2>2. Followed(t, i)
    BY <2>1 DEF Grammar
  <2> QED BY <2>1, <2>2 DEF Followed
<1>5. ~t[i + 1].begins
  <2>1. i + 1 \in DOMAIN t
    BY <1>4
  <2> QED BY <1>4, <2>1 DEF Grammar, Attached, Shape
<1>6. pos[i + 1] = r + 1
  <2>1. ~Yielding(t, lines, i + 1)
    BY <1>5 DEF Yielding, Scheduled
  <2>2. pos[i + 1] = pos[i] + 1
    BY <1>4, <2>1, PosNext
  <2> QED BY <1>2, <2>2
<1> QED BY <1>2, <1>3, <1>4, <1>6

LEMMA CopiedBlocks ==
    ASSUME NEW t \in Seq(Nodes), Grammar(t), NEW lines, NEW o \in Seq(Nodes), NEW pos,
           Copied(o, t, Len(t), lines, pos)
    PROVE  Blocks(o)
<1> SUFFICES ASSUME NEW r \in 1..Len(o), o[r].kind \in Holding
             PROVE  r < Len(o) /\ o[r + 1].kind = "Block" /\ o[r + 1].depth = o[r].depth + 1
  BY DEF Blocks
<1>1. PICK i \in 1..Len(t) : /\ pos[i] = r /\ o[r].kind = t[i].kind /\ o[r].depth = t[i].depth /\ i < Len(t) /\ pos[i + 1] = r + 1
                             /\ t[i + 1].kind = "Block" /\ t[i + 1].depth = t[i].depth + 1
  BY CopiedBlock
<1>2. i + 1 \in 1..Len(t)
  BY <1>1
<1>3. pos[i + 1] \in 1..Len(o) /\ o[pos[i + 1]].kind = t[i + 1].kind /\ o[pos[i + 1]].depth = t[i + 1].depth
  <2>1. Moved(o, t, pos)
    BY CopiedIs
  <2> QED BY <1>2, <2>1 DEF Moved
<1> QED BY <1>1, <1>3

\* What yields before a case of a select does not parse, and nothing else.
LEMMA CopiedStray ==
    ASSUME NEW t \in Seq(Nodes), Grammar(t), NEW lines, NEW o \in Seq(Nodes), NEW pos,
           Copied(o, t, Len(t), lines, pos), \A i \in 1..Len(t) : Case(t[i]) => t[i].depth > 0
    PROVE  Stray(o) <=> \E i \in 1..Len(t) : Yielding(t, lines, i) /\ Case(t[i])
<1>a. /\ Moved(o, t, pos) /\ YieldBefore(o, t, lines, pos)
      /\ \A r \in 1..Len(o) : MovedOrYield(o, t, lines, pos, r)
  BY CopiedIs
<1>0. \A e \in 1..Len(t) : e < Len(t) /\ ~Yielding(t, lines, e + 1) => pos[e + 1] = pos[e] + 1
  BY PosNext
<1> DEFINE n == Len(t)
<1>1. /\ n \in Nat /\ Len(o) \in Nat /\ DOMAIN t = 1..n
      /\ \A i \in 1..n : pos[i] \in 1..Len(o) /\ o[pos[i]].kind = t[i].kind /\ o[pos[i]].depth = t[i].depth
      /\ \A i, j \in 1..n : i < j <=> pos[i] < pos[j]
  <2>1. n \in Nat /\ Len(o) \in Nat /\ DOMAIN t = 1..n
    OBVIOUS
  <2>2. \A i \in 1..n : pos[i] \in 1..Len(o) /\ o[pos[i]].kind = t[i].kind /\ o[pos[i]].depth = t[i].depth
    BY <1>a, Zenon DEF Moved
  <2>3. \A i, j \in 1..n : i < j <=> pos[i] < pos[j]
    BY <1>a, Zenon DEF Moved
  <2> QED BY <2>1, <2>2, <2>3
<1>2. \A i \in 1..n : t[i].depth \in Nat
  <2>1. \A i \in 1..n : t[i] \in Nodes
    OBVIOUS
  <2> QED BY <2>1 DEF Nodes
<1> HIDE DEF n
<1>3. ASSUME NEW i \in 1..n, Yielding(t, lines, i), Case(t[i]) PROVE Stray(o)
  <2>1. /\ Attached(t, i) /\ t[i].depth > 0
    BY <1>1, <1>3 DEF Grammar, n
  <2>2. PICK h \in 1..(i - 1) : ChildOf(t, h, i) /\ Fits(t, h, i)
    BY <2>1, <1>3 DEF Attached
  <2>3. h > 1 /\ t[h].kind = "Block" /\ t[h - 1].kind \in Branching /\ h \in 1..n /\ h - 1 \in 1..n /\ h < i
    <3>1. HoldsCases(t, h)
      BY <1>3, <2>2 DEF Fits
    <3>2. h > 1 /\ t[h].kind = "Block" /\ t[h - 1].kind \in Branching
      BY <3>1 DEF HoldsCases
    <3>3. h \in 1..n /\ h < i
      BY <1>1
    <3>4. h - 1 \in 1..n
      BY <1>1, <3>2, <3>3
    <3> QED BY <3>2, <3>3, <3>4
  <2>4. ~Yielding(t, lines, (h - 1) + 1) /\ (h - 1) + 1 = h
    <3>1. Attached(t, h)
      BY <1>1, <2>3 DEF Grammar
    <3>2. ~t[h].begins /\ (h - 1) + 1 = h
      BY <2>3, <3>1 DEF Attached, Shape
    <3> QED BY <3>2 DEF Yielding, Scheduled
  <2>5. pos[h] = pos[h - 1] + 1
    <3> DEFINE g == h - 1
    <3>1. g < n /\ g \in 1..n /\ g + 1 = h
      BY <1>1, <2>3
    <3>2. ~Yielding(t, lines, g + 1)
      BY <2>4
    <3> HIDE DEF g
    <3>3. pos[g + 1] = pos[g] + 1
      <4>1. g < Len(t) /\ g \in 1..Len(t)
        BY <3>1 DEF n
      <4> QED BY <1>0, <3>2, <4>1
    <3> QED BY <3>1, <3>3 DEF g
  <2> DEFINE r == pos[i] - 1
  <2>6. o[r].kind = "Sched" /\ o[r].depth = t[i].depth /\ r \in 1..Len(o)
    <3>1. pos[i] > 1 /\ o[pos[i] - 1].kind = "Sched" /\ o[pos[i] - 1].depth = t[i].depth
      BY <1>3, <1>a DEF n, YieldBefore
    <3>2. \A q \in 1..Len(o) : q > 1 => q - 1 \in 1..Len(o)
      BY <1>1
    <3> QED BY <1>1, <3>1, <3>2
  <2>7. pos[h] < r
    <3>1. pos[h] < pos[i] /\ pos[h] \in 1..Len(o) /\ pos[i] \in 1..Len(o)
      BY <1>1, <2>3
    <3>2. o[pos[h]].kind = "Block"
      BY <1>1, <2>3
    <3>3. pos[h] # r
      BY <2>6, <3>2
    <3> HIDE DEF r
    <3>4. r = pos[i] - 1
      BY DEF r
    <3> QED BY <3>1, <3>3, <3>4
  <2>8. ASSUME NEW q \in (pos[h] + 1)..r PROVE o[q].depth > o[pos[h]].depth
    <3>1. q \in 1..Len(o) /\ pos[h] < q /\ q < pos[i] /\ pos[h] \in 1..Len(o) /\ pos[i] \in 1..Len(o)
      BY <1>1, <2>3, <2>6
    <3>2. PICK e \in 1..n : /\ o[q].depth = t[e].depth
                            /\ pos[e] = q \/ pos[e] = q + 1
      <4>1. \/ \E e \in 1..n : pos[e] = q
            \/ \E e \in 1..n : Yielding(t, lines, e) /\ pos[e] = q + 1
                               /\ o[q].kind = "Sched" /\ o[q].depth = t[e].depth
        BY <3>1, <1>a DEF n, MovedOrYield
      <4> QED BY <1>1, <4>1
    <3>3. pos[h] < pos[e] /\ pos[e] \in 1..Len(o) /\ ~(pos[i] < pos[e])
      BY <1>1, <3>1, <3>2
    <3>4. h < e /\ ~(i < e)
      BY <1>1, <2>3, <3>3
    <3>5. e \in (h + 1)..i
      BY <2>3, <3>4
    <3>6. t[e].depth > t[h].depth /\ o[pos[h]].depth = t[h].depth
      BY <1>1, <2>2, <2>3, <3>5 DEF ChildOf, Under
    <3> QED BY <3>2, <3>6
  <2>9. ChildOf(o, pos[h], r)
    <3>1. o[r].depth = o[pos[h]].depth + 1
      BY <1>1, <2>2, <2>3, <2>6 DEF ChildOf
    <3> HIDE DEF r
    <3> QED BY <2>7, <2>8, <3>1 DEF ChildOf, Under
  <2>10. o[pos[h - 1]].kind \in Branching /\ pos[h - 1] \in 1..Len(o) /\ ~Case(o[r])
    BY <1>1, <2>3, <2>6 DEF Case
  <2>11. Strays(o, pos[h - 1], r)
    BY <2>5, <2>9, <2>10 DEF Strays
  <2> HIDE DEF r
  <2> QED BY <2>6, <2>10, <2>11 DEF Stray
<1>4. ASSUME NEW p \in 1..Len(o), NEW j \in 1..Len(o), Strays(o, p, j)
      PROVE  \E i \in 1..n : Yielding(t, lines, i) /\ Case(t[i])
  <2>1. o[p].kind \in Branching /\ ChildOf(o, p + 1, j) /\ ~Case(o[j])
    BY <1>4 DEF Strays
  <2>2. PICK g \in 1..n : /\ pos[g] = p /\ o[p].kind = t[g].kind /\ g < n /\ pos[g + 1] = p + 1
                          /\ t[g + 1].kind = "Block" /\ t[g + 1].depth = t[g].depth + 1
    BY <2>1, CopiedBlock DEF n, Holding, Branching
  <2> DEFINE h == g + 1
  <2>3. /\ h \in 1..n /\ h > 1 /\ h - 1 = g /\ t[h].kind = "Block" /\ t[g].kind \in Branching /\ pos[h] = p + 1
        /\ o[p + 1].depth = t[h].depth
    <3>1. h \in 1..n /\ h > 1 /\ h - 1 = g
      BY <1>1, <2>2
    <3> QED BY <1>1, <2>1, <2>2, <3>1
  <2> HIDE DEF h
  <2>4. PICK i \in 1..n : /\ o[j].depth = t[i].depth
                          /\ pos[i] = j \/ (pos[i] = j + 1 /\ Yielding(t, lines, i))
    <3>1. \/ \E e \in 1..n : pos[e] = j
          \/ \E e \in 1..n : Yielding(t, lines, e) /\ pos[e] = j + 1
                             /\ o[j].kind = "Sched" /\ o[j].depth = t[e].depth
      BY <1>a DEF n, MovedOrYield
    <3> QED BY <1>1, <3>1
  <2>5. p + 1 < j /\ o[j].depth = o[p + 1].depth + 1 /\ \A k \in ((p + 1) + 1)..j : o[k].depth > o[p + 1].depth
    BY <2>1 DEF ChildOf, Under
  <2>6. h < i
    <3>1. pos[h] < pos[i]
      BY <2>3, <2>4, <2>5
    <3> QED BY <1>1, <2>3, <3>1
  <2>7. ASSUME NEW q \in (h + 1)..i PROVE t[q].depth > t[h].depth
    <3>1. q \in 1..n /\ h < q /\ (q = i \/ q < i)
      BY <1>1, <2>3
    <3>2. CASE q = i
      <4>1. t[i].depth = t[h].depth + 1
        BY <2>3, <2>4, <2>5
      <4>2. t[h].depth \in Nat
        BY <1>2, <2>3
      <4> QED BY <3>2, <4>1, <4>2
    <3>3. CASE q < i
      <4>1. p + 1 < pos[q] /\ pos[q] < pos[i] /\ pos[q] \in 1..Len(o) /\ pos[i] \in 1..Len(o)
        BY <1>1, <2>3, <3>1, <3>3
      <4>2. pos[q] \in ((p + 1) + 1)..j
        BY <2>4, <4>1
      <4> QED BY <1>1, <2>3, <2>5, <3>1, <4>2
    <3> QED BY <3>1, <3>2, <3>3
  <2>8. ChildOf(t, h, i)
    <3>1. t[i].depth = t[h].depth + 1
      BY <2>3, <2>4, <2>5
    <3> QED BY <2>6, <2>7, <3>1 DEF ChildOf, Under
  <2>9. t[i].depth > 0 /\ Attached(t, i) /\ i \in 1..Len(t)
    <3>1. t[i].depth = t[h].depth + 1 /\ t[h].depth \in Nat
      BY <1>2, <2>3, <2>8 DEF ChildOf
    <3> QED BY <1>1, <3>1 DEF Grammar, n
  <2>10. Fits(t, h, i)
    BY <2>3, <2>8, <2>9, ParentFits DEF n
  <2>11. Case(t[i])
    BY <2>3, <2>10 DEF Fits, HoldsCases
  <2>12. pos[i] # j
    BY <1>1, <2>1, <2>11 DEF Case
  <2> QED BY <2>4, <2>11, <2>12
<1> QED BY <1>3, <1>4 DEF Stray, n

\* Where something is put in: behind node i or what is below it, but no select or switch,
\* and not between a function or a select and its block.
Place(x, i, e) ==
    /\ i \in 1..Len(x) /\ e \in i..Len(x)
    /\ \A p \in (i + 1)..e : x[p].depth > x[i].depth
    /\ x[i].kind \notin Branching /\ x[e].kind \notin Holding
    /\ e = i + 1 \/ e = Len(x) \/ x[e + 1].depth <= x[i].depth

Inserts(nodes, d) == \A k \in 1..Len(nodes) : nodes[k].depth = d + 2 /\ nodes[k].kind \notin Holding

LEMMA InsertStray ==
    ASSUME NEW x \in Seq(Nodes), Blocks(x), NEW i, NEW e, Place(x, i, e),
           NEW nodes \in Seq(Nodes), Inserts(nodes, x[i].depth)
    PROVE  Blocks(Insert(x, e, nodes)) /\ (Stray(Insert(x, e, nodes)) <=> Stray(x))
<1> DEFINE T == Insert(x, e, nodes)
           m == Len(nodes)
           n == Len(x)
           d == x[i].depth
           f == [k \in 1..n |-> IF k <= e THEN k ELSE k + m]
<1>1. /\ n \in Nat /\ m \in Nat /\ e \in 1..n /\ i \in 1..n /\ i <= e
      /\ \A k \in 1..n : x[k].depth \in Nat
  <2>1. \A k \in 1..n : x[k] \in Nodes
    OBVIOUS
  <2> QED BY <2>1 DEF Place, Nodes
<1>2. /\ Len(T) = n + m
      /\ \A k \in 1..e : T[k] = x[k]
      /\ \A k \in 1..m : T[e + k] = nodes[k]
      /\ \A k \in (e + 1)..n : T[k + m] = x[k]
  <2>1. e \in 0..Len(x)
    BY <1>1
  <2> QED BY <2>1, Inserted
<1> HIDE DEF T, m, n
<1>3. /\ \A k \in 1..n : f[k] \in 1..(n + m) /\ T[f[k]] = x[k]
      /\ \A k, j \in 1..n : k < j <=> f[k] < f[j]
      /\ \A k \in 1..n : k <= e => f[k] = k
      /\ \A k \in 1..n : k > e => f[k] = k + m
      /\ \A k \in 1..n : k < n /\ k # e => f[k + 1] = f[k] + 1
  BY <1>1, <1>2
<1>4. ASSUME NEW r \in 1..(n + m)
      PROVE  \/ \E k \in 1..n : f[k] = r
             \/ r \in (e + 1)..(e + m) /\ T[r].depth = d + 2 /\ T[r].kind \notin Holding
  <2>1. CASE r <= e
    <3>1. r \in 1..n /\ f[r] = r
      BY <1>1, <2>1
    <3> QED BY <3>1
  <2>2. CASE r > e + m
    <3>1. r - m \in 1..n /\ f[r - m] = r
      BY <1>1, <2>2
    <3> QED BY <3>1
  <2>3. CASE r \in (e + 1)..(e + m)
    <3>1. r - e \in 1..m /\ e + (r - e) = r
      BY <1>1, <2>3
    <3>2. T[e + (r - e)] = nodes[r - e]
      BY <1>2, <3>1
    <3>3. T[r] = nodes[r - e]
      BY <3>1, <3>2
    <3>4. nodes[r - e].depth = d + 2 /\ nodes[r - e].kind \notin Holding
      BY <3>1 DEF Inserts, m, d
    <3> QED BY <2>3, <3>3, <3>4
  <2> QED BY <1>1, <2>1, <2>2, <2>3
<1> HIDE DEF f
<1>5. \A p \in 1..n : p > i /\ p <= e => x[p].depth > d
  BY <1>1 DEF Place
<1>6. x[i].kind \notin Branching /\ x[e].kind \notin Holding /\ d \in Nat
  BY <1>1 DEF Place
<1>7. e = i + 1 \/ e = n \/ (e + 1 \in 1..n /\ x[e + 1].depth <= d)
  BY <1>1 DEF Place, n
<1>8. d = x[i].depth
  OBVIOUS
<1> HIDE DEF d
\* A node with a block keeps it.
<1>9. ASSUME NEW r \in 1..(n + m), T[r].kind \in Holding
      PROVE  \E k \in 1..n : /\ f[k] = r /\ T[r] = x[k] /\ k + 1 \in 1..n /\ f[k + 1] = r + 1
                             /\ x[k + 1].kind = "Block" /\ x[k + 1].depth = x[k].depth + 1
  <2>1. PICK k \in 1..n : f[k] = r
    BY <1>4, <1>9
  <2>2. T[r] = x[k]
    BY <1>3, <2>1
  <2>3. k < n /\ x[k + 1].kind = "Block" /\ x[k + 1].depth = x[k].depth + 1
    BY <1>9, <2>2 DEF Blocks, n
  <2>4. k # e
    BY <1>6, <1>9, <2>2
  <2>5. f[k + 1] = f[k] + 1 /\ k + 1 \in 1..n
    BY <1>1, <1>3, <2>3, <2>4
  <2> QED BY <2>1, <2>2, <2>3, <2>5
<1>10. Blocks(T)
  <2>1. Len(T) = n + m
    BY <1>2
  <2>2. ASSUME NEW r \in 1..(n + m), T[r].kind \in Holding
        PROVE  r < n + m /\ T[r + 1].kind = "Block" /\ T[r + 1].depth = T[r].depth + 1
    <3>1. PICK k \in 1..n : /\ f[k] = r /\ T[r] = x[k] /\ k + 1 \in 1..n /\ f[k + 1] = r + 1
                            /\ x[k + 1].kind = "Block" /\ x[k + 1].depth = x[k].depth + 1
      BY <1>9, <2>2
    <3>2. f[k + 1] \in 1..(n + m) /\ T[f[k + 1]] = x[k + 1]
      BY <1>3, <3>1
    <3>3. r + 1 \in 1..(n + m) /\ T[r + 1] = x[k + 1]
      BY <3>1, <3>2
    <3> QED BY <1>1, <3>1, <3>3
  <2> QED BY <2>1, <2>2 DEF Blocks
<1>11. ASSUME NEW h \in 1..n, NEW j \in 1..n
       PROVE  Under(T, f[h], f[j]) => Under(x, h, j)
  <2> SUFFICES ASSUME Under(T, f[h], f[j]) PROVE Under(x, h, j)
    OBVIOUS
  <2>1. h < j
    BY <1>3 DEF Under
  <2>2. ASSUME NEW k \in (h + 1)..j PROVE x[k].depth > x[h].depth
    <3>1. k \in 1..n /\ h < k /\ (k = j \/ k < j)
      BY <1>1
    <3>2. f[h] < f[k] /\ (f[k] = f[j] \/ f[k] < f[j])
      BY <1>3, <3>1
    <3>3. f[k] \in (f[h] + 1)..f[j]
      <4>1. f[h] \in 1..(n + m) /\ f[k] \in 1..(n + m) /\ f[j] \in 1..(n + m)
        BY <1>3, <3>1
      <4> QED BY <3>2, <4>1
    <3>4. T[f[k]].depth > T[f[h]].depth
      BY <3>3 DEF Under
    <3> QED BY <1>3, <3>1, <3>4
  <2> QED BY <2>1, <2>2 DEF Under
<1>12. ASSUME NEW p \in 1..(n + m), NEW j \in 1..(n + m), Strays(T, p, j) PROVE Stray(x)
  <2>1. T[p].kind \in Branching /\ ChildOf(T, p + 1, j) /\ ~Case(T[j])
    BY <1>12 DEF Strays
  <2>2. PICK g \in 1..n : /\ f[g] = p /\ T[p] = x[g] /\ g + 1 \in 1..n /\ f[g + 1] = p + 1
                          /\ x[g + 1].kind = "Block" /\ x[g + 1].depth = x[g].depth + 1
    BY <1>9, <2>1 DEF Holding, Branching
  <2> DEFINE h == g + 1
  <2>3. h \in 1..n /\ f[h] = p + 1 /\ x[h].depth = x[g].depth + 1 /\ T[p + 1] = x[h]
    BY <1>3, <2>2
  <2>4. Under(T, f[h], j) /\ T[j].depth = x[h].depth + 1
    BY <2>1, <2>3 DEF ChildOf
  <2>5. h = g + 1 /\ x[g].kind \in Branching /\ ~Case(T[j])
    BY <2>1, <2>2
  <2> HIDE DEF h
  <2>6. CASE \E k \in 1..n : f[k] = j
    <3>1. PICK k \in 1..n : f[k] = j
      BY <2>6
    <3>2. T[j] = x[k]
      BY <1>3, <3>1
    <3>3. ChildOf(x, h, k)
      BY <1>11, <2>3, <2>4, <3>1, <3>2 DEF ChildOf
    <3>4. Strays(x, g, k)
      BY <2>5, <3>2, <3>3 DEF Strays
    <3> QED BY <3>4 DEF Stray, n
  <2>7. CASE j \in (e + 1)..(e + m) /\ T[j].depth = d + 2
    <3>1. x[h].depth = d + 1 /\ x[g].depth = d
      <4>1. x[h].depth \in Nat /\ x[g].depth \in Nat /\ x[h].depth = x[g].depth + 1
        BY <1>1, <2>3
      <4>2. x[h].depth + 1 = d + 2
        BY <2>4, <2>7
      <4> DEFINE a == x[h].depth
                 b == x[g].depth
      <4> HIDE DEF a, b
      <4>3. a \in Nat /\ b \in Nat /\ a = b + 1 /\ a + 1 = d + 2 /\ d \in Nat
        BY <1>6, <4>1, <4>2 DEF a, b
      <4>4. a = d + 1 /\ b = d
        BY <4>3
      <4> QED BY <4>4 DEF a, b
    <3>2. f[h] < j
      BY <2>4 DEF Under
    <3>3. h <= e
      <4>1. h > e => f[h] = h + m
        BY <1>3, <2>3
      <4> QED BY <1>1, <2>3, <2>7, <3>2, <4>1
    <3>4. g # i /\ h # i
      BY <1>6, <1>8, <2>5, <3>1
    <3>5. ~(g > i)
      BY <1>1, <1>5, <1>6, <2>5, <3>1, <3>3
    <3>6. h < i
      BY <1>1, <2>2, <2>5, <3>4, <3>5
    <3>7. f[h] = h /\ f[i] = i /\ i \in (h + 1)..j
      BY <1>1, <1>3, <2>3, <2>7, <3>3, <3>6
    <3>8. T[i].depth > T[h].depth /\ T[i] = x[i] /\ T[h] = x[h]
      <4>1. T[i].depth > T[f[h]].depth
        BY <2>4, <3>7 DEF Under
      <4>2. T[f[h]] = x[h] /\ T[f[i]] = x[i]
        BY <1>1, <1>3, <2>3
      <4> QED BY <3>7, <4>1, <4>2
    <3> QED BY <1>6, <1>8, <3>1, <3>8
  <2> QED BY <1>4, <2>6, <2>7
<1>13. ASSUME NEW g \in 1..n, NEW j \in 1..n, Strays(x, g, j) PROVE Stray(T)
  <2> DEFINE h == g + 1
  <2>1. x[g].kind \in Branching /\ ChildOf(x, h, j) /\ ~Case(x[j])
    BY <1>13 DEF Strays
  <2>2. h \in 1..n
    BY <1>1, <2>1 DEF Blocks, Holding, Branching, n
  <2>3. g # e /\ g < n
    BY <1>1, <1>6, <2>1, <2>2 DEF Holding, Branching
  <2>4. f[h] = f[g] + 1 /\ h = g + 1
    BY <1>3, <2>3
  <2> HIDE DEF h
  <2>5. h < j /\ x[j].depth = x[h].depth + 1 /\ \A k \in (h + 1)..j : x[k].depth > x[h].depth
    BY <2>1 DEF ChildOf, Under
  <2>6. f[h] < f[j]
    BY <1>3, <2>2, <2>5
  <2>7. ASSUME NEW q \in (f[h] + 1)..f[j] PROVE T[q].depth > T[f[h]].depth
    <3>1. /\ q \in 1..(n + m) /\ f[h] < q /\ (q = f[j] \/ q < f[j])
          /\ f[h] \in 1..(n + m) /\ f[j] \in 1..(n + m) /\ T[f[h]] = x[h]
      <4>1. f[h] \in 1..(n + m) /\ f[j] \in 1..(n + m) /\ T[f[h]] = x[h]
        BY <1>3, <2>2
      <4> QED BY <1>1, <4>1, SMTT(30)
    <3>2. CASE \E k \in 1..n : f[k] = q
      <4>1. PICK k \in 1..n : f[k] = q
        BY <3>2
      <4>2. h < k /\ ~(j < k)
        BY <1>3, <2>2, <3>1, <4>1
      <4>3. k \in (h + 1)..j
        BY <2>2, <4>2
      <4>4. x[k].depth > x[h].depth /\ T[q] = x[k]
        BY <1>3, <2>5, <4>1, <4>3
      <4> QED BY <3>1, <4>4
    <3>3. CASE q \in (e + 1)..(e + m) /\ T[q].depth = d + 2
      <4>1. h <= e
        <5>1. h > e => f[h] = h + m
          BY <1>3, <2>2
        <5> QED BY <1>1, <2>2, <3>1, <3>3, <5>1
      <4>2. j > e
        <5>1. j <= e => f[j] = j
          BY <1>3
        <5> QED BY <1>1, <3>1, <3>3, <5>1
      <4>3. CASE h = i
        BY <1>6, <1>8, <3>1, <3>3, <4>3
      <4>4. CASE h < i
        <5>1. i \in (h + 1)..j
          BY <1>1, <2>2, <4>2, <4>4
        <5>2. x[i].depth > x[h].depth
          BY <2>5, <5>1
        <5>3. x[h].depth \in Nat
          BY <1>1, <2>2
        <5>4. T[f[h]].depth = x[h].depth /\ T[q].depth = d + 2 /\ d > x[h].depth
          BY <1>8, <3>1, <3>3, <5>2
        <5> QED BY <1>6, <5>3, <5>4
      <4>5. CASE h > i
        <5>1. x[h].depth > d
          BY <1>5, <2>2, <4>1, <4>5
        <5>2. e # n
          BY <1>1, <4>2
        <5>3. e # i + 1
          <6>1. e = i + 1 => g = i
            BY <1>1, <2>2, <2>4, <4>1, <4>5
          <6> QED BY <1>6, <2>1, <6>1
        <5>4. e + 1 \in 1..n /\ x[e + 1].depth <= d
          BY <1>7, <5>2, <5>3
        <5>5. e + 1 \in (h + 1)..j
          BY <1>1, <2>2, <4>1, <4>2
        <5>6. x[e + 1].depth > x[h].depth
          BY <2>5, <5>5
        <5> QED BY <1>1, <1>6, <2>2, <5>1, <5>4, <5>6, SMTT(30)
      <4> QED BY <1>1, <2>2, <4>3, <4>4, <4>5
    <3> QED BY <1>4, <3>1, <3>2, <3>3
  <2>8. ChildOf(T, f[h], f[j])
    <3>1. T[f[j]].depth = T[f[h]].depth + 1
      BY <1>3, <2>2, <2>5
    <3> QED BY <2>6, <2>7, <3>1 DEF ChildOf, Under
  <2>9. Strays(T, f[g], f[j])
    <3>1. T[f[g]] = x[g] /\ T[f[j]] = x[j]
      BY <1>3
    <3> QED BY <2>1, <2>4, <2>8, <3>1 DEF Strays
  <2>10. f[g] \in 1..Len(T) /\ f[j] \in 1..Len(T)
    BY <1>2, <1>3
  <2> QED BY <2>9, <2>10 DEF Stray
<1>14. Stray(T) => Stray(x)
  <2>1. Len(T) = n + m
    BY <1>2
  <2>2. Stray(T) => \E p, j \in 1..(n + m) : Strays(T, p, j)
    BY <2>1 DEF Stray
  <2> QED BY <1>12, <2>2
<1>15. Stray(x) => Stray(T)
  BY <1>13 DEF Stray, n
<1> QED BY <1>10, <1>14, <1>15 DEF T
-----------------------------------------------------------------------------
(***************************************************************************)
(* The walks that put nodes in                                             *)
(***************************************************************************)
LEMMA DepthOf ==
    ASSUME NEW t \in Seq(Nodes), NEW i \in 1..Len(t)
    PROVE  t[i] \in Nodes /\ t[i].depth \in Nat /\ t[i].id \in Nat
<1>1. t[i] \in Nodes
  OBVIOUS
<1> QED BY <1>1 DEF Nodes

LEMMA RangePlace ==
    ASSUME NEW x \in Seq(Nodes), Blocks(x), NEW k \in 1..Len(x), x[k].kind = "Range",
           NEW nodes, nodes = <<astNode_sched(x[k].depth + 2)>>
    PROVE  /\ Place(x, k, End(x, k)) /\ nodes \in Seq(Nodes) /\ Len(nodes) = 1
           /\ Inserts(nodes, x[k].depth)
           /\ RangeVisit(x, k) = Insert(x, End(x, k), nodes)
<1> DEFINE e == End(x, k)
           node == astNode_sched(x[k].depth + 2)
<1>1. x[k].depth \in Nat /\ x[k].depth + 2 \in Nat /\ Len(x) \in Nat
  BY DepthOf
<1>2. /\ e \in k..Len(x)
      /\ \A j \in (k + 1)..e : x[j].depth > x[k].depth
      /\ e = Len(x) \/ x[e + 1].depth <= x[k].depth
  BY EndFound
<1>3. RangeVisit(x, k) = Insert(x, e, nodes)
  BY DEF RangeVisit
<1> HIDE DEF e
<1>4. ASSUME x[e].kind \in Holding PROVE FALSE
  <2>1. e \in 1..Len(x)
    BY <1>1, <1>2
  <2>2. e < Len(x) /\ x[e + 1].depth = x[e].depth + 1
    BY <1>4, <2>1 DEF Blocks
  <2>3. x[e].depth \in Nat
    BY <2>1, DepthOf
  <2>4. x[e].depth + 1 <= x[k].depth
    BY <1>1, <1>2, <2>2
  <2>5. e # k
    BY <1>1, <2>4
  <2>6. e \in (k + 1)..e
    BY <1>1, <1>2, <2>5
  <2>7. x[e].depth > x[k].depth
    BY <1>2, <2>6
  <2> QED BY <1>1, <2>3, <2>4, <2>7
<1>5. Place(x, k, e)
  BY <1>1, <1>2, <1>4 DEF Place, Branching
<1>6. node \in Nodes /\ node.depth = x[k].depth + 2 /\ node.kind \notin Holding
  <2>1. node \in Nodes /\ node.depth = x[k].depth + 2 /\ node.kind = "Sched"
    BY <1>1, SchedNode
  <2> QED BY <2>1 DEF Holding, Branching
<1> HIDE DEF node
<1>7. nodes = <<node>>
  BY DEF node
<1>8. nodes \in Seq(Nodes) /\ Len(nodes) = 1 /\ Inserts(nodes, x[k].depth)
  BY <1>6, <1>7 DEF Inserts
<1> QED BY <1>3, <1>5, <1>8 DEF e

LEMMA MainNodes ==
    ASSUME NEW d \in Nat, NEW m
    PROVE  /\ goatMain(d, m) \in Seq(Nodes) /\ Len(goatMain(d, m)) \in 1..3
           /\ \A k \in 1..Len(goatMain(d, m)) :
                 LET n == goatMain(d, m)[k]
                 IN  n.depth = d /\ n.kind \in {"Start", "Go", "Defer"} /\ n.op = "goat" /\ n.id = 0
<1>1. "goat" \in Ops
  BY Zenon DEF Ops
<1>2. \A kind \in {"Start", "Go", "Defer"} :
         /\ Stmt(kind, "goat", d) \in Nodes
         /\ Stmt(kind, "goat", d).depth = d /\ Stmt(kind, "goat", d).kind = kind
         /\ Stmt(kind, "goat", d).op = "goat" /\ Stmt(kind, "goat", d).id = 0
  BY <1>1 DEF Stmt, Node, Nodes, SyntaxKinds
<1> DEFINE a == Stmt("Start", "goat", d)
           b == Stmt("Go", "goat", d)
           c == Stmt("Defer", "goat", d)
<1>3. /\ a \in Nodes /\ a.depth = d /\ a.kind = "Start" /\ a.op = "goat" /\ a.id = 0
      /\ b \in Nodes /\ b.depth = d /\ b.kind = "Go" /\ b.op = "goat" /\ b.id = 0
      /\ c \in Nodes /\ c.depth = d /\ c.kind = "Defer" /\ c.op = "goat" /\ c.id = 0
  BY <1>2
<1>4. goatMain(d, m) = IF m = "criticOnly" THEN <<a>> ELSE <<a, b, c>>
  BY DEF goatMain, astNode_goatMain, astNode_goatRaceMain
<1> HIDE DEF a, b, c
<1>5. \A k \in 1..3 : <<a, b, c>>[k] \in {a, b, c}
  OBVIOUS
<1>6. <<a>> \in Seq(Nodes) /\ <<a, b, c>> \in Seq(Nodes) /\ Len(<<a>>) = 1 /\ Len(<<a, b, c>>) = 3
  BY <1>3
<1> QED BY <1>3, <1>4, <1>5, <1>6

LEMMA MainPlace ==
    ASSUME NEW x \in Seq(Nodes), Blocks(x), NEW k \in 1..Len(x), Traced(x[k]), NEW m,
           NEW nodes, nodes = goatMain(x[k].depth + 2, m)
    PROVE  /\ Place(x, k, k + 1) /\ nodes \in Seq(Nodes) /\ Inserts(nodes, x[k].depth)
           /\ MainVisit(x, k, m) = Insert(x, k + 1, nodes)
<1>1. x[k].depth \in Nat /\ x[k].depth + 2 \in Nat /\ Len(x) \in Nat
  BY DepthOf
<1>2. x[k].kind = "Func" /\ k < Len(x) /\ x[k + 1].kind = "Block" /\ x[k + 1].depth = x[k].depth + 1
  BY DEF Traced, Blocks, Holding
<1>3. MainVisit(x, k, m) = Insert(x, k + 1, nodes)
  BY DEF MainVisit
<1>4. Place(x, k, k + 1)
  <2>1. \A p \in (k + 1)..(k + 1) : p = k + 1
    OBVIOUS
  <2> QED BY <1>1, <1>2, <2>1 DEF Place, Holding, Branching
<1> DEFINE d == x[k].depth + 2
<1> HIDE DEF d
<1>5. /\ nodes \in Seq(Nodes)
      /\ \A j \in 1..Len(nodes) : nodes[j].depth = d /\ nodes[j].kind \in {"Start", "Go", "Defer"}
  <2>1. d \in Nat /\ nodes = goatMain(d, m)
    BY <1>1 DEF d
  <2> QED BY <2>1, MainNodes
<1>6. Inserts(nodes, x[k].depth)
  BY <1>5 DEF Inserts, Holding, Branching, d
<1> QED BY <1>3, <1>4, <1>5, <1>6

\* What parses goes on to do so, and what does not does not.
Tidy(x, t) == x \in Seq(Nodes) /\ Blocks(x) /\ (Stray(x) <=> Stray(t))

LEMMA TidyInsert ==
    ASSUME NEW t, NEW x, Tidy(x, t), NEW i, NEW e, Place(x, i, e),
           NEW nodes \in Seq(Nodes), Inserts(nodes, x[i].depth)
    PROVE  Tidy(Insert(x, e, nodes), t)
<1>1. x \in Seq(Nodes) /\ Blocks(x) /\ (Stray(x) <=> Stray(t))
  BY DEF Tidy
<1>2. Blocks(Insert(x, e, nodes)) /\ (Stray(Insert(x, e, nodes)) <=> Stray(x))
  BY <1>1, InsertStray
<1>3. e \in 0..Len(x)
  BY <1>1 DEF Place
<1>4. Insert(x, e, nodes) \in Seq(Nodes)
  BY <1>1, <1>3, Inserted
<1> QED BY <1>1, <1>2, <1>4 DEF Tidy

LEMMA RangeTidy ==
    ASSUME NEW t \in Seq(Nodes), Blocks(t)
    PROVE  Tidy(InjectRange(t), t)
<1> DEFINE S == {x \in Seq(Nodes) : Tidy(x, t)}
           P == Nat \X S
<1>1. t \in S /\ \A k \in 1..(2 * Len(t)) : k \in Nat
  BY DEF Tidy
<1>2. ASSUME NEW x \in S, NEW k \in Nat PROVE RangeVisit(x, k) \in S
  <2>1. x \in Seq(Nodes) /\ Tidy(x, t) /\ Blocks(x) /\ DOMAIN x = 1..Len(x)
    BY DEF Tidy
  <2>2. CASE k \in DOMAIN x /\ x[k].kind = "Range"
    <3> DEFINE e == End(x, k)
               nodes == <<astNode_sched(x[k].depth + 2)>>
    <3>1. /\ Place(x, k, e) /\ nodes \in Seq(Nodes) /\ Inserts(nodes, x[k].depth)
          /\ RangeVisit(x, k) = Insert(x, e, nodes)
      BY <2>1, <2>2, RangePlace
    <3> HIDE DEF e, nodes, S
    <3>2. Tidy(Insert(x, e, nodes), t)
      BY <2>1, <3>1, TidyInsert
    <3> QED BY <3>1, <3>2 DEF Tidy, S
  <2>3. CASE ~(k \in DOMAIN x /\ x[k].kind = "Range")
    BY <2>3 DEF RangeVisit
  <2> QED BY <2>2, <2>3
<1> HIDE DEF S
<1>3. \A k \in 1..(2 * Len(t)), x \in S : <<k - 1, x>> \in P => <<k, RangeVisit(x, k)>> \in P
  BY <1>1, <1>2
<1>4. <<0, t>> \in P
  BY <1>1
<1> HIDE DEF P
<1>5. InjectRange(t) \in S
  BY <1>1, <1>2, <1>3, <1>4, RangeReaches
<1> QED BY <1>5 DEF S

LEMMA MainTidy ==
    ASSUME NEW t \in Seq(Nodes), Blocks(t), NEW m
    PROVE  Tidy(InjectMain(t, m), t)
<1> DEFINE S == {x \in Seq(Nodes) : Tidy(x, t)}
           P == Nat \X S
<1>1. t \in S /\ \A k \in 1..(4 * Len(t)) : k \in Nat
  BY DEF Tidy
<1>2. ASSUME NEW x \in S, NEW k \in Nat PROVE MainVisit(x, k, m) \in S
  <2>1. x \in Seq(Nodes) /\ Tidy(x, t) /\ Blocks(x) /\ DOMAIN x = 1..Len(x)
    BY DEF Tidy
  <2>2. CASE k \in DOMAIN x /\ Traced(x[k])
    <3> DEFINE nodes == goatMain(x[k].depth + 2, m)
    <3>1. /\ Place(x, k, k + 1) /\ nodes \in Seq(Nodes) /\ Inserts(nodes, x[k].depth)
          /\ MainVisit(x, k, m) = Insert(x, k + 1, nodes)
      BY <2>1, <2>2, MainPlace
    <3> HIDE DEF nodes, S
    <3>2. Tidy(Insert(x, k + 1, nodes), t)
      BY <2>1, <3>1, TidyInsert
    <3> QED BY <3>1, <3>2 DEF Tidy, S
  <2>3. CASE ~(k \in DOMAIN x /\ Traced(x[k]))
    BY <2>3 DEF MainVisit
  <2> QED BY <2>2, <2>3
<1> HIDE DEF S
<1>3. \A k \in 1..(4 * Len(t)), x \in S : <<k - 1, x>> \in P => <<k, MainVisit(x, k, m)>> \in P
  BY <1>1, <1>2
<1>4. <<0, t>> \in P
  BY <1>1
<1> HIDE DEF P
<1>5. InjectMain(t, m) \in S
  BY <1>1, <1>2, <1>3, <1>4, MainReaches
<1> QED BY <1>5 DEF S
-----------------------------------------------------------------------------
(***************************************************************************)
(* What the rewritings make of a package, parses                           *)
(***************************************************************************)
LEMMA PlainShape ==
    ASSUME NEW a \in Nodes, NEW b \in Nodes, Plain(a) = Plain(b)
    PROVE  a.kind = b.kind /\ a.depth = b.depth /\ a.begins = b.begins /\ a.list = b.list
           /\ a.id = b.id /\ (a.kind \notin {"File", "Defer"} => a.op = b.op)
<1>1. ASSUME NEW x \in Nodes
      PROVE  /\ Plain(x).kind = x.kind /\ Plain(x).depth = x.depth
             /\ Plain(x).begins = x.begins /\ Plain(x).list = x.list
             /\ Plain(x).id = x.id /\ (x.kind \notin {"File", "Defer"} => Plain(x).op = x.op)
  BY DEF Plain, Nodes
<1> QED BY <1>1

\* The same tree but for the imports and for how defers are called.
Alike(a, t) ==
    /\ Len(a) = Len(t)
    /\ \A i \in 1..Len(t) :
          /\ a[i].kind = t[i].kind /\ a[i].depth = t[i].depth /\ a[i].begins = t[i].begins
          /\ a[i].list = t[i].list /\ a[i].id = t[i].id
          /\ a[i].kind \notin {"File", "Defer"} => a[i].op = t[i].op

LEMMA SameTree ==
    ASSUME NEW t \in Seq(Nodes), NEW a \in Seq(Nodes), Len(a) = Len(t), Grammar(t),
           \A i \in DOMAIN t : Plain(a[i]) = Plain(t[i])
    PROVE  /\ Grammar(a) /\ Alike(a, t)
           /\ \A lines : \A i \in 1..Len(t) :
                 /\ Case(a[i]) <=> Case(t[i])
                 /\ Scheduled(a, lines, i) <=> Scheduled(t, lines, i)
                 /\ Yielding(a, lines, i) <=> Yielding(t, lines, i)
                 /\ Blocked(a, lines, i) <=> Blocked(t, lines, i)
<1> DEFINE n == Len(t)
<1>1. n \in Nat /\ DOMAIN t = 1..n /\ DOMAIN a = 1..n
  OBVIOUS
<1>2. ASSUME NEW i \in 1..n
      PROVE  /\ a[i].kind = t[i].kind /\ a[i].depth = t[i].depth /\ a[i].begins = t[i].begins
             /\ a[i].list = t[i].list /\ a[i].id = t[i].id
             /\ a[i].kind \notin {"File", "Defer"} => a[i].op = t[i].op
  <2>1. a[i] \in Nodes /\ t[i] \in Nodes /\ Plain(a[i]) = Plain(t[i])
    BY <1>1
  <2> QED BY <2>1, PlainShape
<1> HIDE DEF n
<1>3. ASSUME NEW i \in 1..n PROVE Line(a, i) = Line(t, i)
  <2>1. \A j \in 1..i : a[j].begins = t[j].begins
    BY <1>1, <1>2
  <2>2. {j \in 1..i : a[j].begins} = {j \in 1..i : t[j].begins}
    BY <2>1
  <2> QED BY <2>2 DEF Line
<1>4. ASSUME NEW lines, NEW i \in 1..n
      PROVE  /\ Case(a[i]) <=> Case(t[i])
             /\ Scheduled(a, lines, i) <=> Scheduled(t, lines, i)
             /\ Yielding(a, lines, i) <=> Yielding(t, lines, i)
             /\ Blocked(a, lines, i) <=> Blocked(t, lines, i)
  BY <1>2, <1>3 DEF Case, Yielding, Scheduled, Blocked, Converts, CanInsert
<1>5. ASSUME NEW i \in 1..n PROVE Attached(a, i)
  <2>1. Attached(t, i)
    BY <1>1 DEF Grammar
  <2>2. Shape(a[i])
    BY <1>2, <2>1 DEF Attached, Shape, Case
  <2>3. ASSUME NEW h \in 1..(i - 1), ChildOf(t, h, i), Fits(t, h, i) PROVE ChildOf(a, h, i) /\ Fits(a, h, i)
    <3>1. h \in 1..n /\ \A k \in (h + 1)..i : k \in 1..n
      BY <1>1
    <3>2. ChildOf(a, h, i)
      BY <1>2, <2>3, <3>1 DEF ChildOf, Under
    <3>3. h > 1 => h - 1 \in 1..n
      BY <1>1
    <3>4. HoldsCases(a, h) <=> HoldsCases(t, h)
      BY <1>2, <3>1, <3>3 DEF HoldsCases
    <3>5. Fits(a, h, i)
      BY <1>2, <2>3, <3>1, <3>4 DEF Fits, Case
    <3> QED BY <3>2, <3>5
  <2>4. a[i].depth = t[i].depth
    BY <1>2
  <2> QED BY <2>1, <2>2, <2>3, <2>4 DEF Attached
<1>6. ASSUME NEW i \in 1..n PROVE Followed(a, i)
  <2>1. Followed(t, i) /\ (i < n => i + 1 \in 1..n)
    BY <1>1 DEF Grammar
  <2>2. Len(a) = n /\ Len(t) = n
    BY DEF n
  <2> QED BY <1>2, <2>1, <2>2 DEF Followed
<1>7. Grammar(a)
  BY <1>1, <1>5, <1>6 DEF Grammar
<1>8. Alike(a, t)
  BY <1>2 DEF Alike, n
<1>9. \A lines : \A i \in 1..n :
         /\ Case(a[i]) <=> Case(t[i])
         /\ Scheduled(a, lines, i) <=> Scheduled(t, lines, i)
         /\ Yielding(a, lines, i) <=> Yielding(t, lines, i)
         /\ Blocked(a, lines, i) <=> Blocked(t, lines, i)
  BY <1>4, Zenon
<1> QED BY <1>7, <1>8, <1>9, Zenon DEF n

\* A package as it is written parses.
LEMMA GrammarParses ==
    ASSUME NEW t \in Seq(Nodes), Grammar(t)
    PROVE  Blocks(t) /\ ~Stray(t)
<1>1. DOMAIN t = 1..Len(t) /\ Len(t) \in Nat
  OBVIOUS
<1>2. Blocks(t)
  BY <1>1 DEF Blocks, Holding, Branching, Grammar, Followed
<1>3. ASSUME NEW p \in 1..Len(t), NEW j \in 1..Len(t), Strays(t, p, j) PROVE FALSE
  <2> DEFINE h == p + 1
  <2>1. t[p].kind \in Branching /\ ChildOf(t, h, j) /\ ~Case(t[j])
    BY <1>3 DEF Strays
  <2>2. h \in 1..Len(t) /\ t[h].kind = "Block" /\ h > 1 /\ h - 1 = p
    BY <1>1, <1>2, <2>1 DEF Blocks, Holding, Branching
  <2> HIDE DEF h
  <2>3. HoldsCases(t, h)
    BY <2>1, <2>2 DEF HoldsCases
  <2>4. t[h].depth \in Nat
    <3>1. t[h] \in Nodes
      BY <2>2
    <3> QED BY <3>1 DEF Nodes
  <2>5. t[j].depth > 0
    BY <2>1, <2>4 DEF ChildOf
  <2>6. Attached(t, j)
    BY <1>1 DEF Grammar
  <2>7. Fits(t, h, j)
    BY <2>1, <2>2, <2>5, <2>6, ParentFits
  <2> QED BY <2>1, <2>3, <2>7 DEF Fits
<1> QED BY <1>2, <1>3 DEF Stray
-----------------------------------------------------------------------------
(***************************************************************************)
(* Which file a node is in                                                 *)
(***************************************************************************)
\* Node i is in the file with id g, or is that file.
Within(x, g, i) ==
    \E f \in 1..i : /\ x[f].kind = "File" /\ x[f].id = g
                    /\ \A j \in (f + 1)..i : x[j].kind # "File"

\* That file has one of the nodes in K.
Has(x, g, K) == \E i \in 1..Len(x) : x[i] \in K /\ Within(x, g, i)

Flat(x)  == \A i \in 1..Len(x) : x[i].kind = "File" <=> x[i].depth = 0
Apart(x) == \A f, h \in 1..Len(x) :
               x[f].kind = "File" /\ x[h].kind = "File" /\ x[f].id = x[h].id => f = h

\* No file is new.
FilesKept(o, t, pos) == \A r \in 1..Len(o) : o[r].kind = "File" => \E i \in 1..Len(t) : pos[i] = r

LEMMA WithinOn ==
    ASSUME NEW x \in Seq(Nodes), NEW i \in 1..Len(x), NEW r \in i..Len(x),
           \A j \in (i + 1)..r : x[j].kind # "File", NEW g
    PROVE  Within(x, g, r) <=> Within(x, g, i)
<1>1. Len(x) \in Nat /\ i <= r /\ r \in 1..Len(x)
  OBVIOUS
<1>2. ASSUME Within(x, g, i) PROVE Within(x, g, r)
  <2>1. PICK f \in 1..i : /\ x[f].kind = "File" /\ x[f].id = g
                          /\ \A j \in (f + 1)..i : x[j].kind # "File"
    BY <1>2 DEF Within
  <2>2. \A j \in (f + 1)..r : j \in (f + 1)..i \/ j \in (i + 1)..r
    BY <1>1
  <2>3. f \in 1..r
    BY <1>1
  <2> QED BY <2>1, <2>2, <2>3 DEF Within
<1>3. ASSUME Within(x, g, r) PROVE Within(x, g, i)
  <2>1. PICK f \in 1..r : /\ x[f].kind = "File" /\ x[f].id = g
                          /\ \A j \in (f + 1)..r : x[j].kind # "File"
    BY <1>3 DEF Within
  <2>2. f \in 1..i
    <3>1. f \notin (i + 1)..r
      BY <2>1
    <3> QED BY <1>1, <3>1
  <2>3. \A j \in (f + 1)..i : j \in (f + 1)..r
    BY <1>1
  <2> QED BY <2>1, <2>2, <2>3 DEF Within
<1> QED BY <1>2, <1>3

LEMMA WithinMoved ==
    ASSUME NEW t \in Seq(Nodes), NEW o \in Seq(Nodes), NEW pos, Moved(o, t, pos), FilesKept(o, t, pos),
           NEW g, NEW i \in 1..Len(t)
    PROVE  Within(o, g, pos[i]) <=> Within(t, g, i)
<1>1. /\ Len(t) \in Nat /\ Len(o) \in Nat
      /\ \A j \in 1..Len(t) : /\ pos[j] \in 1..Len(o) /\ o[pos[j]].kind = t[j].kind
                              /\ o[pos[j]].id = t[j].id
  BY DEF Moved
<1>2. \A j, k \in 1..Len(t) : j < k <=> pos[j] < pos[k]
  BY DEF Moved
<1>3. ASSUME Within(t, g, i) PROVE Within(o, g, pos[i])
  <2>1. PICK f \in 1..i : /\ t[f].kind = "File" /\ t[f].id = g
                          /\ \A j \in (f + 1)..i : t[j].kind # "File"
    BY <1>3 DEF Within
  <2>2. f \in 1..Len(t) /\ ~(i < f)
    BY <1>1
  <2>3. pos[f] \in 1..pos[i]
    <3>1. ~(pos[i] < pos[f])
      BY <1>2, <2>2
    <3> QED BY <1>1, <2>2, <3>1
  <2>4. ASSUME NEW r \in (pos[f] + 1)..pos[i], o[r].kind = "File" PROVE FALSE
    <3>1. r \in 1..Len(o) /\ pos[f] < r /\ ~(pos[i] < r) /\ pos[f] \in Nat /\ pos[i] \in Nat
      BY <1>1, <2>2
    <3>2. PICK j \in 1..Len(t) : pos[j] = r
      BY <2>4, <3>1 DEF FilesKept
    <3>3. f < j /\ ~(i < j)
      BY <1>2, <2>2, <3>1, <3>2
    <3>4. j \in (f + 1)..i
      BY <1>1, <3>3
    <3> QED BY <1>1, <2>1, <2>4, <3>2, <3>4
  <2> QED BY <1>1, <2>1, <2>2, <2>3, <2>4 DEF Within
<1>4. ASSUME Within(o, g, pos[i]) PROVE Within(t, g, i)
  <2>1. PICK q \in 1..pos[i] : /\ o[q].kind = "File" /\ o[q].id = g
                               /\ \A j \in (q + 1)..pos[i] : o[j].kind # "File"
    BY <1>4 DEF Within
  <2>2. q \in 1..Len(o) /\ ~(pos[i] < q)
    BY <1>1
  <2>3. PICK f \in 1..Len(t) : pos[f] = q
    BY <2>1, <2>2 DEF FilesKept
  <2>4. f \in 1..i /\ t[f].kind = "File" /\ t[f].id = g
    <3>1. ~(i < f)
      BY <1>2, <2>2, <2>3
    <3> QED BY <1>1, <2>1, <2>3, <3>1
  <2>5. ASSUME NEW j \in (f + 1)..i PROVE t[j].kind # "File"
    <3>1. j \in 1..Len(t) /\ f < j /\ ~(i < j)
      BY <1>1
    <3>2. pos[f] < pos[j] /\ ~(pos[i] < pos[j])
      BY <1>2, <3>1
    <3>3. pos[j] \in (q + 1)..pos[i]
      BY <1>1, <2>3, <3>1, <3>2
    <3> QED BY <1>1, <2>1, <3>1, <3>3
  <2> QED BY <2>4, <2>5 DEF Within
<1> QED BY <1>3, <1>4

LEMMA ApartMoved ==
    ASSUME NEW t \in Seq(Nodes), NEW o \in Seq(Nodes), NEW pos, Moved(o, t, pos), FilesKept(o, t, pos), Apart(t)
    PROVE  Apart(o)
<1> SUFFICES ASSUME NEW p \in 1..Len(o), NEW q \in 1..Len(o), o[p].kind = "File", o[q].kind = "File", o[p].id = o[q].id
             PROVE  p = q
  BY DEF Apart
<1>1. PICK f \in 1..Len(t) : pos[f] = p
  BY DEF FilesKept
<1>2. PICK h \in 1..Len(t) : pos[h] = q
  BY DEF FilesKept
<1>3. t[f].kind = "File" /\ t[h].kind = "File" /\ t[f].id = t[h].id
  BY <1>1, <1>2 DEF Moved
<1>4. f = h
  BY <1>3 DEF Apart
<1> QED BY <1>1, <1>2, <1>4

\* A file is told by its id, and what is below it is within it.
LEMMA BelowWithin ==
    ASSUME NEW t \in Seq(Nodes), Flat(t), Apart(t), NEW f \in 1..Len(t), t[f].kind = "File", NEW i \in 1..Len(t)
    PROVE  Within(t, t[f].id, i) <=> i = f \/ i \in Below(t, f)
<1>1. /\ Len(t) \in Nat /\ t[f].depth = 0
      /\ \A j \in 1..Len(t) : t[j].depth \in Nat /\ (t[j].kind = "File" <=> t[j].depth = 0)
  BY DepthOf DEF Flat
<1>2. /\ End(t, f) \in f..Len(t)
      /\ \A k \in (f + 1)..End(t, f) : t[k].depth > t[f].depth
      /\ End(t, f) = Len(t) \/ t[End(t, f) + 1].depth <= t[f].depth
  BY EndFound
<1> DEFINE e == End(t, f)
<1>3. Below(t, f) = (f + 1)..e
  BY DEF Below
<1> HIDE DEF e
<1>4. ASSUME i = f \/ i \in Below(t, f) PROVE Within(t, t[f].id, i)
  <2>1. f \in 1..i
    BY <1>1, <1>2, <1>3, <1>4
  <2>2. ASSUME NEW j \in (f + 1)..i PROVE t[j].kind # "File"
    <3>1. j \in (f + 1)..e /\ j \in 1..Len(t)
      BY <1>1, <1>2, <1>3, <1>4, <2>2 DEF e
    <3>2. t[j].depth > 0
      BY <1>1, <1>2, <3>1 DEF e
    <3> QED BY <1>1, <3>1, <3>2
  <2> QED BY <2>1, <2>2 DEF Within
<1>5. ASSUME Within(t, t[f].id, i) PROVE i = f \/ i \in Below(t, f)
  <2>1. PICK h \in 1..i : /\ t[h].kind = "File" /\ t[h].id = t[f].id
                          /\ \A j \in (h + 1)..i : t[j].kind # "File"
    BY <1>5 DEF Within
  <2>2. h = f /\ f <= i
    <3>1. h \in 1..Len(t)
      BY <1>1
    <3>2. h = f
      BY <2>1, <3>1 DEF Apart
    <3> QED BY <1>1, <3>2
  <2>3. ASSUME i > e PROVE FALSE
    <3>1. e \in f..Len(t) /\ (e = Len(t) \/ t[e + 1].depth <= t[f].depth)
      BY <1>2 DEF e
    <3>2. e + 1 \in (h + 1)..i /\ e + 1 \in 1..Len(t) /\ e # Len(t)
      BY <1>1, <2>2, <2>3, <3>1
    <3>3. t[e + 1].depth <= 0 /\ t[e + 1].depth \in Nat
      BY <1>1, <3>1, <3>2
    <3>4. t[e + 1].kind = "File"
      <4>1. \A d \in Nat : d <= 0 => d = 0
        OBVIOUS
      <4>2. t[e + 1].depth = 0
        BY <3>3, <4>1
      <4> QED BY <1>1, <3>2, <4>2
    <3> QED BY <2>1, <3>2, <3>4
  <2>4. e \in Nat
    BY <1>1, <1>2 DEF e
  <2> QED BY <1>1, <1>3, <2>2, <2>3, <2>4
<1> QED BY <1>4, <1>5

\* What compiles, in these terms.
Goaty     == {n \in Nodes : n.kind # "File" /\ n.op \in {"goat", "yields"}}
Importing == {n \in Nodes : n.kind = "File" /\ n.op = "goat"}

LEMMA MatchIs ==
    ASSUME NEW x \in Seq(Nodes), Flat(x), Apart(x)
    PROVE  ImportsMatch(x) <=> \A g \in Nat : Has(x, g, Importing) <=> Has(x, g, Goaty)
<1>1. DOMAIN x = 1..Len(x) /\ Len(x) \in Nat /\ \A i \in 1..Len(x) : x[i] \in Nodes
  OBVIOUS
<1>2. ASSUME NEW f \in 1..Len(x), x[f].kind = "File"
      PROVE  /\ x[f].id \in Nat
             /\ x[f].op = "goat" <=> Has(x, x[f].id, Importing)
             /\ UsesGoat(x, f) <=> Has(x, x[f].id, Goaty)
  <2>1. \A i \in 1..Len(x) : Within(x, x[f].id, i) <=> i = f \/ i \in Below(x, f)
    BY <1>2, BelowWithin
  <2>2. x[f].id \in Nat
    BY DepthOf
  <2>3. \A i \in Below(x, f) : i \in 1..Len(x) /\ x[i].kind # "File"
    <3>1. /\ End(x, f) \in f..Len(x)
          /\ \A k \in (f + 1)..End(x, f) : x[k].depth > x[f].depth
      BY EndFound
    <3>2. x[f].depth = 0 /\ Below(x, f) = (f + 1)..End(x, f)
      BY <1>2 DEF Flat, Below
    <3> DEFINE e == End(x, f)
    <3> HIDE DEF e
    <3>3. \A i \in (f + 1)..e : i \in 1..Len(x)
      BY <1>1, <3>1 DEF e
    <3>4. \A i \in (f + 1)..e : x[i].depth # 0
      BY <3>1, <3>2 DEF e
    <3> QED BY <3>2, <3>3, <3>4 DEF Flat, e
  <2>4. x[f].op = "goat" <=> Has(x, x[f].id, Importing)
    <3>1. \A i \in 1..Len(x) : x[i] \in Importing => x[i].kind = "File" /\ x[i].op = "goat"
      BY DEF Importing
    <3>2. x[f].op = "goat" => x[f] \in Importing
      BY <1>1, <1>2 DEF Importing
    <3> QED BY <2>1, <2>3, <3>1, <3>2 DEF Has
  <2>5. UsesGoat(x, f) <=> Has(x, x[f].id, Goaty)
    <3>1. \A i \in 1..Len(x) : x[i] \in Goaty <=> x[i].kind # "File" /\ x[i].op \in {"goat", "yields"}
      BY <1>1 DEF Goaty
    <3> QED BY <1>2, <2>1, <2>3, <3>1 DEF Has, UsesGoat
  <2> QED BY <2>2, <2>4, <2>5
<1>3. ASSUME NEW g, NEW i \in 1..Len(x), Within(x, g, i)
      PROVE  \E f \in 1..Len(x) : x[f].kind = "File" /\ x[f].id = g
  BY <1>1, <1>3 DEF Within
<1>4. ImportsMatch(x) <=> \A f \in 1..Len(x) : x[f].kind = "File" => (x[f].op = "goat" <=> UsesGoat(x, f))
  BY <1>1 DEF ImportsMatch
<1>5. ASSUME NEW g, Has(x, g, Importing) \/ Has(x, g, Goaty)
      PROVE  \E f \in 1..Len(x) : x[f].kind = "File" /\ x[f].id = g
  BY <1>3, <1>5 DEF Has
<1> QED BY <1>2, <1>4, <1>5
-----------------------------------------------------------------------------
(***************************************************************************)
(* What the rewritings put into a file                                     *)
(***************************************************************************)
Ranges      == {n \in Nodes : n.kind = "Range"}
TracedNodes == {n \in Nodes : Traced(n)}

LEMMA HasMoved ==
    ASSUME NEW t \in Seq(Nodes), NEW o \in Seq(Nodes), NEW pos, Moved(o, t, pos), FilesKept(o, t, pos),
           NEW K, \A i \in 1..Len(t) : o[pos[i]] \in K <=> t[i] \in K,
           \A r \in 1..Len(o) : o[r] \in K => \E i \in 1..Len(t) : pos[i] = r,
           NEW g
    PROVE  Has(o, g, K) <=> Has(t, g, K)
<1>1. \A i \in 1..Len(t) : pos[i] \in 1..Len(o) /\ (Within(o, g, pos[i]) <=> Within(t, g, i))
  <2>1. \A i \in 1..Len(t) : pos[i] \in 1..Len(o)
    BY DEF Moved
  <2> QED BY <2>1, WithinMoved
<1> QED BY <1>1 DEF Has

\* A file holds what yields exactly if a node that begins a line to yield
\* before is in it.
LEMMA SchedHas ==
    ASSUME NEW a \in Seq(Nodes), Grammar(a), Flat(a), Apart(a),
           \A i \in 1..Len(a) : a[i].kind # "File" => a[i].op \notin {"goat", "yields"},
           NEW lines, NEW o \in Seq(Nodes), NEW pos, Copied(o, a, Len(a), lines, pos),
           \A i \in 1..Len(a) : ~Blocked(a, lines, i)
    PROVE  /\ Flat(o) /\ Apart(o)
           /\ \A K \in {Ranges, TracedNodes, Importing} : \A g : Has(o, g, K) <=> Has(a, g, K)
           /\ \A g : Has(o, g, Goaty) <=> \E i \in 1..Len(a) : Scheduled(a, lines, i) /\ Within(a, g, i)
<1> DEFINE n == Len(a)
<1>1. /\ Moved(o, a, pos) /\ YieldBefore(o, a, lines, pos)
      /\ \A r \in 1..Len(o) : MovedOrYield(o, a, lines, pos, r)
  BY CopiedIs
<1>2. /\ n \in Nat /\ Len(o) \in Nat /\ DOMAIN a = 1..n
      /\ \A i \in 1..n : pos[i] \in 1..Len(o) /\ o[pos[i]].kind = a[i].kind /\ o[pos[i]].depth = a[i].depth
      /\ \A r \in 1..Len(o) : o[r] \in Nodes
      /\ \A i \in 1..n : a[i] \in Nodes /\ (a[i].kind = "File" <=> a[i].depth = 0)
  BY <1>1 DEF Moved, Flat
<1>3. ASSUME NEW r \in 1..Len(o), \A i \in 1..n : pos[i] # r
      PROVE  \E i \in 1..n : /\ Yielding(a, lines, i) /\ pos[i] = r + 1
                             /\ o[r].kind = "Sched" /\ o[r].depth = a[i].depth
  BY <1>1, <1>3 DEF MovedOrYield
<1>4. ASSUME NEW i \in 1..n
      PROVE  o[pos[i]].op = IF Scheduled(a, lines, i) /\ Converts(a[i]) THEN "yields" ELSE a[i].op
  <2>1. o[pos[i]] = Made(a, lines, i)
    BY DEF Copied
  <2> QED BY <2>1, MadeLike
<1>5. ASSUME NEW i \in 1..n, Yielding(a, lines, i) PROVE a[i].kind # "File" /\ a[i].depth # 0
  <2>1. a[i].list
    BY <1>5 DEF Blocked, CanInsert
  <2>2. Shape(a[i])
    BY <1>2 DEF Grammar, Attached
  <2> QED BY <2>1, <2>2 DEF Shape, Flat
<1> HIDE DEF n
<1>6. FilesKept(o, a, pos)
  <2>1. ASSUME NEW r \in 1..Len(o), o[r].kind = "File" PROVE \E i \in 1..n : pos[i] = r
    BY <1>3, <2>1
  <2> QED BY <2>1 DEF FilesKept, n
<1>7. Apart(o)
  BY <1>1, <1>6, ApartMoved
<1>8. Flat(o)
  <2>1. ASSUME NEW r \in 1..Len(o) PROVE o[r].kind = "File" <=> o[r].depth = 0
    <3>1. CASE \E i \in 1..n : pos[i] = r
      <4>1. PICK i \in 1..n : pos[i] = r
        BY <3>1, Zenon
      <4>2. a[i].kind = "File" <=> a[i].depth = 0
        BY <1>2, Zenon
      <4>3. o[r].kind = a[i].kind /\ o[r].depth = a[i].depth
        BY <1>2, <4>1, Zenon
      <4> QED BY <4>2, <4>3
    <3>2. CASE \A i \in 1..n : pos[i] # r
      BY <1>3, <1>5, <3>2
    <3> QED BY <3>1, <3>2
  <2> QED BY <2>1 DEF Flat
<1>9. ASSUME NEW K \in {Ranges, TracedNodes, Importing}, NEW g PROVE Has(o, g, K) <=> Has(a, g, K)
  <2>1. ASSUME NEW i \in 1..n PROVE o[pos[i]] \in K <=> a[i] \in K
    <3>1. a[i].kind \in {"File", "Func"} => o[pos[i]].op = a[i].op
      BY <1>4 DEF Converts
    <3> QED BY <1>2, <3>1 DEF Ranges, TracedNodes, Importing, Traced
  <2>2. ASSUME NEW r \in 1..Len(o), o[r] \in K PROVE \E i \in 1..n : pos[i] = r
    <3>1. o[r].kind # "Sched"
      BY <2>2 DEF Ranges, TracedNodes, Importing, Traced
    <3> QED BY <1>3, <3>1
  <2>3. /\ \A i \in 1..Len(a) : o[pos[i]] \in K <=> a[i] \in K
        /\ \A r \in 1..Len(o) : o[r] \in K => \E i \in 1..Len(a) : pos[i] = r
    BY <2>1, <2>2 DEF n
  <2> QED BY <1>1, <1>6, <2>3, HasMoved
<1>10. ASSUME NEW g, NEW i \in 1..n PROVE Within(o, g, pos[i]) <=> Within(a, g, i)
  BY <1>1, <1>6, WithinMoved DEF n
<1>11. ASSUME NEW g, NEW i \in 1..n, Yielding(a, lines, i)
       PROVE  pos[i] - 1 \in 1..Len(o) /\ (Within(o, g, pos[i] - 1) <=> Within(a, g, i))
  <2> DEFINE r == pos[i] - 1
  <2>1. r \in 1..Len(o) /\ pos[i] \in r..Len(o) /\ \A j \in (r + 1)..pos[i] : j = pos[i]
    <3>1. pos[i] - 1 \in 1..Len(o)
      BY <1>1, <1>11 DEF YieldBefore, n
    <3> QED BY <1>2, <3>1
  <2> HIDE DEF r
  <2>2. \A j \in (r + 1)..pos[i] : o[j].kind # "File"
    BY <1>2, <1>5, <1>11, <2>1
  <2>3. Within(o, g, pos[i]) <=> Within(o, g, r)
    BY <2>1, <2>2, WithinOn
  <2> QED BY <1>10, <2>1, <2>3 DEF r
<1>12. ASSUME NEW g, Has(o, g, Goaty) PROVE \E i \in 1..n : Scheduled(a, lines, i) /\ Within(a, g, i)
  <2>1. PICK r \in 1..Len(o) : o[r] \in Goaty /\ Within(o, g, r)
    BY <1>12 DEF Has
  <2>2. o[r].kind # "File" /\ o[r].op \in {"goat", "yields"}
    BY <2>1 DEF Goaty
  <2>3. CASE \E i \in 1..n : pos[i] = r
    <3>1. PICK i \in 1..n : pos[i] = r
      BY <2>3
    <3>2. a[i].kind # "File" /\ Within(a, g, i)
      BY <1>2, <1>10, <2>1, <2>2, <3>1
    <3>3. a[i].op \notin {"goat", "yields"}
      BY <3>2 DEF n
    <3>4. Scheduled(a, lines, i)
      BY <1>4, <2>2, <3>1, <3>3
    <3> QED BY <3>2, <3>4
  <2>4. CASE \A i \in 1..n : pos[i] # r
    <3>1. PICK i \in 1..n : Yielding(a, lines, i) /\ pos[i] = r + 1
      BY <1>3, <2>4
    <3>2. pos[i] - 1 = r
      BY <1>2, <3>1
    <3> QED BY <1>11, <2>1, <3>1, <3>2 DEF Yielding
  <2> QED BY <2>3, <2>4
<1>13. ASSUME NEW g, NEW i \in 1..n, Scheduled(a, lines, i), Within(a, g, i) PROVE Has(o, g, Goaty)
  <2>1. CASE Converts(a[i])
    <3>1. o[pos[i]].op = "yields" /\ o[pos[i]].kind # "File"
      BY <1>2, <1>4, <1>13, <2>1 DEF Converts
    <3>2. o[pos[i]] \in Goaty
      BY <1>2, <3>1 DEF Goaty
    <3> QED BY <1>2, <1>10, <1>13, <3>2 DEF Has
  <2>2. CASE ~Converts(a[i])
    <3>1. Yielding(a, lines, i)
      BY <1>13, <2>2 DEF Yielding
    <3>2. o[pos[i] - 1].kind = "Sched" /\ o[pos[i] - 1].op = "goat" /\ pos[i] - 1 \in 1..Len(o)
      BY <1>1, <3>1 DEF YieldBefore, n
    <3>3. o[pos[i] - 1] \in Goaty
      BY <1>2, <3>2 DEF Goaty
    <3> QED BY <1>11, <1>13, <3>1, <3>2, <3>3 DEF Has
  <2> QED BY <2>1, <2>2
<1>14. \A g : Has(o, g, Goaty) <=> \E i \in 1..n : Scheduled(a, lines, i) /\ Within(a, g, i)
  BY <1>12, <1>13
<1> QED BY <1>7, <1>8, <1>9, <1>14 DEF n

\* What is put in after node e goes into its file.
LEMMA InsertHas ==
    ASSUME NEW x \in Seq(Nodes), Flat(x), Apart(x), NEW e \in 1..Len(x),
           NEW nodes \in Seq(Nodes), \A k \in 1..Len(nodes) : nodes[k].depth > 0 /\ nodes[k].kind # "File"
    PROVE  LET T == Insert(x, e, nodes)
           IN  /\ T \in Seq(Nodes) /\ Len(T) = Len(x) + Len(nodes) /\ Flat(T) /\ Apart(T)
               /\ \A k \in 1..e : T[k] = x[k] /\ \A g : Within(T, g, k) <=> Within(x, g, k)
               /\ \A K, g : Has(T, g, K) <=> \/ Has(x, g, K)
                                             \/ Within(x, g, e) /\ \E k \in 1..Len(nodes) : nodes[k] \in K
<1> DEFINE T == Insert(x, e, nodes)
           m == Len(nodes)
           n == Len(x)
           f == [k \in 1..n |-> IF k <= e THEN k ELSE k + m]
<1>1. /\ n \in Nat /\ m \in Nat /\ e \in 1..n
      /\ \A k \in 1..n : x[k].kind = "File" <=> x[k].depth = 0
  BY DEF Flat
<1>2. /\ T \in Seq(Nodes) /\ Len(T) = n + m
      /\ \A k \in 1..e : T[k] = x[k]
      /\ \A k \in 1..m : T[e + k] = nodes[k]
      /\ \A k \in (e + 1)..n : T[k + m] = x[k]
  <2>1. e \in 0..Len(x)
    BY <1>1
  <2> QED BY <2>1, Inserted
<1> HIDE DEF T, m, n
<1>3. /\ \A k \in 1..n : f[k] \in 1..(n + m) /\ T[f[k]] = x[k]
      /\ \A k, j \in 1..n : k < j <=> f[k] < f[j]
      /\ \A k \in 1..n : k <= e => f[k] = k
  BY <1>1, <1>2
<1>4. ASSUME NEW r \in 1..(n + m)
      PROVE  \/ \E k \in 1..n : f[k] = r
             \/ r - e \in 1..m /\ r = e + (r - e) /\ T[r] = nodes[r - e] /\ r \in e..(e + m)
  <2>1. CASE r <= e
    <3>1. r \in 1..n /\ f[r] = r
      BY <1>1, <2>1
    <3> QED BY <3>1
  <2>2. CASE r > e + m
    <3>1. r - m \in 1..n /\ f[r - m] = r
      BY <1>1, <2>2
    <3> QED BY <3>1
  <2>3. CASE r \in (e + 1)..(e + m)
    <3>1. r - e \in 1..m /\ e + (r - e) = r /\ r \in e..(e + m)
      BY <1>1, <2>3
    <3>2. T[e + (r - e)] = nodes[r - e]
      BY <1>2, <3>1
    <3> QED BY <3>1, <3>2
  <2> QED BY <1>1, <2>1, <2>2, <2>3
<1> HIDE DEF f
<1>5. \A k \in 1..m : nodes[k].kind # "File" /\ nodes[k].depth # 0
  <2>1. \A k \in 1..m : nodes[k].depth \in Nat /\ nodes[k].depth > 0
    BY DepthOf DEF m
  <2> QED BY <2>1 DEF m
<1>6. Moved(T, x, f)
  <2>1. \A k \in 1..n : f[k] \in 1..Len(T) /\ T[f[k]] = x[k]
    BY <1>2, <1>3
  <2> QED BY <1>3, <2>1 DEF Moved, n
<1>7. FilesKept(T, x, f)
  <2>1. \A r \in 1..Len(T) : T[r].kind = "File" => \E i \in 1..n : f[i] = r
    BY <1>2, <1>4, <1>5, SMTT(30)
  <2> QED BY <2>1 DEF FilesKept, n
<1>8. Flat(T) /\ Apart(T)
  <2>1. Apart(T)
    BY <1>2, <1>6, <1>7, ApartMoved
  <2>2. ASSUME NEW r \in 1..(n + m) PROVE T[r].kind = "File" <=> T[r].depth = 0
    <3>1. CASE \E k \in 1..n : f[k] = r
      BY <1>1, <1>3, <3>1
    <3>2. CASE r - e \in 1..m /\ T[r] = nodes[r - e]
      BY <1>5, <3>2
    <3> QED BY <1>4, <3>1, <3>2
  <2> QED BY <1>2, <2>1, <2>2 DEF Flat
<1>9. ASSUME NEW g, NEW k \in 1..n PROVE Within(T, g, f[k]) <=> Within(x, g, k)
  BY <1>2, <1>6, <1>7, WithinMoved DEF n
<1>10. ASSUME NEW g, NEW r \in e..(e + m) PROVE Within(T, g, r) <=> Within(x, g, e)
  <2>1. e \in 1..Len(T) /\ r \in e..Len(T) /\ f[e] = e
    BY <1>1, <1>2, <1>3
  <2>2. ASSUME NEW j \in (e + 1)..r PROVE T[j].kind # "File"
    <3>1. j - e \in 1..m /\ e + (j - e) = j
      BY <1>1
    <3>2. T[e + (j - e)] = nodes[j - e]
      BY <1>2, <3>1
    <3> QED BY <1>5, <3>1, <3>2
  <2>3. Within(T, g, r) <=> Within(T, g, e)
    BY <1>2, <2>1, <2>2, WithinOn
  <2>4. Within(T, g, f[e]) <=> Within(x, g, e)
    BY <1>1, <1>9
  <2> QED BY <2>1, <2>3, <2>4
<1>11. ASSUME NEW K, NEW g, Has(T, g, K)
       PROVE  Has(x, g, K) \/ (Within(x, g, e) /\ \E k \in 1..m : nodes[k] \in K)
  <2>1. PICK r \in 1..(n + m) : T[r] \in K /\ Within(T, g, r)
    BY <1>2, <1>11 DEF Has
  <2>2. CASE \E k \in 1..n : f[k] = r
    <3>1. PICK k \in 1..n : f[k] = r
      BY <2>2
    <3>2. x[k] \in K /\ Within(x, g, k)
      BY <1>3, <1>9, <2>1, <3>1
    <3> QED BY <3>2 DEF Has, n
  <2>3. CASE r - e \in 1..m /\ T[r] = nodes[r - e] /\ r \in e..(e + m)
    BY <1>10, <2>1, <2>3
  <2> QED BY <1>4, <2>2, <2>3
<1>12. ASSUME NEW K, NEW g, Has(x, g, K) PROVE Has(T, g, K)
  <2>1. PICK k \in 1..n : x[k] \in K /\ Within(x, g, k)
    BY <1>12 DEF Has, n
  <2>2. f[k] \in 1..Len(T) /\ T[f[k]] \in K /\ Within(T, g, f[k])
    BY <1>2, <1>3, <1>9, <2>1
  <2> QED BY <2>2 DEF Has
<1>13. ASSUME NEW K, NEW g, Within(x, g, e), NEW k \in 1..m, nodes[k] \in K PROVE Has(T, g, K)
  <2>1. e + k \in e..(e + m) /\ e + k \in 1..Len(T) /\ T[e + k] \in K
    BY <1>1, <1>2, <1>13
  <2> QED BY <1>10, <1>13, <2>1 DEF Has
<1>14. \A K, g : Has(T, g, K) <=> Has(x, g, K) \/ (Within(x, g, e) /\ \E k \in 1..m : nodes[k] \in K)
  BY <1>11, <1>12, <1>13
<1>15. \A k \in 1..e : T[k] = x[k] /\ \A g : Within(T, g, k) <=> Within(x, g, k)
  <2>1. \A k \in 1..e : k \in 1..n /\ f[k] = k
    BY <1>1, <1>3
  <2> QED BY <1>2, <1>9, <2>1
<1> QED BY <1>2, <1>8, <1>14, <1>15 DEF T, m, n

\* Yields at the ends of loops are put into files that yield already.
Looped(x, t) ==
    /\ Tidy(x, t) /\ Flat(x) /\ Apart(x)
    /\ \A K \in {Ranges, TracedNodes, Importing, Goaty} : \A g : Has(x, g, K) <=> Has(t, g, K)

LEMMA SchedMeets ==
    ASSUME NEW d \in Nat
    PROVE  LET n == astNode_sched(d)
           IN  n \notin Ranges \cup TracedNodes \cup Importing
BY SchedNode DEF Ranges, TracedNodes, Importing, Traced

LEMMA RangeLoops ==
    ASSUME NEW t \in Seq(Nodes), \A g : Has(t, g, Ranges) => Has(t, g, Goaty),
           NEW x, Looped(x, t), NEW k \in 1..Len(x), x[k].kind = "Range"
    PROVE  Looped(RangeVisit(x, k), t)
<1> DEFINE e == End(x, k)
           node == astNode_sched(x[k].depth + 2)
           nodes == <<node>>
           T == Insert(x, e, nodes)
<1>1. /\ x \in Seq(Nodes) /\ Blocks(x) /\ Tidy(x, t) /\ Flat(x) /\ Apart(x) /\ Len(x) \in Nat
      /\ x[k].depth \in Nat /\ x[k].depth + 2 \in Nat /\ x[k] \in Nodes
  <2>1. x \in Seq(Nodes)
    BY DEF Looped, Tidy
  <2> QED BY <2>1, DepthOf DEF Looped, Tidy
<1>2. \A K \in {Ranges, TracedNodes, Importing, Goaty} : \A g : Has(x, g, K) <=> Has(t, g, K)
  BY DEF Looped
<1>3. /\ Place(x, k, e) /\ nodes \in Seq(Nodes) /\ Len(nodes) = 1 /\ Inserts(nodes, x[k].depth)
      /\ RangeVisit(x, k) = T
  BY <1>1, RangePlace
<1>4. /\ e \in k..Len(x)
      /\ \A j \in (k + 1)..e : x[j].depth > x[k].depth
  BY <1>1, EndFound
<1>5. /\ node \notin Ranges \cup TracedNodes \cup Importing
      /\ node.depth = x[k].depth + 2 /\ node.kind = "Sched"
  BY <1>1, SchedMeets, SchedNode
<1> DEFINE d == x[k].depth
<1>6. d \in Nat /\ \A j \in 1..Len(x) : x[j].depth \in Nat /\ (x[j].kind = "File" <=> x[j].depth = 0)
  BY <1>1, DepthOf DEF Flat
<1> HIDE DEF e, node, d
<1>7. \A q \in 1..Len(nodes) : nodes[q] = node /\ nodes[q].depth > 0 /\ nodes[q].kind # "File"
  <2>1. node.depth > 0
    BY <1>5, <1>6 DEF d
  <2> QED BY <1>5, <2>1
<1> HIDE DEF nodes, T
<1>8. e \in 1..Len(x) /\ \A j \in (k + 1)..e : x[j].kind # "File"
  <2>1. e \in 1..Len(x) /\ \A j \in (k + 1)..e : j \in 1..Len(x)
    BY <1>1, <1>4
  <2>2. \A j \in (k + 1)..e : x[j].depth > d
    BY <1>4 DEF d
  <2> QED BY <1>6, <2>1, <2>2
<1>9. /\ T \in Seq(Nodes) /\ Flat(T) /\ Apart(T)
      /\ \A K, g : Has(T, g, K) <=> \/ Has(x, g, K)
                                    \/ Within(x, g, e) /\ \E q \in 1..Len(nodes) : nodes[q] \in K
  <2>1. e \in 1..Len(x) /\ \A q \in 1..Len(nodes) : nodes[q].depth > 0 /\ nodes[q].kind # "File"
    BY <1>7, <1>8
  <2> QED BY <1>1, <1>3, <2>1, InsertHas DEF T
<1>10. Tidy(T, t)
  BY <1>1, <1>3, TidyInsert DEF T
<1>11. ASSUME NEW K \in {Ranges, TracedNodes, Importing}, NEW g PROVE Has(T, g, K) <=> Has(t, g, K)
  BY <1>2, <1>5, <1>7, <1>9
<1>12. ASSUME NEW g PROVE Has(T, g, Goaty) <=> Has(t, g, Goaty)
  <2>1. ASSUME Within(x, g, e) PROVE Has(t, g, Goaty)
    <3>1. Within(x, g, k)
      BY <1>1, <1>4, <1>8, <2>1, WithinOn
    <3>2. Has(x, g, Ranges)
      BY <1>1, <3>1 DEF Has, Ranges
    <3> QED BY <1>2, <3>2
  <2> QED BY <1>2, <1>9, <2>1
<1> QED BY <1>3, <1>9, <1>10, <1>11, <1>12 DEF Looped

LEMMA RangeHas ==
    ASSUME NEW t \in Seq(Nodes), Blocks(t), Flat(t), Apart(t), \A g : Has(t, g, Ranges) => Has(t, g, Goaty)
    PROVE  Looped(InjectRange(t), t)
<1> DEFINE S == {x \in Seq(Nodes) : Looped(x, t)}
           P == Nat \X S
<1>1. t \in S /\ \A k \in 1..(2 * Len(t)) : k \in Nat
  BY DEF Looped, Tidy
<1>2. ASSUME NEW x \in S, NEW k \in Nat PROVE RangeVisit(x, k) \in S
  <2>1. x \in Seq(Nodes) /\ Looped(x, t) /\ DOMAIN x = 1..Len(x)
    OBVIOUS
  <2>2. Looped(RangeVisit(x, k), t)
    <3>1. CASE k \in DOMAIN x /\ x[k].kind = "Range"
      BY <2>1, <3>1, RangeLoops
    <3>2. CASE ~(k \in DOMAIN x /\ x[k].kind = "Range")
      BY <2>1, <3>2 DEF RangeVisit
    <3> QED BY <3>1, <3>2
  <2> QED BY <2>2 DEF Looped, Tidy
<1> HIDE DEF S
<1>3. \A k \in 1..(2 * Len(t)), x \in S : <<k - 1, x>> \in P => <<k, RangeVisit(x, k)>> \in P
  BY <1>1, <1>2
<1>4. <<0, t>> \in P
  BY <1>1
<1> HIDE DEF P
<1>5. InjectRange(t) \in S
  BY <1>1, <1>2, <1>3, <1>4, RangeReaches
<1> QED BY <1>5 DEF S

\* What starts the trace is put into the files that hold what is traced.
Started(x, t) ==
    /\ Tidy(x, t) /\ Flat(x) /\ Apart(x)
    /\ \A K \in {TracedNodes, Importing} : \A g : Has(x, g, K) <=> Has(t, g, K)
    /\ \A g : Has(t, g, Goaty) => Has(x, g, Goaty)
    /\ \A g : Has(x, g, Goaty) => Has(t, g, Goaty) \/ Has(t, g, TracedNodes)

\* After k visits: what was traced up to there has been started, and there is
\* a bound on what is still to be visited.
Starting(x, t, k) ==
    /\ Started(x, t)
    /\ \A j \in 1..Len(x) : j <= k /\ x[j] \in TracedNodes =>
          \A g : Within(x, g, j) => Has(x, g, Goaty)
    /\ \E q \in 0..Len(x) : /\ \A j \in (k + 1)..q : x[j] \notin TracedNodes
                            /\ Len(x) + 3 * (Len(x) - q) <= 4 * Len(t)

LEMMA MainStarts ==
    ASSUME NEW t \in Seq(Nodes), NEW m, NEW x, Started(x, t), NEW k \in 1..Len(x), Traced(x[k])
    PROVE  LET T == MainVisit(x, k, m)
               l == Len(T) - Len(x)
           IN  /\ Started(T, t)
               /\ l \in 1..3
               /\ k + 1 <= Len(x) /\ \A j \in 1..(k + 1) : T[j] = x[j] /\ \A g : Within(T, g, j) <=> Within(x, g, j)
               /\ \A j \in (k + 1)..(k + 1 + l) : T[j] \notin TracedNodes
               /\ \A g : Has(x, g, Goaty) => Has(T, g, Goaty)
               /\ \A g : Within(x, g, k) => Has(T, g, Goaty)
<1> DEFINE nodes == goatMain(x[k].depth + 2, m)
           T == Insert(x, k + 1, nodes)
           d == x[k].depth + 2
<1>1. /\ x \in Seq(Nodes) /\ Blocks(x) /\ Tidy(x, t) /\ Flat(x) /\ Apart(x) /\ Len(x) \in Nat
      /\ d \in Nat /\ x[k] \in Nodes /\ d > 0
  <2>1. x \in Seq(Nodes)
    BY DEF Started, Tidy
  <2>2. x[k].depth \in Nat
    BY <2>1, DepthOf
  <2> QED BY <2>1, <2>2 DEF Started, Tidy
<1>2. /\ \A K \in {TracedNodes, Importing} : \A g : Has(x, g, K) <=> Has(t, g, K)
      /\ \A g : Has(t, g, Goaty) => Has(x, g, Goaty)
      /\ \A g : Has(x, g, Goaty) => Has(t, g, Goaty) \/ Has(t, g, TracedNodes)
  BY DEF Started
<1>3. /\ Place(x, k, k + 1) /\ nodes \in Seq(Nodes) /\ Inserts(nodes, x[k].depth)
      /\ MainVisit(x, k, m) = T
  BY <1>1, MainPlace
<1>4. /\ Len(nodes) \in 1..3
      /\ \A q \in 1..Len(nodes) : /\ nodes[q].depth = d /\ nodes[q].kind \in {"Start", "Go", "Defer"}
                                  /\ nodes[q].op = "goat"
  <2> HIDE DEF d
  <2>1. nodes = goatMain(d, m)
    BY DEF d
  <2> QED BY <1>1, <2>1, MainNodes
<1> HIDE DEF d, nodes, T
<1>5. ASSUME NEW q \in 1..Len(nodes)
      PROVE  /\ nodes[q] \in Goaty /\ nodes[q] \notin TracedNodes /\ nodes[q] \notin Importing
             /\ nodes[q].depth > 0 /\ nodes[q].kind # "File"
  <2>1. nodes[q] \in Nodes
    BY <1>3
  <2> QED BY <1>1, <1>4, <2>1 DEF Goaty, TracedNodes, Traced, Importing
<1>6. k + 1 \in 1..Len(x) /\ x[k + 1].kind = "Block"
  <2>1. x[k].kind \in Holding
    BY DEF Traced, Holding
  <2> QED BY <1>1, <2>1 DEF Blocks
<1>7. /\ T \in Seq(Nodes) /\ Len(T) = Len(x) + Len(nodes) /\ Flat(T) /\ Apart(T)
      /\ \A j \in 1..(k + 1) : T[j] = x[j] /\ \A g : Within(T, g, j) <=> Within(x, g, j)
      /\ \A K, g : Has(T, g, K) <=> \/ Has(x, g, K)
                                    \/ Within(x, g, k + 1) /\ \E q \in 1..Len(nodes) : nodes[q] \in K
  <2> DEFINE e == k + 1
  <2>1. e \in 1..Len(x) /\ \A q \in 1..Len(nodes) : nodes[q].depth > 0 /\ nodes[q].kind # "File"
    BY <1>5, <1>6
  <2>2. T = Insert(x, e, nodes)
    BY DEF T
  <2> HIDE DEF e
  <2>3. /\ T \in Seq(Nodes) /\ Len(T) = Len(x) + Len(nodes) /\ Flat(T) /\ Apart(T)
        /\ \A j \in 1..e : T[j] = x[j] /\ \A g : Within(T, g, j) <=> Within(x, g, j)
        /\ \A K, g : Has(T, g, K) <=> \/ Has(x, g, K)
                                      \/ Within(x, g, e) /\ \E q \in 1..Len(nodes) : nodes[q] \in K
    BY <1>1, <1>3, <2>1, <2>2, InsertHas
  <2> QED BY <2>3 DEF e
<1>8. Tidy(T, t)
  BY <1>1, <1>3, TidyInsert DEF T
<1>9. \A g : Within(x, g, k + 1) <=> Within(x, g, k)
  <2> DEFINE e == k + 1
  <2>1. e \in k..Len(x) /\ \A j \in (k + 1)..e : j = k + 1
    BY <1>1, <1>6
  <2>2. \A j \in (k + 1)..e : x[j].kind # "File"
    BY <1>6, <2>1
  <2> HIDE DEF e
  <2>3. \A g : Within(x, g, e) <=> Within(x, g, k)
    BY <1>1, <2>1, <2>2, WithinOn
  <2> QED BY <2>3 DEF e
<1>10. 1 \in 1..Len(nodes)
  BY <1>4, SMTT(30)
<1>11. \A g : Has(T, g, Goaty) <=> Has(x, g, Goaty) \/ Within(x, g, k)
  BY <1>5, <1>7, <1>9, <1>10
<1>12. \A K \in {TracedNodes, Importing} : \A g : Has(T, g, K) <=> Has(t, g, K)
  BY <1>2, <1>5, <1>7
<1>13. \A g : Within(x, g, k) => Has(t, g, TracedNodes)
  <2>1. x[k] \in TracedNodes
    BY <1>1 DEF TracedNodes
  <2>2. \A g : Within(x, g, k) => Has(x, g, TracedNodes)
    BY <2>1 DEF Has
  <2> QED BY <1>2, <2>2
<1>14. Started(T, t)
  BY <1>2, <1>7, <1>8, <1>11, <1>12, <1>13 DEF Started
<1>15. ASSUME NEW j \in (k + 1)..(k + 1 + Len(nodes)) PROVE T[j] \notin TracedNodes
  <2>1. CASE j = k + 1
    <3>1. T[k + 1] = x[k + 1]
      BY <1>6, <1>7
    <3> QED BY <1>6, <2>1, <3>1 DEF TracedNodes, Traced
  <2>2. CASE j # k + 1
    <3>1. j - (k + 1) \in 1..Len(nodes) /\ (k + 1) + (j - (k + 1)) = j /\ k + 1 \in 0..Len(x)
      <4> DEFINE l == Len(nodes)
      <4>1. l \in 1..3 /\ j \in (k + 1)..(k + 1 + l) /\ k + 1 \in 1..Len(x)
        BY <1>4, <1>6
      <4> HIDE DEF l
      <4> QED BY <1>1, <2>2, <4>1 DEF l
    <3>2. \A q \in 1..Len(nodes) : T[(k + 1) + q] = nodes[q]
      BY <1>1, <1>3, <3>1, Inserted DEF T
    <3>3. T[j] = nodes[j - (k + 1)]
      BY <3>1, <3>2
    <3> QED BY <1>5, <3>1, <3>3
  <2> QED BY <2>1, <2>2
<1>16. Len(T) - Len(x) = Len(nodes)
  BY <1>1, <1>4, <1>7
<1>17. k + 1 <= Len(x)
  BY <1>6
<1> QED BY <1>3, <1>4, <1>7, <1>11, <1>14, <1>15, <1>16, <1>17

LEMMA StartingNext ==
    ASSUME NEW t \in Seq(Nodes), NEW m, NEW x, NEW k \in Nat \ {0}, Starting(x, t, k - 1)
    PROVE  Starting(MainVisit(x, k, m), t, k)
<1>1. /\ x \in Seq(Nodes) /\ Started(x, t) /\ Len(x) \in Nat /\ Len(t) \in Nat /\ DOMAIN x = 1..Len(x)
      /\ \A j \in 1..Len(x) : j <= k - 1 /\ x[j] \in TracedNodes => \A g : Within(x, g, j) => Has(x, g, Goaty)
  BY DEF Starting, Started, Tidy
<1>2. PICK q \in 0..Len(x) : /\ \A j \in ((k - 1) + 1)..q : x[j] \notin TracedNodes
                             /\ Len(x) + 3 * (Len(x) - q) <= 4 * Len(t)
  BY DEF Starting
<1>3. CASE k \in DOMAIN x /\ Traced(x[k])
  <2> DEFINE T == MainVisit(x, k, m)
             l == Len(T) - Len(x)
             r == k + 1 + l
  <2>1. /\ Started(T, t)
        /\ l \in 1..3
        /\ k + 1 <= Len(x) /\ \A j \in 1..(k + 1) : T[j] = x[j] /\ \A g : Within(T, g, j) <=> Within(x, g, j)
        /\ \A j \in (k + 1)..(k + 1 + l) : T[j] \notin TracedNodes
        /\ \A g : Has(x, g, Goaty) => Has(T, g, Goaty)
        /\ \A g : Within(x, g, k) => Has(T, g, Goaty)
    <3>1. k \in 1..Len(x) /\ Traced(x[k])
      BY <1>1, <1>3
    <3> QED BY <1>1, <3>1, MainStarts
  <2>2. x[k] \in TracedNodes /\ k \in 1..Len(x)
    BY <1>1, <1>3 DEF TracedNodes
  <2>3. T \in Seq(Nodes) /\ Len(T) \in Nat
    BY <2>1 DEF Started, Tidy
  <2> HIDE DEF T
  <2>4. Len(T) = Len(x) + l
    BY <1>1, <2>3
  <2> HIDE DEF l
  <2>5. ASSUME NEW j \in 1..Len(T), j <= k, T[j] \in TracedNodes, NEW g, Within(T, g, j)
        PROVE  Has(T, g, Goaty)
    <3>1. j \in 1..(k + 1) /\ j \in 1..Len(x)
      BY <2>1, <2>2, <2>3, <2>5
    <3>2. x[j] \in TracedNodes /\ Within(x, g, j)
      BY <2>1, <2>5, <3>1
    <3>3. j = k \/ j <= k - 1
      BY <2>5
    <3> QED BY <1>1, <2>1, <3>1, <3>2, <3>3
  <2>6. ~(k <= q)
    <3>1. k <= q => k \in ((k - 1) + 1)..q
      OBVIOUS
    <3> QED BY <1>2, <2>2, <3>1
  <2>7. r \in 0..Len(T)
    BY <1>1, <2>1, <2>3, <2>4
  <2>8. Len(T) + 3 * (Len(T) - r) <= 4 * Len(t)
    BY <1>1, <1>2, <2>1, <2>3, <2>4, <2>6
  <2>9. \A j \in (k + 1)..r : T[j] \notin TracedNodes
    BY <2>1
  <2> HIDE DEF r
  <2> QED BY <2>1, <2>5, <2>7, <2>8, <2>9 DEF Starting, T
<1>4. CASE ~(k \in DOMAIN x /\ Traced(x[k]))
  <2>1. MainVisit(x, k, m) = x
    BY <1>4 DEF MainVisit
  <2>2. ASSUME NEW j \in 1..Len(x), j <= k, x[j] \in TracedNodes PROVE j <= k - 1
    <3>1. j # k
      BY <1>1, <1>4, <2>2 DEF TracedNodes
    <3> QED BY <2>2, <3>1
  <2>3. \A j \in (k + 1)..q : j \in ((k - 1) + 1)..q
    OBVIOUS
  <2>4. /\ \A j \in 1..Len(x) : j <= k /\ x[j] \in TracedNodes => \A g : Within(x, g, j) => Has(x, g, Goaty)
        /\ \A j \in (k + 1)..q : x[j] \notin TracedNodes
    BY <1>1, <1>2, <2>2, <2>3
  <2> QED BY <1>1, <1>2, <2>1, <2>4 DEF Starting
<1> QED BY <1>3, <1>4

LEMMA MainHas ==
    ASSUME NEW t \in Seq(Nodes), Blocks(t), Flat(t), Apart(t), NEW m
    PROVE  LET w == InjectMain(t, m)
           IN  /\ w \in Seq(Nodes) /\ Flat(w) /\ Apart(w)
               /\ \A g : Has(w, g, Importing) <=> Has(t, g, Importing)
               /\ \A g : Has(w, g, Goaty) <=> Has(t, g, Goaty) \/ Has(t, g, TracedNodes)
<1> DEFINE S == {x \in Seq(Nodes) : Started(x, t)}
           P == {a \in Nat \X S : Starting(a[2], t, a[1])}
           n == 4 * Len(t)
<1>1. t \in S /\ n \in Nat /\ Len(t) \in Nat /\ Started(t, t)
  BY DEF Started, Tidy
<1>2. ASSUME NEW x \in S, NEW k \in Nat PROVE MainVisit(x, k, m) \in S
  <2>1. x \in Seq(Nodes) /\ Started(x, t) /\ DOMAIN x = 1..Len(x)
    OBVIOUS
  <2>2. Started(MainVisit(x, k, m), t)
    <3>1. CASE k \in DOMAIN x /\ Traced(x[k])
      BY <2>1, <3>1, MainStarts
    <3>2. CASE ~(k \in DOMAIN x /\ Traced(x[k]))
      BY <2>1, <3>2 DEF MainVisit
    <3> QED BY <3>1, <3>2
  <2> QED BY <2>2 DEF Started, Tidy
<1>3. ASSUME NEW k \in 1..n, NEW x \in S, <<k - 1, x>> \in P
      PROVE  <<k, MainVisit(x, k, m)>> \in P
  <2>1. k \in Nat \ {0}
    BY <1>1
  <2>2. Starting(x, t, k - 1)
    BY <1>3
  <2> HIDE DEF S
  <2>3. Starting(MainVisit(x, k, m), t, k)
    BY <2>1, <2>2, StartingNext
  <2> QED BY <1>2, <2>1, <2>3
<1>4. <<0, t>> \in P
  <2>1. /\ \A j \in 1..Len(t) : ~(j <= 0)
        /\ 0 \in 0..Len(t) /\ \A j \in (0 + 1)..0 : FALSE
        /\ Len(t) + 3 * (Len(t) - 0) <= 4 * Len(t)
    BY <1>1
  <2>2. Starting(t, t, 0)
    BY <1>1, <2>1 DEF Starting
  <2> HIDE DEF S
  <2> QED BY <1>1, <2>2
<1> DEFINE w == InjectMain(t, m)
<1>5. w \in S /\ <<n, w>> \in P
  <2> HIDE DEF S, P
  <2>1. \A x \in S, k \in Nat : MainVisit(x, k, m) \in S
    BY <1>2
  <2>2. \A k \in 1..(4 * Len(t)), x \in S : <<k - 1, x>> \in P => <<k, MainVisit(x, k, m)>> \in P
    BY <1>3
  <2> QED BY <1>1, <1>4, <2>1, <2>2, MainReaches
<1> HIDE DEF w
<1>6. w \in Seq(Nodes) /\ Started(w, t) /\ Starting(w, t, n) /\ Len(w) \in Nat
  BY <1>5
<1>7. ASSUME NEW g, Has(t, g, TracedNodes) PROVE Has(w, g, Goaty)
  <2>1. Has(w, g, TracedNodes)
    BY <1>6, <1>7 DEF Started
  <2>2. PICK j \in 1..Len(w) : w[j] \in TracedNodes /\ Within(w, g, j)
    BY <2>1 DEF Has
  <2>3. PICK q \in 0..Len(w) : Len(w) + 3 * (Len(w) - q) <= 4 * Len(t)
    BY <1>6 DEF Starting
  <2>4. j <= n
    BY <1>1, <1>6, <2>3
  <2> QED BY <1>6, <2>2, <2>4 DEF Starting
<1>8. \A g : Has(w, g, Goaty) <=> Has(t, g, Goaty) \/ Has(t, g, TracedNodes)
  BY <1>6, <1>7 DEF Started
<1>9. \A g : Has(w, g, Importing) <=> Has(t, g, Importing)
  BY <1>6 DEF Started
<1>10. Flat(w) /\ Apart(w)
  BY <1>6 DEF Started
<1> QED BY <1>6, <1>8, <1>9, <1>10 DEF w
-----------------------------------------------------------------------------
(***************************************************************************)
(* What the rewritings make of a package, loads                            *)
(***************************************************************************)
LEMMA SourceFlat ==
    ASSUME NEW t, Source(t)
    PROVE  /\ t \in Seq(Nodes) /\ Len(t) \in Nat /\ DOMAIN t = 1..Len(t) /\ 1 \in 1..Len(t)
           /\ Flat(t) /\ Apart(t) /\ \A i \in 1..Len(t) : t[i].id = i
<1>1. t \in Seq(Nodes) /\ Len(t) \in Nat /\ DOMAIN t = 1..Len(t) /\ 1 \in 1..Len(t)
  BY DEF Source, Tree
<1>2. \A i \in 1..Len(t) : t[i].id = i /\ (t[i].kind = "File" <=> t[i].depth = 0)
  BY <1>1 DEF Source
<1> QED BY <1>1, <1>2 DEF Flat, Apart

\* The file a node is within is the one that FileOf looks for.
LEMMA WithinFile ==
    ASSUME NEW t, Source(t), NEW i \in 1..Len(t)
    PROVE  /\ FileOf(t, i) \in 1..Len(t) /\ t[FileOf(t, i)].kind = "File"
           /\ i = FileOf(t, i) \/ i \in Below(t, FileOf(t, i))
           /\ \A g : Within(t, g, i) <=> g = FileOf(t, i)
<1>1. /\ t \in Seq(Nodes) /\ Len(t) \in Nat /\ DOMAIN t = 1..Len(t) /\ 1 \in 1..Len(t)
      /\ Flat(t) /\ Apart(t) /\ \A k \in 1..Len(t) : t[k].id = k
  BY SourceFlat
<1> DEFINE S == {h \in 1..i : t[h].kind = "File"}
<1>2. PICK h \in S : \A j \in S : j <= h
  <2>1. S \in SUBSET (0..i) /\ 1 \in S /\ i \in Nat
    BY <1>1 DEF Source
  <2> QED BY <2>1, HasGreatest
<1>3. h \in 1..i /\ t[h].kind = "File" /\ h \in 1..Len(t)
  BY <1>1, <1>2
<1>4. Within(t, h, i)
  <2>1. \A j \in (h + 1)..i : t[j].kind # "File"
    BY <1>1, <1>2, <1>3
  <2> QED BY <1>1, <1>3, <2>1 DEF Within
<1> DEFINE At(f) == f \in 1..i /\ t[f].kind = "File" /\ i \in {f} \cup Below(t, f)
<1>5. At(h)
  BY <1>1, <1>3, <1>4, BelowWithin
<1> DEFINE c == FileOf(t, i)
<1>6. At(c)
  <2>1. c = CHOOSE f \in 1..i : t[f].kind = "File" /\ i \in {f} \cup Below(t, f)
    BY DEF FileOf
  <2> HIDE DEF c
  <2> QED BY <1>5, <2>1
<1> HIDE DEF c
<1>7. c \in 1..Len(t) /\ t[c].kind = "File" /\ (i = c \/ i \in Below(t, c))
  BY <1>1, <1>6
<1>8. Within(t, c, i)
  BY <1>1, <1>7, BelowWithin
<1>9. ASSUME NEW g, Within(t, g, i) PROVE g = c
  <2>1. PICK f \in 1..i : /\ t[f].kind = "File" /\ t[f].id = g
                          /\ \A j \in (f + 1)..i : t[j].kind # "File"
    BY <1>9 DEF Within
  <2>2. f \in 1..Len(t) /\ g = f
    BY <1>1, <2>1
  <2>3. i = f \/ i \in Below(t, f)
    BY <1>1, <1>9, <2>1, <2>2, BelowWithin
  <2>4. PICK e \in 1..i : /\ t[e].kind = "File" /\ t[e].id = c
                          /\ \A j \in (e + 1)..i : t[j].kind # "File"
    BY <1>8 DEF Within
  <2>5. e = c
    BY <1>1, <2>4
  <2>6. ~(f < e) /\ ~(e < f)
    BY <1>1, <2>1, <2>4
  <2> QED BY <1>1, <2>2, <2>4, <2>5, <2>6
<1> QED BY <1>7, <1>8, <1>9 DEF c

LEMMA BelowFile ==
    ASSUME NEW t, Source(t), NEW f \in 1..Len(t), t[f].kind = "File"
    PROVE  /\ Below(t, f) \subseteq 1..Len(t)
           /\ \A i \in 1..Len(t) : t[i].kind # "File" => (i \in Below(t, f) <=> FileOf(t, i) = f)
<1>1. /\ t \in Seq(Nodes) /\ Len(t) \in Nat /\ DOMAIN t = 1..Len(t) /\ 1 \in 1..Len(t)
      /\ Flat(t) /\ Apart(t) /\ \A k \in 1..Len(t) : t[k].id = k
  BY SourceFlat
<1>2. Below(t, f) \subseteq 1..Len(t)
  BY <1>1, BelowIsUnder
<1>3. ASSUME NEW i \in 1..Len(t), t[i].kind # "File" PROVE i \in Below(t, f) <=> FileOf(t, i) = f
  <2>1. Within(t, t[f].id, i) <=> i = f \/ i \in Below(t, f)
    BY <1>1, BelowWithin
  <2>2. Within(t, f, i) <=> f = FileOf(t, i)
    BY WithinFile
  <2> QED BY <1>1, <1>3, <2>1, <2>2
<1> QED BY <1>2, <1>3

LEMMA AlikeWithin ==
    ASSUME NEW t \in Seq(Nodes), NEW a, Alike(a, t), NEW g, NEW i \in 1..Len(t)
    PROVE  Within(a, g, i) <=> Within(t, g, i)
<1>1. \A k \in 1..Len(t) : a[k].kind = t[k].kind /\ a[k].id = t[k].id
  BY DEF Alike
<1>2. \A f \in 1..i : f \in 1..Len(t) /\ \A j \in (f + 1)..i : j \in 1..Len(t)
  OBVIOUS
<1>3. \A f \in 1..i : /\ a[f].kind = t[f].kind /\ a[f].id = t[f].id
                      /\ \A j \in (f + 1)..i : a[j].kind = t[j].kind
  BY <1>1, <1>2
<1> QED BY <1>3 DEF Within

LEMMA AlikeFlat ==
    ASSUME NEW t \in Seq(Nodes), NEW a, Alike(a, t), Flat(t), Apart(t)
    PROVE  Flat(a) /\ Apart(a)
<1>1. \A k \in 1..Len(t) : a[k].kind = t[k].kind /\ a[k].id = t[k].id /\ a[k].depth = t[k].depth
  BY DEF Alike
<1>2. Len(a) = Len(t)
  BY DEF Alike
<1> QED BY <1>1, <1>2 DEF Flat, Apart

\* The files of a package that are marked import goat, and nothing calls it yet.
LEMMA ImportHas ==
    ASSUME NEW t, Source(t), Grammar(t), Unmarked(t), NEW files,
           \A f \in files : f \in DOMAIN t /\ t[f].kind = "File"
    PROVE  LET a == AddImport(t, files)
           IN  /\ Source(a) /\ a \in Seq(Nodes) /\ Grammar(a) /\ Alike(a, t)
               /\ \A i \in 1..Len(t) : Plain(a[i]) = Plain(t[i])
               /\ \A i \in 1..Len(t) : a[i].kind # "File" => a[i] = t[i]
               /\ \A i \in 1..Len(t) : a[i] \in Importing <=> i \in files
               /\ \A lines : \A i \in 1..Len(t) :
                     /\ Case(a[i]) <=> Case(t[i])
                     /\ Scheduled(a, lines, i) <=> Scheduled(t, lines, i)
                     /\ Yielding(a, lines, i) <=> Yielding(t, lines, i)
                     /\ Blocked(a, lines, i) <=> Blocked(t, lines, i)
<1> DEFINE a == AddImport(t, files)
<1>1. t \in Seq(Nodes) /\ DOMAIN t = 1..Len(t) /\ \A i \in 1..Len(t) : t[i] \in Nodes
  BY SourceFlat
<1>2. Source(a) /\ Len(a) = Len(t) /\ \A i \in DOMAIN t : Plain(a[i]) = Plain(t[i])
  BY ImportsSame
<1>3. \A i \in 1..Len(t) : a[i] = IF i \in files THEN [t[i] EXCEPT !.op = "goat"] ELSE t[i]
  BY <1>1 DEF AddImport
<1> HIDE DEF a
<1>4. a \in Seq(Nodes) /\ \A i \in 1..Len(t) : a[i] \in Nodes
  BY <1>2 DEF Source, Tree
<1>5. Grammar(a) /\ Alike(a, t)
  BY <1>1, <1>2, <1>4, SameTree
<1>6. \A lines : \A i \in 1..Len(t) :
         /\ Case(a[i]) <=> Case(t[i])
         /\ Scheduled(a, lines, i) <=> Scheduled(t, lines, i)
         /\ Yielding(a, lines, i) <=> Yielding(t, lines, i)
         /\ Blocked(a, lines, i) <=> Blocked(t, lines, i)
  BY <1>1, <1>2, <1>4, SameTree
<1>7. ASSUME NEW i \in 1..Len(t)
      PROVE  (a[i].kind # "File" => a[i] = t[i]) /\ (a[i] \in Importing <=> i \in files)
  <2>1. t[i].op # "goat" /\ a[i].kind = t[i].kind
    BY <1>1, <1>5 DEF Unmarked, Alike
  <2>2. i \in files => a[i].op = "goat" /\ a[i].kind = "File"
    <3>1. i \in files => a[i] = [t[i] EXCEPT !.op = "goat"] /\ t[i].kind = "File"
      BY <1>3
    <3>2. t[i] \in Nodes
      BY <1>1
    <3> QED BY <2>1, <3>1, <3>2 DEF Nodes
  <2>3. i \notin files => a[i] = t[i]
    BY <1>3
  <2>4. a[i] \in Nodes
    BY <1>4
  <2> QED BY <1>1, <2>1, <2>2, <2>3, <2>4 DEF Importing
<1>8. \A i \in 1..Len(t) : Plain(a[i]) = Plain(t[i])
  BY <1>1, <1>2
<1>9. /\ \A i \in 1..Len(t) : a[i].kind # "File" => a[i] = t[i]
      /\ \A i \in 1..Len(t) : a[i] \in Importing <=> i \in files
  BY <1>7
<1> QED BY <1>2, <1>4, <1>5, <1>6, <1>8, <1>9, Zenon DEF a

LEMMA FileItself ==
    ASSUME NEW t, Source(t), NEW f \in 1..Len(t), t[f].kind = "File"
    PROVE  FileOf(t, f) = f
<1>1. t \in Seq(Nodes) /\ Len(t) \in Nat /\ \A i \in 1..Len(t) : t[i].id = i
  BY SourceFlat
<1>2. Within(t, f, f)
  <2>1. f \in 1..f /\ \A j \in (f + 1)..f : FALSE
    BY <1>1
  <2> QED BY <1>1, <2>1 DEF Within
<1> QED BY <1>2, WithinFile

\* Only the files marked import goat, in whatever is made of the package that
\* keeps its nodes.
LEMMA FilesImport ==
    ASSUME NEW t, Source(t), NEW c \in Seq(Nodes), Alike(c, t), NEW files, files \subseteq 1..Len(t),
           \A i \in 1..Len(t) : c[i] \in Importing <=> i \in files,
           \A f \in files : t[f].kind = "File"
    PROVE  \A g : Has(c, g, Importing) <=> g \in files
<1>1. t \in Seq(Nodes) /\ Len(c) = Len(t)
  BY SourceFlat DEF Alike
<1>2. \A g : \A i \in 1..Len(t) : Within(c, g, i) <=> g = FileOf(t, i)
  BY <1>1, AlikeWithin, WithinFile
<1>3. \A f \in files : f \in 1..Len(t) /\ FileOf(t, f) = f
  BY FileItself
<1>4. ASSUME NEW g, Has(c, g, Importing) PROVE g \in files
  <2>1. PICK i \in 1..Len(t) : c[i] \in Importing /\ Within(c, g, i)
    BY <1>1, <1>4 DEF Has
  <2>2. i \in files /\ g = FileOf(t, i)
    BY <1>2, <2>1
  <2> QED BY <1>3, <2>2
<1>5. ASSUME NEW g, g \in files PROVE Has(c, g, Importing)
  <2>1. g \in 1..Len(t) /\ c[g] \in Importing /\ Within(c, g, g)
    BY <1>2, <1>3, <1>5
  <2> QED BY <1>1, <2>1 DEF Has
<1> QED BY <1>4, <1>5

\* A package that is only traced loads unless a file has test methods to
\* import goat for, but nothing to trace.
LEMMA TraceOnlyLoads ==
    ASSUME NEW t, Source(t), Grammar(t), Unmarked(t)
    PROVE  Loads(rewrite_traceOnly(t)) <=>
              \A i \in 1..Len(t) : testIn(t[i]) =>
                  \E j \in 1..Len(t) : Traced(t[j]) /\ FileOf(t, j) = FileOf(t, i)
<1> DEFINE files == tracefiles(t)
           a == AddImport(t, files)
           c == ConvertDefers(a)
           w == InjectMain(c, "traceOnly")
<1>1. t \in Seq(Nodes) /\ Len(t) \in Nat /\ DOMAIN t = 1..Len(t) /\ Flat(t) /\ Apart(t)
  BY SourceFlat
<1>2. files = {FileOf(t, i) : i \in {j \in 1..Len(t) : mainIn(t[j]) \/ testIn(t[j])}}
  BY <1>1 DEF tracefiles
<1>3. files \subseteq 1..Len(t) /\ \A f \in files : f \in DOMAIN t /\ t[f].kind = "File"
  <2>1. \A i \in 1..Len(t) : FileOf(t, i) \in 1..Len(t) /\ t[FileOf(t, i)].kind = "File"
    BY WithinFile
  <2> QED BY <1>1, <1>2, <2>1
<1>4. rewrite_traceOnly(t) = w
  BY DEF rewrite_traceOnly
<1> HIDE DEF files
<1>5. /\ Source(a) /\ a \in Seq(Nodes) /\ Alike(a, t)
      /\ \A i \in 1..Len(t) : Plain(a[i]) = Plain(t[i])
      /\ \A i \in 1..Len(t) : a[i].kind # "File" => a[i] = t[i]
      /\ \A i \in 1..Len(t) : a[i] \in Importing <=> i \in files
  BY <1>3, ImportHas
<1> HIDE DEF a
<1>6. Len(a) = Len(t) /\ DOMAIN a = 1..Len(t)
  <2>1. Len(a) = Len(t)
    BY <1>5 DEF Alike
  <2> QED BY <1>5, <2>1
<1>7. /\ Tree(c) /\ Len(c) = Len(t) /\ \A i \in 1..Len(t) : Plain(c[i]) = Plain(a[i])
  BY <1>5, <1>6, DefersSame
<1>8. \A i \in 1..Len(t) : c[i] = IF a[i].kind = "Defer" THEN astNode_convertDeferNoSched(a[i]) ELSE a[i]
  BY <1>6 DEF ConvertDefers
<1> HIDE DEF c
<1>9. c \in Seq(Nodes) /\ \A i \in 1..Len(t) : c[i] \in Nodes
  BY <1>7 DEF Tree
<1>10. Grammar(c) /\ Alike(c, t)
  <2>1. \A i \in DOMAIN t : Plain(c[i]) = Plain(t[i])
    BY <1>1, <1>5, <1>7
  <2> QED BY <1>1, <1>7, <1>9, <2>1, SameTree
<1>11. Flat(c) /\ Apart(c) /\ Blocks(c) /\ ~Stray(c)
  BY <1>1, <1>9, <1>10, AlikeFlat, GrammarParses
<1>12. ASSUME NEW i \in 1..Len(t)
       PROVE  /\ c[i] \in Importing <=> i \in files
              /\ c[i] \in TracedNodes <=> Traced(t[i])
              /\ c[i] \notin Goaty
  <2>1. c[i].kind = t[i].kind /\ a[i].kind = t[i].kind /\ c[i] \in Nodes /\ a[i] \in Nodes
    BY <1>5, <1>6, <1>9, <1>10 DEF Alike
  <2>2. CASE t[i].kind = "Defer"
    <3>1. c[i] = [a[i] EXCEPT !.op = "closure"]
      BY <1>8, <2>1, <2>2 DEF astNode_convertDeferNoSched
    <3>2. c[i].op = "closure"
      BY <2>1, <3>1 DEF Nodes
    <3>3. i \notin files
      BY <1>3, <2>2
    <3> QED BY <2>1, <2>2, <3>2, <3>3 DEF Importing, TracedNodes, Goaty, Traced
  <2>3. CASE t[i].kind # "Defer"
    <3>1. c[i] = a[i]
      BY <1>8, <2>1, <2>3
    <3>2. a[i].kind # "File" => a[i] = t[i] /\ t[i].op \notin {"goat", "yields"}
      BY <1>1, <1>5 DEF Unmarked
    <3> QED BY <1>5, <2>1, <3>1, <3>2 DEF TracedNodes, Goaty, Traced
  <2> QED BY <2>2, <2>3
<1>13. Tidy(w, c)
  BY <1>9, <1>11, MainTidy
<1>14. /\ w \in Seq(Nodes) /\ Flat(w) /\ Apart(w)
       /\ \A g : Has(w, g, Importing) <=> Has(c, g, Importing)
       /\ \A g : Has(w, g, Goaty) <=> Has(c, g, Goaty) \/ Has(c, g, TracedNodes)
  BY <1>9, <1>11, MainHas
<1> HIDE DEF w
<1>15. Parses(w)
  BY <1>11, <1>13, ParsesIs DEF Tidy
<1>16. \A g : Has(c, g, Importing) <=> g \in files
  BY <1>3, <1>9, <1>10, <1>12, FilesImport
<1>17. \A g : Has(c, g, TracedNodes) <=> \E j \in 1..Len(t) : Traced(t[j]) /\ FileOf(t, j) = g
  <2>1. \A g : \A i \in 1..Len(t) : Within(c, g, i) <=> g = FileOf(t, i)
    BY <1>1, <1>10, AlikeWithin, WithinFile
  <2> QED BY <1>7, <1>12, <2>1 DEF Has
<1>18. \A g : ~Has(c, g, Goaty)
  BY <1>7, <1>12 DEF Has
<1>19. ImportsMatch(w) <=> \A g \in Nat : g \in files <=> \E j \in 1..Len(t) : Traced(t[j]) /\ FileOf(t, j) = g
  BY <1>14, <1>16, <1>17, <1>18, MatchIs
<1>20. \A i \in 1..Len(t) : /\ FileOf(t, i) \in Nat
                            /\ Traced(t[i]) => mainIn(t[i]) \/ testIn(t[i])
                            /\ mainIn(t[i]) => Traced(t[i])
  <2>1. \A i \in 1..Len(t) : FileOf(t, i) \in 1..Len(t)
    BY WithinFile
  <2> QED BY <2>1 DEF Traced, mainIn, testIn
<1>21. ImportsMatch(w) <=> \A i \in 1..Len(t) : testIn(t[i]) =>
                               \E j \in 1..Len(t) : Traced(t[j]) /\ FileOf(t, j) = FileOf(t, i)
  BY <1>2, <1>19, <1>20
<1> QED BY <1>4, <1>15, <1>21 DEF Loads

\* The file has a line to yield before.
YieldsIn(t, lines, g) == \E i \in 1..Len(t) : Scheduled(t, lines, i) /\ FileOf(t, i) = g

\* The files that import goat are those that yield.
LEMMA ConcfilesYield ==
    ASSUME NEW t, Source(t), Grammar(t), NEW us, NEW m, m # "traceOnly"
    PROVE  /\ concfiles(t, us, m) \subseteq 1..Len(t)
           /\ \A f \in concfiles(t, us, m) : f \in DOMAIN t /\ t[f].kind = "File"
           /\ \A g : g \in concfiles(t, us, m) <=> YieldsIn(t, conclines(us, m), g)
<1> DEFINE files == concfiles(t, us, m)
           lines == conclines(us, m)
<1>1. t \in Seq(Nodes) /\ Len(t) \in Nat /\ DOMAIN t = 1..Len(t) /\ 1 \in 1..Len(t)
  BY SourceFlat
<1>2. files = {FileOf(t, i) : i \in {j \in 1..Len(t) : Line(t, j) \in lines}}
  BY <1>1 DEF concfiles, conclines
<1> HIDE DEF files, lines
<1>3. t[1].begins
  <2>1. Attached(t, 1) /\ t[1].kind = "File"
    BY <1>1 DEF Source, Grammar
  <2> QED BY <2>1 DEF Attached, Shape
<1>4. ASSUME NEW j \in 1..Len(t), Line(t, j) \in lines PROVE YieldsIn(t, lines, FileOf(t, j))
  <2>1. PICK h \in 1..j : /\ t[h].begins /\ Line(t, h) = Line(t, j)
                          /\ \A k \in (h + 1)..j : ~t[k].begins
    BY <1>1, <1>3, LineBegins
  <2>2. h \in 1..Len(t) /\ j \in h..Len(t) /\ \A k \in (h + 1)..j : k \in 1..Len(t)
    BY <1>1
  <2>3. \A k \in (h + 1)..j : t[k].kind # "File"
    <3>1. \A k \in 1..Len(t) : Shape(t[k])
      BY <1>1 DEF Grammar, Attached
    <3>2. \A k \in 1..Len(t) : t[k].kind = "File" => t[k].begins
      BY <3>1 DEF Shape
    <3> QED BY <2>1, <2>2, <3>2
  <2>4. \A g : Within(t, g, j) <=> Within(t, g, h)
    BY <1>1, <2>2, <2>3, WithinOn
  <2>5. FileOf(t, j) = FileOf(t, h)
    BY <2>2, <2>4, WithinFile
  <2> QED BY <1>4, <2>1, <2>2, <2>5 DEF YieldsIn, Scheduled
<1>5. ASSUME NEW g, YieldsIn(t, lines, g) PROVE g \in files
  BY <1>2, <1>5 DEF YieldsIn, Scheduled
<1>6. \A i \in 1..Len(t) : FileOf(t, i) \in 1..Len(t) /\ t[FileOf(t, i)].kind = "File"
  BY WithinFile
<1>7. files \subseteq 1..Len(t) /\ \A f \in files : f \in DOMAIN t /\ t[f].kind = "File"
  BY <1>1, <1>2, <1>6
<1>8. \A g : g \in files <=> YieldsIn(t, lines, g)
  BY <1>2, <1>4, <1>5
<1> QED BY <1>7, <1>8 DEF files, lines

\* What the yields make of a package stops at what cannot be put before, does
\* not parse with a yield before a case, and does not compile if a file holds
\* something to trace but nothing to yield before.
LEMMA SchedLoads ==
    ASSUME NEW t, Source(t), Grammar(t), Unmarked(t), NEW us, NEW m, m # "traceOnly",
           conclines(us, m) \in SUBSET (Nat \ {0}),
           \A i \in 1..Len(t) : t[i].kind = "Range" => YieldsIn(t, conclines(us, m), FileOf(t, i))
    PROVE  LET r == rewrite_sched(t, us, m)
               lines == conclines(us, m)
           IN  /\ r.panic <=> \E i \in 1..Len(t) : Blocked(t, lines, i)
               /\ ~r.panic => (Loads(r.out) <=>
                    /\ ~(\E i \in 1..Len(t) : Yielding(t, lines, i) /\ Case(t[i]))
                    /\ \A i \in 1..Len(t) : Traced(t[i]) => YieldsIn(t, lines, FileOf(t, i)))
<1> DEFINE files == concfiles(t, us, m)
           lines == conclines(us, m)
           a == AddImport(t, files)
           r == InjectSched(a, lines)
           o == r.out
           g == InjectRange(o)
           w == InjectMain(g, m)
<1>1. t \in Seq(Nodes) /\ Len(t) \in Nat /\ DOMAIN t = 1..Len(t) /\ Flat(t) /\ Apart(t)
  BY SourceFlat
<1>2. /\ files \subseteq 1..Len(t)
      /\ \A f \in files : f \in DOMAIN t /\ t[f].kind = "File"
      /\ \A f : f \in files <=> YieldsIn(t, lines, f)
  BY ConcfilesYield
<1>3. rewrite_sched(t, us, m).panic = r.panic /\ rewrite_sched(t, us, m).out = w
  <2>1. rewrite_sched(t, us, m) = [panic |-> r.panic, out |-> w]
    BY DEF rewrite_sched
  <2> HIDE DEF r, w
  <2> QED BY <2>1
<1> HIDE DEF files
<1>0. \A f \in files : f \in DOMAIN t /\ t[f].kind = "File"
  BY <1>2
<1>4. /\ Source(a) /\ a \in Seq(Nodes) /\ Grammar(a) /\ Alike(a, t)
      /\ \A i \in 1..Len(t) : a[i].kind # "File" => a[i] = t[i]
      /\ \A i \in 1..Len(t) : a[i] \in Importing <=> i \in files
  BY <1>0, ImportHas
<1>5. \A ls : \A i \in 1..Len(t) :
         /\ Case(a[i]) <=> Case(t[i])
         /\ Scheduled(a, ls, i) <=> Scheduled(t, ls, i)
         /\ Yielding(a, ls, i) <=> Yielding(t, ls, i)
         /\ Blocked(a, ls, i) <=> Blocked(t, ls, i)
  BY <1>0, ImportHas
<1> HIDE DEF a
<1>6. Len(a) = Len(t) /\ Flat(a) /\ Apart(a) /\ \A i \in 1..Len(t) : a[i].kind = t[i].kind
  BY <1>1, <1>4, AlikeFlat DEF Alike
<1>7. lines \in SUBSET (Nat \ {0}) /\ \A i \in 1..Len(t) : t[i].kind = "Range" => YieldsIn(t, lines, FileOf(t, i))
  OBVIOUS
<1> HIDE DEF lines, r
<1>8. Yielded(r, a, Len(a), lines) /\ r \in SchedState(lines)
  BY <1>4, <1>7, SchedYields DEF r
<1>9. r.panic <=> \E i \in 1..Len(t) : Blocked(t, lines, i)
  <2>1. r.panic <=> \E i \in 1..Len(a) : Blocked(a, lines, i)
    BY <1>8 DEF Yielded
  <2> QED BY <1>5, <1>6, <2>1
<1>10. \A f : \A i \in 1..Len(t) : Within(a, f, i) <=> f = FileOf(t, i)
  BY <1>1, <1>4, AlikeWithin, WithinFile
<1>11. ASSUME ~r.panic
       PROVE  Loads(w) <=> /\ ~(\E i \in 1..Len(t) : Yielding(t, lines, i) /\ Case(t[i]))
                           /\ \A i \in 1..Len(t) : Traced(t[i]) => YieldsIn(t, lines, FileOf(t, i))
  <2>1. PICK pos : Copied(o, a, Len(a), lines, pos)
    BY <1>8, <1>11 DEF Yielded
  <2>2. o \in Seq(Nodes)
    BY <1>8 DEF SchedState
  <2> HIDE DEF o
  <2>3. Blocks(o)
    BY <1>4, <2>1, <2>2, CopiedBlocks
  <2>4. Stray(o) <=> \E i \in 1..Len(a) : Yielding(a, lines, i) /\ Case(a[i])
    <3>1. \A i \in 1..Len(a) : Case(a[i]) => a[i].depth > 0
      <4>1. \A i \in 1..Len(a) : a[i].depth \in Nat /\ (a[i].kind = "File" <=> a[i].depth = 0)
        BY <1>4, <1>6, DepthOf DEF Flat
      <4> QED BY <4>1 DEF Case
    <3> QED BY <1>4, <2>1, <2>2, <3>1, CopiedStray
  <2>5. \A i \in 1..Len(a) : a[i].kind # "File" => a[i].op \notin {"goat", "yields"}
    BY <1>1, <1>4, <1>6 DEF Unmarked
  <2>6. \A i \in 1..Len(a) : ~Blocked(a, lines, i)
    BY <1>5, <1>6, <1>9, <1>11
  <2>7. /\ Flat(o) /\ Apart(o)
        /\ \A K \in {Ranges, TracedNodes, Importing} : \A f : Has(o, f, K) <=> Has(a, f, K)
        /\ \A f : Has(o, f, Goaty) <=> \E i \in 1..Len(a) : Scheduled(a, lines, i) /\ Within(a, f, i)
    BY <1>4, <1>6, <2>1, <2>2, <2>5, <2>6, SchedHas
  <2>8. \A f : Has(o, f, Goaty) <=> YieldsIn(t, lines, f)
    BY <1>5, <1>6, <1>10, <2>7 DEF YieldsIn
  <2>9. \A f : Has(a, f, Importing) <=> YieldsIn(t, lines, f)
    <3>1. files \subseteq 1..Len(t) /\ \A f \in files : t[f].kind = "File"
      BY <1>2
    <3>2. \A i \in 1..Len(t) : a[i] \in Importing <=> i \in files
      BY <1>4
    <3>3. a \in Seq(Nodes) /\ Alike(a, t)
      BY <1>4
    <3>4. \A f : Has(a, f, Importing) <=> f \in files
      BY <3>1, <3>2, <3>3, FilesImport
    <3> QED BY <1>2, <3>4
  <2>10. \A f : Has(a, f, Ranges) => YieldsIn(t, lines, f)
    <3>1. \A i \in 1..Len(t) : a[i] \in Ranges => t[i].kind = "Range"
      BY <1>6 DEF Ranges
    <3> QED BY <1>6, <1>7, <1>10, <3>1 DEF Has
  <2>11. \A f : Has(a, f, TracedNodes) <=> \E i \in 1..Len(t) : Traced(t[i]) /\ FileOf(t, i) = f
    <3>1. \A i \in 1..Len(t) : a[i] \in TracedNodes <=> Traced(t[i])
      <4>1. \A i \in 1..Len(t) : a[i] \in Nodes
        BY <1>4, <1>6
      <4> QED BY <1>4, <1>6, <4>1 DEF TracedNodes, Traced
    <3> QED BY <1>6, <1>10, <3>1 DEF Has
  <2>12. \A f : Has(o, f, Ranges) => Has(o, f, Goaty)
    BY <2>7, <2>8, <2>10
  <2>13. Looped(g, o) /\ Tidy(g, o)
    BY <2>2, <2>3, <2>7, <2>12, RangeHas DEF Looped
  <2> HIDE DEF g
  <2>14. /\ g \in Seq(Nodes) /\ Blocks(g) /\ (Stray(g) <=> Stray(o)) /\ Flat(g) /\ Apart(g)
         /\ \A K \in {Ranges, TracedNodes, Importing, Goaty} : \A f : Has(g, f, K) <=> Has(o, f, K)
    BY <2>13 DEF Looped, Tidy
  <2>15. Tidy(w, g)
    BY <2>14, MainTidy
  <2>16. /\ w \in Seq(Nodes) /\ Flat(w) /\ Apart(w)
         /\ \A f : Has(w, f, Importing) <=> Has(g, f, Importing)
         /\ \A f : Has(w, f, Goaty) <=> Has(g, f, Goaty) \/ Has(g, f, TracedNodes)
    BY <2>14, MainHas
  <2> HIDE DEF w
  <2>17. Parses(w) <=> ~Stray(w)
    BY <2>15, ParsesIs DEF Tidy
  <2>18. Stray(w) <=> \E i \in 1..Len(t) : Yielding(t, lines, i) /\ Case(t[i])
    BY <1>5, <1>6, <2>4, <2>14, <2>15 DEF Tidy
  <2>19. ImportsMatch(w) <=> \A f \in Nat : Has(w, f, Importing) <=> Has(w, f, Goaty)
    BY <2>16, MatchIs
  <2>20. \A f : Has(w, f, Importing) <=> YieldsIn(t, lines, f)
    BY <2>7, <2>9, <2>14, <2>16
  <2>21. \A f : Has(w, f, Goaty) <=> \/ YieldsIn(t, lines, f)
                                     \/ \E i \in 1..Len(t) : Traced(t[i]) /\ FileOf(t, i) = f
    BY <2>7, <2>8, <2>11, <2>14, <2>16
  <2>22. \A i \in 1..Len(t) : FileOf(t, i) \in Nat
    <3>1. \A i \in 1..Len(t) : FileOf(t, i) \in 1..Len(t)
      BY WithinFile
    <3> QED BY <3>1
  <2>23. ImportsMatch(w) <=> \A i \in 1..Len(t) : Traced(t[i]) => YieldsIn(t, lines, FileOf(t, i))
    BY <2>19, <2>20, <2>21, <2>22
  <2> QED BY <2>17, <2>18, <2>23 DEF Loads
<1> QED BY <1>3, <1>9, <1>11 DEF lines
-----------------------------------------------------------------------------
(***************************************************************************)
(* What Identify finds                                                     *)
(***************************************************************************)
\* A usage is a node inside a file, and on the line of one in the same file; the
\* case of a nonblocking select is on its own.
Lined(t, u) ==
    /\ u.id \in 1..Len(t) /\ t[u.id].kind # "File"
    /\ \E j \in 1..Len(t) : /\ u.line = Line(t, j) /\ t[j].kind # "File" /\ FileOf(t, j) = FileOf(t, u.id)
                            /\ u.typ = "NBCASE" => Case(t[j])

UsageTypes == {"GO", "SELECT", "NBCASE", "NBSELECT", "SEND", "RECV", "RANGE"}
              \cup {UsageOf[o] : o \in DOMAIN UsageOf}

Usages(t) == {u \in [typ : UsageTypes, line : Nat, id : Nat] : Lined(t, u)}

\* The case of a nonblocking select is not found without it.
Paired(us) == \A u \in ToSet(us) : \E v \in ToSet(us) : v.id = u.id /\ v.typ # "NBCASE"
Findings(t) == {us \in Seq(Usages(t)) : Paired(us)}

LEMMA UsageIs ==
    ASSUME NEW t, Source(t), NEW i \in 1..Len(t), NEW j \in 1..Len(t), NEW typ \in UsageTypes,
           t[i].kind # "File", t[j].kind # "File", FileOf(t, j) = FileOf(t, i), typ = "NBCASE" => Case(t[j])
    PROVE  LET u == usage(typ, Line(t, j), t[i].id)
           IN  u \in Usages(t) /\ u.typ = typ /\ u.id = i
<1> DEFINE u == usage(typ, Line(t, j), t[i].id)
<1>1. Line(t, j) \in Nat /\ t[i].id = i /\ i \in Nat
  <2>1. t \in Seq(Nodes) /\ j \in 0..Len(t) /\ t[i].id = i
    BY SourceFlat
  <2> QED BY <2>1, LinesCount
<1>2. u \in [typ : UsageTypes, line : Nat, id : Nat] /\ u.typ = typ /\ u.line = Line(t, j) /\ u.id = i
  BY <1>1 DEF usage
<1> HIDE DEF u
<1>3. u \in Usages(t)
  BY <1>2 DEF Usages, Lined
<1> QED BY <1>2, <1>3 DEF u

LEMMA UsageNames == \A o \in DOMAIN UsageOf : UsageOf[o] \in UsageTypes /\ UsageOf[o] # "NBCASE"
<1>1. \A o \in DOMAIN UsageOf : UsageOf[o] # "NBCASE"
  BY DEF UsageOf
<1>2. \A o \in DOMAIN UsageOf : UsageOf[o] \in UsageTypes
  BY DEF UsageTypes
<1> QED BY <1>1, <1>2

\* What is under a node that is not a file is in the same file.
LEMMA UnderFile ==
    ASSUME NEW t, Source(t), NEW i \in 1..Len(t), NEW j \in 1..Len(t), Under(t, i, j)
    PROVE  t[j].kind # "File" /\ FileOf(t, j) = FileOf(t, i)
<1>1. t \in Seq(Nodes) /\ Len(t) \in Nat /\ Flat(t)
  BY SourceFlat
<1>2. j \in i..Len(t) /\ j \in (i + 1)..j
  BY <1>1 DEF Under
<1>3. \A k \in (i + 1)..j : k \in 1..Len(t) /\ t[k].depth > t[i].depth
  BY <1>1 DEF Under
<1>4. \A k \in (i + 1)..j : t[k].kind # "File"
  <2>1. t[i] \in Nodes
    BY <1>1
  <2>2. t[i].depth \in Nat
    BY <2>1 DEF Nodes
  <2> QED BY <1>1, <1>3, <2>2 DEF Flat
<1>5. \A g : Within(t, g, j) <=> Within(t, g, i)
  BY <1>1, <1>2, <1>4, WithinOn
<1>6. \A g : g = FileOf(t, j) <=> g = FileOf(t, i)
  BY <1>5, WithinFile
<1> QED BY <1>2, <1>4, <1>6

LEMMA FindingsOf ==
    ASSUME NEW t
    PROVE  /\ <<>> \in Findings(t)
           /\ \A u \in Usages(t) : u.typ # "NBCASE" => <<u>> \in Findings(t) /\ u \in ToSet(<<u>>)
           /\ \A u, v \in Usages(t) : u.id = v.id /\ v.typ # "NBCASE" => <<u, v>> \in Findings(t)
           /\ \A x, y \in Findings(t) : x \o y \in Findings(t) /\ ToSet(x \o y) = ToSet(x) \cup ToSet(y)
<1>1. <<>> \in Findings(t)
  BY DEF Findings, Paired, ToSet
<1>2. ASSUME NEW u \in Usages(t), u.typ # "NBCASE"
      PROVE  <<u>> \in Findings(t) /\ u \in ToSet(<<u>>)
  <2>1. ToSet(<<u>>) = {u} /\ <<u>> \in Seq(Usages(t))
    BY DEF ToSet
  <2> QED BY <1>2, <2>1 DEF Findings, Paired
<1>3. ASSUME NEW u \in Usages(t), NEW v \in Usages(t), u.id = v.id, v.typ # "NBCASE"
      PROVE  <<u, v>> \in Findings(t)
  <2>1. ToSet(<<u, v>>) = {u, v} /\ <<u, v>> \in Seq(Usages(t))
    BY DEF ToSet
  <2> QED BY <1>3, <2>1 DEF Findings, Paired
<1>4. ASSUME NEW x \in Findings(t), NEW y \in Findings(t)
      PROVE  x \o y \in Findings(t) /\ ToSet(x \o y) = ToSet(x) \cup ToSet(y)
  <2> DEFINE U == Usages(t)
  <2>1. x \in Seq(U) /\ y \in Seq(U) /\ Paired(x) /\ Paired(y)
    BY DEF Findings
  <2> HIDE DEF U
  <2>2. x \o y \in Seq(U) /\ Len(x \o y) = Len(x) + Len(y) /\ Len(x) \in Nat /\ Len(y) \in Nat
    BY <2>1
  <2>3. ToSet(x \o y) = ToSet(x) \cup ToSet(y)
    <3>1. \A k \in 1..Len(x) : k \in 1..Len(x \o y) /\ (x \o y)[k] = x[k]
      BY <2>1, <2>2
    <3>2. \A k \in 1..Len(y) : Len(x) + k \in 1..Len(x \o y) /\ (x \o y)[Len(x) + k] = y[k]
      BY <2>1, <2>2
    <3>3. \A k \in 1..Len(x \o y) : k \in 1..Len(x) \/ (k - Len(x) \in 1..Len(y) /\ Len(x) + (k - Len(x)) = k)
      BY <2>2
    <3>4. \A k \in 1..Len(x \o y) : \/ k \in 1..Len(x) /\ (x \o y)[k] = x[k]
                                    \/ k - Len(x) \in 1..Len(y) /\ (x \o y)[k] = y[k - Len(x)]
      BY <3>1, <3>2, <3>3
    <3>5. /\ ToSet(x) = {x[k] : k \in 1..Len(x)} /\ ToSet(y) = {y[k] : k \in 1..Len(y)}
          /\ ToSet(x \o y) = {(x \o y)[k] : k \in 1..Len(x \o y)}
      BY <2>1, <2>2 DEF ToSet
    <3> QED BY <3>1, <3>2, <3>4, <3>5
  <2>4. Paired(x \o y)
    BY <2>1, <2>3 DEF Paired
  <2> QED BY <2>2, <2>3, <2>4 DEF Findings, U
<1> QED BY <1>1, <1>2, <1>3, <1>4

\* The cases that are told apart are cases.
LEMMA SelectLined ==
    ASSUME NEW t, Source(t), Grammar(t), NEW i \in 1..Len(t), t[i].kind = "Select"
    PROVE  SelectUsages(t, i) \in Findings(t)
<1> DEFINE cases == Children(t, i + 1)
           first == Min(cases)
           last  == Max(cases)
           at(j, typ) == usage(typ, Line(t, j), t[i].id)
<1>1. t \in Seq(Nodes) /\ Len(t) \in Nat /\ DOMAIN t = 1..Len(t)
  BY DEF Source, Tree
<1>2. i + 1 \in 1..Len(t) /\ t[i + 1].kind = "Block" /\ ChildOf(t, i, i + 1)
  <2>1. Followed(t, i) /\ t[i].kind \in Holding
    BY <1>1 DEF Grammar, Holding, Branching
  <2>2. i < Len(t) /\ t[i + 1].kind = "Block" /\ t[i + 1].depth = t[i].depth + 1
    BY <2>1 DEF Followed
  <2>3. i \in 1..(Len(t) - 1)
    BY <1>1, <2>2
  <2> QED BY <1>1, <2>2, <2>3, BodyOf
<1>3. \A j \in cases : j \in 1..Len(t) /\ Case(t[j]) /\ t[j].kind # "File" /\ FileOf(t, j) = FileOf(t, i)
  <2>1. cases = {j \in 1..Len(t) : ChildOf(t, i + 1, j)}
    BY <1>1, <1>2, ChildrenAre
  <2>2. Blocks(t) /\ ~Stray(t)
    BY <1>1, GrammarParses
  <2>3. \A j \in 1..Len(t) : ChildOf(t, i + 1, j) => Case(t[j])
    BY <2>2 DEF Stray, Strays, Branching
  <2>4. FileOf(t, i + 1) = FileOf(t, i)
    BY <1>2, UnderFile DEF ChildOf
  <2>5. \A j \in 1..Len(t) : ChildOf(t, i + 1, j) => t[j].kind # "File" /\ FileOf(t, j) = FileOf(t, i + 1)
    BY <1>2, UnderFile DEF ChildOf
  <2> QED BY <2>1, <2>3, <2>4, <2>5
<1> HIDE DEF cases
<1>4. ASSUME Cardinality(cases) = 2 PROVE first \in cases /\ last \in cases
  <2>1. cases # {}
    <3>1. Cardinality({}) = 0
      BY FS_EmptySet
    <3>2. cases = {} => Cardinality(cases) = Cardinality({})
      OBVIOUS
    <3> QED BY <1>4, <3>1, <3>2
  <2>2. cases \in SUBSET Nat /\ cases \in SUBSET (0..Len(t))
    BY <1>1, <1>3
  <2>3. \E k \in cases : \A j \in cases : k <= j
    BY <2>1, <2>2, HasLeast
  <2>4. \E k \in cases : \A j \in cases : j <= k
    BY <1>1, <2>1, <2>2, HasGreatest
  <2>5. \E k \in cases : \A j \in cases : k >= j
    BY <2>2, <2>4
  <2> QED BY <2>3, <2>5 DEF Min, Max
<1>5. t[i].kind # "File"
  OBVIOUS
<1>6. ASSUME NEW typ \in {"SELECT", "NBSELECT"}
      PROVE  at(i, typ) \in Usages(t) /\ at(i, typ).typ # "NBCASE" /\ at(i, typ).id = i
  <2>1. typ \in UsageTypes /\ typ # "NBCASE"
    BY DEF UsageTypes
  <2>2. at(i, typ) \in Usages(t) /\ at(i, typ).typ = typ /\ at(i, typ).id = i
    BY <1>5, <2>1, UsageIs
  <2> QED BY <2>1, <2>2
<1>7. ASSUME NEW j \in cases PROVE at(j, "NBCASE") \in Usages(t) /\ at(j, "NBCASE").id = i
  <2>1. "NBCASE" \in UsageTypes /\ j \in 1..Len(t) /\ t[j].kind # "File" /\ FileOf(t, j) = FileOf(t, i) /\ Case(t[j])
    BY <1>3 DEF UsageTypes
  <2> QED BY <1>5, <2>1, UsageIs
<1>8. \/ SelectUsages(t, i) = <<at(i, "SELECT")>>
      \/ Cardinality(cases) = 2 /\ SelectUsages(t, i) = <<at(last, "NBCASE"), at(i, "NBSELECT")>>
      \/ Cardinality(cases) = 2 /\ SelectUsages(t, i) = <<at(first, "NBCASE"), at(i, "NBSELECT")>>
      \/ SelectUsages(t, i) = <<>>
  <2> DEFINE c == Cardinality(cases)
  <2>1. SelectUsages(t, i) =
          CASE c > 2 -> <<at(i, "SELECT")>>
            [] c = 2 /\ t[first].kind = "Default" -> <<at(last, "NBCASE"), at(i, "NBSELECT")>>
            [] c = 2 /\ t[first].kind # "Default" /\ t[last].kind = "Default" ->
                  <<at(first, "NBCASE"), at(i, "NBSELECT")>>
            [] OTHER -> <<>>
    BY DEF SelectUsages, cases
  <2> HIDE DEF c, at, first, last
  <2> QED BY <2>1 DEF c
<1> HIDE DEF first, last, at
<1>9. <<at(i, "SELECT")>> \in Findings(t)
  BY <1>6, FindingsOf
<1>10. ASSUME NEW j \in cases PROVE <<at(j, "NBCASE"), at(i, "NBSELECT")>> \in Findings(t)
  <2>1. at(j, "NBCASE") \in Usages(t) /\ at(j, "NBCASE").id = i
    BY <1>7
  <2>2. at(i, "NBSELECT") \in Usages(t) /\ at(i, "NBSELECT").typ # "NBCASE" /\ at(i, "NBSELECT").id = i
    BY <1>6
  <2> QED BY <2>1, <2>2, FindingsOf
<1> QED BY <1>4, <1>8, <1>9, <1>10, FindingsOf

LEMMA FoundLined ==
    ASSUME NEW t, Source(t), Grammar(t), NEW i \in 1..Len(t), NEW commclauses
    PROVE  /\ Found(t, i, commclauses) \in Findings(t)
           /\ t[i].kind = "Block" /\ t[Parent(t, i)].kind = "Range" =>
                 \E u \in ToSet(Found(t, i, commclauses)) : u.id = i
<1> DEFINE here(typ) == <<usage(typ, Line(t, i), t[i].id)>>
           p == Parent(t, i)
           r == <<usage("RANGE", Line(t, p), t[i].id)>>
<1>1. t \in Seq(Nodes) /\ Len(t) \in Nat /\ DOMAIN t = 1..Len(t)
  BY DEF Source, Tree
<1>2. ASSUME NEW typ \in UsageTypes, typ # "NBCASE", t[i].kind # "File" PROVE here(typ) \in Findings(t)
  <2>1. usage(typ, Line(t, i), t[i].id) \in Usages(t) /\ usage(typ, Line(t, i), t[i].id).typ # "NBCASE"
    BY <1>2, UsageIs
  <2> QED BY <2>1, FindingsOf
<1>3. ASSUME t[i].kind = "Block", t[p].kind = "Range"
      PROVE  r \in Findings(t) /\ \E u \in ToSet(r) : u.id = i
  <2>1. t[i].depth > 0 /\ Attached(t, i)
    <3>1. t[i] \in Nodes
      BY <1>1
    <3>2. t[i].depth \in Nat /\ t[i].depth # 0
      BY <1>1, <1>3, <3>1 DEF Source, Nodes
    <3> QED BY <1>1, <3>2 DEF Grammar
  <2>2. p \in 1..(i - 1) /\ ChildOf(t, p, i)
    BY <1>1, <2>1, ParentFits
  <2> HIDE DEF p
  <2>3. p \in 1..Len(t) /\ t[p].kind # "File" /\ t[i].kind # "File"
    BY <1>1, <1>3, <2>2
  <2>4. FileOf(t, p) = FileOf(t, i)
    BY <2>2, <2>3, UnderFile DEF ChildOf
  <2>5. "RANGE" \in UsageTypes /\ "RANGE" # "NBCASE"
    BY DEF UsageTypes
  <2> DEFINE u == usage("RANGE", Line(t, p), t[i].id)
  <2>6. u \in Usages(t) /\ u.typ # "NBCASE" /\ u.id = i
    BY <2>3, <2>4, <2>5, UsageIs
  <2> HIDE DEF u
  <2>7. <<u>> \in Findings(t) /\ u \in ToSet(<<u>>)
    BY <2>6, FindingsOf
  <2> QED BY <2>6, <2>7 DEF u
<1>4. <<>> \in Findings(t)
  BY FindingsOf
<1>5. t[i].kind = "Select" => SelectUsages(t, i) \in Findings(t)
  BY SelectLined
<1>6. t[i].op \in DOMAIN UsageOf => UsageOf[t[i].op] \in UsageTypes /\ UsageOf[t[i].op] # "NBCASE"
  BY UsageNames
<1> DEFINE f == Found(t, i, commclauses)
<1>7. /\ \/ t[i].kind = "Go" /\ f = here("GO")
         \/ t[i].kind = "Select" /\ f = SelectUsages(t, i)
         \/ t[i].kind = "Ident" /\ t[i].op \in DOMAIN UsageOf /\ f = here(UsageOf[t[i].op])
         \/ t[i].kind = "Send" /\ f = here("SEND")
         \/ t[i].kind = "Recv" /\ f = here("RECV")
         \/ t[i].kind = "Block" /\ t[p].kind = "Range" /\ f = r
         \/ f = <<>>
      /\ t[i].kind = "Block" /\ t[p].kind = "Range" => f = r
  <2> DEFINE n == t[i]
             l == Line(t, i)
             s == SelectUsages(t, i)
  <2>1. f = CASE n.kind = "Go"     -> here("GO")
              [] n.kind = "Select" -> s
              [] n.kind = "Ident" /\ n.op \in DOMAIN UsageOf /\ (n.op = "Done" => l \notin commclauses)
                                   -> here(UsageOf[n.op])
              [] n.kind = "Send" /\ n.list -> here("SEND")
              [] n.kind = "Recv" /\ l \notin commclauses -> here("RECV")
              [] n.kind = "Block" /\ t[p].kind = "Range" -> r
              [] OTHER             -> <<>>
    BY DEF Found
  <2> HIDE DEF f, n, l, p, r, s, here
  <2>2. \/ n.kind = "Go" /\ f = here("GO")
        \/ n.kind = "Select" /\ f = s
        \/ n.kind = "Ident" /\ n.op \in DOMAIN UsageOf /\ f = here(UsageOf[n.op])
        \/ n.kind = "Send" /\ f = here("SEND")
        \/ n.kind = "Recv" /\ f = here("RECV")
        \/ n.kind = "Block" /\ t[p].kind = "Range" /\ f = r
        \/ f = <<>>
    BY <2>1
  <2>3. n.kind = "Block" /\ t[p].kind = "Range" => f = r
    BY <2>1
  <2> QED BY <2>2, <2>3 DEF n, s
<1> HIDE DEF f, here, p, r
<1>8. /\ "GO" # "NBCASE" /\ "SEND" # "NBCASE" /\ "RECV" # "NBCASE"
      /\ "GO" \in UsageTypes /\ "SEND" \in UsageTypes /\ "RECV" \in UsageTypes
  BY DEF UsageTypes
<1>9. \A k \in {"Go", "Ident", "Send", "Recv"} : k # "File"
  OBVIOUS
<1>10. f \in Findings(t)
  BY <1>2, <1>3, <1>4, <1>5, <1>6, <1>7, <1>8, <1>9
<1> QED BY <1>3, <1>7, <1>10 DEF f, p, r

\* All that is below a send or a receive is the name that it calls.
LEMMA BareBelow ==
    ASSUME NEW t, Source(t), Grammar(t), NEW i \in 1..Len(t), t[i].kind \in {"Send", "Recv"}
    PROVE  \A j \in Below(t, i) : t[j].kind # "Block"
<1>1. t \in Seq(Nodes) /\ Len(t) \in Nat /\ DOMAIN t = 1..Len(t) /\ \A j \in 1..Len(t) : t[j].depth \in Nat
  <2>1. t \in Seq(Nodes) /\ Len(t) \in Nat /\ DOMAIN t = 1..Len(t)
    BY SourceFlat
  <2>2. \A j \in 1..Len(t) : t[j] \in Nodes
    BY <2>1
  <2>3. \A n \in Nodes : n.depth \in Nat
    BY DEF Nodes
  <2> QED BY <2>1, <2>2, <2>3
<1> DEFINE R == {j \in 1..Len(t) : Under(t, i, j) /\ t[j].kind # "Ident"}
<1> SUFFICES ASSUME R # {} PROVE FALSE
  <2> SUFFICES ASSUME NEW j \in Below(t, i), t[j].kind = "Block" PROVE R # {}
    OBVIOUS
  <2>1. j \in 1..Len(t) /\ Under(t, i, j)
    BY <1>1, BelowIsUnder
  <2> QED BY <2>1
<1>2. PICK j \in R : \A k \in R : j <= k
  <2>1. R \in SUBSET Nat
    OBVIOUS
  <2> HIDE DEF R
  <2> QED BY <2>1, HasLeast
<1>3. j \in 1..Len(t) /\ Under(t, i, j) /\ t[j].kind # "Ident" /\ t[j].depth > t[i].depth
  BY <1>1, <1>2 DEF Under
<1>4. PICK h \in 1..(j - 1) : ChildOf(t, h, j) /\ Fits(t, h, j)
  <2>1. t[j].depth > 0 /\ Attached(t, j)
    BY <1>1, <1>3 DEF Grammar
  <2> QED BY <2>1 DEF Attached
<1>5. h \in 1..Len(t) /\ h < j /\ t[j].depth = t[h].depth + 1 /\ \A k \in (h + 1)..j : t[k].depth > t[h].depth
  BY <1>1, <1>3, <1>4 DEF ChildOf, Under
<1>6. h >= i
  <2> SUFFICES ASSUME h < i PROVE FALSE
    BY <1>5
  <2>1. i \in (h + 1)..j
    BY <1>3, <1>5 DEF Under
  <2>2. t[i].depth > t[h].depth
    BY <1>5, <2>1
  <2> QED BY <1>1, <1>3, <1>5, <2>2
<1>7. h # i
  BY <1>3, <1>4 DEF Fits
<1>8. h \in R
  <2>1. i < h /\ h \in 1..Len(t) /\ \A k \in (i + 1)..h : k \in (i + 1)..j
    BY <1>5, <1>6, <1>7
  <2>2. Under(t, i, h)
    BY <1>3, <2>1 DEF Under
  <2>3. t[h].kind # "Ident"
    BY <1>4 DEF Fits
  <2> QED BY <2>1, <2>2, <2>3
<1> QED BY <1>2, <1>5, <1>8

IdentifyState(t) == [usages : Findings(t), commclauses : SUBSET Nat, skip : Nat]

\* The body of every loop seen so far was found, and none is skipped.
Searched(acc, t, k) ==
    /\ \A j \in 1..Len(t) : k < j /\ j <= acc.skip => t[j].kind # "Block"
    /\ \A j \in 1..k : t[j].kind = "Block" /\ t[Parent(t, j)].kind = "Range" =>
          \E u \in ToSet(acc.usages) : u.id = j

LEMMA IdentifyTyped ==
    ASSUME NEW t, Source(t), Grammar(t), NEW acc \in IdentifyState(t), NEW i \in 1..Len(t)
    PROVE  /\ IdentifyVisit(acc, t, i) \in IdentifyState(t)
           /\ Searched(acc, t, i - 1) => Searched(IdentifyVisit(acc, t, i), t, i)
<1>1. t \in Seq(Nodes) /\ Len(t) \in Nat
  BY DEF Source, Tree
<1>2. acc.usages \in Findings(t) /\ acc.commclauses \in SUBSET Nat /\ acc.skip \in Nat
  BY DEF IdentifyState
<1> DEFINE found == Found(t, i, acc.commclauses)
           us    == acc.usages \o found
           cc    == acc.commclauses \cup
                       (IF t[i].kind \in {"Clause", "Default"} THEN {Line(t, i)} ELSE {})
           sk    == IF t[i].kind \in {"Send", "Recv"} /\ found # <<>> THEN End(t, i) ELSE acc.skip
           next  == IdentifyVisit(acc, t, i)
           loop(j) == t[j].kind = "Block" /\ t[Parent(t, j)].kind = "Range"
<1>3. next = IF i <= acc.skip THEN acc ELSE [usages |-> us, commclauses |-> cc, skip |-> sk]
  BY DEF IdentifyVisit
<1>4. found \in Findings(t) /\ (loop(i) => \E u \in ToSet(found) : u.id = i)
  BY FoundLined
<1>5. us \in Findings(t) /\ ToSet(us) = ToSet(acc.usages) \cup ToSet(found)
  <2> HIDE DEF found
  <2> QED BY <1>2, <1>4, FindingsOf
<1>6. cc \in SUBSET Nat
  <2>1. Line(t, i) \in Nat
    BY <1>1, LinesCount
  <2> QED BY <1>2, <2>1
<1>7. sk \in Nat
  <2>1. End(t, i) \in i..Len(t)
    BY <1>1, EndFound
  <2>2. End(t, i) \in Nat
    BY <1>1, <2>1
  <2> QED BY <1>2, <2>2
<1>8. i > acc.skip => \A j \in 1..Len(t) : i < j /\ j <= sk => t[j].kind # "Block"
  <2> SUFFICES ASSUME i > acc.skip, NEW j \in 1..Len(t), i < j, j <= sk PROVE t[j].kind # "Block"
    OBVIOUS
  <2>1. sk # acc.skip
    <3> HIDE DEF sk
    <3> QED BY <1>2
  <2>2. t[i].kind \in {"Send", "Recv"} /\ sk = End(t, i)
    <3> HIDE DEF found
    <3> QED BY <2>1
  <2>3. j \in Below(t, i)
    <3>1. End(t, i) \in Nat
      BY <1>1, EndFound
    <3> HIDE DEF sk
    <3> QED BY <2>2, <3>1 DEF Below
  <2> QED BY <2>2, <2>3, BareBelow
<1> HIDE DEF us, cc, sk, found, loop
<1>9. next \in IdentifyState(t)
  BY <1>3, <1>5, <1>6, <1>7 DEF IdentifyState
<1>10. ASSUME Searched(acc, t, i - 1) PROVE Searched(next, t, i)
  <2>1. /\ \A j \in 1..Len(t) : i - 1 < j /\ j <= acc.skip => t[j].kind # "Block"
        /\ \A j \in 1..(i - 1) : loop(j) => \E u \in ToSet(acc.usages) : u.id = j
    BY <1>10 DEF Searched, loop
  <2>2. CASE i <= acc.skip
    <3>1. next = acc /\ ~loop(i)
      BY <1>3, <2>1, <2>2 DEF loop
    <3>2. /\ \A j \in 1..Len(t) : i < j /\ j <= acc.skip => t[j].kind # "Block"
          /\ \A j \in 1..i : loop(j) => \E u \in ToSet(acc.usages) : u.id = j
      BY <2>1, <3>1
    <3> QED BY <3>1, <3>2 DEF Searched, loop
  <2>3. CASE ~(i <= acc.skip)
    <3>1. next.usages = us /\ next.skip = sk
      BY <1>3, <2>3
    <3>2. \A j \in 1..i : loop(j) => \E u \in ToSet(us) : u.id = j
      BY <1>4, <1>5, <2>1
    <3>3. \A j \in 1..Len(t) : i < j /\ j <= sk => t[j].kind # "Block"
      BY <1>2, <1>8, <2>3
    <3> HIDE DEF next
    <3> QED BY <3>1, <3>2, <3>3 DEF Searched, loop
  <2> QED BY <2>2, <2>3
<1> QED BY <1>9, <1>10

LEMMA IdentifyLined ==
    ASSUME NEW t, Source(t), Grammar(t)
    PROVE  /\ Identify(t) \in Findings(t)
           /\ \A j \in 1..Len(t) : t[j].kind = "Block" /\ t[Parent(t, j)].kind = "Range" =>
                 \E u \in ToSet(Identify(t)) : u.id = j
<1> DEFINE S == IdentifyState(t)
           base == [usages |-> <<>>, commclauses |-> {}, skip |-> 0]
           F == [a \in S \X (1..Len(t)) |-> IdentifyVisit(a[1], t, a[2])]
           Walks(W) == W = [i \in 0..Len(t) |-> IF i = 0 THEN base ELSE IdentifyVisit(W[i - 1], t, i)]
           V == CHOOSE W : Walks(W)
<1>1. Len(t) \in Nat /\ t \in Seq(Nodes)
  BY DEF Source, Tree
<1>2. base \in S /\ Searched(base, t, 0)
  <2>1. base \in S
    <3>1. <<>> \in Findings(t)
      BY FindingsOf
    <3> QED BY <3>1 DEF IdentifyState
  <2>2. base.skip = 0
    OBVIOUS
  <2> HIDE DEF base
  <2> QED BY <1>1, <2>1, <2>2 DEF Searched
<1>3. \E W \in [0..Len(t) -> S] : Walks(W)
  <2>1. F \in [S \X (1..Len(t)) -> S]
    <3> DEFINE G == S \X (1..Len(t))
    <3>1. \A a \in G : a[1] \in S /\ a[2] \in 1..Len(t)
      OBVIOUS
    <3>2. \A a \in G : IdentifyVisit(a[1], t, a[2]) \in S
      BY <3>1, IdentifyTyped
    <3> HIDE DEF S, G
    <3>3. [a \in G |-> IdentifyVisit(a[1], t, a[2])] \in [G -> S]
      BY <3>2
    <3> QED BY <3>3 DEF G
  <2> HIDE DEF base, S
  <2>2. PICK W \in [0..Len(t) -> S] :
          W[0] = base /\ \A k \in 1..Len(t) : W[k] = F[<<W[k - 1], k>>]
    <3> HIDE DEF F
    <3>1. \E W : Walk(W, Len(t), S, base, F)
      BY <1>1, <1>2, <2>1, WalkExists
    <3> QED BY <3>1 DEF Walk
  <2>3. ASSUME NEW k \in 0..Len(t)
        PROVE  W[k] = IF k = 0 THEN base ELSE IdentifyVisit(W[k - 1], t, k)
    <3>1. W[k] = IF k = 0 THEN base ELSE F[<<W[k - 1], k>>]
      <4> HIDE DEF F
      <4>1. k = 0 \/ (k \in 1..Len(t) /\ k # 0)
        BY <1>1
      <4> QED BY <2>2, <4>1
    <3>2. k # 0 => <<W[k - 1], k>> \in S \X (1..Len(t))
      BY <1>1
    <3>3. k # 0 => F[<<W[k - 1], k>>] = IdentifyVisit(W[k - 1], t, k)
      BY <3>2
    <3> QED BY <3>1, <3>3
  <2> QED BY <2>3
<1>4. Identify(t) = V[Len(t)].usages
  BY DEF Identify
<1>5. Walks(V)
  <2> HIDE DEF Walks
  <2> QED BY <1>3
<1> HIDE DEF V
<1> DEFINE R == {k \in 0..Len(t) : V[k] \in S /\ Searched(V[k], t, k)}
<1>6. 0 \in R
  <2>1. V[0] = base /\ 0 \in 0..Len(t)
    BY <1>1, <1>5
  <2> HIDE DEF S, base
  <2> QED BY <1>2, <2>1
<1>7. ASSUME NEW k \in 1..Len(t), k - 1 \in R PROVE k \in R
  <2>1. V[k] = IdentifyVisit(V[k - 1], t, k)
    <3>1. k \in 0..Len(t) /\ k # 0
      BY <1>1
    <3>2. \A i \in 0..Len(t) : V[i] = IF i = 0 THEN base ELSE IdentifyVisit(V[i - 1], t, i)
      <4> HIDE DEF base
      <4> QED BY <1>5
    <3> HIDE DEF base
    <3> QED BY <3>1, <3>2, Zenon
  <2>2. V[k - 1] \in S /\ Searched(V[k - 1], t, k - 1)
    BY <1>7
  <2> HIDE DEF Walks
  <2>3. V[k] \in S /\ Searched(V[k], t, k)
    BY <1>1, <2>1, <2>2, IdentifyTyped
  <2> QED BY <1>1, <2>3
<1>8. Len(t) \in R
  <2> HIDE DEF R
  <2>1. \A k \in 0..Len(t) : k \in R
    BY <1>1, <1>6, <1>7, UpTo, Zenon
  <2> QED BY <1>1, <2>1
<1>9. V[Len(t)] \in S /\ Searched(V[Len(t)], t, Len(t))
  BY <1>8
<1> HIDE DEF V, R
<1>10. Identify(t) \in Findings(t)
  BY <1>4, <1>9 DEF IdentifyState
<1> QED BY <1>4, <1>9, <1>10 DEF Searched

\* What begins the line of a usage is inside the file of the usage.
LEMMA UsageBegins ==
    ASSUME NEW t, Source(t), Grammar(t), NEW u \in Usages(t)
    PROVE  \E h \in 1..Len(t) : /\ t[h].begins /\ Line(t, h) = u.line /\ t[h].kind # "File"
                                /\ FileOf(t, h) = FileOf(t, u.id)
                                /\ u.typ = "NBCASE" => Case(t[h])
                                /\ \A g \in 1..Len(t) : t[g].begins /\ Line(t, g) = u.line => g = h
                                /\ u.line \in Nat \ {0}
<1>1. t \in Seq(Nodes) /\ Len(t) \in Nat /\ DOMAIN t = 1..Len(t) /\ 1 \in 1..Len(t)
  BY SourceFlat
<1>2. \A k \in 1..Len(t) : t[k].kind = "File" \/ Case(t[k]) => t[k].begins
  <2>1. \A k \in 1..Len(t) : Shape(t[k])
    BY <1>1 DEF Grammar, Attached
  <2> QED BY <2>1 DEF Shape
<1>3. PICK j \in 1..Len(t) : /\ u.line = Line(t, j) /\ t[j].kind # "File"
                             /\ FileOf(t, j) = FileOf(t, u.id)
                             /\ u.typ = "NBCASE" => Case(t[j])
  BY DEF Usages, Lined
<1>4. PICK h \in 1..j : /\ t[h].begins /\ Line(t, h) = Line(t, j)
                        /\ \A k \in (h + 1)..j : ~t[k].begins
                        /\ \A g \in 1..Len(t) : t[g].begins /\ Line(t, g) = Line(t, j) => g = h
  <2>1. t[1].begins
    BY <1>1, <1>2 DEF Source
  <2> QED BY <1>1, <2>1, LineBegins
<1>5. h \in 1..Len(t) /\ j \in h..Len(t) /\ \A k \in (h + 1)..j : k \in 1..Len(t)
  BY <1>1
<1>6. t[h].kind # "File"
  <2> SUFFICES ASSUME t[h].kind = "File" PROVE FALSE
    OBVIOUS
  <2>1. h # j
    BY <1>3
  <2>2. h + 1 \in (h + 1)..j /\ h < Len(t)
    BY <1>1, <2>1
  <2>3. Followed(t, h)
    BY <1>1, <1>5 DEF Grammar
  <2>4. t[h + 1].begins
    BY <2>2, <2>3 DEF Followed
  <2> QED BY <1>4, <2>2, <2>4
<1>7. FileOf(t, h) = FileOf(t, j)
  <2>1. \A k \in (h + 1)..j : t[k].kind # "File"
    BY <1>2, <1>4, <1>5
  <2>2. \A g : Within(t, g, j) <=> Within(t, g, h)
    BY <1>1, <1>5, <2>1, WithinOn
  <2> QED BY <1>5, <2>2, WithinFile
<1>8. Case(t[j]) => h = j
  BY <1>2, <1>4
<1>9. u.line \in Nat \ {0}
  <2>1. 0 \in 0..Len(t) /\ h \in 0..Len(t) /\ 0 < h /\ 0 <= h
    BY <1>1, <1>5
  <2>2. Line(t, 0) = 0 /\ Line(t, h) \in Nat
    BY <1>1, <2>1, LinesCount
  <2>3. Line(t, 0) < Line(t, h)
    BY <1>1, <1>4, <2>1, LinesGrow
  <2> QED BY <1>3, <1>4, <2>2, <2>3
<1> QED BY <1>3, <1>4, <1>5, <1>6, <1>7, <1>8, <1>9

\* A usage is scheduled unless it is the case of a nonblocking select, and
\* those are left out.
Schedules(u, m) == m = "criticalPoints" => u.typ # "NBCASE"

\* A file with a usage yields, and no other does; a loop is a usage.
LEMMA UsedYields ==
    ASSUME NEW t, Source(t), Grammar(t), NEW m, m # "traceOnly"
    PROVE  LET us == Identify(t)
               lines == conclines(us, m)
           IN  /\ lines \in SUBSET (Nat \ {0})
               /\ lines = {u.line : u \in {v \in ToSet(us) : Schedules(v, m)}}
               /\ ToSet(us) \subseteq Usages(t)
               /\ \A i \in 1..Len(t) : t[i].kind = "Range" => YieldsIn(t, lines, FileOf(t, i))
               /\ \A f \in 1..Len(t) : t[f].kind = "File" =>
                     ((\E u \in ToSet(us) : u.id \in Below(t, f)) <=> YieldsIn(t, lines, f))
<1> DEFINE us == Identify(t)
           lines == conclines(us, m)
<1>1. t \in Seq(Nodes) /\ Len(t) \in Nat /\ DOMAIN t = 1..Len(t)
  BY SourceFlat
<1>2. lines = {u.line : u \in {v \in ToSet(us) : Schedules(v, m)}}
  BY DEF conclines, ToSched, Schedules
<1>3. /\ us \in Findings(t)
      /\ \A j \in 1..Len(t) : t[j].kind = "Block" /\ t[Parent(t, j)].kind = "Range" =>
            \E u \in ToSet(us) : u.id = j
  BY IdentifyLined
<1> HIDE DEF us, lines
<1>4. ToSet(us) \subseteq Usages(t) /\ Paired(us)
  <2>1. us \in Seq(Usages(t)) /\ Paired(us)
    BY <1>3 DEF Findings
  <2> QED BY <2>1 DEF ToSet
<1>5. ASSUME NEW u \in ToSet(us)
      PROVE  /\ u.line \in Nat \ {0} /\ u.id \in 1..Len(t) /\ t[u.id].kind # "File"
             /\ Schedules(u, m) => YieldsIn(t, lines, FileOf(t, u.id))
             /\ \A i \in 1..Len(t) : t[i].begins /\ Line(t, i) = u.line => FileOf(t, i) = FileOf(t, u.id)
  <2>1. u \in Usages(t)
    BY <1>4
  <2>2. PICK h \in 1..Len(t) : /\ t[h].begins /\ Line(t, h) = u.line
                               /\ FileOf(t, h) = FileOf(t, u.id)
                               /\ \A g \in 1..Len(t) : t[g].begins /\ Line(t, g) = u.line => g = h
                               /\ u.line \in Nat \ {0}
    BY <2>1, UsageBegins
  <2>3. u.id \in 1..Len(t) /\ t[u.id].kind # "File"
    BY <2>1 DEF Usages, Lined
  <2>4. Schedules(u, m) => u.line \in lines
    BY <1>2
  <2>5. Schedules(u, m) => YieldsIn(t, lines, FileOf(t, u.id))
    BY <2>2, <2>4 DEF YieldsIn, Scheduled
  <2> QED BY <2>2, <2>3, <2>5
<1>6. ASSUME NEW u \in ToSet(us) PROVE YieldsIn(t, lines, FileOf(t, u.id))
  <2>1. PICK v \in ToSet(us) : v.id = u.id /\ v.typ # "NBCASE"
    BY <1>4 DEF Paired
  <2>2. Schedules(v, m)
    BY <2>1 DEF Schedules
  <2> QED BY <1>5, <2>1, <2>2
<1>7. lines \in SUBSET (Nat \ {0})
  BY <1>2, <1>5
<1>8. ASSUME NEW i \in 1..Len(t), t[i].kind = "Range" PROVE YieldsIn(t, lines, FileOf(t, i))
  <2>1. Followed(t, i) /\ t[i].kind \in Holding
    BY <1>1, <1>8 DEF Grammar, Holding
  <2>2. i < Len(t) /\ t[i + 1].kind = "Block" /\ t[i + 1].depth = t[i].depth + 1
    BY <2>1 DEF Followed
  <2>3. i \in 1..(Len(t) - 1) /\ i + 1 \in 1..Len(t)
    BY <1>1, <2>2
  <2>4. ChildOf(t, i, i + 1) /\ Parent(t, i + 1) = i
    BY <1>1, <2>2, <2>3, BodyOf
  <2>5. FileOf(t, i + 1) = FileOf(t, i)
    BY <2>3, <2>4, UnderFile DEF ChildOf
  <2>6. \E u \in ToSet(us) : u.id = i + 1
    BY <1>3, <1>8, <2>2, <2>3, <2>4
  <2> QED BY <1>6, <2>5, <2>6
<1>9. ASSUME NEW f \in 1..Len(t), t[f].kind = "File"
      PROVE  (\E u \in ToSet(us) : u.id \in Below(t, f)) <=> YieldsIn(t, lines, f)
  <2>1. \A i \in 1..Len(t) : t[i].kind # "File" => (i \in Below(t, f) <=> FileOf(t, i) = f)
    BY <1>9, BelowFile
  <2>2. \A u \in ToSet(us) : u.id \in Below(t, f) <=> FileOf(t, u.id) = f
    BY <1>5, <2>1
  <2>3. ASSUME YieldsIn(t, lines, f) PROVE \E u \in ToSet(us) : FileOf(t, u.id) = f
    <3>1. PICK i \in 1..Len(t) : t[i].begins /\ Line(t, i) \in lines /\ FileOf(t, i) = f
      BY <2>3 DEF YieldsIn, Scheduled
    <3>2. PICK u \in ToSet(us) : u.line = Line(t, i)
      BY <1>2, <3>1
    <3> QED BY <1>5, <3>1, <3>2
  <2> QED BY <1>6, <2>2, <2>3
<1> QED BY <1>2, <1>4, <1>7, <1>8, <1>9 DEF us, lines
-----------------------------------------------------------------------------
(***************************************************************************)
(* What stops the instrumentation                                          *)
(***************************************************************************)
Stopping(n) == ~Converts(n) /\ (~CanInsert(n) \/ Case(n))

\* Where a usage's line begins tells whether it stops the rewriting.
LEMMA StopsAt ==
    ASSUME Source(src), Grammar(src), mode \in {"criticalPoints", "criticOnly"},
           NEW u, NEW h \in 1..Len(src), src[h].begins, Line(src, h) = u.line, src[h].kind # "File",
           u.typ = "NBCASE" => Case(src[h]),
           \A g \in 1..Len(src) : src[g].begins /\ Line(src, g) = u.line => g = h
    PROVE  Stops(u) <=> Schedules(u, mode) /\ Stopping(src[h])
<1> DEFINE At(i) == src[i].begins /\ Line(src, i) = u.line
           c == CHOOSE i \in DOMAIN src : At(i)
           n == src[h]
           p == Parent(src, h)
           within(kind) == src[p].kind = kind
<1>1. src \in Seq(Nodes) /\ DOMAIN src = 1..Len(src) /\ n \in Nodes
  BY DEF Source, Tree
<1>2. c = h
  <2>1. \A i \in DOMAIN src : At(i) => i = h
    BY <1>1
  <2>2. h \in DOMAIN src /\ At(h)
    BY <1>1
  <2> HIDE DEF At
  <2> QED BY <2>1, <2>2
<1>3. n.depth > 0
  <2>1. n.depth \in Nat /\ n.depth # 0
    BY <1>1 DEF Source, Nodes
  <2> QED BY <2>1
<1>4. Stops(u) <=> \/ n.kind \in {"Func", "Var", "Ident", "Clause", "Default", "Case"} /\ u.typ # "NBCASE"
                   \/ n.kind = "If" /\ within("If")
                   \/ n.kind # "Defer" /\ within("Label")
                   \/ u.typ = "NBCASE" /\ mode = "criticOnly"
  <2>1. Stops(u) <=>
          \/ src[c].kind \in {"Func", "Var", "Ident", "Clause", "Default", "Case"} /\ u.typ # "NBCASE"
          \/ src[c].kind = "If" /\ src[c].depth > 0 /\ src[Parent(src, c)].kind = "If"
          \/ src[c].kind # "Defer" /\ src[c].depth > 0 /\ src[Parent(src, c)].kind = "Label"
          \/ u.typ = "NBCASE" /\ mode = "criticOnly"
    BY DEF Stops
  <2> HIDE DEF c
  <2> QED BY <1>2, <1>3, <2>1
<1>5. Attached(src, h)
  BY <1>1 DEF Grammar
<1>6. p \in 1..Len(src) /\ Fits(src, p, h)
  <2>1. p \in 1..(h - 1) /\ Fits(src, p, h)
    BY <1>1, <1>3, <1>5, ParentFits
  <2> QED BY <1>1, <2>1
<1> HIDE DEF p
<1>7. ~n.list <=> n.kind = "Ident" \/ within("Label") \/ (n.kind = "If" /\ within("If"))
  BY <1>6 DEF Fits, Listed
<1>8. Case(n) => ~within("Label") /\ ~within("If")
  BY <1>6 DEF Fits, HoldsCases
<1>9. u.typ = "NBCASE" => Case(n)
  OBVIOUS
<1> HIDE DEF n, within, c
<1>10. Stopping(n) <=> n.kind # "Defer" /\ (~n.list \/ n.kind = "Func" \/ n.kind = "Var" \/ Case(n))
  BY DEF Stopping, Converts, CanInsert
<1>11. /\ Case(n) <=> n.kind \in {"Clause", "Default", "Case"}
       /\ Case(n) => n.kind # "Defer" /\ n.kind # "If"
  BY DEF Case
<1>12. Stopping(n) <=> \/ n.kind \in {"Func", "Var", "Ident"} \/ Case(n)
                       \/ n.kind = "If" /\ within("If")
                       \/ n.kind # "Defer" /\ within("Label")
  BY <1>7, <1>10, <1>11
<1>13. Stops(u) <=> Schedules(u, mode) /\ Stopping(n)
  <2>1. CASE u.typ = "NBCASE"
    <3>1. Case(n) /\ ~within("Label") /\ n.kind # "If"
      BY <1>8, <1>9, <1>11, <2>1
    <3>2. Stops(u) <=> mode = "criticOnly"
      BY <1>4, <2>1, <3>1
    <3>3. Stopping(n)
      BY <1>12, <3>1
    <3>4. Schedules(u, mode) <=> mode = "criticOnly"
      BY <2>1 DEF Schedules
    <3> QED BY <3>2, <3>3, <3>4
  <2>2. CASE u.typ # "NBCASE"
    <3>1. Schedules(u, mode)
      BY <2>2 DEF Schedules
    <3> QED BY <1>4, <1>11, <1>12, <2>2, <3>1
  <2> QED BY <2>1, <2>2
<1> QED BY <1>13 DEF n

Uses(f)    == \E u \in ToSet(usages) : u.id \in Below(src, f)
Traces(f)  == \E i \in Below(src, f) : Traced(src[i])
Tests(f)   == \E i \in Below(src, f) : testIn(src[i])
Misfitting == \E f \in 1..Len(src) : src[f].kind = "File" /\ Misfits(f)

LEMMA StopsWhen ==
    ASSUME Source(src), Grammar(src), mode \in {"criticalPoints", "criticOnly"}, usages = Identify(src)
    PROVE  LET lines == conclines(usages, mode)
           IN  (\E u \in ToSet(usages) : Stops(u)) <=>
                     \/ \E i \in 1..Len(src) : Blocked(src, lines, i)
                     \/ \E i \in 1..Len(src) : Yielding(src, lines, i) /\ Case(src[i])
<1> DEFINE lines == conclines(usages, mode)
<1>1. /\ lines = {u.line : u \in {v \in ToSet(usages) : Schedules(v, mode)}}
      /\ ToSet(usages) \subseteq Usages(src)
  <2>1. mode # "traceOnly"
    OBVIOUS
  <2> QED BY <2>1, UsedYields
<1> HIDE DEF lines
<1>2. ASSUME NEW u \in ToSet(usages)
      PROVE  \E h \in 1..Len(src) : /\ src[h].begins /\ Line(src, h) = u.line
                                    /\ \A g \in 1..Len(src) : src[g].begins /\ Line(src, g) = u.line => g = h
                                    /\ Stops(u) <=> Schedules(u, mode) /\ Stopping(src[h])
  <2>1. u \in Usages(src)
    BY <1>1
  <2>2. PICK h \in 1..Len(src) : /\ src[h].begins /\ Line(src, h) = u.line /\ src[h].kind # "File"
                                 /\ u.typ = "NBCASE" => Case(src[h])
                                 /\ \A g \in 1..Len(src) : src[g].begins /\ Line(src, g) = u.line => g = h
    BY <2>1, UsageBegins
  <2>3. Stops(u) <=> Schedules(u, mode) /\ Stopping(src[h])
    BY <2>2, StopsAt
  <2> QED BY <2>2, <2>3
<1>3. \A i \in 1..Len(src) :
         (Blocked(src, lines, i) \/ (Yielding(src, lines, i) /\ Case(src[i]))) <=>
            src[i].begins /\ Line(src, i) \in lines /\ Stopping(src[i])
  BY DEF Blocked, Yielding, Scheduled, Stopping
<1>4. ASSUME NEW u \in ToSet(usages), Stops(u)
      PROVE  \E i \in 1..Len(src) : src[i].begins /\ Line(src, i) \in lines /\ Stopping(src[i])
  <2>1. PICK h \in 1..Len(src) : /\ src[h].begins /\ Line(src, h) = u.line
                                 /\ Stops(u) <=> Schedules(u, mode) /\ Stopping(src[h])
    BY <1>2
  <2>2. Line(src, h) \in lines
    BY <1>1, <1>4, <2>1
  <2> QED BY <1>4, <2>1, <2>2
<1>5. ASSUME NEW i \in 1..Len(src), src[i].begins, Line(src, i) \in lines, Stopping(src[i])
      PROVE  \E u \in ToSet(usages) : Stops(u)
  <2>1. PICK u \in ToSet(usages) : Schedules(u, mode) /\ u.line = Line(src, i)
    BY <1>1, <1>5
  <2>2. PICK h \in 1..Len(src) : /\ \A g \in 1..Len(src) : src[g].begins /\ Line(src, g) = u.line => g = h
                                 /\ Stops(u) <=> Schedules(u, mode) /\ Stopping(src[h])
    BY <1>2
  <2>3. i = h
    BY <1>5, <2>1, <2>2
  <2> QED BY <1>5, <2>1, <2>2, <2>3
<1>6. (\E u \in ToSet(usages) : Stops(u)) <=>
         \/ \E i \in 1..Len(src) : Blocked(src, lines, i)
         \/ \E i \in 1..Len(src) : Yielding(src, lines, i) /\ Case(src[i])
  BY <1>3, <1>4, <1>5
<1> QED BY <1>6 DEF lines

\* What a file holds, by its nodes.
LEMMA FileHolds ==
    ASSUME Source(src), NEW f \in 1..Len(src), src[f].kind = "File"
    PROVE  /\ Traces(f) <=> \E i \in 1..Len(src) : Traced(src[i]) /\ FileOf(src, i) = f
           /\ Tests(f) <=> \E i \in 1..Len(src) : testIn(src[i]) /\ FileOf(src, i) = f
           /\ Misfits(f) <=> IF mode = "traceOnly" THEN Tests(f) /\ ~Traces(f) ELSE Traces(f) /\ ~Uses(f)
<1>1. /\ Below(src, f) \subseteq 1..Len(src)
      /\ \A i \in 1..Len(src) : src[i].kind # "File" => (i \in Below(src, f) <=> FileOf(src, i) = f)
  BY BelowFile
<1>2. \A i : (Traced(src[i]) \/ testIn(src[i])) => src[i].kind # "File"
  BY DEF Traced, testIn
<1>3. Traces(f) <=> \E i \in 1..Len(src) : Traced(src[i]) /\ FileOf(src, i) = f
  BY <1>1, <1>2 DEF Traces
<1>4. Tests(f) <=> \E i \in 1..Len(src) : testIn(src[i]) /\ FileOf(src, i) = f
  BY <1>1, <1>2 DEF Tests
<1>5. Misfits(f) <=> IF mode = "traceOnly" THEN Tests(f) /\ ~Traces(f) ELSE Traces(f) /\ ~Uses(f)
  BY DEF Misfits, Tests, Traces, Uses
<1> QED BY <1>3, <1>4, <1>5

LEMMA MisfitsWhen ==
    ASSUME Source(src), Grammar(src), usages = Identify(src)
    PROVE  /\ mode = "traceOnly" =>
                (Misfitting <=> ~(\A i \in 1..Len(src) : testIn(src[i]) =>
                      \E j \in 1..Len(src) : Traced(src[j]) /\ FileOf(src, j) = FileOf(src, i)))
           /\ mode # "traceOnly" =>
                (Misfitting <=> ~(\A i \in 1..Len(src) : Traced(src[i]) =>
                      YieldsIn(src, conclines(usages, mode), FileOf(src, i))))
<1>1. \A i \in 1..Len(src) : FileOf(src, i) \in 1..Len(src) /\ src[FileOf(src, i)].kind = "File"
  BY WithinFile
<1>2. \A f \in 1..Len(src) : src[f].kind = "File" =>
         /\ Traces(f) <=> \E i \in 1..Len(src) : Traced(src[i]) /\ FileOf(src, i) = f
         /\ Tests(f) <=> \E i \in 1..Len(src) : testIn(src[i]) /\ FileOf(src, i) = f
         /\ Misfits(f) <=> IF mode = "traceOnly" THEN Tests(f) /\ ~Traces(f) ELSE Traces(f) /\ ~Uses(f)
  BY FileHolds
<1>3. ASSUME mode = "traceOnly"
      PROVE  Misfitting <=> ~(\A i \in 1..Len(src) : testIn(src[i]) =>
                      \E j \in 1..Len(src) : Traced(src[j]) /\ FileOf(src, j) = FileOf(src, i))
  <2>1. \A f \in 1..Len(src) : src[f].kind = "File" => (Misfits(f) <=> Tests(f) /\ ~Traces(f))
    BY <1>2, <1>3
  <2> DEFINE traces(g) == \E j \in 1..Len(src) : Traced(src[j]) /\ FileOf(src, j) = g
  <2>2. \A f \in 1..Len(src) : src[f].kind = "File" =>
           (Misfits(f) <=> ~traces(f) /\ \E i \in 1..Len(src) : testIn(src[i]) /\ FileOf(src, i) = f)
    BY <1>2, <2>1
  <2> HIDE DEF traces
  <2>3. Misfitting <=> \E i \in 1..Len(src) : testIn(src[i]) /\ ~traces(FileOf(src, i))
    BY <1>1, <2>2 DEF Misfitting
  <2> QED BY <2>3 DEF traces
<1>4. ASSUME mode # "traceOnly"
      PROVE  Misfitting <=> ~(\A i \in 1..Len(src) : Traced(src[i]) =>
                      YieldsIn(src, conclines(usages, mode), FileOf(src, i)))
  <2>1. \A f \in 1..Len(src) : src[f].kind = "File" => (Misfits(f) <=> Traces(f) /\ ~Uses(f))
    BY <1>2, <1>4
  <2>2. \A f \in 1..Len(src) : src[f].kind = "File" => (Uses(f) <=> YieldsIn(src, conclines(usages, mode), f))
    BY <1>4, UsedYields DEF Uses
  <2> QED BY <1>1, <1>2, <2>1, <2>2 DEF Misfitting
<1> QED BY <1>3, <1>4

Stopped == \/ mode # "traceOnly" /\ \E u \in ToSet(usages) : Stops(u)
           \/ Misfitting

\* A package is rewritten, and what is made of it loads, exactly if nothing
\* stops it.
LEMMA LoadsWhen ==
    ASSUME Source(src), Grammar(src), Unmarked(src), mode \in AllModes, usages = Identify(src)
    PROVE  /\ mode = "traceOnly" => (Loads(rewrite_traceOnly(src)) <=> ~Stopped)
           /\ mode # "traceOnly" =>
                LET r == rewrite_sched(src, usages, mode)
                IN  /\ r.panic => Stopped
                    /\ ~r.panic => (Loads(r.out) <=> ~Stopped)
<1>1. ASSUME mode = "traceOnly" PROVE Loads(rewrite_traceOnly(src)) <=> ~Stopped
  <2>1. Misfitting <=> ~(\A i \in 1..Len(src) : testIn(src[i]) =>
                      \E j \in 1..Len(src) : Traced(src[j]) /\ FileOf(src, j) = FileOf(src, i))
    BY <1>1, MisfitsWhen
  <2>2. Loads(rewrite_traceOnly(src)) <=> (\A i \in 1..Len(src) : testIn(src[i]) =>
                      \E j \in 1..Len(src) : Traced(src[j]) /\ FileOf(src, j) = FileOf(src, i))
    BY TraceOnlyLoads
  <2> QED BY <1>1, <2>1, <2>2 DEF Stopped
<1>2. ASSUME mode # "traceOnly"
      PROVE  LET r == rewrite_sched(src, usages, mode)
             IN  /\ r.panic => Stopped
                 /\ ~r.panic => (Loads(r.out) <=> ~Stopped)
  <2> DEFINE r == rewrite_sched(src, usages, mode)
             lines == conclines(usages, mode)
             blocked == \E i \in 1..Len(src) : Blocked(src, lines, i)
             strays == \E i \in 1..Len(src) : Yielding(src, lines, i) /\ Case(src[i])
             fits == \A i \in 1..Len(src) : Traced(src[i]) => YieldsIn(src, lines, FileOf(src, i))
  <2>1. mode \in {"criticalPoints", "criticOnly"}
    BY <1>2 DEF AllModes
  <2>2. (\E u \in ToSet(usages) : Stops(u)) <=> blocked \/ strays
    BY <2>1, StopsWhen
  <2>3. Misfitting <=> ~fits
    BY <1>2, MisfitsWhen
  <2>4. /\ lines \in SUBSET (Nat \ {0})
        /\ \A i \in 1..Len(src) : src[i].kind = "Range" => YieldsIn(src, lines, FileOf(src, i))
    BY <1>2, UsedYields
  <2>5. (r.panic <=> blocked) /\ (~r.panic => (Loads(r.out) <=> ~strays /\ fits))
    BY <1>2, <2>4, SchedLoads
  <2> HIDE DEF r, lines, blocked, strays, fits
  <2>6. Stopped <=> blocked \/ strays \/ ~fits
    BY <1>2, <2>2, <2>3 DEF Stopped
  <2>7. (r.panic => Stopped) /\ (~r.panic => (Loads(r.out) <=> ~Stopped))
    BY <2>5, <2>6
  <2> QED BY <2>7 DEF r
<1> QED BY <1>1, <1>2

\* The package is built as Go's grammar has it, holds none of the marks of what
\* is injected, the usages are those that Identify finds, and what is looked at
\* again is what the rewriting made.
StopsInv ==
    /\ InstrumentInv
    /\ Grammar(src) /\ Unmarked(src)
    /\ pc # "source" => usages = Identify(src)
    /\ pc = "rewritten" =>
         IF mode = "traceOnly" THEN out = rewrite_traceOnly(src)
         ELSE ~rewrite_sched(src, usages, mode).panic /\ out = rewrite_sched(src, usages, mode).out
    /\ StopsOnly

LEMMA StopsStarts == Init => StopsInv
<1> SUFFICES ASSUME Init PROVE StopsInv
  OBVIOUS
<1>1. InstrumentInv
  BY InstrumentStarts
<1>2. src = <<File>> /\ pc = "source"
  BY Zenon DEF Init
<1>3. Grammar(src) /\ Unmarked(src)
  <2>1. File = [kind |-> "File", op |-> "", depth |-> 0, begins |-> TRUE, list |-> FALSE, id |-> 1]
    BY DEF File, Node
  <2>2. Shape(File) /\ File.depth = 0 /\ File.kind = "File" /\ File.op \notin {"goat", "yields"}
    BY <2>1, Zenon DEF Shape, Case
  <2>3. DOMAIN src = {1} /\ src[1] = File /\ Len(src) = 1
    BY <1>2
  <2> HIDE DEF File
  <2> QED BY <2>2, <2>3 DEF Grammar, Attached, Followed, Unmarked, Holding, Branching
<1> QED BY <1>1, <1>2, <1>3 DEF StopsInv, StopsOnly

LEMMA StopsWrites ==
    ASSUME Source(src), Grammar(src), Unmarked(src), Write
    PROVE  Grammar(src') /\ Unmarked(src')
<1>1. CASE Add(<<File>>)
  <2>1. Forms(<<File>>, 0)
    <3>1. File = [kind |-> "File", op |-> "", depth |-> 0, begins |-> TRUE, list |-> FALSE, id |-> 1]
      BY DEF File, Node
    <3>2. File \in Nodes /\ Shape(File) /\ File.begins /\ File.depth = 0 /\ File.kind = "File"
      BY <3>1, FileNode, Zenon DEF Shape, Case
    <3> HIDE DEF File
    <3> QED BY <3>2 DEF Forms, Holding, Branching
  <2> DEFINE d == 0
             piece == <<File>>
  <2>2. d \in Nat /\ Forms(piece, d) /\ Add(piece) /\ ~(d > 0)
    BY <1>1, <2>1
  <2>3. Unmarked(src')
    BY <1>1, UnmarkedAdds
  <2> HIDE DEF d, piece
  <2> QED BY <2>2, <2>3, GrammarAdds
<1>2. ASSUME NEW i \in Open, NEW piece \in Pieces(i), Add(piece) PROVE Grammar(src') /\ Unmarked(src')
  <2> DEFINE d == src[i].depth + 1
  <2>1. i \in DOMAIN src
    BY DEF Open
  <2>2. d \in Nat /\ d > 0
    <3>1. src[i] \in Nodes
      BY <2>1 DEF Source, Tree
    <3> QED BY <3>1 DEF Nodes
  <2>3. (Forms(piece, d) \/ Labels(piece, d)) /\ Goes(piece[1], src, i)
    BY <2>1, PiecesForm
  <2>4. \E h \in Open : d = src[h].depth + 1 /\ Goes(piece[1], src, h)
    BY <2>3
  <2>5. Unmarked(src')
    BY <1>2, UnmarkedAdds
  <2> HIDE DEF d
  <2> QED BY <1>2, <2>2, <2>3, <2>4, <2>5, GrammarAdds
<1> QED BY <1>1, <1>2 DEF Write

LEMMA StopsKept == StopsInv /\ [Next]_vars => StopsInv'
<1> SUFFICES ASSUME StopsInv, [Next]_vars PROVE StopsInv'
  OBVIOUS
<1>1. InstrumentInv'
  BY InstrumentKept DEF StopsInv
<1>2. /\ Source(src) /\ Grammar(src) /\ Unmarked(src) /\ StopsOnly
      /\ pc # "source" => usages = Identify(src) /\ mode \in AllModes
      /\ pc = "rewritten" =>
           IF mode = "traceOnly" THEN out = rewrite_traceOnly(src)
           ELSE ~rewrite_sched(src, usages, mode).panic /\ out = rewrite_sched(src, usages, mode).out
  BY DEF StopsInv, InstrumentInv
<1> DEFINE r == rewrite_sched(src, usages, mode)
<1>3. ASSUME pc # "source"
      PROVE  /\ mode = "traceOnly" => (Loads(rewrite_traceOnly(src)) <=> ~Stopped)
             /\ mode # "traceOnly" => (r.panic => Stopped) /\ (~r.panic => (Loads(r.out) <=> ~Stopped))
  <2>1. mode \in AllModes /\ usages = Identify(src)
    BY <1>2, <1>3
  <2> QED BY <1>2, <2>1, LoadsWhen
<1> HIDE DEF r
<1>4. StopsOnly <=> (pc \in {"returned", "panic"} => (pc = "panic" <=> Stopped))
  <2>1. DOMAIN src = 1..Len(src)
    BY <1>2, SourceFlat
  <2> QED BY <2>1 DEF StopsOnly, Stopped, Misfitting
<1>5. ASSUME src' = src, mode' = mode, usages' = usages
      PROVE  /\ Stopped' <=> Stopped
             /\ StopsOnly' <=> (pc' \in {"returned", "panic"} => (pc' = "panic" <=> Stopped))
  <2>1. Stopped' <=> Stopped
    BY <1>5 DEF Stopped, Misfitting, Stops, Misfits
  <2>2. DOMAIN src' = 1..Len(src')
    BY <1>2, <1>5, SourceFlat
  <2>3. StopsOnly' <=> (pc' \in {"returned", "panic"} => (pc' = "panic" <=> Stopped'))
    BY <2>2 DEF StopsOnly, Stopped, Misfitting
  <2> QED BY <2>1, <2>3
<1>6. CASE Write
  <2>1. pc' = pc /\ pc = "source"
    BY <1>6 DEF Write, Add
  <2>2. Grammar(src') /\ Unmarked(src')
    BY <1>2, <1>6, StopsWrites
  <2>3. StopsOnly'
    BY <2>1 DEF StopsOnly
  <2> QED BY <1>1, <2>1, <2>2, <2>3 DEF StopsInv
<1>7. CASE First
  <2>1. src' = src /\ usages' = Identify(src) /\ pc' = "identified"
    BY <1>7 DEF First
  <2>2. StopsOnly'
    BY <2>1 DEF StopsOnly
  <2> QED BY <1>1, <1>2, <2>1, <2>2 DEF StopsInv
<1>8. CASE Rewrite
  <2>1. pc = "identified" /\ src' = src /\ mode' = mode /\ usages' = usages
    BY <1>8 DEF Rewrite
  <2>2. StopsOnly' <=> (pc' \in {"returned", "panic"} => (pc' = "panic" <=> Stopped))
    BY <1>5, <2>1
  <2>3. CASE mode = "traceOnly"
    <3>1. pc' = "rewritten" /\ out' = rewrite_traceOnly(src)
      BY <1>8, <2>3 DEF Rewrite
    <3> QED BY <1>1, <1>2, <2>1, <2>2, <2>3, <3>1 DEF StopsInv
  <2>4. CASE mode # "traceOnly"
    <3>1. pc' = (IF r.panic THEN "panic" ELSE "rewritten") /\ out' = (IF r.panic THEN <<>> ELSE r.out)
      BY <1>8, <2>4 DEF Rewrite, r
    <3>2. r.panic => Stopped
      BY <1>3, <2>1, <2>4
    <3>3. StopsOnly'
      BY <2>2, <3>1, <3>2
    <3>4. pc' = "rewritten" => ~r.panic /\ out' = r.out
      BY <3>1
    <3>5. pc' = "rewritten" => ~rewrite_sched(src', usages', mode').panic
                               /\ out' = rewrite_sched(src', usages', mode').out
      BY <2>1, <3>4 DEF r
    <3> QED BY <1>1, <1>2, <2>1, <2>4, <3>3, <3>5 DEF StopsInv
  <2> QED BY <2>3, <2>4
<1>9. CASE Second
  <2>1. /\ pc = "rewritten" /\ src' = src /\ mode' = mode /\ usages' = usages
        /\ pc' = IF Loads(out) THEN "returned" ELSE "panic"
    BY <1>9 DEF Second
  <2>2. StopsOnly' <=> (pc' \in {"returned", "panic"} => (pc' = "panic" <=> Stopped))
    BY <1>5, <2>1
  <2>3. Loads(out) <=> ~Stopped
    <3>1. CASE mode = "traceOnly"
      BY <1>2, <1>3, <2>1, <3>1
    <3>2. CASE mode # "traceOnly"
      <4>1. ~r.panic /\ out = r.out
        BY <1>2, <2>1, <3>2 DEF r
      <4> QED BY <1>3, <2>1, <3>2, <4>1
    <3> QED BY <3>1, <3>2
  <2>4. StopsOnly'
    BY <2>1, <2>2, <2>3
  <2>5. pc' # "rewritten" /\ pc' # "source" /\ pc # "source"
    BY <2>1
  <2> QED BY <1>1, <1>2, <2>1, <2>4, <2>5 DEF StopsInv
<1>10. CASE Finished \/ UNCHANGED vars
  <2>1. pc' = pc /\ src' = src /\ mode' = mode /\ usages' = usages /\ out' = out
    BY <1>10 DEF Finished, vars
  <2>2. StopsOnly'
    BY <1>2, <1>4, <1>5, <2>1
  <2> QED BY <1>1, <1>2, <2>1, <2>2 DEF StopsInv
<1> QED BY <1>6, <1>7, <1>8, <1>9, <1>10 DEF Next

\* However large the package, what stops the Instrument functions is this and
\* nothing else.  A usage on the line of a declaration, an else-if, a case, a
\* broken expression or a labelled statement: goat's statement goes before the
\* first node of the line, and the rewriting panics (rewrite.go:85) or makes no
\* Go.  The case of a nonblocking select with InstrumentCriticOnly: no Go either.
\* And a file with something to trace but no usage, or only test methods with
\* InstrumentTraceOnly: import and calls are added under different conditions
\* (rewrite.go:64, :104), and of a package that does not compile the second
\* Identify gets no program (identify.go:56).
THEOREM StopsWhereItMust == Spec => []StopsOnly
<1>1. StopsInv => StopsOnly
  BY DEF StopsInv
<1> QED BY <1>1, StopsStarts, StopsKept, PTL DEF Spec
=============================================================================
