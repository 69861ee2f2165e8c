---------------------------------- MODULE MMU ----------------------------------
(***************************************************************************)
(* The minimum mutator utilization of src/trace/gc.go: the lowest          *)
(* utilization over all windows of a given length, and the n worst         *)
(* disjoint windows.  Bands of equal duration get a lower bound each, and  *)
(* are searched window by window, the lowest bound first, until no bound   *)
(* is below what was found.                                                *)
(*                                                                         *)
(* Utilization is counted in parts of One; a mean over the window by its   *)
(* total, so that all numbers are integers.  One series, as                *)
(* MutatorUtilization returns it unless asked for one per P.               *)
(***************************************************************************)
EXTENDS Integers, Sequences, FiniteSets, SequencesExt, FiniteSetsExt

CONSTANTS
    One,             \* utilization 1.0, in parts
    bandsPerSeries,
    MaxTime,         \* bound on the times of utilization changes
    MaxWorst         \* bound on the number of examples; the order of a heap of
                     \* more than two would have to be modelled

ASSUME MMUAssumption ==
    One \in Nat \ {0} /\ bandsPerSeries \in Nat \ {0} /\ MaxTime \in Nat /\ MaxWorst \in 0..2

VARIABLES
    pc,       \* "util", "asked", "bands", "window", "done" or "panic"
    util,     \* the utilization function
    window,   \* what is asked for
    nWorst,   \* 0 for MMU, else the n of Examples
    bandU,    \* the bands not searched yet, a heap
    acc,      \* the accumulator
    band, time, left, right   \* bandMMU: its band, the window's left edge, and the integrators

vars == <<pc, util, window, nWorst, bandU, acc, band, time, left, right>>

MutatorUtil(t, u) == [Time |-> t, Util |-> u]
Smaller(a, b) == IF a < b THEN a ELSE b
Larger(a, b)  == IF a < b THEN b ELSE a

Begin == util[1].Time
End   == Last(util).Time
dur   == End - Begin
win   == Smaller(window, dur)
-----------------------------------------------------------------------------
(* newMMUSeries *)

sums[k \in Nat] ==
    IF k = 1 THEN 0 ELSE sums[k - 1] + util[k - 1].Util * (util[k].Time - util[k - 1].Time)

\* integrator.advance: where time t is, searched from pos on, and the integral.
\* Sought behind pos, it goes one step back (the linear scan, which would not,
\* takes more than 8 changes).
Pos(pos, t) ==
    LET S == {k \in pos..Len(util) : util[k].Time <= t} IN IF S = {} THEN pos - 1 ELSE Max(S)
Integral(pos, t) == sums[pos] + util[pos].Util * (t - util[pos].Time)

Infinity == MaxTime * MaxTime + MaxTime + 2

\* Bug: a change at t is the next one.
nextChangeAt(pos, t) == Min({Infinity} \cup {util[k].Time : k \in {j \in pos..Len(util) : util[j].Time >= t}})

\* integrator.next: the next change after t.
nextChange(pos, t) == Min({Infinity} \cup {util[k].Time : k \in {j \in pos..Len(util) : util[j].Time > t}})

numBands    == Smaller(bandsPerSeries, Len(util))
bandDur     == Larger(1, (dur + numBands - 1) \div numBands)
bandTime(i) == Begin + i * bandDur
predIdx(i)  == Pos(1, bandTime(i))
cumUtil(i)  == Integral(predIdx(i), bandTime(i))
minUtil(i)  == Min({util[k].Util : k \in {j \in predIdx(i)..Len(util) : util[j].Time < bandTime(i + 1)}})
-----------------------------------------------------------------------------
(* mkBandUtil *)

\* A window overlaps so many bands, at least and at most.
minBands == (win + bandDur - 1) \div bandDur
maxBands == (win + 2 * (bandDur - 1)) \div bandDur
tailDur  == win % bandDur

\* Bands 0 to numBands are those a window may start in and still end in one.
Lefts == {i \in 0..numBands : i + maxBands - 1 <= numBands}

\* Bug: partly covered bands are taken to be like the first.
utilBoundLeft(i) == minUtil(i) * win

\* A lower bound for the windows that start in band i: the lowest of the bands
\* they cover in part fills one band, the second lowest the rest.
utilBound(i) ==
    LET l       == minUtil(i)
        r1      == minUtil(i + minBands - 1)
        r2      == minUtil(i + maxBands - 1)
        minBand == Min({l, r1, r2})
        midBand == CASE minBand = l                    -> Smaller(r1, r2)
                     [] minBand # l /\ minBand = r1    -> Smaller(l, r2)
                     [] minBand \notin {l, r1}         -> Smaller(l, r1)
    IN  IF minBands = 1 THEN minBand * win
        ELSE minBand * bandDur + midBand * tailDur
             + IF minBands > 2 THEN cumUtil(i + minBands - 1) - cumUtil(i + 1) ELSE 0

\* container/heap: the lowest bound is first; of equal ones, which is depends on
\* how the slice was sorted in.
Swapped(h, i, j) == [h EXCEPT ![i] = h[j], ![j] = h[i]]

BandUtilHeap == Seq([i : Nat, utilBound : Nat])

down[h \in BandUtilHeap, i \in Nat] ==
    LET kids == {j \in {2 * i, 2 * i + 1} : j <= Len(h)}
        j    == CHOOSE j \in kids : \A k \in kids :
                    h[j].utilBound < h[k].utilBound \/ (h[j].utilBound = h[k].utilBound /\ j <= k)
    IN  IF kids = {} \/ ~(h[j].utilBound < h[i].utilBound) THEN h ELSE down[Swapped(h, i, j), j]

heapInit(h) == FoldRightDomain(LAMBDA i, acch : down[acch, i], h, h)
heapPop(h)  == down[Front(Swapped(h, 1, Len(h))), 1]

mkBandUtil == heapInit([k \in 1..Cardinality(Lefts) |-> [i |-> k - 1, utilBound |-> utilBound(k - 1)]])
-----------------------------------------------------------------------------
(* accumulator *)

Full == One * win
Fresh == [mmu |-> Full, bound |-> Full, wHeap |-> <<>>]

UtilWindow(t, mu) == [Time |-> t, mu |-> mu]
Less(a, b) == a.mu > b.mu \/ (a.mu = b.mu /\ a.Time > b.Time)

\* The heap, sorted: of two the larger comes first.  One too many is popped.
Push(h, w) == SortSeq(Append(h, w), Less)
Kept(h)    == IF Len(h) > nWorst THEN Tail(h) ELSE h

\* What overlaps the window first, and is worse, keeps it out; else is replaced.
Overlap(h, w) == {i \in DOMAIN h : w.Time + win > h[i].Time /\ h[i].Time + win > w.Time}
Considered(h, w) ==
    LET S == Overlap(h, w)
    IN  CASE Len(h) = nWorst /\ w.mu >= h[1].mu      -> h
          [] S = {}                                  -> Kept(Push(h, w))
          [] S # {} /\ h[Min(S)].mu <= w.mu          -> h
          [] OTHER                                   -> Kept(Push(RemoveAt(h, Min(S)), w))

addMU(w) ==
    LET mmu  == Smaller(acc.mmu, w.mu)
        heap == Considered(acc.wHeap, w)
    IN  IF nWorst = 0 THEN [mmu |-> mmu, bound |-> mmu, wHeap |-> <<>>]
        ELSE [mmu   |-> mmu,
              bound |-> IF Len(heap) < nWorst THEN Full ELSE Larger(mmu, heap[1].mu),
              wHeap |-> heap]

\* Further windows are pointless.
Enough(a, mu) == IF nWorst = 0 THEN mu = 0 ELSE Len(a.wHeap) = nWorst /\ a.wHeap[1].mu = 0
-----------------------------------------------------------------------------
(* A utilization function is made, which ends with 0; then it is asked for. *)

Init ==
    /\ pc = "util"
    /\ util \in {<<MutatorUtil(0, u)>> : u \in 0..One}
    /\ window = 0 /\ nWorst = 0 /\ bandU = <<>>
    /\ acc = [mmu |-> 0, bound |-> 0, wHeap |-> <<>>]
    /\ band = 0 /\ time = 0 /\ left = 1 /\ right = 1

Extend ==
    /\ pc = "util"
    /\ \E t \in (End + 1)..MaxTime, u \in 0..One :
          u # Last(util).Util /\ (t = MaxTime => u = 0) /\ util' = Append(util, MutatorUtil(t, u))
    /\ UNCHANGED <<pc, window, nWorst, bandU, acc, band, time, left, right>>

\* A window of no length has utilization 0.
Ask ==
    /\ pc = "util" /\ Last(util).Util = 0
    /\ \E w \in 0..(MaxTime + 1) : window' = w /\ pc' = IF w = 0 THEN "done" ELSE "asked"
    /\ nWorst' \in 0..MaxWorst
    /\ UNCHANGED <<util, bandU, acc, band, time, left, right>>

\* A window on a function of no duration is cut down to no length, and then
\* mkBandUtil indexes band -1.
MakeBands ==
    /\ pc = "asked"
    /\ pc' = IF win = 0 THEN "panic" ELSE "bands"
    /\ bandU' = IF win = 0 THEN <<>> ELSE mkBandUtil
    /\ acc' = Fresh
    /\ UNCHANGED <<util, window, nWorst, band, time, left, right>>

\* The band with the lowest bound is searched if that is below what was found.
Worthwhile == bandU # <<>> /\ bandU[1].utilBound < acc.bound

SearchBand ==
    /\ pc = "bands" /\ Worthwhile
    /\ band' = bandU[1].i /\ time' = bandTime(bandU[1].i)
    /\ left' = predIdx(bandU[1].i) /\ right' = left'
    /\ bandU' = heapPop(bandU)
    /\ pc' = "window"
    /\ UNCHANGED <<util, window, nWorst, acc>>

Return ==
    /\ pc = "bands" /\ ~Worthwhile
    /\ pc' = "done"
    /\ UNCHANGED <<util, window, nWorst, bandU, acc, band, time, left, right>>

\* Where the next window may be lower than the bound: at a change of
\* utilization, at either edge, that is far enough away.
Later(t, mu) ==
    Larger(Smaller(nextChange(left', t), nextChange(right', t + win) - win),
           t + (mu - acc'.bound) \div One)

\* bandMMU, one window.
endTime == Smaller(bandTime(band + 1), End - win)
Window ==
    /\ pc = "window"
    /\ left' = Pos(left, time) /\ right' = Pos(right, time + win)
    /\ LET mu == Integral(right', time + win) - Integral(left', time)
       IN  /\ acc' = addMU(UtilWindow(time, mu))
           /\ IF Enough(acc', mu) \/ time = endTime
              THEN pc' = "bands" /\ UNCHANGED time
              ELSE time' = Smaller(Later(time, mu), endTime) /\ UNCHANGED pc
    /\ UNCHANGED <<util, window, nWorst, bandU, band>>

Finished == pc \in {"done", "panic"} /\ UNCHANGED vars

Search == SearchBand \/ Window \/ Return
Next == Extend \/ Ask \/ MakeBands \/ Search \/ Finished
Spec == Init /\ [][Next]_vars
FairSpec == Spec /\ WF_vars(Search)
-----------------------------------------------------------------------------
(***************************************************************************)
(* Properties                                                              *)
(***************************************************************************)
Total(t) == Integral(Pos(1, t), t)
Minimum  == Min({Total(t + win) - Total(t) : t \in Begin..(End - win)})

Answered == pc = "done" /\ window > 0

\* Bands are rounded up: the last one a window may start in may begin where no
\* window fits any more, and what follows the trace counts as 0.
EndsBeyond == \E i \in Lefts : bandTime(i) > End - win

\* "This is the minimum utilization for all windows of this duration across the
\* execution" (gc.go:510); less only if windows beyond it are searched, too.
MinimumFound ==
    Answered => acc.mmu <= Minimum /\ (~EndsBeyond => acc.mmu = Minimum)

\* The search of every band, and of all bands, ends.
Ends == pc = "bands" ~> pc = "done"

\* "The returned windows will be disjoint" (gc.go:519)
Disjoint ==
    Answered => \A i, j \in DOMAIN acc.wHeap :
        i < j => acc.wHeap[i].Time + win <= acc.wHeap[j].Time \/ acc.wHeap[j].Time + win <= acc.wHeap[i].Time
=============================================================================
