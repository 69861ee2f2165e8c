------------------------------- MODULE Readers -------------------------------
(***************************************************************************)
(* What is computed from a trace once parse has accepted it: the goroutine *)
(* statistics and the mutator utilization, from the traces of the Pipeline *)
(* and with the times they were written with.                              *)
(***************************************************************************)
EXTENDS Pipeline

VARIABLE result   \* the events of the ParseResult; empty before parse returns

rvars == <<pvars, result>>

Goroutines == INSTANCE GoroutineStats WITH events <- result
Mutators   == INSTANCE MutatorUtilization
                WITH events <- result, Flags <- {"STW", "Assist", "Sweep"}

ReadInit == PipeInit /\ result = <<>>

\* parse returns the processed events, with times that start at 0
\* (parser.go:488).
ParseResult ==
    /\ Accepted /\ result = <<>>
    /\ result' = [k \in DOMAIN trace |->
                     [typ |-> trace[k].typ, p |-> trace[k].p, g |-> trace[k].g,
                      arg |-> trace[k].arg, seq |-> trace[k].seq, link |-> trace[k].link,
                      ts |-> input[k].ts - events[1].ts]]
    /\ UNCHANGED pvars

ReadNext == (PipeNext /\ UNCHANGED result) \/ ParseResult

ReadSpec == ReadInit /\ [][ReadNext]_rvars

Returned == result # <<>>
-----------------------------------------------------------------------------
\* The times GoroutineStats reports for goroutines are those of the trace.
GoroutineTimes == Returned => Goroutines!GoroutineTimes

\* So are those it reports for regions, which it gets by subtracting snapshots
\* (goroutines.go:124).
RegionTimes == Returned => Goroutines!RegionTimes

\* MutatorUtilization counts, per P, exactly the GC work under way on it
\* ("gc > 0 indicates that GC is active on this P", gc.go:59).
UtilizationHolds == Returned => Mutators!UtilizationHolds
=============================================================================
