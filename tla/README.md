# goatlib: a verification project

goatlib is the library behind GOAT, which finds deadlocks and leaked goroutines in Go
programs. It instruments a program, runs it with the execution tracer on, parses the
trace and answers questions about it. This directory holds TLA+ models of the parts
where the difficulty lies, TLC configurations that check them on small instances, and
proofs that TLAPS checks for every instance.

Source paths below are relative to the repository. "parser.go", "order.go",
"goroutines.go" and "gc.go" are files of `src/trace/`; "ginfo.go" and
"deadlock_checker.go" of `src/traceops/`; "store.go" and "checker.go" of `src/db/`;
"identify.go" and "rewrite.go" of `src/instrument/`.

## 1. The system

```
 instrument ──> go build ──> program under test + Go runtime tracer
                                     │  trace bytes on stderr
                        instrument.ExecuteTrace
                                     │
  trace.Parse:  readTrace ─> parseEvents ─> order1007 ─> fake Ps ─> removeFutile ─> postProcessTrace
                                     │  ParseResult: events in one order, with times and links
          ┌──────────────────────────┼──────────────────────────────┐
  GoroutineStats,            GetGoroutineInfo,              db.Store ─> db.Checker,
  MutatorUtilization, MMU    DeadlockChecker, coverage,     coverage, reports
                             graphs
```

Everything after the program's end runs in one goroutine. Concurrency is in the data:
many Ps (the runtime's processors) write a trace at once, each into batches of its own,
with clocks that need not agree, and the parser has to find one order of events that can
have happened.

### Components, their state, and what makes them correct

| Component | State | Operations | Correct if |
|---|---|---|---|
| Go runtime tracer (external; its output format is in parser.go) | per P a batch and the goroutine it runs; per goroutine a sequence number | one per event type | it is what the parser relies on |
| `parseEvents` (parser.go:317) | `lastG`, `lastP`, `lastGs`, `lastTs`, `timerGoids`, `ticksPerSec`, string and stack tables | one step per record | every event gets the P, goroutine and time it was written with; an incomplete file is refused |
| `order1007` (order.go:53) | `gs` (goroutine states and numbers), `frontier`, position in each batch | scan heads, merge the earliest ready one, check timestamps, correct syscall exits | it ends; never fails or panics on a real trace; keeps each goroutine's order; loses nothing |
| `order1005` (order.go:218) | - | one sort | the same, for traces of Go 1.5 and 1.6 |
| fake Ps and `removeFutile` (parser.go:487, 506) | per goroutine the events since it was woken | two passes | futile wakeups disappear, and nothing else |
| `postProcessTrace` (parser.go:556) | descriptors `gs`, `ps`; open tasks, regions, GC, STW | one case per event type | refuses what cannot have happened; links what belongs together; no nil dereference |
| `GoroutineStats` (goroutines.go) | per goroutine when each kind of waiting began, sums, a stack of regions | one case per event type, `snapshotStat`, `finalize` | times are neither lost nor counted twice |
| `RelatedGoroutines` (goroutines.go:319) | - | search of depth 2 over unblock edges | - |
| `MutatorUtilization` (gc.go:53) | per P how many GC activities, per goroutine whether it assists and where it leaves its P | one case per event type | the utilization is that of the Ps doing GC work |
| MMU curves (gc.go:221ff, mud.go) | the bands still to be searched, an accumulator with the worst windows, two integrators | window searches, band by band | the minimum over all windows is found; the search ends |
| `Writer`, goat extension (writer.go, goat_extension.go) | a byte buffer | append a varint | - |
| `GetGoroutineInfo`, `GetGTree`, `DeadlockChecker` (traceops) | a map of goroutines with their events, parent and kind; edges; main and the trace reader | one step per event; then a verdict from the last events | no panic on a real trace; main that stopped tracing is no deadlock; the leaked goroutines are those of the program that still live |
| coverage and positions (traceops) | requirements seen per concurrency usage | one step per event | - |
| trace files, replay, graphs, tables (traceops) | files | I/O and drawing | - |
| `Store` (db/store.go) | local clocks, clocks of channels, mutexes, wait groups, condition variables; `msgs` and `links` for predecessors; SQL rows | one step per event | an event has one predecessor, and it is the event that links to it; no panic on an accepted trace |
| `Checker`, coverage, reports (db) | SQL | queries | the verdict is that of the trace, although the store leaves events out |
| `Identify`, `rewrite_*` (instrument) | syntax trees; the lines that still need a yield | find concurrency usages, edit trees while walking them | nothing of the program changes but for what is injected; every usage yields first; the usages reported are those of the program |
| `ExecuteTrace`, `BuildCommand` (instrument/execute.go) | child process output | run, cut the race report out of stderr | - |
| hello | - | prints a line | - |

### What is hard

* A batch's head may have to wait for an event that sits in another batch, so the merge
  could wait for itself. An event is found ready when it enters the frontier but merged
  later, after others changed the state it was checked against. Ties are broken by an
  unstable sort over a Go map's order.
* Timestamps come from several clocks. The merge must not depend on them to be
  consistent, yet afterwards it moves syscall exits by their timestamp.
* Events name their goroutine only if it changes; everything else is reconstructed from
  what the P ran before, across batches.
* A futile wakeup spreads over two goroutines and several Ps, tracing can begin in the
  middle of one, and removing it changes what later stages see.
* `postProcessTrace` copies descriptors, writes some of them through the map and others
  at the end of the loop body, sometimes for another P than it read.
* The readers use 0 for "not set", links for identity, and several counters and start
  times per goroutine, which block, move and end in the middle of all of it.
* The analyses of GOAT find out who is main, who the trace reader, and what belongs to
  the program, from the stacks of single events; the store leaves events out, and its
  queries must come to the same verdict as the tree built from all of them.
* The instrumentation edits syntax trees while it walks them, by line numbers of the
  source, and reads its own output again.
* The MMU search prunes by lower bounds; one that is too high loses the minimum.

`PROJECT.json` lists these hazards one by one, with their lines and the properties that
would catch them.

## 2. Modules

| Module | Models | Uses |
|---|---|---|
| `TraceEvents` | event types, fake Ps, goroutine states, the fields of `Event` that steer control | |
| `GoTracer` | the runtime writing a trace (external) | `TraceEvents` |
| `Order` | `order1007` on such a trace | `GoTracer` |
| `TracerProofs` | lemmas about `GoTracer`: what it writes are events | `GoTracer` |
| `OrderProofs` | theorems about the merge: it succeeds, and the stream it makes | `Order`, `TracerProofs` |
| `AbsScheduler` | what a processed trace promises: a run of a scheduler | |
| `PostProcess` | `postProcessTrace` on arbitrary events | `TraceEvents`; refines `AbsScheduler` |
| `PostProcessProofs` | theorems about `PostProcess`: types, refinement, links | `PostProcess` |
| `Pipeline` | the stages after the batches, composed | `Order`, `PostProcess` |
| `PipelineProofs` | theorems about the stages up to `removeFutile` | `Pipeline`, `OrderProofs` |
| `AcceptProofs` | theorem: real traces pass `postProcessTrace` | `PipelineProofs`, `PostProcessProofs` |
| `ParseEvents` | the loop of `parseEvents` on a file written from such a trace | `GoTracer` |
| `ParseProofs` | theorems about `ParseEvents` | `ParseEvents`, `TracerProofs` |
| `GoroutineStats` | `GoroutineStats`, as a fold over events | `TraceEvents` |
| `MutatorUtilization` | `MutatorUtilization`, as a fold over events | `TraceEvents` |
| `Readers` | both, on what `parse` returns | `Pipeline` |
| `MMU` | `newMMUSeries`, `MMU`, `Examples`: the search by bands, over every utilization function of a size | |
| `GoatProgram` | the trace of a program instrumented for GOAT (external), as processed events | `PostProcess` |
| `GoroutineTree` | `GetGoroutineInfo`, `GetGTree`, `DeadlockChecker` | `TraceEvents` |
| `Store` | `db.Store`, `storeIgnore`, and the queries of `db.GetGoroutineInfo` and `db.Checker` | `TraceEvents` |
| `Goat` | the tree and the store, side by side on one trace | `GoatProgram`, `GoroutineTree`, `Store` |
| `GoatProofs` | who lives when in a program's trace, and theorems about both analyses | `Goat`, `PostProcessProofs` |
| `Instrumentation` | `Identify`, the rewritings, the `Instrument*` functions, over every package of a size | |
| `InstrumentProofs` | theorems about the rewritings | `Instrumentation` |
| `MC*` | instances for TLC | |

### How state and actions correspond to the code

**GoTracer.** Each action is one event the runtime writes; `batch`, `clock`, `cur` and
`lastp` are what it keeps per P and goroutine. `rg` is the true state of each goroutine,
as the pair (sequence number, status) that order.go reconstructs; every event carries
the states before and after it (`pre`, `post`) and its position `n` in the true order.
The code does not see these three fields; properties do. GoTracer is written from what
`stateTransition` (order.go:143) and the cases of `postProcessTrace` expect: numbers
grow by one when a goroutine changes hands, an event on the P that touched the goroutine
last is "Local" and carries no number, the snapshot is written by one P with the world
stopped, a syscall exit is written when the goroutine runs again but carries the time at
which it returned. A P sweeps without giving up its goroutine,
a goroutine that sweeps is back from its system call, and an assist ends before its
goroutine does.

**Order.** `Begin`, `Scan` (order.go:64-83: take every batch whose head is ready into
the frontier), `Merge` (:88-98: any earliest event of it), `CheckOrder` (:103),
`FixSysExits` (:107-138). `sort.Sort` is not stable and Go's map order is random, so
`Merge` takes any of the earliest events; the two stable sorts keep ties. `pc` also
names the ways out: "inconsistent" and the panics, a time order error, a stray exit.

**PostProcess.** One action per case of the switch, with its check in `Fits`.
Descriptors are records; the code's pointers to events are positions in `trace`, and 0
is nil. `Restore` does what the loop does at its end: `gs[ev.G] = g`, `ps[ev.P] = p`,
with `ev.P` as it is by then. Inputs are arbitrary events, so what holds here owes
nothing to the merge.

**Pipeline.** `Parse` is `Order`; `Prepare` is the end of `parseEvents` and
`removeFutile`; `Check` gives `postProcessTrace` one event after the other.

**ParseEvents.** The finished batches of GoTracer are flushed to a file in pieces of any
size, in any order that keeps each P's; the reader sees the records one by one and the
file may end after any of them. `EventRecord` drops the goroutine and makes times
relative, as the wire format does. The reader keeps up with the writer because the order
of reading is that of writing.

**GoroutineStats, MutatorUtilization.** `Step` is one event of the loop, folded over the
trace; `Finalize` and the final 0 utilization come after it. The reference definitions
below the line (`Spent`, `Doing`, `BusyAfter`) say what the numbers should be by looking
at the events alone: the time between two events is spent on what was begun last.

**GoatProgram, GoroutineTree, Store, Goat.** `GoatProgram` extends `PostProcess`: each of
its events passes the checks and gets the links of `postProcessTrace` as it is written,
so that the analyses see real events. Who writes what is known from what the
instrumentation injects into main (`goat.Start`, `go goat.Watch`, `defer goat.Stop`) and
from what the analyses look for; stacks are short sequences of function names. The
program may be cut off anywhere after its prologue (`Ends`). Then `Analyse` gives both
analyses one event after the other. `GetGoroutineInfo` is the loop ginfo.go:95-197;
`Panics` are its four panics, `Creates` and `Child` its two branches for GoCreate. What
follows the loop (`App`, `GTree`, `DLReport`) are operators over its result. `Store` is
the loop store.go:101-353, `Insert` its body: one clause per map, in the code's order of
reading and writing (`Row` uses the new clocks and the old links). Events carry numbers,
and the two packages name them differently: `StoredAs` is what `EventDescriptions[e.Type]`
of db makes of the parser's numbers. SQL tables are sequences of rows in the order of
their ids.

**Instrumentation.** A package is a sequence of nodes with depths, the preorder in which
`astutil.Apply` visits them; a node begins a line or shares one. `Write` builds every
package up to a size from pieces of Go that the visitors tell apart: calls (also deferred
or at the end of a broken chain), sends, receives, go, defer, range, if and else-if, selects
and switches with their cases, any of these under a label, functions (also on one line),
methods, and variables. There is one main; a Test may stand in every file. `First`,
`Rewrite`, `Second` are the three lines of each `Instrument*` function. `Found` is the
switch of Identify's visitor, `InjectSched` the one of the rewriting, folded over the
nodes with the lines that still need a yield. `InjectRange` and `InjectMain` walk forward
over a tree that grows as they go, and come past what they put in, as `ast.Inspect` does.
What is injected has id 0, so that properties can tell it from what was written.
`Loads` says what the second Identify gets from the loader: `AllowErrors` is not set, so
for a package that does not parse (`Parses`) or does not type-check, as its files call
goat without importing it or import it without a call (`ImportsMatch`), the program is
nil, the error is ignored (identify.go:56), and `prog.Created` panics (identify.go:58).

**MMU.** `Extend` and `Ask` choose a utilization function and a question; `MakeBands`,
`SearchBand`, `Window` and `Return` are the search (gc.go:609-642, 708-767), one window
per step. Utilization is counted in parts of `One` and means are multiplied by the
window, which makes all the arithmetic exact. The heap of bands is container/heap's, to
the order of equal elements, because it decides which windows come first.

### Abstractions that hold everywhere

In the parser, stacks, names, strings, labels and offsets are left out, except the stack
of a goroutine's creation, which is the number of the creating event. Goroutine 0 is `NoG`.
Conversion of ticks to nanoseconds (parser.go:488) is monotone and is left out, except
that times start at 0. GC stop-the-world of Go 1.10 and later is global, before that per
P (`GlobalSTW`). Versions before 1007 are not modelled.

## 3. What the runs check

| Run | Question | Bounds | States |
|---|---|---|---|
| `order_skew` | Does the merge end, and find the block of every exit, with bad clocks? `NoStrayExit`, `Terminates` | 2 goroutines, 2 Ps, 5 events, 2 readings | 310 000 |
| `post` | Is what `postProcessTrace` accepts a run of the scheduler, linked as documented, and do links stay? `SchedulerRun` (refinement), `StartsExclude`, `StartsLinked`, `WokenWasBlocked`, `FirstStartStack`, `LinksFit`, `LinksStay`, `NoNilDereference` | 2, 2, every sequence of 7 scheduling events; every one of 5 that open and close something | 994 000 |
| `pipe` | Is any real trace of one clock merged, in the order it was written as far as readings tell, and accepted? Are exactly the futile wakeups removed, and is every call linked to its exit? `NoBrokenMerge`, `ChainOrder`, `BatchOrder`, `NothingLost`, `TimelineRecovered`, `LegalAccepted`, `FutileInvisible`, `SysCallLinks`, `AssumedInput` | 2 (one a timer), 2; wakeups: 7 events, 9 with a futile one, all readings equal; system calls: 6 events, 3 readings with ties | 1.2 million |
| `parse_batches` | Is every event attributed as it was meant, and no incomplete file accepted? `AsWritten`, `AcceptedComplete` | 2 (one a timer), 2, 7 events, all ways to cut and order batches | 4.1 million |
| `read_spans` | Are times and utilizations those of the trace? `GoroutineTimes`, `RegionTimes`, `UtilizationHolds`, `LegalAccepted` | 2, 2, 7 events | 1.1 million |
| `instrument` | Is the program kept, does every usage yield, are the same usages found again, and which packages cannot be instrumented? `OnlyAdds`, `Yields`, `Reidentified`, `StopsOnly` | every package of 9 nodes, 2 kinds of call, main and methods called Test, 3 modes | 1.1 million |
| `goat_analyses` | Do tree and store tell the truth about who is deadlocked and leaked, and the same? `NoPanic`, `GlobalVerdict`, `LeaksLive`, `TreeHoldsApp`, `VerdictsAgree`, `TablesAgree`, `Predecessors` | main, trace reader, goat.Watch, 2 more, 1 P, 1 channel, 11 events | 446 000 |
| `mmu` | Is the minimum found, and does the search end? `MinimumFound`, `Ends` | utilizations 0, 1/2, 1; 6 time units, 3 bands, up to 2 examples, every window | 126 000 |

Why these bounds. Two goroutines and two Ps are the least with which a goroutine changes
hands and two batches compete; every requirement of the merge is between an event and
the one before it on the same goroutine, and section 4 settles all sizes for most of
what these runs check. Seven events let a goroutine be created, start, block, be woken from the other P and
start there, with another one doing part of the same. Nine events hold
a snapshot of two goroutines, a wait, an unblock, a start, a preemption, a second start,
the futile mark, the park, and still one more event. Seven input events, over all
sequences, take one goroutine through create, start, block, unblock, start, leave, and a
clash with the other. Seven events in `read_spans` are enough to create, start, open a
region or an assist, block inside it, be woken, resume elsewhere and close it, or to
create a goroutine that inherits the region's task. Sweeps do not occur in `read_spans`.
Seven events in `parse_batches`, with the start of both Ps, leave room for a goroutine
that is running when its P's batch ends, another P's batch, and the events that follow.
`Ticks` are few on purpose: with "agree" and "skewed" clocks what matters is which of
two readings is smaller or equal; "exact" clocks give each event its own reading where
ties are not the question. `ACTION_CONSTRAINT OneKindNext` of `pipe` keeps wakeups and system calls apart: each
kind of trace is complete up to its length. The traces of `goat_analyses` begin with the
four events of the prologue; seven more let the program create a goroutine that blocks,
is woken, uses the channel, enters a region and ends, or main stop the trace in the
middle of it. Nine nodes are a file, a function with its body, and six for what is in it:
a range in a select, two usages on one line, a defer with a call, an else-if. Three bands
over six time units are the least with which a window covers one band wholly and two in
part, which is where the bounds differ. Symmetry is used in invariants' runs and in the
refinement of `post` (a safety property that names no particular goroutine), never with
liveness, and not where a timer goroutine is singled out.

Deadlock is checked in every run: `Done`, `Return` and `Finished` let a finished pass
stutter, anything else that stops is an error.

Fairness: only `Terminates` and `Ends` need it. `order1007` is one loop of one goroutine
that calls nothing that blocks, so once the trace is written (`pc = "scan"`) it keeps
taking steps: WF on `Reorder`; and so does the search of `mmu`: WF on `Search`. Nothing
is assumed about the program being traced, or about anyone asking.

Two invariants carry an exact exception, which is where the code fails: `NoPanic` those
of `EndsInRegion` (Store panics where a goroutine ends inside a region) and `Nameless`
(or at an event whose number has no name in its table, which no run meets; the proof
needs it), `GoroutineTimes` that of `ChargedTwice` (see below). `MinimumFound` excepts `EndsBeyond`: bands are
rounded up, so that the last one a window may start in may begin where none fits any
more, and what follows the trace counts as utilization 0. The minimum is then never
missed, but may be undercut. `Predecessors` and `VerdictsAgree` hold although names are
mixed up (`store_names`), since no query of the checker asks for the names that are.

## 4. What is proved

Everything here holds for any sets of goroutines, Ps and clock readings, and any bound
on the number of events. `TLAPS` checks it; `TLC` had checked each property, and each
inductive invariant that it can evaluate, on small instances before.

### The merge

**`MergeSucceeds`** (`OrderProofs`): `Spec => []NoBrokenMerge`. The merge of a trace the
runtime can write never runs out of ready heads and never panics, whatever the clocks
say. `NoBrokenMerge` is far from inductive. The strengthening `IInv` adds

* `Line`: along one goroutine (or the GC) the pending events, in the order they were
  written, lead from the state the merge has reached to the true state. The measure `M`
  of a state grows with each event, so they form a line. `Behind` says that the merge
  never gets ahead of the true state.
* `BatchInv`, `CoverInv`: batches are in the order of writing; if an event without a
  number is not first on its line, one before it on the line is in its own batch or was
  taken from it. This is what makes Local events safe, and the heart of the argument.
* `FrontierInv`: a frontier event is still ready, and the frontier holds one event per
  selected batch, older than all that is left in that batch.
* `PhaseInv`: while the trace is written nothing is selected, and the newest event of a
  goroutine's line is in the batch of the P that touched it last.
* `TracerInv`: a running goroutine was touched last by the P it runs on.

It follows that a ready head is the first of its line and stays so (so no panic), and
that the oldest pending event is ready when it is a head, which it is (so no deadlock).
`Inductive` is the invariance of `IInv`, `TypeCorrectness` the type invariant.

The second half of `OrderProofs` says what comes out. Its invariant `StreamInv` extends `IInv` by what is
merged and what is not, taken together: the events written are numbered 1 to n
(`Numbering`), a merged event is older than everything pending of its P and of its chain
(`Raw`, because a head is taken only when it is next on its line), every exit knows the
block before it (`Exits`, because the runtime does while the call lasts: `Calls`), and
if the clocks agree they order events (`Clocking`, `Recovered`). From it follow

* **`EverythingMerged`** (`NothingLost`): each event is in the stream once;
* **`BatchesInOrder`** (`BatchOrder`), **`ChainsInOrder`** (`ChainOrder`): the order of a P,
  and that of a goroutine, is kept; the second also when syscall exits get their own
  times, if the clocks agree. That needs lemmas about `sort.Stable`: the places of the
  elements are a permutation (`SortPermutes`, by counting), it sorts, and keeps ties;
* **`ExitsFindTheirBlock`** (`NoStrayExit`), with any clocks;
* **`TimelineIsRecovered`** (`TimelineRecovered`).

### Attribution

**`EventsAreAttributed`** (`AsWritten`) and **`AcceptedIsComplete`** (`AcceptedComplete`)
in `ParseProofs`: however the batches are cut up and mixed in the file, every event gets
its goroutine, P and time back, and no file that was cut off is accepted. `ParseInv`
says that there is a history `run`, of what each P ran after each of its events, which
explains what the runtime wrote (`History`, by the rules `Owns` and `RunsThen`) and what
the parser remembers (`Resumes`: `lastG` and `lastGs` are entries of it, at the positions
the parser has reached); and that of what is flushed at most one batch is half read
(`Unread`). Without the history the parser's memory could not be related to the
runtime's, which has moved on.

### Post-processing

**`Refinement`** (`PostProcessProofs`): `Spec => SchedulerRun`. Whatever events it is
given, what `postProcessTrace` accepts is a run of `AbsScheduler`: a P runs one
goroutine, a goroutine runs on one P, only the blocked are woken. **`NeverNil`**:
`g.evStart.Link` is never a nil dereference, and **`PostTypes`**. The inductive
invariant (`PostInductive`) adds `Agree`: a goroutine is running exactly if one P's
descriptor says so, and then its `evStart` is set; a goroutine without a descriptor is
dead. Without it the induction meets states in which a goroutine leaves a P it never
started on. **`ExclusiveRuns`** carries the abstract scheduler's own invariant over.

Its second half is about the links. `LinkInv` says of every field of a descriptor that
holds a position (`evStart`, `ev`, `evCreate`, `evMarkAssist`, `evSweep`, `evSTW`, the
stacks of regions, the tasks) which event that is, that it is not linked yet, and what
has not happened since (`Holders`); and of what is linked, that it is so as documented
(`History`). It gives **`ExecutionsExclude`** (`StartsExclude`), **`WokenHadBlocked`**
(`WokenWasBlocked`), **`LinksPair`** (`LinksFit`), **`FirstStartShows`**
(`FirstStartStack`), **`UnlinkedStillRun`** (`StartsLinked`) and, as an action property,
**`LinksAreFinal`** (`LinksStay`): no link is ever redirected, because a descriptor only
holds events without one.

### The analyses

`GoatProofs`, for any program, with any goroutines, resources and regions, cut off
anywhere. `ProgramInv` establishes of the trace, on top of `LinkInv`, who is created
where (`Prologue`, `Lives`), that the dead do not act (`Deaths`), what stacks show
(`Stacks`) and that an event is linked from two only if it ends a goroutine inside a
region (`LinkedOnce`). `GoatInv` adds, at every position of the reader,

* `TreeInv`: an entry of the tree's map says who created the goroutine, with which
  stack, and which of its events read so far is the last; the edges are the creations;
* `StoreInv`: there is a row per event read that `storeIgnore` lets pass, in order, with
  its fields, and clocks tell the rows of one goroutine apart (`Selected`); what `links`
  and `msgs` expect was announced by a row (`Linked`, `Messages`); the goroutines' table
  holds those known, once (`Listed`).

**`TracesAreAnalysed`** (`NoPanic`) is the absence of all panics but Store's two.
**`PredecessorsAreUnique`** (`Predecessors`) holds at any time; the others when the trace
has been read: **`VerdictIsTrue`** (`GlobalVerdict`), **`LeaksAreAlive`** (`LeaksLive`),
**`TablesAreTheTree`** (`TablesAgree`), **`VerdictsAreTheSame`** (`VerdictsAgree`) and
**`TreeIsTheApplication`** (`TreeHoldsApp`). The last one is about a recursive function,
the rounds of a breadth-first search; that it exists is shown by the least number of
rounds for which it would not, and that as many rounds as there are goroutines are
enough by counting: a round that has not reached all the application adds the one
created first among those missing, whose creator is already there.

### The pipeline

`PipelineProofs` and `AcceptProofs` put the stages together, for any trace of the
runtime model. `PipeInv` (**`PipeInductive`**) adds to what `StreamInv` says a
chronicle: of every event the runtime wrote, what the runtime's state was before it
(`View`) and how the event moved that state (`Did`: who runs where, in which mode, what
is open); the stream tells the same (`Ledger`), in the order of the clocks (`Timely`). An
invariant without it knows only where the runtime is now, while the stages after the
merge look at events long past.

* **`InputIsAsAssumed`** (`AssumedInput`), with no hypothesis: `postProcessTrace` is given
  what `PostProcess`, and with it everything proved of it, assumes of an event.
* **`FutileDisappears`** (`FutileInvisible`), if the clocks agree (`Monotone`): the two
  passes of `removeFutile` leave out exactly the futile wakeups, wherever tracing begins
  or ends. With skewed clocks exits may be moved across the events of their goroutine
  (`skewed_exit`), so that the hypothesis is needed. Both passes are recursive functions
  over the stream; that their state after k events is what the history of each goroutine
  says is shown by the least k for which it would not be.
* **`TimeInOrder`**, if the clocks agree: "time stamps out of order" (order.go:103) is
  not reported, nor could it be after syscall exits have been corrected.
* **`LegalTraces`** (`LegalAccepted`): no check of `postProcessTrace` refuses a real trace.
  Its hypotheses are `Ordinary`: the clocks agree; tracing did not begin in the middle of
  a wakeup (or else see section 5); syscall exits carry their goroutine; Ps that stop are
  told when they start; and events that bracket what the whole program does (GC, its
  stops, tasks) come with exact clocks, as order.go:190 gives equal readings no order.
  The constants of `pipe` satisfy it, and TLC refutes it without the first (`skewed_exit`) or the second.
  No descriptor sees all events, nor all of them in the order of writing: each one
  follows those that touch it, which the stream keeps in order. So the argument goes
  field by field: `Faithful` says that it is what the runtime's view would be after the
  last event that touched it, had the futile wakeups not taken place (`Vanishes`, and
  what a goroutine does instead of being woken: nothing), and that the check of the next
  event only asks for fields that are up to date (`MeetsNext`).
* **`CallsLinked`** (`SysCallLinks`), under the same hypotheses: a system call in which
  the goroutine blocked is linked to its own exit, any other to nothing. That a link
  joins a call to some exit of the same goroutine is `LinksPair`; that it is the right one
  needs the chronicle: a goroutine in a call does nothing else (`ExitFollows`) and is not
  unblocked (`CallNotWoken`), and dropping futile wakeups does not make it look so
  (`WokenLeft`). `Linked` then says which call each descriptor still remembers, and which
  links are set, after every event.

### The rewritings

`InstrumentProofs`, for packages of any size, whatever they declare and call.
`InstrumentInv` (**`InstrumentInductive`**) says that the package is a sequence of trees,
its nodes numbered in the order of writing (`Source`), and that what a rewriting returned
extends it.

* **`NothingIsLost`** (`OnlyAdds`): the rewritten package has every node of the source,
  unchanged and in the same order, and otherwise only what was injected. `InjectSched`
  copies a node at a time and is followed node by node (`Visited`); `InjectRange` and
  `InjectMain` edit the tree that they walk, and each visit extends it in a place that
  exists (`Edited`): a function is never last, since its body follows, and a loop has an
  end. Both walk forward over the tree as it is by then, past what they put in.

* **`StopsWhereItMust`** (`StopsOnly`): what stops the `Instrument*` functions is a usage on
  the line of a declaration, an else-if, a case, a broken expression or a labelled
  statement that is not deferred; the case of a nonblocking select with
  `InstrumentCriticOnly`; or a file that imports goat without calling it, or the other way
  round. Each of these does, and nothing else. `StopsInv` adds that the package is built as
  Go's grammar has it (`Grammar`: a select, a function or a loop is followed by its block,
  cases stand in selects and switches only, what begins a line and is no element of a list
  is a broken expression, an else-if or the statement of a label) and that nothing in it
  is goat's yet (`Unmarked`). The argument has three parts.
  *Panics and parsing*: `InjectSched` panics exactly if a scheduled line begins with what no
  statement may precede (`SchedYields`); what it makes does not parse exactly if one begins
  with a case (`CopiedStray`); what `InjectRange` and `InjectMain` put in leaves that as it
  is (`RangeTidy`, `MainTidy`).
  *Imports*: which files hold a call of goat is followed through each rewriting
  (`SchedHas`, `RangeHas`, `MainHas`), nodes that move stay within their file
  (`WithinMoved`); so every file matches its import exactly if none has something to
  trace and nothing to yield before (`SchedLoads`), or, without yields, none has test
  methods and nothing to trace (`TraceOnlyLoads`).
  *Usages*: every usage is on a line that begins inside the file of the usage, that of a
  nonblocking select's case with the case (`IdentifyLined`, `UsageBegins`); the case is
  never found without its select and a loop never missed, so that the files with a usage
  are those that yield (`UsedYields`).

The walks are recursive functions of the number of nodes visited. That such a function
exists, and what it computes, is shown by the least number of visits for which it would
not (`WalkExists`, `UpTo`), as no induction theorem can be instantiated.

### Assumptions

The sentinels are none of the ordinary values (`Sentinels`), fake Ps are no real ones
(`FakePsAreNotReal`), main, the trace reader and goat.Watch are three
(`ProgramAssumption`), nil and the root's -1 are no goroutines and there are finitely
many of them (`GoatAssumption`), the sets have the right types (`TracerAssumption`,
`PostAssumption`, `InstrumentAssumption`). TLC evaluates them in every run.

### Only model-checked

* `Terminates` and `Ends`: liveness under fairness is out of the prover's reach.
* `Yields`, `Reidentified` of `Instrumentation`: they compare what `Identify` finds after
  the rewriting with what it found before, so that each needs to know how every insertion
  shifts every line.
* `Readers` and `MMU`: sums over a trace, and the search by bands, by folds over whole
  sequences. What such a fold computes is shown by an induction of its own for every fold,
  since no induction theorem can be instantiated with an operator.

## 5. Where code and documentation disagree

* `skewed_exit`: order.go:113-115 rules out that a trace with broken timestamps is later
  reported as "logically broken". It is: a syscall exit gets its real time and is sorted
  behind the start that follows it, since only the block before it bounds it
  (order.go:130), and parser.go:703 says "g is not runnable before start".
* `goat_imports`: rewrite.go:53-54 adds the import "for all ast files in the package".
  The code adds it where there is a usage (rewrite.go:64), yet main and tests call goat
  in any case (rewrite.go:104-131), and rewrite_traceOnly imports it for a method named
  Test..., which it then leaves alone. Such a package does
  not compile, and the second Identify panics on it (identify.go:58).
* `store_names`: db/constants.go:3-4 calls its event numbers a "verbatim copy" of the
  runtime's. From 49 on they are not the parser's (parser.go:1071-1085): a ChMake is
  stored as a ChSend, a ChSend as a ChRecv, a MuLock as a WgAdd; a WgAdd as a Select.
* `mmu_examples`: "the returned windows will be disjoint" (gc.go:519-520). A window
  replaces the first one in the heap that it overlaps, and may overlap the others.

Noticed and not run: a trace may start in the middle of a futile wakeup
(parser.go:510-512); if it does, the goroutine's block is removed though nothing before
it was, and its next unblock is refused (`LegalAccepted` with `MidWakeup = TRUE`).
`finalize` leaves an empty descriptor rather than nil (goroutines.go:134), so that a
goroutine that ended is charged again for a GC still running when the trace ends. The end
of a goroutine is linked from its start and from a region it leaves open (parser.go:729,
736), and `db.Store` panics on the second (store.go:220). With skewed clocks a GCDone may be merged before its GCStart, which
`postProcessTrace` refuses (order.go:190 gives it no order). The table above
`Event.Link` omits that a region may be linked to the goroutine's end (parser.go:59,
737). `GoroutineStats` ignores GoWaiting and GoInSyscall: a goroutine blocked since
before the trace counts as waiting for a P, and `GoroutineTimes` excepts it. An assist
that began before the trace takes the count of gc.go:110 below zero. What begins at time
0, that of the first event, is "not set" to the statistics; the reference follows the
code there. Store gives mutex events no resource clock, and condition variables that of
a wait group of the same id (store.go:211); Checker counts condition variables as
channels (checker.go:79: "C%"). DeadlockChecker indexes the stack of a GoSched that may
have none (deadlock_checker.go:61). `DynamicConcurrencyUsage` queries stack frames by a
column they do not have (db/coverage.go:62) and panics as soon as a trace has an event of
`catSCHD` (channels, select, mutexes, wait groups). A utilization function of no duration makes `mkBandUtil` index band -1 (gc.go:672; `MakeBands`). A
converted defer evaluates its arguments late, and a deferred `recover()` inside it
recovers nothing (declrations.go:114). A select of two communications is no usage
(identify.go:87-117), and a `continue` skips the yield at the end of a loop
(rewrite.go:97).

## 6. Not modelled

`order1005` and other branches for versions before 1007; `readTrace`'s bytes and the
string and stack tables; symbolization; the writer; the mutator utilization distribution
(`MUD`, mud.go), whose histograms are floating point throughout, and curves of several
series; background mark workers and per-P series of `MutatorUtilization`;
`RelatedGoroutines`; coverage (traceops/coverage.go, positions.go; db/coverage.go);
`ExecuteTrace` and `BuildCommand`; the tables Args and StackFrames; files, tables,
graphs, formatting of reports; hello. `MutatorUtilization` has a constant number of Ps:
changes of GOMAXPROCS in the middle of a trace (gc.go:76-95) are left out.

In `Instrumentation`: position comments; files of equal names up to the first dot
(rewrite.go:137), which would overwrite each other. Of what the type checker may refuse
only the imports are modelled: the package is assumed to compile as written, goat to be
found, and the names `goat` and `GOAT_done` not to be used by the package. A statement
stands for all that the visitors treat alike: a Recv for the statement, the assignment
and the return that receive, an If for every statement that holds a block.

Some hazards are described and not caught. Of GCDone and the like merged before their
beginning, no run has an instance that fails: `skewed_exit` emits no GC events and
`order_skew` does not post-process. A wait or region that begins at time 0 is lost by the
statistics and, by the same convention, by the reference of `GoroutineTimes` and
`RegionTimes`. With the world stopped by all Ps at once (`GlobalSTW`) only the theorems
speak about links: the run `post` lets every P stop it for itself, and `pipe` and
`read_spans` do not stop it.

## 7. Plan

Done, in this order, the most important first: `TraceEvents`, `GoTracer`, `Order` and
its proof, `AbsScheduler`, `PostProcess` and its proofs, `Pipeline`, `ParseEvents`, the
first readers, `Instrumentation`, `GoroutineTree` and `Store` composed in `Goat`, `MMU`.

Next:

1. Coverage: `MeasureCoverage` as one more reader of `GoatProgram`'s traces.
2. `MutatorUtilization`'s background workers and per-P series; curves of several series;
   `RelatedGoroutines`.
3. `ExecuteTrace`: how stderr is cut into a report and a trace.
4. Proofs: `Reidentified`, and with it `Yields`, for which `Copied` has to be said of the
   later walks too; the sums of `Readers`, by the least counterexample over the events read.
