----------------------------- MODULE GoatProgram -----------------------------
(***************************************************************************)
(* The trace of a program instrumented for GOAT, as postProcessTrace hands *)
(* it on: the input of the analyses of src/traceops and src/db.  Program   *)
(* and tracer are not in the repository.  What is known of them is what    *)
(* the instrumentation injects into main (goat.Start, go goat.Watch, defer *)
(* goat.Stop: src/instrument/declrations.go) and what the analyses look    *)
(* for.  The events are real ones: postProcessTrace accepts and links them.*)
(*                                                                         *)
(* One P is enough: the analyses do not look at Ps.                        *)
(***************************************************************************)
EXTENDS PostProcess, SequencesExt

CONSTANTS
    Main, Tracer, Watcher,  \* main, the trace reader, goat.Watch
    Boot,                   \* the P
    Parks,                  \* the ways to block
    Uses,                   \* the GOAT events
    Regions,                \* whether goroutines enter regions, and leave them
    Resources               \* the ids of channels, mutexes, ...

ASSUME ProgramAssumption ==
    /\ {Main, Tracer, Watcher} \subseteq Goroutine /\ Cardinality({Main, Tracer, Watcher}) = 3
    /\ Boot \in Proc /\ Parks \subseteq ParkTypes /\ Uses \subseteq GoatTypes
    /\ Regions \subseteq {"UserRegionStart", "UserRegionEnd"} /\ Resources \subseteq Nat

VARIABLE
    carried   \* per event, its stack and pos: whether a channel operation had to wait (0)

program == <<post, carried>>

Program == Goroutine \ {Main, Tracer}

\* Stacks are sequences of function names, innermost first.
Code(g) == CASE g = Main    -> <<"main.main">>
             [] g = Tracer  -> <<"runtime.ReadTrace", "runtime/trace.Start.func1">>
             [] g = Watcher -> <<"goat.Watch">>
             [] g = NoG     -> <<>>
             [] OTHER       -> <<"main.f">>
Entry(g) == CASE g = Main   -> <<"runtime.main">>
              [] g = Tracer -> <<"runtime/trace.Start.func1">>
              [] OTHER      -> Code(g)
InSnapshot == <<"goat.Start", "main.main">>
InStart    == <<"runtime/trace.Start">> \o InSnapshot
InHandler(g) == <<"goat.Sched_Handler">> \o Code(g)
InStop(g)    == <<"runtime.StopTrace">> \o
                (IF g = Main THEN <<"goat.Stop">> ELSE <<>>) \o Code(g)

Happens(typ, g, arg, seq, stk, pos) ==
    LET ev == [typ |-> typ, p |-> Boot, g |-> g, arg |-> arg, seq |-> seq]
    IN  /\ Len(trace) < MaxTrace
        /\ Fits(ev) /\ Case(ev)
        /\ carried' = Append(carried, [stk |-> stk, pos |-> pos])

Quiet(typ, g, stk) == Happens(typ, g, NoG, 0, stk, 0)

\* The first start shows where the goroutine's code begins.
Starts(g) == Quiet("GoStart", g, IF gs[g].evCreate # Nil THEN Entry(g) ELSE <<>>)

\* goat.Start: the snapshot announces main, which starts the trace reader;
\* then main starts goat.Watch.
Begin ==
    CASE Len(trace) = 0 -> Happens("GoCreate", NoG, Main, 0, InSnapshot, 0)
      [] Len(trace) = 1 -> Starts(Main)
      [] Len(trace) = 2 -> Happens("GoCreate", Main, Tracer, 0, InStart, 0)
      [] Len(trace) = 3 -> Happens("GoCreate", Main, Watcher, 0, Code(Main), 0)
      [] OTHER -> FALSE
Begun == Len(trace) >= 4

\* Nothing is traced after the GoSched of runtime.StopTrace.
Stopped == trace # <<>> /\ Last(carried).stk # <<>> /\ Last(carried).stk[1] = "runtime.StopTrace"

Current == ps[Boot].g
Schedule == Current = NoG /\ \E g \in Goroutine : Starts(g)
Create   == \E a \in Program : Happens("GoCreate", Current, a, 0, Code(Current), 0)
Park     == \E typ \in Parks : Quiet(typ, Current, Code(Current))
Unblock  == \E a \in Goroutine : Happens("GoUnblock", Current, a, 0, Code(Current), 0)
Yield    == \E stk \in {Code(Current), InHandler(Current)} : Quiet("GoSched", Current, stk)
End      == Quiet("GoEnd", Current, <<>>)
Made(r)  == \E k \in DOMAIN trace : trace[k].typ = "ChMake" /\ trace[k].seq = r
Use      == \E typ \in Uses, r \in Resources, pos \in {0, 1} :
                /\ typ = "ChMake" => ~Made(r)
                /\ typ \in {"ChSend", "ChRecv", "ChClose"} => Made(r)
                /\ pos = 1 => typ = "ChSend"
                /\ Happens(typ, Current, NoG, r, Code(Current), pos)
Region   == Current # Main /\ \E typ \in Regions : Quiet(typ, Current, Code(Current))

\* main returns from goat.Stop, or goat.Watch runs out of patience.
StopTrace == Quiet("GoSched", Current, InStop(Current))

\* Who does what: the trace reader only reads, goat.Watch only waits, and main
\* does not end while it is traced.
Acts ==
    \/ Current \in Goroutine \ {Tracer, Watcher} /\ (Create \/ Yield \/ Use \/ Region)
    \/ Current # NoG /\ Park
    \/ Current # Tracer /\ Unblock
    \/ Current \in Goroutine \ {Tracer, Main} /\ End
    \/ Current \in {Main, Watcher} /\ StopTrace

ProgramInit == Init /\ carried = <<>>
Traced      == Begin \/ (Begun /\ ~Stopped /\ (Schedule \/ Acts))

\* The arguments of an event, of which a type uses the first few: Event.Args
\* is an array of 4.
Args(k) == CASE trace[k].typ \in GoatTypes -> <<trace[k].seq, carried[k].pos, 0, 0>>
             [] OTHER                      -> <<trace[k].arg, 0, 0, 0>>

\* An event of the ParseResult.
Parsed(k) == [off |-> k, typ |-> trace[k].typ, g |-> trace[k].g, arg |-> trace[k].arg,
              args |-> Args(k), link |-> trace[k].link, stk |-> carried[k].stk]
=============================================================================
