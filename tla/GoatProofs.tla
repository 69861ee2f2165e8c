------------------------------ MODULE GoatProofs ------------------------------
(***************************************************************************)
(* What GOAT says of a trace is true, and its two analyses say the same:   *)
(* for every set of goroutines, length of trace, and use of channels,      *)
(* locks and regions, wherever the trace is cut off.                       *)
(*                                                                         *)
(* The tree remembers of every goroutine its creation and its last event.  *)
(* The tables hold a row per event that is not goat's own, in order, with  *)
(* clocks that tell the rows of a goroutine apart.                         *)
(***************************************************************************)
EXTENDS Goat, PostProcessProofs, FiniteSetTheorems, WellFoundedInduction

-----------------------------------------------------------------------------
(***************************************************************************)
(* What a trace tells of the life of its goroutines, for every set of      *)
(* them, every length, and every use of channels, locks and regions: each  *)
(* is created once, starts before it does anything else, and ends last;    *)
(* goat.Start comes first, and what stops the trace comes last.            *)
(***************************************************************************)
BornAt(i, g) == trace[i].typ = "GoCreate" /\ trace[i].arg = g
EndsAt(i, g) == trace[i].typ = "GoEnd" /\ trace[i].g = g
StopsAt(i)   == carried[i].stk # <<>> /\ carried[i].stk[1] = "runtime.StopTrace"

\* The functions that show in stacks.
Fns == {"main.main", "main.f", "runtime.main", "runtime.ReadTrace", "runtime.StopTrace",
        "runtime/trace.Start", "runtime/trace.Start.func1",
        "goat.Start", "goat.Watch", "goat.Stop", "goat.Sched_Handler"}

Carried == [stk : Seq(Fns), pos : {0, 1}]

Happening == {"GoCreate", "GoStart", "GoUnblock", "GoSched", "GoEnd"} \cup Parks \cup Uses \cup Regions

\* goat.Start, and after it who creates whom.
Prologue ==
    /\ 1 \in DOMAIN trace => BornAt(1, Main) /\ trace[1].g = NoG /\ carried[1].stk = InSnapshot
    /\ 2 \in DOMAIN trace => trace[2].typ = "GoStart" /\ trace[2].g = Main
    /\ 3 \in DOMAIN trace => BornAt(3, Tracer) /\ trace[3].g = Main /\ carried[3].stk = InStart
    /\ 4 \in DOMAIN trace => BornAt(4, Watcher) /\ trace[4].g = Main
    /\ \A i \in DOMAIN trace : i > 3 /\ trace[i].typ = "GoCreate" =>
         /\ trace[i].arg \in Program /\ trace[i].g \in Goroutine \ {Tracer, Watcher}
         /\ carried[i].stk = Code(trace[i].g)

\* What the analyses ask of the other stacks.
Stacks ==
    \A i \in DOMAIN trace :
        LET typ == trace[i].typ
            stk == carried[i].stk
        IN  /\ StopsAt(i) => typ = "GoSched" /\ i = Len(trace)
            /\ typ = "GoSched" => stk # <<>>
            /\ typ = "GoEnd" => stk = <<>>
            /\ i < 3 => stk = <<>> \/ stk[1] \notin {"runtime/trace.Start", "runtime/trace.Start.func1"}
            /\ typ \notin {"GoCreate", "GoStart", "GoSched"} /\ trace[i].g \notin {NoG, Tracer, Watcher}
                 => \A k \in DOMAIN stk : stk[k] \notin
                        {"goat.Start", "goat.Watch", "goat.Stop", "goat.Sched_Handler"}

\* Goroutines act after they were created, from their start on.
Lives ==
    /\ \A g \in Goroutine : gs[g].known => \E i \in DOMAIN trace : BornAt(i, g)
    /\ \A i \in DOMAIN trace : trace[i].typ = "GoCreate" => trace[i].arg \in Goroutine
    /\ \A i \in DOMAIN trace :
         IF trace[i].g = NoG THEN i = 1 \/ trace[i].typ = "GoUnblock"
         ELSE /\ \E j \in 1..(i - 1) : BornAt(j, trace[i].g)
              /\ \E j \in 1..i : trace[j].typ = "GoStart" /\ trace[j].g = trace[i].g

\* The dead are those that have ended, and they do not act.
Deaths ==
    \A g \in Goroutine :
        /\ gs[g].known /\ gs[g].state = "gDead" => \E i \in DOMAIN trace : EndsAt(i, g)
        /\ \A i \in DOMAIN trace : EndsAt(i, g) =>
             /\ gs[g].state = "gDead"
             /\ \A j \in DOMAIN trace : j > i => trace[j].g # g

\* Two events link to the same one only if it ends a goroutine and a region.
LinkedOnce ==
    \A i, j \in DOMAIN trace :
        /\ i # j /\ trace[i].link = trace[j].link /\ trace[i].link # Nil
        => /\ trace[trace[i].link].typ = "GoEnd"
           /\ trace[i].typ = "UserRegionStart" \/ trace[j].typ = "UserRegionStart"

ProgramInv ==
    /\ LinkInv
    /\ carried \in Seq(Carried) /\ Len(carried) = Len(trace)
    /\ \A i \in DOMAIN trace : trace[i].typ \in Happening
    /\ Prologue /\ Stacks /\ Lives /\ Deaths /\ LinkedOnce
-----------------------------------------------------------------------------
(***************************************************************************)
(* What the program writes                                                 *)
(***************************************************************************)
LEMMA Apart ==
    /\ Main \in Goroutine /\ Tracer \in Goroutine /\ Watcher \in Goroutine
    /\ Main # Tracer /\ Main # Watcher /\ Tracer # Watcher
    /\ NoG \notin Goroutine /\ NoG \in G /\ Boot \in Proc /\ Boot \in P
<1>1. \A a, b : Cardinality({a, b}) # 3
  <2> SUFFICES ASSUME NEW a, NEW b PROVE Cardinality({a, b}) # 3
    OBVIOUS
  <2>1. IsFiniteSet({a}) /\ Cardinality({a}) = 1
    BY FS_Singleton
  <2>2. Cardinality({a} \cup {b}) \in {1, 2}
    BY <2>1, FS_AddElement
  <2>3. {a} \cup {b} = {a, b}
    OBVIOUS
  <2> QED BY <2>2, <2>3
<1>2. Main # Tracer
  <2>1. Main = Tracer => {Main, Tracer, Watcher} = {Main, Watcher}
    OBVIOUS
  <2> QED BY <1>1, <2>1, ProgramAssumption
<1>3. Main # Watcher
  <2>1. Main = Watcher => {Main, Tracer, Watcher} = {Main, Tracer}
    OBVIOUS
  <2> QED BY <1>1, <2>1, ProgramAssumption
<1>4. Tracer # Watcher
  <2>1. Tracer = Watcher => {Main, Tracer, Watcher} = {Main, Tracer}
    OBVIOUS
  <2> QED BY <1>1, <2>1, ProgramAssumption
<1> QED BY <1>2, <1>3, <1>4, ProgramAssumption, NoGApart, RealApart DEF G

\* Pushing a frame.
LEMMA Pushed ==
    ASSUME NEW S, NEW s \in Seq(S), NEW a \in S
    PROVE  LET t == <<a>> \o s
           IN  /\ t \in Seq(S) /\ t # <<>> /\ t[1] = a /\ Len(t) = Len(s) + 1
               /\ \A i \in 1..Len(s) : t[i + 1] = s[i]
<1> DEFINE t == <<a>> \o s
<1>1. s \in Seq(S) /\ <<a>> \in Seq(S) /\ Len(s) \in Nat
  OBVIOUS
<1>2. t \in Seq(S) /\ Len(t) = Len(s) + 1 /\ t[1] = a /\ \A i \in 1..Len(s) : t[i + 1] = s[i]
  BY <1>1
<1> HIDE DEF t
<1> QED BY <1>1, <1>2 DEF t

\* The code of goroutines, and what is pushed on it.
LEMMA Codes ==
    ASSUME NEW g \in G
    PROVE  /\ Code(g) \in Seq(Fns) /\ Entry(g) \in Seq(Fns)
           /\ g # NoG => Code(g) # <<>>
           /\ Code(g) # <<>> => Code(g)[1] # "runtime.StopTrace"
           /\ g \notin {NoG, Tracer, Watcher} => Code(g) \in {<<"main.main">>, <<"main.f">>}
           /\ Entry(g) # <<>> => Entry(g)[1] # "runtime.StopTrace"
           /\ Entry(Main) = <<"runtime.main">>
<1> DEFINE Good(s) == s \in Seq(Fns) /\ (s # <<>> => s[1] # "runtime.StopTrace")
<1>1. \/ Code(g) = <<"main.main">>
      \/ Code(g) = <<"runtime.ReadTrace", "runtime/trace.Start.func1">>
      \/ Code(g) = <<"goat.Watch">> \/ Code(g) = <<>> \/ Code(g) = <<"main.f">>
  BY DEF Code
<1>2. \/ Entry(g) = <<"runtime.main">> \/ Entry(g) = <<"runtime/trace.Start.func1">>
      \/ Entry(g) = Code(g)
  BY DEF Entry
<1>3. g # NoG => Code(g) # <<>>
  BY Apart DEF Code
<1>4. Good(<<"main.main">>) /\ Good(<<"main.f">>)
  BY DEF Fns
<1>5. Good(<<"runtime.ReadTrace", "runtime/trace.Start.func1">>)
  BY DEF Fns
<1>6. Good(<<"goat.Watch">>) /\ Good(<<>>)
  BY DEF Fns
<1>7. Good(<<"runtime.main">>) /\ Good(<<"runtime/trace.Start.func1">>)
  BY DEF Fns
<1> HIDE DEF Good
<1>8. Good(Code(g))
  BY <1>1, <1>4, <1>5, <1>6
<1>9. Good(Entry(g))
  BY <1>2, <1>7, <1>8
<1>10. g \notin {NoG, Tracer, Watcher} => Code(g) \in {<<"main.main">>, <<"main.f">>}
  BY DEF Code
<1>11. Entry(Main) = <<"runtime.main">>
  BY Apart DEF Entry
<1> QED BY <1>3, <1>8, <1>9, <1>10, <1>11 DEF Good

LEMMA Frames ==
    ASSUME NEW g \in G
    PROVE  /\ InHandler(g) \in Seq(Fns) /\ InHandler(g) # <<>>
           /\ InHandler(g)[1] # "runtime.StopTrace"
           /\ InStop(g) \in Seq(Fns) /\ InStop(g) # <<>>
           /\ InStop(g)[1] = "runtime.StopTrace"
<1>1. Code(g) \in Seq(Fns) /\ {"goat.Sched_Handler", "runtime.StopTrace", "goat.Stop"} \subseteq Fns
  BY Codes DEF Fns
<1>2. /\ InHandler(g) \in Seq(Fns) /\ InHandler(g) # <<>>
      /\ InHandler(g)[1] # "runtime.StopTrace"
  BY <1>1, Pushed DEF InHandler
<1>3. CASE g # Main
  <2>1. InStop(g) = <<"runtime.StopTrace">> \o (<<>> \o Code(g))
    BY <1>1, <1>3 DEF InStop
  <2>2. <<>> \o Code(g) \in Seq(Fns)
    BY <1>1
  <2> QED BY <1>1, <1>2, <2>1, <2>2, Pushed
<1>4. CASE g = Main
  <2>1. InStop(g) = <<"runtime.StopTrace">> \o (<<"goat.Stop">> \o Code(g))
    BY <1>1, <1>4 DEF InStop
  <2>2. <<"goat.Stop">> \o Code(g) \in Seq(Fns)
    BY <1>1, Pushed
  <2> QED BY <1>1, <1>2, <2>1, <2>2, Pushed
<1> QED BY <1>3, <1>4

LEMMA Starting ==
    /\ InSnapshot = <<"goat.Start", "main.main">>
    /\ InStart = <<"runtime/trace.Start", "goat.Start", "main.main">>
    /\ InSnapshot \in Seq(Fns) /\ InStart \in Seq(Fns)
<1>1. InSnapshot = <<"goat.Start", "main.main">>
  BY DEF InSnapshot
<1>2. /\ InSnapshot \in Seq(Fns) /\ Len(InSnapshot) = 2
      /\ InSnapshot[1] = "goat.Start" /\ InSnapshot[2] = "main.main"
  <2>1. PICK s : s = InSnapshot
    OBVIOUS
  <2>2. s = <<"goat.Start", "main.main">>
    BY <1>1, <2>1
  <2>3. s \in Seq(Fns) /\ Len(s) = 2 /\ s[1] = "goat.Start" /\ s[2] = "main.main"
    BY <2>2 DEF Fns
  <2> QED BY <2>1, <2>3
<1>3. PICK t : t = InStart
  OBVIOUS
<1>4. t \in Seq(Fns) /\ Len(t) = 3 /\ t[1] = "runtime/trace.Start"
      /\ \A i \in 1..2 : t[i + 1] = InSnapshot[i]
  <2>1. "runtime/trace.Start" \in Fns
    BY DEF Fns
  <2>2. t = <<"runtime/trace.Start">> \o InSnapshot
    BY <1>3 DEF InStart
  <2> QED BY <1>2, <2>1, <2>2, Pushed
<1>5. t[2] = "goat.Start" /\ t[3] = "main.main"
  BY <1>2, <1>4
<1>6. t = <<"runtime/trace.Start", "goat.Start", "main.main">>
  BY <1>4, <1>5
<1> QED BY <1>1, <1>2, <1>3, <1>4, <1>6
-----------------------------------------------------------------------------
(***************************************************************************)
(* What may come next                                                      *)
(***************************************************************************)
\* The first events are those of goat.Start.
InPlace(ev, stk) ==
    /\ Len(trace) = 0 => ev.typ = "GoCreate" /\ ev.g = NoG /\ ev.arg = Main /\ stk = InSnapshot
    /\ Len(trace) = 1 => ev.typ = "GoStart" /\ ev.g = Main /\ stk \in {<<>>, <<"runtime.main">>}
    /\ Len(trace) = 2 => ev.typ = "GoCreate" /\ ev.g = Main /\ ev.arg = Tracer /\ stk = InStart
    /\ Len(trace) = 3 => ev.typ = "GoCreate" /\ ev.g = Main /\ ev.arg = Watcher /\ stk = Code(Main)
    /\ Len(trace) \notin 0..3 =>
         /\ ~StopsAt(Len(trace))
         /\ ev.typ = "GoCreate" => /\ ev.arg \in Program /\ ev.g \in Goroutine \ {Tracer, Watcher}
                                   /\ stk = Code(ev.g)

\* Whoever acts runs, but for the scheduler.
Alive(ev) ==
    IF ev.typ = "GoStart" THEN ev.g \in Goroutine /\ gs[ev.g].state = "gRunnable"
    ELSE IF ev.g = NoG THEN Len(trace) = 0 \/ ev.typ = "GoUnblock"
    ELSE gs[ev.g].state = "gRunning"

WellShown(ev, stk) ==
    /\ stk # <<>> /\ stk[1] = "runtime.StopTrace" => ev.typ = "GoSched"
    /\ ev.typ = "GoSched" => stk # <<>>
    /\ ev.typ = "GoEnd" => stk = <<>>
    /\ ev.typ \notin {"GoCreate", "GoStart", "GoSched"} => stk \in {<<>>, Code(ev.g)}

Comes(ev, stk) ==
    /\ Fits(ev) /\ Case(ev)
    /\ \E pos \in {0, 1} : carried' = Append(carried, [stk |-> stk, pos |-> pos])
    /\ ev.typ \in Happening /\ stk \in Seq(Fns)
    /\ InPlace(ev, stk) /\ Alive(ev) /\ WellShown(ev, stk)

LEMMA HappeningTypes ==
    /\ Happening \subseteq (EventTypes \ LocalTypes) \ {"GoSysExit"}
    /\ Happening \cap StartTypes = {"GoStart"} /\ Happening \cap EndTypes = {"GoEnd"}
    /\ Happening \cap LeaveTypes = {"GoSched", "GoEnd"} \cup Parks
    /\ Happening \cap SnapTypes = {}
<1>1. Parks \subseteq ParkTypes /\ Uses \subseteq GoatTypes
      /\ Regions \subseteq {"UserRegionStart", "UserRegionEnd"}
  BY ProgramAssumption
<1>2. ParkTypes \cup GoatTypes \cup {"UserRegionStart", "UserRegionEnd"}
         \subseteq (EventTypes \ LocalTypes) \ {"GoSysExit"}
  BY DEF ParkTypes, GoatTypes, EventTypes, LocalTypes, LeaveTypes, PlainTypes, YieldTypes, EndTypes,
         StartTypes, SnapTypes
<1>3. {"GoCreate", "GoStart", "GoUnblock", "GoSched", "GoEnd"}
         \subseteq (EventTypes \ LocalTypes) \ {"GoSysExit"}
  BY DEF EventTypes, LocalTypes, LeaveTypes, PlainTypes, YieldTypes, EndTypes, StartTypes
<1>4. (ParkTypes \cup GoatTypes \cup {"UserRegionStart", "UserRegionEnd"})
         \cap (StartTypes \cup EndTypes \cup SnapTypes) = {}
  BY DEF ParkTypes, GoatTypes, EndTypes, StartTypes, SnapTypes
<1>5. (GoatTypes \cup {"UserRegionStart", "UserRegionEnd"}) \cap LeaveTypes = {}
  BY DEF ParkTypes, GoatTypes, EndTypes, StartTypes, SnapTypes, LeaveTypes, YieldTypes
<1>6. ParkTypes \subseteq LeaveTypes /\ {"GoSched", "GoEnd"} \subseteq LeaveTypes
  BY DEF LeaveTypes, YieldTypes, EndTypes
<1>7. /\ "GoStart" \in StartTypes /\ "GoEnd" \in EndTypes
      /\ {"GoCreate", "GoStart", "GoUnblock"} \cap LeaveTypes = {}
      /\ {"GoCreate", "GoUnblock", "GoSched", "GoEnd"} \cap StartTypes = {}
      /\ {"GoCreate", "GoUnblock", "GoSched", "GoStart"} \cap EndTypes = {}
      /\ {"GoCreate", "GoUnblock", "GoSched", "GoStart", "GoEnd"} \cap SnapTypes = {}
  BY DEF ParkTypes, EndTypes, StartTypes, SnapTypes, LeaveTypes, YieldTypes
<1> QED BY <1>1, <1>2, <1>3, <1>4, <1>5, <1>6, <1>7 DEF Happening

\* What Comes says, of the fields of an event.
Placed(typ, g, arg, stk) ==
    /\ Len(trace) = 0 => typ = "GoCreate" /\ g = NoG /\ arg = Main /\ stk = InSnapshot
    /\ Len(trace) = 1 => typ = "GoStart" /\ g = Main /\ stk \in {<<>>, <<"runtime.main">>}
    /\ Len(trace) = 2 => typ = "GoCreate" /\ g = Main /\ arg = Tracer /\ stk = InStart
    /\ Len(trace) = 3 => typ = "GoCreate" /\ g = Main /\ arg = Watcher /\ stk = Code(Main)
    /\ Len(trace) \notin 0..3 =>
         /\ ~StopsAt(Len(trace))
         /\ typ = "GoCreate" => arg \in Program /\ g \in Goroutine \ {Tracer, Watcher} /\ stk = Code(g)
    /\ typ \notin {"GoCreate", "GoStart"} =>
         IF g = NoG THEN typ = "GoUnblock" ELSE gs[g].state = "gRunning"
    /\ typ = "GoCreate" => g # NoG \/ Len(trace) = 0
    /\ typ = "GoStart" => g # NoG
    /\ stk # <<>> /\ stk[1] = "runtime.StopTrace" => typ = "GoSched"
    /\ typ = "GoSched" => stk # <<>>
    /\ typ = "GoEnd" => stk = <<>>
    /\ typ \notin {"GoCreate", "GoStart", "GoSched"} => stk \in {<<>>, Code(g)}

LEMMA ComesNext ==
    ASSUME Inv, NEW typ \in Happening, NEW g \in G, NEW arg \in G, NEW seq \in Nat,
           NEW stk \in Seq(Fns), NEW pos \in {0, 1}, Happens(typ, g, arg, seq, stk, pos),
           Placed(typ, g, arg, stk)
    PROVE  \E ev \in InputEvents : Comes(ev, stk)
<1> DEFINE new == [typ |-> typ, p |-> Boot, g |-> g, arg |-> arg, seq |-> seq]
<1>1. PICK ev \in InputEvents :
             /\ ev.typ = typ /\ ev.g = g /\ ev.arg = arg /\ ev.seq = seq /\ ev.p = Boot
             /\ Fits(ev) /\ Case(ev) /\ carried' = Append(carried, [stk |-> stk, pos |-> pos])
  <2>1. new \in InputEvents
    <3>1. typ \in (EventTypes \ LocalTypes) \ {"GoSysExit"}
      BY HappeningTypes
    <3>2. Boot \in Proc /\ Boot # SyscallP /\ Boot # TimerP
      BY ProgramAssumption, FakePsAreNotReal DEF FakePs
    <3> QED BY <3>1, <3>2 DEF InputEvents, G
  <2>2. Fits(new) /\ Case(new) /\ carried' = Append(carried, [stk |-> stk, pos |-> pos])
    BY DEF Happens
  <2> HIDE DEF new
  <2>3. new.typ = typ /\ new.g = g /\ new.arg = arg /\ new.seq = seq /\ new.p = Boot
    BY DEF new
  <2> QED BY <2>1, <2>2, <2>3
<1>2. InPlace(ev, stk)
  BY <1>1 DEF InPlace, Placed
<1>3. WellShown(ev, stk)
  BY <1>1 DEF WellShown, Placed
<1>4. Alive(ev)
  <2>1. CASE typ = "GoStart"
    <3>1. g \in Goroutine
      BY <2>1 DEF G, Placed
    <3>2. gs[ev.g].state = "gRunnable"
      BY <1>1, <2>1, FitsSays DEF StartTypes
    <3> QED BY <1>1, <2>1, <3>1, <3>2 DEF Alive
  <2>2. CASE typ = "GoCreate"
    <3>1. gs[ev.g].state = "gRunning"
      BY <1>1, <2>2, FitsSays DEF Running
    <3> QED BY <1>1, <2>2, <3>1 DEF Alive, Placed
  <2>3. CASE typ \notin {"GoCreate", "GoStart"}
    BY <1>1, <2>3 DEF Alive, Placed
  <2> QED BY <2>1, <2>2, <2>3
<1> QED BY <1>1, <1>2, <1>3, <1>4 DEF Comes

LEMMA BeginComes ==
    ASSUME Inv, Len(trace) < 4, Begin
    PROVE  \E ev \in InputEvents : \E stk : Comes(ev, stk)
<1>0. Len(trace) \in 0..3
  <2>1. PICK n : n = Len(trace)
    OBVIOUS
  <2>2. n \in Nat /\ n < 4
    BY <2>1 DEF Inv, PostTypeOK
  <2>3. n \in 0..3
    BY <2>2
  <2> QED BY <2>1, <2>3
<1>1. Main \in G /\ Tracer \in G /\ Watcher \in G /\ NoG \in G /\ Main # NoG /\ 0 \in Nat
  BY Apart DEF G
<1>2. {"GoCreate", "GoStart"} \subseteq Happening
  BY DEF Happening
<1>3. CASE Len(trace) = 0
  <2>1. Happens("GoCreate", NoG, Main, 0, InSnapshot, 0)
    BY <1>3 DEF Begin
  <2>2. InSnapshot \in Seq(Fns) /\ InSnapshot[1] # "runtime.StopTrace"
    BY Starting
  <2>3. Placed("GoCreate", NoG, Main, InSnapshot)
    BY <1>1, <1>2, <1>3, <2>1, <2>2 DEF Placed
  <2> QED BY <1>1, <1>2, <1>3, <2>1, <2>2, <2>3, ComesNext
<1>4. CASE Len(trace) = 1
  <2> DEFINE stk == IF gs[Main].evCreate # Nil THEN Entry(Main) ELSE <<>>
  <2>1. Happens("GoStart", Main, NoG, 0, stk, 0)
    BY <1>4 DEF Begin, Starts, Quiet
  <2>2. stk \in Seq(Fns) /\ stk \in {<<>>, <<"runtime.main">>}
        /\ (stk # <<>> => stk[1] # "runtime.StopTrace")
    BY <1>1, Codes
  <2> HIDE DEF stk
  <2>3. Placed("GoStart", Main, NoG, stk)
    BY <1>1, <1>2, <1>4, <2>1, <2>2 DEF Placed
  <2> QED BY <1>1, <1>2, <1>4, <2>1, <2>2, <2>3, ComesNext
<1>5. CASE Len(trace) = 2
  <2>1. Happens("GoCreate", Main, Tracer, 0, InStart, 0)
    BY <1>5 DEF Begin
  <2>2. InStart \in Seq(Fns) /\ InStart[1] # "runtime.StopTrace"
    BY Starting
  <2>3. Placed("GoCreate", Main, Tracer, InStart)
    BY <1>1, <1>2, <1>5, <2>1, <2>2 DEF Placed
  <2> QED BY <1>1, <1>2, <1>5, <2>1, <2>2, <2>3, ComesNext
<1>6. CASE Len(trace) = 3
  <2>1. Happens("GoCreate", Main, Watcher, 0, Code(Main), 0)
    BY <1>6 DEF Begin
  <2>2. Code(Main) \in Seq(Fns) /\ Code(Main)[1] # "runtime.StopTrace"
    BY <1>1, Codes
  <2>3. Placed("GoCreate", Main, Watcher, Code(Main))
    BY <1>1, <1>2, <1>6, <2>1, <2>2 DEF Placed
  <2> QED BY <1>1, <1>2, <1>6, <2>1, <2>2, <2>3, ComesNext
<1> QED BY <1>0, <1>3, <1>4, <1>5, <1>6

LEMMA ActsComes ==
    ASSUME Inv, Len(carried) = Len(trace), Begun, ~Stopped, Schedule \/ Acts
    PROVE  \E ev \in InputEvents : \E stk : Comes(ev, stk)
<1>0. ~(Len(trace) \in 0..3) /\ ~StopsAt(Len(trace))
  <2>1. PICK n : n = Len(trace)
    OBVIOUS
  <2>2. n \in Nat /\ n >= 4
    BY <2>1 DEF Inv, PostTypeOK, Begun
  <2>3. n # 0 /\ n # 1 /\ n # 2 /\ n # 3 /\ trace # <<>>
    BY <2>1, <2>2
  <2> QED BY <2>1, <2>2, <2>3 DEF Stopped, StopsAt, Last
<1>1. Main \in G /\ Tracer \in G /\ Watcher \in G /\ NoG \in G /\ NoG \notin Goroutine /\ 0 \in Nat
  BY Apart DEF G
<1>2. Boot \in Proc /\ Current \in G /\ (Current # NoG => gs[Current].state = "gRunning")
  BY Apart DEF Inv, PostTypeOK, Agree, Current, pdesc
<1>3. Goroutine \subseteq G /\ Program \subseteq Goroutine
  BY DEF G, Program
<1>4. /\ {"GoCreate", "GoStart", "GoUnblock", "GoSched", "GoEnd"} \subseteq Happening
      /\ Parks \subseteq Happening /\ Uses \subseteq Happening /\ Regions \subseteq Happening
  BY DEF Happening
<1>5. /\ {"GoCreate", "GoStart"} \cap (Parks \cup Uses \cup Regions) = {}
      /\ {"GoSched", "GoEnd", "GoUnblock"} \cap (Parks \cup Uses \cup Regions) = {}
  BY ProgramAssumption DEF ParkTypes, GoatTypes
<1>6. Code(Current) \in Seq(Fns) /\ (Code(Current) # <<>> => Code(Current)[1] # "runtime.StopTrace")
  BY <1>2, Codes
<1>7. CASE Schedule
  <2>1. PICK g \in Goroutine : Starts(g)
    BY <1>7 DEF Schedule
  <2> DEFINE stk == IF gs[g].evCreate # Nil THEN Entry(g) ELSE <<>>
  <2>2. Happens("GoStart", g, NoG, 0, stk, 0)
    BY <2>1 DEF Starts, Quiet
  <2>3. stk \in Seq(Fns) /\ (stk # <<>> => stk[1] # "runtime.StopTrace") /\ g # NoG /\ g \in G
    BY <1>1, <1>3, Codes
  <2> HIDE DEF stk
  <2>4. Placed("GoStart", g, NoG, stk)
    BY <1>0, <1>1, <1>4, <2>2, <2>3 DEF Placed
  <2> QED BY <1>0, <1>1, <1>4, <2>2, <2>3, <2>4, ComesNext
<1>8. CASE Current \in Goroutine \ {Tracer, Watcher} /\ Create
  <2>1. PICK a \in Program : Happens("GoCreate", Current, a, 0, Code(Current), 0)
    BY <1>8 DEF Create
  <2>2. Placed("GoCreate", Current, a, Code(Current))
    BY <1>0, <1>1, <1>2, <1>3, <1>4, <1>6, <1>8, <2>1 DEF Placed
  <2> QED BY <1>0, <1>1, <1>2, <1>3, <1>4, <1>6, <1>8, <2>1, <2>2, ComesNext
<1>9. CASE Current # NoG /\ Park
  <2>1. PICK typ \in Parks : Happens(typ, Current, NoG, 0, Code(Current), 0)
    BY <1>9 DEF Park, Quiet
  <2>2. Placed(typ, Current, NoG, Code(Current))
    BY <1>0, <1>1, <1>2, <1>4, <1>5, <1>6, <1>9, <2>1 DEF Placed
  <2> QED BY <1>0, <1>1, <1>2, <1>4, <1>5, <1>6, <1>9, <2>1, <2>2, ComesNext
<1>10. CASE Unblock
  <2>1. PICK a \in Goroutine : Happens("GoUnblock", Current, a, 0, Code(Current), 0)
    BY <1>10 DEF Unblock
  <2>2. Placed("GoUnblock", Current, a, Code(Current))
    BY <1>0, <1>1, <1>2, <1>3, <1>4, <1>6, <2>1 DEF Placed
  <2> QED BY <1>0, <1>1, <1>2, <1>3, <1>4, <1>6, <2>1, <2>2, ComesNext
<1>11. CASE Current \in Goroutine \ {Tracer, Watcher} /\ Yield
  <2>1. PICK stk \in {Code(Current), InHandler(Current)} :
             Happens("GoSched", Current, NoG, 0, stk, 0)
    BY <1>11 DEF Yield, Quiet
  <2>2. stk \in Seq(Fns) /\ stk # <<>>
    BY <1>1, <1>2, <1>11, Codes, Frames
  <2>3. Placed("GoSched", Current, NoG, stk)
    BY <1>0, <1>1, <1>2, <1>4, <1>11, <2>1, <2>2 DEF Placed
  <2> QED BY <1>0, <1>1, <1>2, <1>4, <1>11, <2>1, <2>2, <2>3, ComesNext
<1>12. CASE Current \in Goroutine \ {Tracer, Watcher} /\ Use
  <2>1. PICK typ \in Uses, r \in Resources, pos \in {0, 1} :
             Happens(typ, Current, NoG, r, Code(Current), pos)
    BY <1>12 DEF Use
  <2>2. r \in Nat
    BY ProgramAssumption
  <2>3. Placed(typ, Current, NoG, Code(Current))
    BY <1>0, <1>1, <1>2, <1>4, <1>5, <1>6, <1>12, <2>1, <2>2 DEF Placed
  <2> QED BY <1>0, <1>1, <1>2, <1>4, <1>5, <1>6, <1>12, <2>1, <2>2, <2>3, ComesNext
<1>13. CASE Current \in Goroutine \ {Tracer, Watcher} /\ Region
  <2>1. PICK typ \in Regions : Happens(typ, Current, NoG, 0, Code(Current), 0)
    BY <1>13 DEF Region, Quiet
  <2>2. Placed(typ, Current, NoG, Code(Current))
    BY <1>0, <1>1, <1>2, <1>4, <1>5, <1>6, <1>13, <2>1 DEF Placed
  <2> QED BY <1>0, <1>1, <1>2, <1>4, <1>5, <1>6, <1>13, <2>1, <2>2, ComesNext
<1>14. CASE Current \in Goroutine \ {Tracer, Main} /\ End
  <2>1. Happens("GoEnd", Current, NoG, 0, <<>>, 0)
    BY <1>14 DEF End, Quiet
  <2>2. <<>> \in Seq(Fns)
    OBVIOUS
  <2>3. Placed("GoEnd", Current, NoG, <<>>)
    BY <1>0, <1>1, <1>2, <1>4, <1>14, <2>1, <2>2 DEF Placed
  <2> QED BY <1>0, <1>1, <1>2, <1>4, <1>14, <2>1, <2>2, <2>3, ComesNext
<1>15. CASE Current \in {Main, Watcher} /\ StopTrace
  <2>1. Happens("GoSched", Current, NoG, 0, InStop(Current), 0)
    BY <1>15 DEF StopTrace, Quiet
  <2>2. InStop(Current) \in Seq(Fns) /\ InStop(Current) # <<>> /\ Current # NoG
    BY <1>2, <1>15, Frames, Apart
  <2>3. Placed("GoSched", Current, NoG, InStop(Current))
    BY <1>0, <1>1, <1>2, <1>4, <2>1, <2>2 DEF Placed
  <2> QED BY <1>0, <1>1, <1>2, <1>4, <2>1, <2>2, <2>3, ComesNext
<1> QED BY <1>7, <1>8, <1>9, <1>10, <1>11, <1>12, <1>13, <1>14, <1>15 DEF Acts

LEMMA TracedComes ==
    ASSUME ProgramInv, Traced
    PROVE  \E ev \in InputEvents : \E stk : Comes(ev, stk)
<1>1. Inv /\ Len(carried) = Len(trace) /\ Len(trace) \in Nat
  BY DEF ProgramInv, LinkInv, Inv, PostTypeOK
<1>2. CASE Begin
  <2>1. Len(trace) < 4
    BY <1>1, <1>2 DEF Begin
  <2> QED BY <1>1, <1>2, <2>1, BeginComes
<1>3. CASE Begun /\ ~Stopped /\ (Schedule \/ Acts)
  BY <1>1, <1>3, ActsComes
<1> QED BY <1>2, <1>3 DEF Traced
-----------------------------------------------------------------------------
(***************************************************************************)
(* Each part of the invariant is kept                                      *)
(***************************************************************************)
\* What the preservation of each part starts from.
Joins(ev, stk, n) ==
    /\ After(ev, n) /\ Comes(ev, stk)
    /\ carried' \in Seq(Carried) /\ Len(carried') = n /\ carried'[n].stk = stk
    /\ \A i \in DOMAIN trace : carried'[i] = carried[i]
    /\ \A i \in DOMAIN trace : \A g :
         (BornAt(i, g)' <=> BornAt(i, g)) /\ (EndsAt(i, g)' <=> EndsAt(i, g))
    /\ \A i \in DOMAIN trace : StopsAt(i)' <=> StopsAt(i)
    /\ \A g : BornAt(n, g)' <=> ev.typ = "GoCreate" /\ ev.arg = g
    /\ \A g : EndsAt(n, g)' <=> ev.typ = "GoEnd" /\ ev.g = g
    /\ StopsAt(n)' <=> stk # <<>> /\ stk[1] = "runtime.StopTrace"

LEMMA ComesJoins ==
    ASSUME ProgramInv, NEW ev, NEW stk, Comes(ev, stk), NEW n, After(ev, n)
    PROVE  Joins(ev, stk, n)
<1>1. /\ carried \in Seq(Carried) /\ Len(carried) = n - 1 /\ n \in Nat \ {0}
      /\ DOMAIN trace = 1..(n - 1) /\ stk \in Seq(Fns)
  BY DEF ProgramInv, After, Later, Comes
<1>2. PICK pos \in {0, 1} : carried' = Append(carried, [stk |-> stk, pos |-> pos])
  BY DEF Comes
<1>3. PICK c : c = [stk |-> stk, pos |-> pos]
  OBVIOUS
<1>4. c \in Carried /\ c.stk = stk /\ carried' = Append(carried, c)
  BY <1>1, <1>2, <1>3 DEF Carried
<1>5. /\ carried' \in Seq(Carried) /\ Len(carried') = n /\ carried'[n] = c
      /\ \A i \in 1..(n - 1) : carried'[i] = carried[i]
  BY <1>1, <1>4
<1>6. carried'[n].stk = stk /\ \A i \in DOMAIN trace : carried'[i] = carried[i]
  BY <1>1, <1>4, <1>5
<1>7. Rows(ev, n)
  BY DEF After
<1>8. \A i \in DOMAIN trace : \A g :
         (BornAt(i, g)' <=> BornAt(i, g)) /\ (EndsAt(i, g)' <=> EndsAt(i, g))
  BY <1>7 DEF Rows, BornAt, EndsAt
<1>9. \A i \in DOMAIN trace : StopsAt(i)' <=> StopsAt(i)
  BY <1>6 DEF StopsAt
<1>10. \A g : (BornAt(n, g)' <=> ev.typ = "GoCreate" /\ ev.arg = g)
              /\ (EndsAt(n, g)' <=> ev.typ = "GoEnd" /\ ev.g = g)
  BY <1>7 DEF Rows, BornAt, EndsAt
<1>11. StopsAt(n)' <=> stk # <<>> /\ stk[1] = "runtime.StopTrace"
  BY <1>6 DEF StopsAt
<1> QED BY <1>5, <1>6, <1>8, <1>9, <1>10, <1>11 DEF Joins

LEMMA PrologueKept ==
    ASSUME ProgramInv, NEW ev, NEW stk, NEW n, Joins(ev, stk, n)
    PROVE  Prologue'
<1>1. /\ n \in Nat \ {0} /\ DOMAIN trace = 1..(n - 1) /\ DOMAIN trace' = 1..n /\ Len(trace) = n - 1
      /\ Rows(ev, n) /\ InPlace(ev, stk) /\ carried'[n].stk = stk
  BY DEF Joins, After, Later, Comes
<1>2. Prologue
  BY DEF ProgramInv
<1>3. \A i \in DOMAIN trace :
         /\ trace'[i].typ = trace[i].typ /\ trace'[i].g = trace[i].g /\ trace'[i].arg = trace[i].arg
         /\ carried'[i] = carried[i]
  BY <1>1 DEF Rows, Joins
<1>4. trace'[n].typ = ev.typ /\ trace'[n].g = ev.g /\ trace'[n].arg = ev.arg
  BY <1>1 DEF Rows
<1>5. /\ 1 \in DOMAIN trace' => 1 \in DOMAIN trace \/ (n = 1 /\ Len(trace) = 0)
      /\ 2 \in DOMAIN trace' => 2 \in DOMAIN trace \/ (n = 2 /\ Len(trace) = 1)
      /\ 3 \in DOMAIN trace' => 3 \in DOMAIN trace \/ (n = 3 /\ Len(trace) = 2)
      /\ 4 \in DOMAIN trace' => 4 \in DOMAIN trace \/ (n = 4 /\ Len(trace) = 3)
  BY <1>1
<1>6. 1 \in DOMAIN trace' =>
        trace'[1].typ = "GoCreate" /\ trace'[1].arg = Main /\ trace'[1].g = NoG /\ carried'[1].stk = InSnapshot
  <2>1. CASE 1 \in DOMAIN trace
    BY <1>2, <1>3, <2>1 DEF Prologue, BornAt
  <2>2. CASE n = 1 /\ Len(trace) = 0
    BY <1>1, <1>4, <2>2 DEF InPlace
  <2> QED BY <1>5, <2>1, <2>2
<1>7. 2 \in DOMAIN trace' => trace'[2].typ = "GoStart" /\ trace'[2].g = Main
  <2>1. CASE 2 \in DOMAIN trace
    BY <1>2, <1>3, <2>1 DEF Prologue
  <2>2. CASE n = 2 /\ Len(trace) = 1
    BY <1>1, <1>4, <2>2 DEF InPlace
  <2> QED BY <1>5, <2>1, <2>2
<1>8. 3 \in DOMAIN trace' =>
        trace'[3].typ = "GoCreate" /\ trace'[3].arg = Tracer /\ trace'[3].g = Main /\ carried'[3].stk = InStart
  <2>1. CASE 3 \in DOMAIN trace
    BY <1>2, <1>3, <2>1 DEF Prologue, BornAt
  <2>2. CASE n = 3 /\ Len(trace) = 2
    BY <1>1, <1>4, <2>2 DEF InPlace
  <2> QED BY <1>5, <2>1, <2>2
<1>9. 4 \in DOMAIN trace' => trace'[4].typ = "GoCreate" /\ trace'[4].arg = Watcher /\ trace'[4].g = Main
  <2>1. CASE 4 \in DOMAIN trace
    BY <1>2, <1>3, <2>1 DEF Prologue, BornAt
  <2>2. CASE n = 4 /\ Len(trace) = 3
    BY <1>1, <1>4, <2>2 DEF InPlace
  <2> QED BY <1>5, <2>1, <2>2
<1>10. ASSUME NEW i \in DOMAIN trace', i > 3, trace'[i].typ = "GoCreate"
       PROVE  /\ trace'[i].arg \in Program /\ trace'[i].g \in Goroutine \ {Tracer, Watcher}
              /\ carried'[i].stk = Code(trace'[i].g)
  <2>1. CASE i \in DOMAIN trace
    BY <1>2, <1>3, <1>10, <2>1 DEF Prologue
  <2>2. CASE i = n
    <3>1. Len(trace) = 3 \/ (Len(trace) \notin 0..3 /\ Len(trace) > 3)
      BY <1>1, <1>10, <2>2
    <3>2. Watcher \in Program /\ Main \in Goroutine \ {Tracer, Watcher}
      BY Apart DEF Program
    <3> QED BY <1>1, <1>4, <1>10, <2>2, <3>1, <3>2 DEF InPlace
  <2> QED BY <1>1, <2>1, <2>2
<1> QED BY <1>6, <1>7, <1>8, <1>9, <1>10 DEF Prologue, BornAt

\* No function of goat's shows in the program's own code.
LEMMA OwnCode ==
    ASSUME NEW g \in G \ {NoG, Tracer, Watcher}, NEW stk \in {<<>>, Code(g)}
    PROVE  \A k \in DOMAIN stk : stk[k] \notin
             {"goat.Start", "goat.Watch", "goat.Stop", "goat.Sched_Handler"}
<1>1. Code(g) \in {<<"main.main">>, <<"main.f">>}
  BY Codes
<1>2. stk \in {<<>>, <<"main.main">>, <<"main.f">>}
  BY <1>1
<1> QED BY <1>2

LEMMA StacksKept ==
    ASSUME ProgramInv, NEW ev, NEW stk, NEW n, Joins(ev, stk, n)
    PROVE  Stacks'
<1>1. /\ n \in Nat \ {0} /\ DOMAIN trace = 1..(n - 1) /\ DOMAIN trace' = DOMAIN trace \cup {n}
      /\ Len(trace) = n - 1 /\ Len(trace') = n
      /\ Rows(ev, n) /\ Comes(ev, stk) /\ ev.g \in G
      /\ carried'[n].stk = stk
  BY DEF Joins, After, Later
<1>2. Stacks /\ Prologue
  BY DEF ProgramInv
<1>3. \A i \in DOMAIN trace :
         /\ trace'[i].typ = trace[i].typ /\ trace'[i].g = trace[i].g
         /\ carried'[i] = carried[i] /\ (StopsAt(i)' <=> StopsAt(i))
  BY <1>1 DEF Rows, Joins
<1>4. trace'[n].typ = ev.typ /\ trace'[n].g = ev.g
  BY <1>1 DEF Rows
<1>5. \A i \in DOMAIN trace : ~StopsAt(i)
  <2> SUFFICES ASSUME NEW i \in DOMAIN trace, StopsAt(i) PROVE FALSE
    OBVIOUS
  <2>1. i = n - 1 /\ trace[i].typ = "GoSched"
    BY <1>1, <1>2 DEF Stacks
  <2>2. i \notin {1, 2, 3}
    BY <1>1, <1>2, <2>1 DEF Prologue, BornAt
  <2>3. Len(trace) > 3
    BY <1>1, <2>1, <2>2
  <2> QED BY <1>1, <2>1, <2>3 DEF Comes, InPlace
<1>6. ASSUME NEW i \in DOMAIN trace, NEW typ, typ = trace'[i].typ, NEW s, s = carried'[i].stk
      PROVE  /\ ~StopsAt(i)'
             /\ typ = "GoSched" => s # <<>>
             /\ typ = "GoEnd" => s = <<>>
             /\ i < 3 => s = <<>> \/ s[1] \notin {"runtime/trace.Start", "runtime/trace.Start.func1"}
             /\ typ \notin {"GoCreate", "GoStart", "GoSched"} /\ trace'[i].g \notin {NoG, Tracer, Watcher}
                  => \A k \in DOMAIN s : s[k] \notin
                        {"goat.Start", "goat.Watch", "goat.Stop", "goat.Sched_Handler"}
  BY <1>2, <1>3, <1>5, <1>6 DEF Stacks
<1>7. /\ StopsAt(n)' => ev.typ = "GoSched"
      /\ ev.typ = "GoSched" => stk # <<>>
      /\ ev.typ = "GoEnd" => stk = <<>>
  BY DEF Joins, Comes, WellShown
<1>8. n < 3 => stk = <<>> \/ stk[1] \notin {"runtime/trace.Start", "runtime/trace.Start.func1"}
  <2>1. CASE n = 1
    BY <1>1, <2>1, Starting DEF Comes, InPlace
  <2>2. CASE n = 2
    BY <1>1, <2>2 DEF Comes, InPlace
  <2> QED BY <1>1, <2>1, <2>2
<1>9. ev.typ \notin {"GoCreate", "GoStart", "GoSched"} /\ ev.g \notin {NoG, Tracer, Watcher}
        => \A k \in DOMAIN stk : stk[k] \notin
               {"goat.Start", "goat.Watch", "goat.Stop", "goat.Sched_Handler"}
  BY <1>1, OwnCode DEF Comes, WellShown
<1> QED BY <1>1, <1>4, <1>6, <1>7, <1>8, <1>9 DEF Stacks

\* Whoever acts was created before, and whoever acts but to start has started.
LEMMA AliveLived ==
    ASSUME ProgramInv, NEW ev, Alive(ev), ev.g \in Goroutine
    PROVE  /\ gs[ev.g].known /\ gs[ev.g].state # "gDead"
           /\ \E j \in DOMAIN trace : BornAt(j, ev.g)
           /\ ev.typ # "GoStart" =>
                \E j \in DOMAIN trace : trace[j].typ = "GoStart" /\ trace[j].g = ev.g
<1>1. ev.g # NoG /\ ev.g \in G
  BY NoGApart DEF G
<1>2. gs[ev.g].state \in {"gRunnable", "gRunning"}
      /\ (ev.typ # "GoStart" => gs[ev.g].state = "gRunning")
  BY <1>1 DEF Alive
<1>3. Agree /\ StartFits /\ Lives
  BY DEF ProgramInv, LinkInv, Inv, Holders
<1>4. gs[ev.g].known
  BY <1>1, <1>2, <1>3 DEF Agree
<1>5. \E j \in DOMAIN trace : BornAt(j, ev.g)
  BY <1>3, <1>4 DEF Lives
<1>6. ASSUME ev.typ # "GoStart"
      PROVE  \E j \in DOMAIN trace : trace[j].typ = "GoStart" /\ trace[j].g = ev.g
  <2>1. gs[ev.g].evStart # Nil
    BY <1>2, <1>3, <1>6 DEF Agree
  <2>2. PICK k : k = gs[ev.g].evStart /\ k \in Held(gs[ev.g].evStart)
    BY <2>1 DEF Held
  <2>3. k \in DOMAIN trace /\ trace[k].typ \in StartTypes /\ trace[k].g = ev.g
    BY <1>1, <1>3, <2>2 DEF StartFits, Unlinked, StartsAt
  <2>4. trace[k].typ = "GoStart"
    BY <2>3, HappeningTypes DEF ProgramInv
  <2> QED BY <2>3, <2>4
<1> QED BY <1>2, <1>4, <1>5, <1>6

LEMMA LivesKept ==
    ASSUME ProgramInv, NEW ev, NEW stk, NEW n, Joins(ev, stk, n)
    PROVE  Lives'
<1>1. /\ n \in Nat \ {0} /\ DOMAIN trace = 1..(n - 1) /\ DOMAIN trace' = DOMAIN trace \cup {n}
      /\ Len(trace) = n - 1
      /\ Rows(ev, n) /\ Moves(ev) /\ InPlace(ev, stk) /\ Alive(ev) /\ ev.g \in G
  BY DEF Joins, After, Later, Comes
<1>2. Lives
  BY DEF ProgramInv
<1>3. \A i \in DOMAIN trace :
         /\ trace'[i].typ = trace[i].typ /\ trace'[i].g = trace[i].g /\ trace'[i].arg = trace[i].arg
         /\ \A g : BornAt(i, g)' <=> BornAt(i, g)
  BY <1>1 DEF Rows, Joins
<1>4. trace'[n].typ = ev.typ /\ trace'[n].g = ev.g /\ trace'[n].arg = ev.arg
  BY <1>1 DEF Rows
<1>5. ASSUME NEW g \in Goroutine, gs'[g].known
      PROVE  \E i \in DOMAIN trace' : BornAt(i, g)'
  <2>1. gs[g].known \/ g = ev.g \/ (ev.typ = "GoCreate" /\ g = ev.arg)
    BY <1>1, <1>5 DEF Moves, MovesTo, Created, G
  <2>2. CASE ev.typ = "GoCreate" /\ g = ev.arg
    BY <1>1, <2>2 DEF Joins
  <2>3. CASE gs[g].known \/ g = ev.g
    <3>1. \E i \in DOMAIN trace : BornAt(i, g)
      BY <1>1, <1>2, <2>3, AliveLived DEF Lives
    <3> QED BY <1>1, <1>3, <3>1
  <2> QED BY <2>1, <2>2, <2>3
<1>6. ev.typ = "GoCreate" => ev.arg \in Goroutine
  <2>1. Len(trace) \in {0, 1, 2, 3} \/ Len(trace) > 3
    BY <1>1
  <2>2. Main \in Goroutine /\ Tracer \in Goroutine /\ Watcher \in Goroutine /\ Program \subseteq Goroutine
    BY Apart DEF Program
  <2> QED BY <1>1, <2>1, <2>2 DEF InPlace
<1>7. ASSUME NEW i \in DOMAIN trace
      PROVE  IF trace'[i].g = NoG THEN i = 1 \/ trace'[i].typ = "GoUnblock"
             ELSE /\ \E j \in 1..(i - 1) : trace'[j].typ = "GoCreate" /\ trace'[j].arg = trace'[i].g
                  /\ \E j \in 1..i : trace'[j].typ = "GoStart" /\ trace'[j].g = trace'[i].g
  <2>1. \A j \in 1..i : j \in DOMAIN trace
    BY <1>1
  <2>2. \A j \in 1..(i - 1) : j \in DOMAIN trace
    BY <1>1
  <2>3. IF trace[i].g = NoG THEN i = 1 \/ trace[i].typ = "GoUnblock"
        ELSE /\ \E j \in 1..(i - 1) : BornAt(j, trace[i].g)
             /\ \E j \in 1..i : trace[j].typ = "GoStart" /\ trace[j].g = trace[i].g
    BY <1>2 DEF Lives
  <2>4. CASE trace[i].g = NoG
    BY <1>3, <2>3, <2>4
  <2>5. CASE trace[i].g # NoG
    <3>1. PICK j \in 1..(i - 1) : BornAt(j, trace[i].g)
      BY <2>3, <2>5
    <3>2. trace'[j].typ = "GoCreate" /\ trace'[j].arg = trace'[i].g
      BY <1>3, <2>2, <3>1 DEF BornAt
    <3>3. PICK k \in 1..i : trace[k].typ = "GoStart" /\ trace[k].g = trace[i].g
      BY <2>3, <2>5
    <3>4. trace'[k].typ = "GoStart" /\ trace'[k].g = trace'[i].g
      BY <1>3, <2>1, <3>3
    <3>5. trace'[i].g # NoG
      BY <1>3, <2>5
    <3> QED BY <3>2, <3>4, <3>5
  <2> QED BY <2>4, <2>5
<1>8. IF ev.g = NoG THEN n = 1 \/ ev.typ = "GoUnblock"
      ELSE /\ \E j \in 1..(n - 1) : trace'[j].typ = "GoCreate" /\ trace'[j].arg = ev.g
           /\ \E j \in 1..n : trace'[j].typ = "GoStart" /\ trace'[j].g = ev.g
  <2>1. CASE ev.g = NoG
    <3>1. ev.typ # "GoStart"
      BY <1>1, <2>1, NoGApart DEF Alive
    <3> QED BY <1>1, <2>1, <3>1 DEF Alive
  <2>2. CASE ev.g # NoG
    <3>1. ev.g \in Goroutine
      BY <1>1, <2>2 DEF G
    <3>2. \E j \in DOMAIN trace : BornAt(j, ev.g)
      BY <1>1, <3>1, AliveLived
    <3>3. \E j \in 1..(n - 1) : trace'[j].typ = "GoCreate" /\ trace'[j].arg = ev.g
      BY <1>1, <1>3, <3>2 DEF BornAt
    <3>4. CASE ev.typ = "GoStart"
      BY <1>1, <1>4, <2>2, <3>3, <3>4
    <3>5. CASE ev.typ # "GoStart"
      <4>1. PICK j \in DOMAIN trace : trace[j].typ = "GoStart" /\ trace[j].g = ev.g
        BY <1>1, <3>1, <3>5, AliveLived
      <4>2. j \in 1..n /\ trace'[j].typ = "GoStart" /\ trace'[j].g = ev.g
        BY <1>1, <1>3, <4>1
      <4> QED BY <2>2, <3>3, <4>2
    <3> QED BY <3>4, <3>5
  <2> QED BY <2>1, <2>2
<1>9. \A i \in DOMAIN trace' : trace'[i].typ = "GoCreate" => trace'[i].arg \in Goroutine
  BY <1>1, <1>2, <1>3, <1>4, <1>6 DEF Lives
<1>10. \A i \in DOMAIN trace' :
         IF trace'[i].g = NoG THEN i = 1 \/ trace'[i].typ = "GoUnblock"
         ELSE /\ \E j \in 1..(i - 1) : trace'[j].typ = "GoCreate" /\ trace'[j].arg = trace'[i].g
              /\ \E j \in 1..i : trace'[j].typ = "GoStart" /\ trace'[j].g = trace'[i].g
  <2>1. ASSUME NEW i \in DOMAIN trace', i = n
        PROVE  IF trace'[i].g = NoG THEN i = 1 \/ trace'[i].typ = "GoUnblock"
               ELSE /\ \E j \in 1..(i - 1) : trace'[j].typ = "GoCreate" /\ trace'[j].arg = trace'[i].g
                    /\ \E j \in 1..i : trace'[j].typ = "GoStart" /\ trace'[j].g = trace'[i].g
    BY <1>4, <1>8, <2>1
  <2> QED BY <1>1, <1>7, <2>1
<1> QED BY <1>5, <1>9, <1>10 DEF Lives, BornAt

LEMMA DeathsKept ==
    ASSUME ProgramInv, NEW ev, NEW stk, NEW n, Joins(ev, stk, n)
    PROVE  Deaths'
<1>1. /\ n \in Nat \ {0} /\ DOMAIN trace = 1..(n - 1) /\ DOMAIN trace' = DOMAIN trace \cup {n}
      /\ Rows(ev, n) /\ Moves(ev) /\ Alive(ev) /\ Fits(ev) /\ ev.g \in G /\ ev.typ \in Happening
  BY DEF Joins, After, Later, Comes
<1>2. Deaths /\ Lives /\ CreateFits
  BY DEF ProgramInv, LinkInv, Holders
<1>3. \A i \in DOMAIN trace :
         trace'[i].g = trace[i].g /\ \A g : EndsAt(i, g)' <=> EndsAt(i, g)
  BY <1>1 DEF Rows, Joins
<1>4. trace'[n].g = ev.g
  BY <1>1 DEF Rows
<1>5. \A g : EndsAt(n, g)' <=> ev.typ = "GoEnd" /\ ev.g = g
  BY DEF Joins
<1>6. "GoEnd" \in LeaveTypes /\ "GoEnd" \notin SnapTypes \cup StartTypes /\ LeaveState("GoEnd") = "gDead"
  BY DEF LeaveTypes, EndTypes, SnapTypes, StartTypes, YieldTypes, LeaveState
<1>7. ASSUME NEW g \in Goroutine, gs'[g].known, gs'[g].state = "gDead"
      PROVE  \E i \in DOMAIN trace' : EndsAt(i, g)'
  <2>1. MovesTo(ev, g, gs'[g]) /\ g \in G
    BY <1>1 DEF Moves, G
  <2>2. CASE g = ev.g /\ ev.typ = "GoEnd"
    BY <1>1, <1>5, <2>2
  <2>3. CASE g = ev.g /\ ev.typ # "GoEnd"
    <3>1. gs[g].state # "gDead"
      BY <1>1, <2>3, AliveLived
    <3>2. ev.typ \in LeaveTypes => LeaveState(ev.typ) # "gDead"
      BY <1>1, <2>3, HappeningTypes DEF LeaveState
    <3> QED BY <1>7, <2>1, <2>3, <3>1, <3>2 DEF MovesTo, Does
  <2>4. CASE g # ev.g
    <3>1. gs[g].known /\ gs[g].state = "gDead"
      BY <1>7, <2>1, <2>4 DEF MovesTo, Does, Created
    <3>2. \E i \in DOMAIN trace : EndsAt(i, g)
      BY <1>2, <3>1 DEF Deaths
    <3> QED BY <1>1, <1>3, <3>2
  <2> QED BY <2>2, <2>3, <2>4
<1>8. ASSUME NEW g \in Goroutine, NEW i \in DOMAIN trace', EndsAt(i, g)'
      PROVE  gs'[g].state = "gDead" /\ \A j \in DOMAIN trace' : j > i => trace'[j].g # g
  <2>0. MovesTo(ev, g, gs'[g]) /\ g \in G
    BY <1>1 DEF Moves, G
  <2>1. CASE i = n
    <3>1. ev.typ = "GoEnd" /\ ev.g = g
      BY <1>5, <1>8, <2>1
    <3>2. gs'[g].state = "gDead"
      BY <1>6, <2>0, <3>1 DEF MovesTo, Does, Created
    <3>3. \A j \in DOMAIN trace' : ~(j > n)
      BY <1>1
    <3> QED BY <2>1, <3>2, <3>3
  <2>2. CASE i \in DOMAIN trace
    <3>1. EndsAt(i, g) /\ gs[g].state = "gDead" /\ \A j \in DOMAIN trace : j > i => trace[j].g # g
      BY <1>2, <1>3, <1>8, <2>2 DEF Deaths
    <3>2. ev.g # g
      BY <1>1, <3>1, AliveLived
    <3>3. gs[g].known
      <4>1. trace[i].g = g /\ g # NoG
        BY <3>1, NoGApart DEF EndsAt
      <4>2. PICK j \in 1..(i - 1) : BornAt(j, g)
        BY <1>2, <2>2, <4>1 DEF Lives
      <4>3. j \in DOMAIN trace
        BY <1>1, <2>2
      <4> QED BY <1>2, <4>2, <4>3 DEF CreateFits, BornAt
    <3>4. ~(ev.typ = "GoCreate" /\ ev.arg = g) /\ ~(ev.typ = "GoUnblock" /\ ev.arg = g)
      BY <1>1, <3>1, <3>3, FitsSays
    <3>5. gs'[g].state = "gDead"
      BY <2>0, <3>1, <3>2, <3>4 DEF MovesTo, Does, Created
    <3> QED BY <1>1, <1>3, <1>4, <3>1, <3>2, <3>5
  <2> QED BY <1>1, <2>1, <2>2
<1> QED BY <1>7, <1>8 DEF Deaths

LEMMA LinkedOnceKept ==
    ASSUME ProgramInv, NEW ev, NEW stk, NEW n, Joins(ev, stk, n)
    PROVE  LinkedOnce'
<1>1. /\ n \in Nat \ {0} /\ DOMAIN trace = 1..(n - 1) /\ DOMAIN trace' = DOMAIN trace \cup {n}
      /\ n \notin DOMAIN trace
      /\ Rows(ev, n) /\ ev.g \in G /\ ev.typ \in Happening
      /\ \A i \in DOMAIN trace : LinkedBy(i, ev) => trace[i].link = Nil
  BY DEF Joins, After, Later, Comes
<1>2. LinkedOnce /\ LinksFit /\ RegionFits
  BY DEF ProgramInv, LinkInv, Holders, History
<1>3. \A i \in DOMAIN trace :
         /\ trace'[i].typ = trace[i].typ
         /\ trace'[i].link = IF LinkedBy(i, ev) THEN n ELSE trace[i].link
  BY <1>1 DEF Rows
<1>4. trace'[n].typ = ev.typ /\ trace'[n].link = Nil
  BY <1>1 DEF Rows
<1>5. \A i \in DOMAIN trace : trace[i].link # Nil => trace[i].link \in DOMAIN trace /\ trace[i].link # n
  BY <1>1, <1>2 DEF LinksFit
<1>6. ASSUME NEW i \in DOMAIN trace, NEW j \in DOMAIN trace, i # j, LinkedBy(i, ev), LinkedBy(j, ev)
      PROVE  ev.typ = "GoEnd" /\ (trace[i].typ = "UserRegionStart" \/ trace[j].typ = "UserRegionStart")
  <2>1. ev.typ \notin {"GCDone", "GCSTWDone", "GCSweepDone", "GCMarkAssistDone", "GoSysExit", "UserTaskEnd"}
    BY <1>1, ProgramAssumption DEF Happening, ParkTypes, GoatTypes
  <2>2. \/ ev.typ \in StartTypes /\ i = gs[ev.g].ev /\ j = gs[ev.g].ev
        \/ ev.typ \in LeaveTypes /\ ev.typ # "GoEnd" /\ i = gs[ev.g].evStart /\ j = gs[ev.g].evStart
        \/ ev.typ = "GoUnblock" /\ i = gs[ev.arg].ev /\ j = gs[ev.arg].ev
        \/ ev.typ = "UserRegionEnd" /\ i = Innermost(ev.g) /\ j = Innermost(ev.g)
        \/ ev.typ = "GoEnd"
    BY <1>6, <2>1, Classes DEF LinkedBy
  <2>3. ev.typ = "GoEnd"
    BY <1>6, <2>2
  <2>4. \/ \E r \in DOMAIN regions[ev.g] : i = regions[ev.g][r]
        \/ \E r \in DOMAIN regions[ev.g] : j = regions[ev.g][r]
    BY <1>6, <2>3, Classes DEF LinkedBy
  <2>5. i \in Active(ev.g) \/ j \in Active(ev.g)
    BY <2>4 DEF Active
  <2>6. trace[i].typ = "UserRegionStart" \/ trace[j].typ = "UserRegionStart"
    BY <1>1, <1>2, <2>5 DEF RegionFits, SpanAt
  <2> QED BY <2>3, <2>6
<1>7. ASSUME NEW i \in DOMAIN trace', NEW j \in DOMAIN trace', i # j,
             trace'[i].link = trace'[j].link, trace'[i].link # Nil
      PROVE  /\ trace'[trace'[i].link].typ = "GoEnd"
             /\ trace'[i].typ = "UserRegionStart" \/ trace'[j].typ = "UserRegionStart"
  <2>1. i \in DOMAIN trace /\ j \in DOMAIN trace
    BY <1>1, <1>4, <1>7
  <2>2. CASE trace'[i].link = n
    <3>1. LinkedBy(i, ev) /\ LinkedBy(j, ev)
      BY <1>3, <1>5, <1>1, <1>7, <2>1, <2>2 DEF Nil
    <3> QED BY <1>3, <1>4, <1>6, <1>7, <2>1, <2>2, <3>1
  <2>3. CASE trace'[i].link # n
    <3>1. trace[i].link = trace'[i].link /\ trace[j].link = trace'[i].link
      BY <1>3, <1>7, <2>1, <2>3
    <3>2. /\ trace[trace[i].link].typ = "GoEnd"
          /\ trace[i].typ = "UserRegionStart" \/ trace[j].typ = "UserRegionStart"
      BY <1>2, <1>7, <2>1, <3>1 DEF LinkedOnce
    <3>3. trace[i].link \in DOMAIN trace
      BY <1>5, <1>7, <2>1, <3>1
    <3> QED BY <1>3, <2>1, <3>1, <3>2, <3>3
  <2> QED BY <2>2, <2>3
<1> QED BY <1>7 DEF LinkedOnce

LEMMA ProgramStarts == ProgramInit => ProgramInv
<1> SUFFICES ASSUME ProgramInit PROVE ProgramInv
  OBVIOUS
<1>1. Init /\ carried = <<>> /\ trace = <<>> /\ DOMAIN trace = {} /\ Len(trace) = 0
  BY DEF ProgramInit, Init
<1>2. LinkInv
  BY <1>1, InitHolds, LinkInit DEF LinkInv
<1>3. carried \in Seq(Carried) /\ Len(carried) = Len(trace)
  BY <1>1
<1>4. \A g \in Goroutine : ~gs[g].known
  BY <1>1, NoGApart DEF Init, noG
<1>5. Prologue /\ Stacks /\ LinkedOnce
  BY <1>1 DEF Prologue, Stacks, LinkedOnce
<1>6. Lives /\ Deaths
  BY <1>1, <1>4 DEF Lives, Deaths
<1> QED BY <1>1, <1>2, <1>3, <1>5, <1>6 DEF ProgramInv

LEMMA ProgramKept == ProgramInv /\ Traced => ProgramInv'
<1> SUFFICES ASSUME ProgramInv, Traced PROVE ProgramInv'
  OBVIOUS
<1>0. PICK ev \in InputEvents : \E stk : Comes(ev, stk)
  BY TracedComes
<1>1. PICK stk : Comes(ev, stk)
  BY <1>0
<1>2. LinkInv /\ Inv /\ Holders /\ Fits(ev) /\ Case(ev)
  BY <1>1 DEF ProgramInv, LinkInv, Comes
<1>3. Effects(ev) /\ Inv' /\ Holders' /\ History'
  BY <1>2, CaseEffects, LinkKept
<1>4. PICK n : After(ev, n)
  BY <1>2, <1>3, WhatFollows
<1>5. Joins(ev, stk, n)
  BY <1>1, <1>4, ComesJoins
<1>6. Prologue' /\ Stacks' /\ Lives' /\ Deaths' /\ LinkedOnce'
  BY <1>5, PrologueKept, StacksKept, LivesKept, DeathsKept, LinkedOnceKept
<1>7. carried' \in Seq(Carried) /\ Len(carried') = Len(trace')
  BY <1>5 DEF Joins, After, Later
<1>8. \A i \in DOMAIN trace' : trace'[i].typ \in Happening
  BY <1>1, <1>4 DEF ProgramInv, Comes, After, Later, Rows
<1> QED BY <1>3, <1>6, <1>7, <1>8 DEF ProgramInv, LinkInv

LEMMA ProgramStays == ProgramInv /\ UNCHANGED program => ProgramInv'
<1> SUFFICES ASSUME ProgramInv, UNCHANGED program PROVE ProgramInv'
  OBVIOUS
<1>1. UNCHANGED post /\ carried' = carried
  BY DEF program
<1>2. trace' = trace /\ gs' = gs
  BY <1>1 DEF post
<1>3. LinkInv'
  BY <1>1, LinkNext DEF ProgramInv
<1>4. Prologue' /\ Stacks'
  BY <1>1, <1>2 DEF ProgramInv, Prologue, Stacks, BornAt, StopsAt
<1>5. Lives' /\ Deaths' /\ LinkedOnce'
  BY <1>1, <1>2 DEF ProgramInv, Lives, Deaths, LinkedOnce, BornAt, EndsAt
<1> QED BY <1>1, <1>2, <1>3, <1>4, <1>5 DEF ProgramInv

-----------------------------------------------------------------------------
(***************************************************************************)
(* The tree                                                                *)
(***************************************************************************)
\* The events analysed so far.
Past == 1..(next - 1)

Known(g) == (g = NoG /\ next > 1) \/ \E i \in Past : BornAt(i, g)

Reading ==
    /\ next \in Nat /\ next <= Len(trace) + 1
    /\ next > 0 => Begun

\* last: the last event of g, but for the snapshot's, which has no goroutine.
LastOf(g, last) ==
    \/ last = Tree!None /\ \A i \in Past : trace[i].g = g => i = 1
    \/ \E i \in Past : /\ last = Parsed(i) /\ trace[i].g = g
                       /\ \A j \in Past : trace[j].g = g => j <= i

Remembered(g, info) ==
    /\ info.known <=> Known(g)
    /\ \A i \in Past : BornAt(i, g) => info.parent = trace[i].g /\ info.create = carried[i].stk
    /\ (\A i \in Past : ~BornAt(i, g)) => info.create = <<>>
    /\ LastOf(g, info.last)

GInfo == [known : BOOLEAN, parent : Tree!G, create : Seq(Fns),
          last : {Tree!None} \cup {Parsed(i) : i \in Past}]

TreeInv ==
    /\ ~treePanic
    /\ main = (IF next > 3 THEN Main ELSE Tree!nil) /\ tracer = (IF next > 3 THEN Tracer ELSE Tree!nil)
    /\ \A i \in Past : trace[i].typ = "GoCreate" => <<trace[i].g, trace[i].arg>> \in edges
    /\ \A e \in edges : \E i \in Past : trace[i].typ = "GoCreate" /\ e = <<trace[i].g, trace[i].arg>>
    /\ gmap \in [Tree!G -> GInfo]
    /\ \A g \in Tree!G : Remembered(g, gmap[g])
-----------------------------------------------------------------------------
(***************************************************************************)
(* The tables                                                              *)
(***************************************************************************)
\* A row shows its event.
Shows(row) ==
    /\ row.off \in Past
    /\ row.typ = DB!StoredAs(trace[row.off].typ) /\ row.g = trace[row.off].g
    /\ row.link = trace[row.off].link /\ row.stk = carried[row.off].stk
    /\ row.vc \in Nat /\ row.vc <= localClock[row.g]

Selected ==
    /\ \A r \in DOMAIN rows : Shows(rows[r])
    /\ \A r, s \in DOMAIN rows : r < s =>
         /\ rows[r].off < rows[s].off
         /\ rows[r].g = rows[s].g => rows[r].vc < rows[s].vc
    /\ \A i \in Past : ~DB!storeIgnore(Parsed(i)) => \E r \in DOMAIN rows : rows[r].off = i

Stamp(row) == <<row.g, row.vc>>
Linking(row) == row.typ \notin DB!CHNL \cup DB!MUTX \cup DB!WGCV /\ row.link # Nil

\* The two maps lead back to rows.
Linked ==
    /\ \A r \in DOMAIN rows : Linking(rows[r]) =>
         rows[r].link \in DOMAIN links /\ links[rows[r].link] = Stamp(rows[r])
    /\ \A l \in DOMAIN links : \E r \in DOMAIN rows : Linking(rows[r]) /\ rows[r].link = l
Messages ==
    \A m \in DOMAIN msgs : \E r \in DOMAIN rows :
        /\ rows[r].typ = "ChSend" /\ rows[r].rid = <<"C", m[1]>>
        /\ msgs[m] = Stamp(rows[r])

\* A goroutine's row shows its creation, and its end.
Tells(row) ==
    /\ row = [gid |-> row.gid, parent |-> row.parent, create |-> row.create, ended |-> row.ended]
    /\ row.gid \in Tree!G /\ row.ended \in Int
    /\ \/ row.gid = NoG /\ row.parent = DB!Root
       \/ \E i \in Past : /\ BornAt(i, row.gid) /\ row.parent = trace[i].g
                          /\ row.create = carried[i].stk
    /\ row.ended # -1 <=> \E i \in Past : EndsAt(i, row.gid)

\* Table t has a row per member of K.
Roster(t, K) ==
    /\ \E S : t \in Seq(S)
    /\ \A k, l \in DOMAIN t : t[k].gid = t[l].gid => k = l
    /\ K = {t[k].gid : k \in DOMAIN t}
    /\ IsFiniteSet(K) /\ Cardinality(K) = Len(t)

Listed ==
    /\ \A k \in DOMAIN grtns : Tells(grtns[k])
    /\ Roster(grtns, {g \in Tree!G : Known(g)})

Sequences == \E S : rows \in Seq(S)

StoreInv ==
    /\ localClock \in [Tree!G -> Nat]
    /\ Sequences /\ Selected /\ Linked /\ Messages /\ Listed /\ Predecessors

GoatInv == ProgramInv /\ Reading /\ TreeInv
           /\ (storePanic => next > 1 /\ Predecessors /\ (EndsInRegion \/ Nameless))
           /\ (~storePanic => StoreInv)
-----------------------------------------------------------------------------
(***************************************************************************)
(* Creations and ends, seen from anywhere in the trace                     *)
(***************************************************************************)
LEMMA Positions ==
    ASSUME ProgramInv
    PROVE  /\ DOMAIN trace = 1..Len(trace) /\ Len(trace) \in Nat
           /\ \A i \in DOMAIN trace :
                /\ i \in Nat \ {0} /\ trace[i].g \in G /\ trace[i].arg \in G /\ trace[i].link \in Nat
                /\ trace[i].typ \in Happening
                /\ carried[i].stk \in Seq(Fns)
<1>1. trace \in Seq(Processed) /\ carried \in Seq(Carried) /\ Len(carried) = Len(trace)
  BY DEF ProgramInv, LinkInv, Inv, PostTypeOK
<1>2. DOMAIN trace = 1..Len(trace) /\ DOMAIN carried = 1..Len(trace) /\ Len(trace) \in Nat
  BY <1>1
<1>3. \A i \in DOMAIN trace : trace[i] \in Processed /\ carried[i] \in Carried
  BY <1>1, <1>2
<1> QED BY <1>2, <1>3 DEF Processed, Carried, ProgramInv

\* Nobody is created twice, or acts before.
LEMMA CreatedOnce ==
    ASSUME ProgramInv, NEW k \in DOMAIN trace, trace[k].typ = "GoCreate"
    PROVE  LET a == trace[k].arg
               c == trace[k].g
           IN  /\ a \in Goroutine /\ a # NoG /\ c \in G /\ c # a
               /\ \A j \in DOMAIN trace : BornAt(j, a) => j = k
               /\ \A i \in DOMAIN trace : i <= k => trace[i].g # a
               /\ IF c = NoG THEN k = 1 ELSE \E j \in 1..(k - 1) : BornAt(j, c)
<1>1. PICK a, c : a = trace[k].arg /\ c = trace[k].g
  OBVIOUS
<1>2. Lives /\ CreateFits /\ c \in G /\ DOMAIN trace = 1..Len(trace) /\ Len(trace) \in Nat
  BY <1>1, Positions DEF ProgramInv, LinkInv, Holders
<1>3. a \in Goroutine /\ a # NoG
  BY <1>1, <1>2, NoGApart DEF Lives
<1>4. \A j \in DOMAIN trace : BornAt(j, a) => j = k
  BY <1>1, <1>2 DEF CreateFits, BornAt
<1>5. ASSUME NEW i \in DOMAIN trace, i <= k PROVE trace[i].g # a
  <2> SUFFICES ASSUME trace[i].g = a PROVE FALSE
    OBVIOUS
  <2>1. PICK j \in 1..(i - 1) : BornAt(j, a)
    BY <1>2, <1>3 DEF Lives
  <2>2. j \in DOMAIN trace /\ j # k
    BY <1>2, <1>5
  <2> QED BY <1>4, <2>1, <2>2
<1>6. c # a
  BY <1>1, <1>2, <1>5
<1>7. IF c = NoG THEN k = 1 ELSE \E j \in 1..(k - 1) : BornAt(j, c)
  BY <1>1, <1>2 DEF Lives
<1> QED BY <1>1, <1>2, <1>3, <1>4, <1>5, <1>6, <1>7

\* Who does not create is no stranger, and not first.
LEMMA ActsLater ==
    ASSUME ProgramInv, NEW k \in DOMAIN trace, trace[k].typ # "GoCreate"
    PROVE  /\ trace[k].g \in G /\ k > 1
           /\ trace[k].g = NoG \/ \E j \in 1..(k - 1) : BornAt(j, trace[k].g)
<1>1. Lives /\ Prologue /\ trace[k].g \in G /\ DOMAIN trace = 1..Len(trace) /\ Len(trace) \in Nat
  BY Positions DEF ProgramInv
<1>2. k # 1
  BY <1>1 DEF Prologue, BornAt
<1>3. k > 1
  BY <1>1, <1>2
<1>4. trace[k].g = NoG \/ \E j \in 1..(k - 1) : BornAt(j, trace[k].g)
  BY <1>1 DEF Lives
<1> QED BY <1>1, <1>3, <1>4

\* The analysis comes to event k; e is what it reads.
At(k, e) ==
    /\ k = next /\ k \in DOMAIN trace /\ k \in Nat \ {0} /\ next' = k + 1
    /\ trace' = trace /\ carried' = carried
    /\ Past = 1..(k - 1) /\ Past' = 1..k /\ Past' = Past \cup {k} /\ k \notin Past
    /\ Past' \subseteq DOMAIN trace
    /\ e = Parsed(k) /\ e.off = k /\ e.typ = trace[k].typ /\ e.g = trace[k].g /\ e.arg = trace[k].arg
    /\ e.link = trace[k].link /\ e.stk = carried[k].stk
    /\ \A i : Parsed(i)' = Parsed(i)
    /\ \A i, g : (BornAt(i, g)' <=> BornAt(i, g)) /\ (EndsAt(i, g)' <=> EndsAt(i, g))

LEMMA Reads ==
    ASSUME ProgramInv, Reading, Analyse
    PROVE  \E k, e : At(k, e)
<1>1. PICK k : k = next
  OBVIOUS
<1>2. PICK e : e = Parsed(k)
  OBVIOUS
<1>3. k \in DOMAIN trace /\ next' = k + 1 /\ trace' = trace /\ carried' = carried
  BY <1>1 DEF Analyse, program, post
<1>4. k \in Nat \ {0} /\ k <= Len(trace) /\ DOMAIN trace = 1..Len(trace) /\ Len(trace) \in Nat
  BY <1>3, Positions
<1>5. /\ Past = 1..(k - 1) /\ Past' = 1..k /\ Past' = Past \cup {k} /\ k \notin Past
      /\ Past' \subseteq DOMAIN trace
  BY <1>1, <1>3, <1>4 DEF Past
<1>6. /\ e.off = k /\ e.typ = trace[k].typ /\ e.g = trace[k].g /\ e.arg = trace[k].arg
      /\ e.link = trace[k].link /\ e.stk = carried[k].stk
  BY <1>2 DEF Parsed
<1>7. \A i : Parsed(i)' = Parsed(i)
  BY <1>3 DEF Parsed, Args
<1>8. \A i, g : (BornAt(i, g)' <=> BornAt(i, g)) /\ (EndsAt(i, g)' <=> EndsAt(i, g))
  BY <1>3 DEF BornAt, EndsAt
<1> QED BY <1>1, <1>2, <1>3, <1>4, <1>5, <1>6, <1>7, <1>8 DEF At

LEMMA KnownGrows ==
    ASSUME ProgramInv, NEW k, NEW e, At(k, e), NEW g \in G
    PROVE  Known(g)' <=> g = NoG \/ Known(g) \/ BornAt(k, g)
<1>1. next' > 1
  BY DEF At
<1>2. Known(g)' <=> g = NoG \/ \E i \in Past' : BornAt(i, g)'
  BY <1>1 DEF Known
<1>3. (\E i \in Past' : BornAt(i, g)') <=> BornAt(k, g) \/ \E i \in Past : BornAt(i, g)
  BY DEF At
<1> QED BY <1>2, <1>3 DEF Known
-----------------------------------------------------------------------------
(***************************************************************************)
(* The tree is kept                                                        *)
(***************************************************************************)
\* Main and the trace reader are found in the third event, and only there.
LEMMA FindsThird ==
    ASSUME ProgramInv, TreeInv, NEW k, NEW e, At(k, e)
    PROVE  Tree!FindsTracer(e) <=> k = 3
<1>1. /\ k = next /\ k \in DOMAIN trace /\ k \in Nat \ {0} /\ e.stk = carried[k].stk
      /\ Prologue /\ Stacks /\ Tracer \in G
      /\ tracer = IF next > 3 THEN Tracer ELSE Tree!nil
  BY Apart DEF At, ProgramInv, TreeInv, G
<1>2. Tracer # Tree!nil
  BY <1>1, GoatAssumption DEF Tree!G, G
<1>3. CASE k < 3
  <2>1. carried[k].stk = <<>> \/ carried[k].stk[1] \notin Tree!TraceStart
    BY <1>1, <1>3 DEF Stacks, Tree!TraceStart
  <2> QED BY <1>1, <1>3, <2>1 DEF Tree!FindsTracer
<1>4. CASE k = 3
  <2>1. PICK s : s = e.stk
    OBVIOUS
  <2>2. s = InStart
    BY <1>1, <1>4, <2>1 DEF Prologue
  <2>3. s = <<"runtime/trace.Start", "goat.Start", "main.main">>
    BY <2>2, Starting
  <2>4. s # <<>> /\ s[1] \in Tree!TraceStart
    BY <2>3 DEF Tree!TraceStart
  <2>5. ~(next > 3)
    BY <1>1, <1>4
  <2>6. tracer = Tree!nil
    BY <1>1, <2>5
  <2>7. e.stk # <<>> /\ e.stk[1] \in Tree!TraceStart
    BY <2>1, <2>4
  <2> QED BY <1>4, <2>6, <2>7 DEF Tree!FindsTracer
<1>5. CASE k > 3
  BY <1>1, <1>2, <1>5 DEF Tree!FindsTracer
<1> QED BY <1>1, <1>3, <1>4, <1>5

LEMMA TreeFits ==
    ASSUME ProgramInv, TreeInv, NEW k, NEW e, At(k, e)
    PROVE  ~Tree!Panics(e)
<1>1. /\ k = next /\ k \in DOMAIN trace /\ k \in Nat \ {0} /\ Past = 1..(k - 1)
      /\ e.typ = trace[k].typ /\ e.g = trace[k].g /\ e.arg = trace[k].arg
      /\ Past' \subseteq DOMAIN trace /\ Past' = Past \cup {k} /\ k \notin Past
      /\ \A g \in G : gmap[g].known <=> Known(g)
  BY DEF At, TreeInv, Remembered, Tree!G, G
<1>2. CASE e.typ = "GoCreate"
  <2>1. e.arg \in Goroutine /\ e.arg # NoG /\ \A j \in DOMAIN trace : BornAt(j, e.arg) => j = k
    BY <1>1, <1>2, CreatedOnce
  <2>2. ~Known(e.arg)
    BY <1>1, <2>1 DEF Known
  <2> QED BY <1>1, <1>2, <2>1, <2>2 DEF Tree!Panics, G
<1>3. CASE e.typ # "GoCreate"
  <2>1. e.g \in G /\ k > 1 /\ (e.g = NoG \/ \E j \in 1..(k - 1) : BornAt(j, e.g))
    BY <1>1, <1>3, ActsLater
  <2>2. Known(e.g)
    BY <1>1, <2>1 DEF Known
  <2>3. k # 3
    BY <1>1, <1>3 DEF ProgramInv, Prologue, BornAt
  <2> QED BY <1>1, <1>3, <2>1, <2>2, <2>3, FindsThird DEF Tree!Panics
<1> QED BY <1>2, <1>3

\* The last event moves on.
LEMMA LastMoves ==
    ASSUME ProgramInv, NEW k, NEW e, At(k, e)
    PROVE  LastOf(e.g, e)'
<1>1. /\ k \in Past' /\ e = Parsed(k)' /\ trace'[k].g = e.g /\ \A j \in Past' : j <= k
  BY DEF At
<1> QED BY <1>1 DEF LastOf

LEMMA LastStays ==
    ASSUME ProgramInv, NEW k, NEW e, At(k, e), NEW g, g # e.g \/ k = 1, NEW last, LastOf(g, last)
    PROVE  LastOf(g, last)'
<1>1. /\ Past' = Past \cup {k} /\ trace' = trace /\ trace[k].g = e.g /\ Past = 1..(k - 1) /\ k \in Nat
      /\ \A i : Parsed(i)' = Parsed(i)
      /\ Tree!None' = Tree!None
  BY DEF At, Tree!None
<1>2. CASE last = Tree!None /\ \A i \in Past : trace[i].g = g => i = 1
  BY <1>1, <1>2 DEF LastOf
<1>3. CASE \E i \in Past : /\ last = Parsed(i) /\ trace[i].g = g
                           /\ \A j \in Past : trace[j].g = g => j <= i
  <2>1. PICK i \in Past : /\ last = Parsed(i) /\ trace[i].g = g
                          /\ \A j \in Past : trace[j].g = g => j <= i
    BY <1>3
  <2>2. g # e.g
    BY <1>1, <2>1
  <2>3. last = Parsed(i)' /\ trace'[i].g = g /\ i \in Past'
    BY <1>1, <2>1
  <2>4. \A j \in Past' : trace'[j].g = g => j <= i
    BY <1>1, <2>1, <2>2
  <2> QED BY <2>3, <2>4 DEF LastOf
<1> QED BY <1>2, <1>3 DEF LastOf

\* A goroutine that the event neither creates nor lets act is remembered as before.
LEMMA StaysRemembered ==
    ASSUME ProgramInv, NEW k, NEW e, At(k, e), NEW g \in G, NEW info, Remembered(g, info),
           g # e.g, ~BornAt(k, g), g = NoG => k > 1
    PROVE  Remembered(g, info)'
<1>1. /\ Past' = Past \cup {k} /\ trace' = trace /\ carried' = carried /\ k = next
      /\ \A i : BornAt(i, g)' <=> BornAt(i, g)
  BY DEF At
<1>2. Known(g)' <=> Known(g)
  BY <1>1, KnownGrows DEF Known
<1>3. LastOf(g, info.last)'
  BY LastStays DEF Remembered
<1>4. \A i \in Past' : BornAt(i, g)' => i \in Past /\ BornAt(i, g)
  BY <1>1
<1>5. \A i \in Past' : BornAt(i, g)' => info.parent = trace'[i].g /\ info.create = carried'[i].stk
  BY <1>1, <1>4 DEF Remembered
<1>6. (\A i \in Past' : ~BornAt(i, g)') => info.create = <<>>
  BY <1>1 DEF Remembered
<1> QED BY <1>2, <1>3, <1>5, <1>6 DEF Remembered

\* The memory of g, with a new last event.
LEMMA ActsRemembered ==
    ASSUME ProgramInv, NEW k, NEW e, At(k, e), e.g \in G, NEW info, Remembered(e.g, info),
           ~BornAt(k, e.g),
           NEW new, new.known, new.parent = info.parent, new.create = info.create,
           Known(e.g)', LastOf(e.g, new.last)'
    PROVE  Remembered(e.g, new)'
<1>1. /\ Past' = Past \cup {k} /\ trace' = trace /\ carried' = carried
      /\ \A i : BornAt(i, e.g)' <=> BornAt(i, e.g)
  BY DEF At
<1>2. \A i \in Past' : BornAt(i, e.g)' => i \in Past /\ BornAt(i, e.g)
  BY <1>1
<1>3. \A i \in Past' : BornAt(i, e.g)' => new.parent = trace'[i].g /\ new.create = carried'[i].stk
  BY <1>1, <1>2 DEF Remembered
<1>4. (\A i \in Past' : ~BornAt(i, e.g)') => new.create = <<>>
  BY <1>1 DEF Remembered
<1> QED BY <1>3, <1>4 DEF Remembered

\* What is remembered keeps its type.
LEMMA InfoStays ==
    ASSUME NEW k, NEW e, At(k, e)
    PROVE  GInfo \subseteq GInfo'
<1> DEFINE Lasts == {Tree!None} \cup {Parsed(i) : i \in Past}
           After1 == {Tree!None} \cup {Parsed(i)' : i \in Past'}
<1>1. Lasts \subseteq After1
  BY DEF At
<1>2. GInfo = [known : BOOLEAN, parent : Tree!G, create : Seq(Fns), last : Lasts]
  BY DEF GInfo
<1>3. GInfo' = [known : BOOLEAN, parent : Tree!G, create : Seq(Fns), last : After1]
  BY DEF GInfo, Tree!None, Tree!G
<1> HIDE DEF Lasts, After1
<1>4. SUFFICES ASSUME NEW info \in [known : BOOLEAN, parent : Tree!G, create : Seq(Fns), last : Lasts]
               PROVE  info \in [known : BOOLEAN, parent : Tree!G, create : Seq(Fns), last : After1]
  BY <1>2, <1>3
<1> QED BY <1>1

Renewed(info, known, last, new) ==
    /\ info \in GInfo /\ known \in BOOLEAN
    /\ new = [info EXCEPT !.known = known, !.last = last]

LEMMA InfoTyped ==
    ASSUME NEW k, NEW e, At(k, e), NEW info, NEW known, NEW last, NEW new,
           Renewed(info, known, last, new), last \in {e, info.last}
    PROVE  /\ new \in GInfo' /\ new.known = known /\ new.last = last
           /\ new.parent = info.parent /\ new.create = info.create
<1> DEFINE Lasts == {Tree!None} \cup {Parsed(i) : i \in Past}
           After1 == {Tree!None} \cup {Parsed(i)' : i \in Past'}
<1>0. info \in GInfo /\ known \in BOOLEAN /\ new = [info EXCEPT !.known = known, !.last = last]
  BY DEF Renewed
<1>1. Lasts \subseteq After1 /\ e \in After1
  BY DEF At
<1>2. /\ info.known \in BOOLEAN /\ info.parent \in Tree!G /\ info.create \in Seq(Fns)
      /\ info.last \in Lasts
      /\ info = [known |-> info.known, parent |-> info.parent, create |-> info.create, last |-> info.last]
  BY <1>0 DEF GInfo
<1>3. GInfo' = [known : BOOLEAN, parent : Tree!G, create : Seq(Fns), last : After1]
  BY DEF GInfo, Tree!None, Tree!G
<1> HIDE DEF Lasts, After1
<1> QED BY <1>0, <1>1, <1>2, <1>3

LEMMA CreationRemembered ==
    ASSUME ProgramInv, TreeInv, NEW k, NEW e, At(k, e), e.typ = "GoCreate",
           gmap' = [gmap EXCEPT ![e.g] = Tree!Creates(e), ![e.arg] = Tree!Child(e)]
    PROVE  gmap' \in [Tree!G -> GInfo]' /\ \A g \in Tree!G : Remembered(g, gmap[g])'
<1>1. /\ gmap \in [G -> GInfo] /\ Tree!G = G /\ \A g \in G : Remembered(g, gmap[g])
      /\ k \in DOMAIN trace /\ k \in Nat \ {0} /\ k = next
      /\ trace' = trace /\ carried' = carried /\ Past' = Past \cup {k}
      /\ Past = 1..(k - 1) /\ Past' \subseteq DOMAIN trace /\ k \notin Past
      /\ e.arg = trace[k].arg /\ e.g = trace[k].g /\ trace[k].typ = "GoCreate"
      /\ e.stk = carried[k].stk
      /\ \A i, g : BornAt(i, g)' <=> BornAt(i, g)
  BY DEF TreeInv, At, Tree!G, G
<1>2. PICK a, c : a = e.arg /\ c = e.g
  OBVIOUS
<1>3. /\ a \in Goroutine /\ a \in G /\ a # NoG /\ c \in G /\ c # a
      /\ \A j \in DOMAIN trace : BornAt(j, a) => j = k
      /\ \A i \in DOMAIN trace : i <= k => trace[i].g # a
      /\ IF c = NoG THEN k = 1 ELSE \E j \in 1..(k - 1) : BornAt(j, c)
  BY <1>1, <1>2, CreatedOnce DEF G
<1>4. PICK new : new = Tree!Creates(e)
  OBVIOUS
<1>5. PICK child : child = Tree!Child(e)
  OBVIOUS
<1>6. gmap' = [gmap EXCEPT ![c] = new, ![a] = child]
  BY <1>2, <1>4, <1>5
<1>7. new = [gmap[c] EXCEPT !.known = TRUE, !.last = IF gmap[c].known THEN e ELSE gmap[c].last]
      /\ gmap[c] \in GInfo
  BY <1>1, <1>2, <1>3, <1>4 DEF Tree!Creates
<1>8. /\ new \in GInfo' /\ new.known /\ new.parent = gmap[c].parent /\ new.create = gmap[c].create
      /\ new.last = IF gmap[c].known THEN e ELSE gmap[c].last
  <2>1. PICK info : info = gmap[c]
    OBVIOUS
  <2>2. PICK last : last = IF info.known THEN e ELSE info.last
    OBVIOUS
  <2> DEFINE known == TRUE
  <2> HIDE DEF known
  <2>3. last \in {e, info.last} /\ Renewed(info, known, last, new)
    BY <1>7, <2>1, <2>2 DEF known, Renewed
  <2>4. /\ new \in GInfo' /\ new.known = known /\ new.last = last
        /\ new.parent = info.parent /\ new.create = info.create
    BY <2>3, InfoTyped
  <2> QED BY <2>1, <2>2, <2>4 DEF known
<1>9. child = [known |-> TRUE, parent |-> c, create |-> carried[k].stk, last |-> Tree!None]
  BY <1>1, <1>2, <1>5 DEF Tree!Child, Tree!noInfo
<1>10. child \in GInfo'
  <2>1. carried[k].stk \in Seq(Fns)
    BY <1>1, Positions
  <2> QED BY <1>1, <1>3, <1>9, <2>1 DEF GInfo, Tree!None, Tree!G
<1>11. \A g \in G : gmap[g] \in GInfo'
  BY <1>1, InfoStays
<1>12. gmap' \in [G -> GInfo']
  BY <1>1, <1>3, <1>6, <1>8, <1>10, <1>11
<1>13. gmap'[c] = new /\ gmap'[a] = child /\ \A g \in G : g # a /\ g # c => gmap'[g] = gmap[g]
  BY <1>1, <1>3, <1>6
<1>14. \A g \in G : BornAt(k, g) <=> g = a
  BY <1>1, <1>2 DEF BornAt
<1>15. Remembered(c, new)'
  <2>1. Known(c)' /\ (gmap[c].known <=> Known(c)) /\ Remembered(c, gmap[c])
    <3>1. c = NoG \/ Known(c)
      BY <1>1, <1>3 DEF Known
    <3> QED BY <1>1, <1>3, <3>1, KnownGrows DEF Remembered
  <2>2. CASE gmap[c].known
    <3>1. LastOf(c, new.last)'
      BY <1>2, <1>8, <2>2, LastMoves
    <3> QED BY <1>2, <1>3, <1>8, <1>14, <2>1, <3>1, ActsRemembered
  <2>3. CASE ~gmap[c].known
    <3>1. c = NoG /\ k = 1
      BY <1>1, <1>3, <2>1, <2>3 DEF Known
    <3>2. LastOf(c, new.last)'
      BY <1>8, <2>1, <2>3, <3>1, LastStays DEF Remembered
    <3> QED BY <1>2, <1>3, <1>8, <1>14, <2>1, <3>2, ActsRemembered
  <2> QED BY <2>2, <2>3
<1>16. Remembered(a, child)'
  <2>1. Known(a)' /\ child.known
    BY <1>3, <1>9, <1>14, KnownGrows
  <2>2. \A i \in Past' : BornAt(i, a)' => i = k
    BY <1>1, <1>3
  <2>3. child.parent = trace'[k].g /\ child.create = carried'[k].stk
    BY <1>1, <1>2, <1>9
  <2>4. BornAt(k, a)' /\ k \in Past'
    BY <1>1, <1>3, <1>14
  <2>5. \A i \in Past' : trace'[i].g # a
    BY <1>1, <1>3
  <2>6. LastOf(a, child.last)'
    BY <1>9, <2>5 DEF LastOf, Tree!None
  <2> QED BY <2>1, <2>2, <2>3, <2>4, <2>6 DEF Remembered
<1>17. ASSUME NEW g \in G, g # a, g # c PROVE Remembered(g, gmap[g])'
  <2>1. g = NoG => k > 1
    <3>1. CASE k = 1
      BY <1>1, <1>2, <1>17, <3>1 DEF ProgramInv, Prologue
    <3> QED BY <1>1, <3>1
  <2> QED BY <1>1, <1>2, <1>14, <1>17, <2>1, StaysRemembered
<1>18. \A g \in G : Remembered(g, gmap[g])'
  <2> SUFFICES ASSUME NEW g \in G PROVE Remembered(g, gmap[g])'
    OBVIOUS
  <2>1. PICK info : info = gmap'[g]
    OBVIOUS
  <2>2. Remembered(g, info)'
    <3>1. CASE g = a
      BY <1>13, <1>16, <2>1, <3>1
    <3>2. CASE g = c
      BY <1>13, <1>15, <2>1, <3>2
    <3>3. CASE g # a /\ g # c
      BY <1>13, <1>17, <2>1, <3>3
    <3> QED BY <3>1, <3>2, <3>3
  <2> QED BY <2>1, <2>2 DEF Remembered, LastOf
<1> QED BY <1>1, <1>12, <1>18 DEF Tree!G, G

LEMMA DeedRemembered ==
    ASSUME ProgramInv, TreeInv, NEW k, NEW e, At(k, e), e.typ # "GoCreate",
           gmap' = [gmap EXCEPT ![e.g].last = e]
    PROVE  gmap' \in [Tree!G -> GInfo]' /\ \A g \in Tree!G : Remembered(g, gmap[g])'
<1>1. /\ gmap \in [G -> GInfo] /\ Tree!G = G /\ \A g \in G : Remembered(g, gmap[g])
      /\ k \in DOMAIN trace /\ k \in Nat \ {0}
      /\ Past = 1..(k - 1) /\ e.g = trace[k].g /\ trace[k].typ # "GoCreate"
  BY DEF TreeInv, At, Tree!G, G
<1>2. PICK c : c = e.g
  OBVIOUS
<1>3. c \in G /\ k > 1 /\ (c = NoG \/ \E j \in Past : BornAt(j, c)) /\ \A g : ~BornAt(k, g)
  BY <1>1, <1>2, ActsLater DEF BornAt
<1>4. PICK info : info = gmap[c]
  OBVIOUS
<1>5. PICK new : new = [info EXCEPT !.last = e]
  OBVIOUS
<1>6. gmap' = [gmap EXCEPT ![c] = new]
  BY <1>2, <1>4, <1>5
<1>7. info \in GInfo /\ Remembered(c, info)
  BY <1>1, <1>3, <1>4
<1>8. new \in GInfo' /\ new.known = info.known /\ new.last = e
      /\ new.parent = info.parent /\ new.create = info.create
  <2>1. info.known \in BOOLEAN
    BY <1>7 DEF GInfo
  <2>2. new = [info EXCEPT !.known = info.known, !.last = e]
    BY <1>5, <1>7 DEF GInfo
  <2>3. PICK known : known = info.known
    OBVIOUS
  <2>4. Renewed(info, known, e, new)
    BY <1>7, <2>1, <2>2, <2>3 DEF Renewed
  <2> QED BY <2>3, <2>4, InfoTyped
<1>9. gmap' \in [G -> GInfo']
  BY <1>1, <1>3, <1>6, <1>8, InfoStays
<1>10. gmap'[c] = new /\ \A g \in G : g # c => gmap'[g] = gmap[g]
  BY <1>1, <1>3, <1>6
<1>11. Remembered(c, new)'
  <2>1. Known(c)' /\ new.known
    <3>1. Known(c)
      BY <1>1, <1>3 DEF Known, At
    <3>2. info.known
      BY <1>7, <3>1 DEF Remembered
    <3> QED BY <1>3, <1>8, <3>1, <3>2, KnownGrows
  <2>2. LastOf(c, new.last)'
    BY <1>2, <1>8, LastMoves
  <2> QED BY <1>2, <1>3, <1>7, <1>8, <2>1, <2>2, ActsRemembered
<1>12. \A g \in G : Remembered(g, gmap[g])'
  <2> SUFFICES ASSUME NEW g \in G PROVE Remembered(g, gmap[g])'
    OBVIOUS
  <2>1. PICK now : now = gmap'[g]
    OBVIOUS
  <2>2. Remembered(g, now)'
    <3>1. CASE g = c
      BY <1>10, <1>11, <2>1, <3>1
    <3>2. CASE g # c
      <4>1. now = gmap[g] /\ Remembered(g, now)
        BY <1>1, <1>10, <2>1, <3>2
      <4> QED BY <1>2, <1>3, <3>2, <4>1, StaysRemembered
    <3> QED BY <3>1, <3>2
  <2> QED BY <2>1, <2>2 DEF Remembered, LastOf
<1> QED BY <1>1, <1>9, <1>12 DEF Tree!G, G

\* The tree is as it should be after another event.
LEMMA TreeKept ==
    ASSUME ProgramInv, TreeInv, NEW k, NEW e, At(k, e), Tree!GetGoroutineInfo(e)
    PROVE  TreeInv'
<1>1. /\ k = next /\ k \in DOMAIN trace /\ k \in Nat \ {0} /\ next' = k + 1
      /\ trace' = trace /\ Past' = Past \cup {k}
      /\ e.typ = trace[k].typ /\ e.g = trace[k].g /\ e.arg = trace[k].arg
      /\ Tree!G = G
  BY DEF At, Tree!G, G
<1>2. ~Tree!Panics(e)
  BY TreeFits
<1>3. ~treePanic'
  BY <1>2 DEF Tree!GetGoroutineInfo
<1>4. main' = (IF next' > 3 THEN Main ELSE Tree!nil) /\ tracer' = (IF next' > 3 THEN Tracer ELSE Tree!nil)
  <2>1. main = (IF next > 3 THEN Main ELSE Tree!nil) /\ tracer = (IF next > 3 THEN Tracer ELSE Tree!nil)
    BY DEF TreeInv
  <2>2. CASE k = 3
    <3>1. Tree!FindsTracer(e)
      BY <2>2, FindsThird
    <3>2. tracer' = e.arg /\ main' = e.g
      BY <3>1 DEF Tree!GetGoroutineInfo
    <3>3. e.arg = Tracer /\ e.g = Main
      BY <1>1, <2>2 DEF ProgramInv, Prologue, BornAt
    <3> QED BY <1>1, <2>2, <3>2, <3>3
  <2>3. CASE k # 3
    <3>1. ~Tree!FindsTracer(e)
      BY <2>3, FindsThird
    <3>2. UNCHANGED <<main, tracer>>
      BY <3>1 DEF Tree!GetGoroutineInfo
    <3>3. next' > 3 <=> next > 3
      BY <1>1, <2>3
    <3> QED BY <2>1, <3>2, <3>3
  <2> QED BY <2>2, <2>3
<1>5. CASE e.typ = "GoCreate"
  <2>1. gmap' = [gmap EXCEPT ![e.g] = Tree!Creates(e), ![e.arg] = Tree!Child(e)]
        /\ edges' = edges \cup {<<e.g, e.arg>>}
    BY <1>2, <1>5 DEF Tree!GetGoroutineInfo, Tree!Edge
  <2>2. gmap' \in [Tree!G -> GInfo]' /\ \A g \in Tree!G : Remembered(g, gmap[g])'
    BY <1>5, <2>1, CreationRemembered
  <2>3. \A i \in Past' : trace'[i].typ = "GoCreate" => <<trace'[i].g, trace'[i].arg>> \in edges'
    <3> SUFFICES ASSUME NEW i \in Past', trace[i].typ = "GoCreate"
                 PROVE  <<trace[i].g, trace[i].arg>> \in edges'
      BY <1>1
    <3>1. CASE i \in Past
      BY <2>1, <3>1 DEF TreeInv
    <3>2. CASE i = k
      BY <1>1, <2>1, <3>2
    <3> QED BY <1>1, <3>1, <3>2
  <2>4. \A d \in edges' : \E i \in Past' : trace'[i].typ = "GoCreate" /\ d = <<trace'[i].g, trace'[i].arg>>
    <3> SUFFICES ASSUME NEW d \in edges'
                 PROVE  \E i \in Past' : trace[i].typ = "GoCreate" /\ d = <<trace[i].g, trace[i].arg>>
      BY <1>1
    <3>1. CASE d \in edges
      BY <1>1, <3>1 DEF TreeInv
    <3>2. CASE d = <<e.g, e.arg>>
      BY <1>1, <1>5, <3>2
    <3> QED BY <2>1, <3>1, <3>2
  <2> QED BY <1>1, <1>3, <1>4, <2>2, <2>3, <2>4 DEF TreeInv, Tree!nil, Tree!G
<1>6. CASE e.typ # "GoCreate"
  <2>1. gmap' = [gmap EXCEPT ![e.g].last = e] /\ edges' = edges
    BY <1>2, <1>6 DEF Tree!GetGoroutineInfo
  <2>2. gmap' \in [Tree!G -> GInfo]' /\ \A g \in Tree!G : Remembered(g, gmap[g])'
    BY <1>6, <2>1, DeedRemembered
  <2>3. \A i \in Past' : trace'[i].typ = "GoCreate" => <<trace'[i].g, trace'[i].arg>> \in edges'
    BY <1>1, <1>6, <2>1 DEF TreeInv
  <2>4. \A d \in edges' : \E i \in Past' : trace'[i].typ = "GoCreate" /\ d = <<trace'[i].g, trace'[i].arg>>
    BY <1>1, <2>1 DEF TreeInv
  <2> QED BY <1>1, <1>3, <1>4, <2>2, <2>3, <2>4 DEF TreeInv, Tree!nil, Tree!G
<1> QED BY <1>5, <1>6

\* Before the first event is read, the tree is bare, whatever the program does.
LEMMA TreeBare ==
    ASSUME TreeInv, next \in {0, 1}, next' \in {0, 1}, UNCHANGED tree
    PROVE  TreeInv'
<1>1. Past = {} /\ Past' = {}
  <2>1. 1..(0 - 1) = {} /\ 1..(1 - 1) = {}
    OBVIOUS
  <2> QED BY <2>1 DEF Past
<1>2. /\ ~treePanic' /\ edges' = {} /\ gmap' = gmap /\ main' = main /\ tracer' = tracer
      /\ main = Tree!nil /\ tracer = Tree!nil
  BY <1>1 DEF TreeInv, tree
<1>3. gmap \in [G -> [known : BOOLEAN, parent : G, create : Seq(Fns), last : {Tree!None}]]
      /\ Tree!G = G
  BY <1>1 DEF TreeInv, GInfo, Tree!G, G
<1>4. gmap' \in [Tree!G -> GInfo]'
  BY <1>1, <1>2, <1>3 DEF GInfo, Tree!G, G, Tree!None
<1>5. ASSUME NEW g \in G PROVE Remembered(g, gmap[g])'
  <2>1. Remembered(g, gmap[g]) /\ ~Known(g) /\ ~Known(g)'
    BY <1>1, <1>3, <1>5 DEF TreeInv, Known
  <2>2. gmap[g].last = Tree!None /\ gmap[g].create = <<>> /\ ~gmap[g].known
    BY <1>1, <1>3, <1>5, <2>1 DEF Remembered
  <2>3. LastOf(g, gmap[g].last)'
    BY <1>1, <1>2, <2>2 DEF LastOf, Tree!None
  <2> QED BY <1>1, <1>2, <2>1, <2>2, <2>3 DEF Remembered
<1> QED BY <1>1, <1>2, <1>3, <1>4, <1>5 DEF TreeInv, Tree!nil, Tree!G, G

LEMMA TreeStarts == GoatInit => Reading /\ TreeInv
<1> SUFFICES ASSUME GoatInit PROVE Reading /\ TreeInv
  OBVIOUS
<1>1. next = 0 /\ trace = <<>> /\ Past = {} /\ Len(trace) = 0
  BY DEF GoatInit, ProgramInit, Init, Past
<1>2. Reading
  BY <1>1 DEF Reading
<1>3. /\ ~treePanic /\ edges = {} /\ main = Tree!nil /\ tracer = Tree!nil
      /\ gmap = [g \in Tree!G |-> Tree!noInfo] /\ Tree!G = G
  BY DEF GoatInit, Tree!TreeInit, Tree!G, G
<1>4. Tree!noInfo \in GInfo
  BY Apart DEF Tree!noInfo, GInfo, Tree!G, G
<1>5. ASSUME NEW g \in G PROVE Remembered(g, gmap[g])
  BY <1>1, <1>3, <1>5 DEF Remembered, Known, LastOf, Tree!noInfo, Tree!None
<1> QED BY <1>1, <1>2, <1>3, <1>4, <1>5 DEF TreeInv
-----------------------------------------------------------------------------
(***************************************************************************)
(* The tables are kept                                                     *)
(***************************************************************************)
LEMMA Appends ==
    ASSUME NEW S, NEW s \in Seq(S), NEW x, NEW t, t = Append(s, x), NEW n, n = Len(s) + 1
    PROVE  /\ t \in Seq(S \cup {x})
           /\ n \in Nat /\ n \notin DOMAIN s /\ Len(t) = n
           /\ DOMAIN t = DOMAIN s \cup {n} /\ t[n] = x
           /\ \A i \in DOMAIN s : i \in Nat /\ i < n /\ t[i] = s[i]
<1>1. Len(s) \in Nat /\ DOMAIN s = 1..Len(s) /\ \A i \in 1..Len(s) : s[i] \in S
  OBVIOUS
<1>2. s = [i \in 1..Len(s) |-> s[i]]
  OBVIOUS
<1>3. s \in Seq(S \cup {x})
  BY <1>1, <1>2
<1>4. t \in Seq(S \cup {x}) /\ Len(t) = n
  BY <1>3
<1>5. DOMAIN t = 1..n
  BY <1>4
<1>6. \A i \in 1..Len(s) : t[i] = s[i]
  BY <1>1
<1>7. t[n] = x
  BY <1>1
<1> QED BY <1>1, <1>4, <1>5, <1>6, <1>7

\* Row n joins the table of events.
Inserted(k, e, n, row) ==
    /\ n \in Nat /\ n \notin DOMAIN rows /\ DOMAIN rows' = DOMAIN rows \cup {n} /\ rows'[n] = row
    /\ \A r \in DOMAIN rows : r \in Nat /\ r < n /\ rows'[r] = rows[r]
    /\ Len(rows') = n
    /\ row.off = k /\ row.typ = DB!StoredAs(e.typ) /\ row.g = e.g /\ row.link = e.link
    /\ row.stk = e.stk /\ row.vc = localClock[e.g] + 1 /\ e.g \in Tree!G
    /\ localClock' = [localClock EXCEPT ![e.g] = row.vc]
    /\ row.pred = DB!PredOf(e, row.typ) /\ row.rid = DB!Rid(e, row.typ)
    /\ links' = IF Linking(row) THEN DB!Entered(links, row.link, Stamp(row)) ELSE links
    /\ msgs' = IF row.typ = "ChSend" THEN DB!Entered(msgs, DB!Message(e), Stamp(row)) ELSE msgs
    /\ Linking(row) => row.link \notin DOMAIN links

LEMMA Inserts ==
    ASSUME ProgramInv, StoreInv, NEW k, NEW e, At(k, e), DB!Insert(e), ~DB!storeIgnore(e), ~DB!Panics(e)
    PROVE  (\E n, row : Inserted(k, e, n, row)) /\ \E S : rows' \in Seq(S)
<1>1. PICK as : as = DB!StoredAs(e.typ)
  OBVIOUS
<1>2. PICK row : row = DB!Row(e, as)
  OBVIOUS
<1>3. PICK n : n = Len(rows) + 1
  OBVIOUS
<1>4. PICK S : rows \in Seq(S)
  BY DEF StoreInv, Sequences
<1>5. rows' = Append(rows, row)
  BY <1>1, <1>2 DEF DB!Insert
<1>6. /\ rows' \in Seq(S \cup {row})
      /\ n \in Nat /\ n \notin DOMAIN rows /\ Len(rows') = n
      /\ DOMAIN rows' = DOMAIN rows \cup {n} /\ rows'[n] = row
      /\ \A i \in DOMAIN rows : i \in Nat /\ i < n /\ rows'[i] = rows[i]
  BY <1>3, <1>4, <1>5, Appends
<1>7. /\ row.off = e.off /\ row.typ = as /\ row.g = e.g /\ row.link = e.link
      /\ row.stk = e.stk /\ row.vc = localClock'[e.g]
      /\ row.pred = DB!PredOf(e, as) /\ row.rid = DB!Rid(e, as)
  BY <1>2 DEF DB!Row
<1>8. localClock \in [G -> Nat] /\ e.g \in G /\ Tree!G = G /\ e.off = k
  BY Positions DEF StoreInv, At, Tree!G, G
<1>9. localClock' = [localClock EXCEPT ![e.g] = localClock[e.g] + 1]
  BY DEF DB!Insert
<1>10. row.vc = localClock[e.g] + 1
  BY <1>7, <1>8, <1>9
<1>11. DB!Predecessor(e) = Stamp(row)
  BY <1>7, <1>10 DEF DB!Predecessor, Stamp
<1>12. DB!IsLink(e, as) <=> Linking(row)
  BY <1>7 DEF DB!IsLink, Linking, Nil
<1>13. links' = IF Linking(row) THEN DB!Entered(links, row.link, Stamp(row)) ELSE links
  BY <1>1, <1>7, <1>11, <1>12 DEF DB!Insert
<1>14. msgs' = IF row.typ = "ChSend" THEN DB!Entered(msgs, DB!Message(e), Stamp(row)) ELSE msgs
  BY <1>1, <1>7, <1>11 DEF DB!Insert, DB!Sent
<1>15. Linking(row) => row.link \notin DOMAIN links
  BY <1>1, <1>7, <1>12 DEF DB!Panics, DB!LinkedTwice
<1>16. Inserted(k, e, n, row)
  BY <1>1, <1>6, <1>7, <1>8, <1>9, <1>10, <1>13, <1>14, <1>15 DEF Inserted
<1> QED BY <1>6, <1>16

LEMMA SelectedKept ==
    ASSUME ProgramInv, StoreInv, NEW k, NEW e, At(k, e), NEW n, NEW row, Inserted(k, e, n, row)
    PROVE  /\ localClock' \in [Tree!G -> Nat] /\ Selected'
           /\ \A r \in DOMAIN rows : Stamp(rows[r]) # Stamp(row)
<1>1. /\ Selected /\ localClock \in [G -> Nat] /\ Tree!G = G
      /\ k \in DOMAIN trace /\ k \in Nat /\ k \in Past' /\ Past' = Past \cup {k} /\ Past = 1..(k - 1)
      /\ trace' = trace /\ carried' = carried /\ Past \subseteq DOMAIN trace
      /\ e.typ = trace[k].typ /\ e.g = trace[k].g /\ e.link = trace[k].link /\ e.stk = carried[k].stk
  BY DEF StoreInv, At, Tree!G, G
<1>2. /\ n \in Nat /\ n \notin DOMAIN rows /\ DOMAIN rows' = DOMAIN rows \cup {n} /\ rows'[n] = row
      /\ \A r \in DOMAIN rows : r \in Nat /\ r < n /\ rows'[r] = rows[r]
      /\ row.off = k /\ row.typ = DB!StoredAs(e.typ) /\ row.g = e.g /\ row.link = e.link
      /\ row.stk = e.stk /\ row.vc = localClock[e.g] + 1 /\ e.g \in G
      /\ localClock' = [localClock EXCEPT ![e.g] = row.vc]
  BY <1>1 DEF Inserted
<1>3. /\ localClock' \in [G -> Nat] /\ \A g \in G : localClock[g] <= localClock'[g]
      /\ localClock'[e.g] = row.vc /\ row.vc \in Nat
  BY <1>1, <1>2
<1>4. \A r \in DOMAIN rows : /\ Shows(rows[r]) /\ rows[r].g \in G /\ rows[r].off < k
                             /\ rows[r].off \in Past
                             /\ rows[r].vc \in Nat /\ rows[r].vc <= localClock[rows[r].g]
  <2> SUFFICES ASSUME NEW r \in DOMAIN rows
               PROVE /\ Shows(rows[r]) /\ rows[r].g \in G /\ rows[r].off < k
                     /\ rows[r].off \in Past
                     /\ rows[r].vc \in Nat /\ rows[r].vc <= localClock[rows[r].g]
    OBVIOUS
  <2>1. Shows(rows[r])
    BY <1>1 DEF Selected
  <2>2. rows[r].off \in Past /\ rows[r].off \in DOMAIN trace /\ rows[r].g = trace[rows[r].off].g
    BY <1>1, <2>1 DEF Shows
  <2> QED BY <1>1, <2>1, <2>2, Positions DEF Shows
<1>5. ASSUME NEW r \in DOMAIN rows' PROVE Shows(rows[r])'
  <2>1. PICK x : x = rows'[r]
    OBVIOUS
  <2>2. CASE r = n
    BY <1>1, <1>2, <1>3, <2>1, <2>2 DEF Shows, DB!StoredAs
  <2>3. CASE r \in DOMAIN rows
    <3>1. x = rows[r]
      BY <1>2, <2>1, <2>3
    <3>2. Shows(x) /\ x.g \in G
      BY <1>4, <2>3, <3>1
    <3>3. x.vc \in Nat /\ x.vc <= localClock'[x.g]
      BY <1>1, <1>3, <3>2 DEF Shows
    <3> QED BY <1>1, <2>1, <3>2, <3>3 DEF Shows, DB!StoredAs
  <2> QED BY <1>2, <2>2, <2>3
<1>6. ASSUME NEW r \in DOMAIN rows, rows[r].g = row.g PROVE rows[r].vc < row.vc
  BY <1>1, <1>2, <1>4, <1>6
<1>7. \A r, s \in DOMAIN rows' : r < s =>
         /\ rows'[r].off < rows'[s].off
         /\ rows'[r].g = rows'[s].g => rows'[r].vc < rows'[s].vc
  <2> SUFFICES ASSUME NEW r \in DOMAIN rows', NEW s \in DOMAIN rows', r < s
               PROVE  /\ rows'[r].off < rows'[s].off
                      /\ rows'[r].g = rows'[s].g => rows'[r].vc < rows'[s].vc
    OBVIOUS
  <2>1. r \in DOMAIN rows /\ rows'[r] = rows[r]
    BY <1>2
  <2>2. CASE s = n
    BY <1>2, <1>4, <1>6, <2>1, <2>2
  <2>3. CASE s \in DOMAIN rows
    BY <1>1, <1>2, <2>1, <2>3 DEF Selected
  <2> QED BY <1>2, <2>2, <2>3
<1>8. \A i \in Past' : ~DB!storeIgnore(Parsed(i))' => \E r \in DOMAIN rows' : rows'[r].off = i
  <2> SUFFICES ASSUME NEW i \in Past', ~DB!storeIgnore(Parsed(i))'
               PROVE  \E r \in DOMAIN rows' : rows'[r].off = i
    OBVIOUS
  <2>1. CASE i = k
    BY <1>2, <2>1
  <2>2. CASE i \in Past
    <3>1. ~DB!storeIgnore(Parsed(i))
      BY DEF At, DB!storeIgnore, DB!StoredAs, DB!Has, DB!GoatFns
    <3>2. PICK r \in DOMAIN rows : rows[r].off = i
      BY <1>1, <2>2, <3>1 DEF Selected
    <3> QED BY <1>2, <3>2
  <2> QED BY <1>1, <2>1, <2>2
<1>9. \A r \in DOMAIN rows : Stamp(rows[r]) # Stamp(row)
  <2> SUFFICES ASSUME NEW r \in DOMAIN rows, Stamp(rows[r]) = Stamp(row) PROVE FALSE
    OBVIOUS
  <2>1. rows[r].g = row.g /\ rows[r].vc = row.vc
    BY DEF Stamp
  <2>2. rows[r].vc < row.vc /\ row.vc \in Nat
    BY <1>3, <1>6, <2>1
  <2> QED BY <2>1, <2>2
<1> QED BY <1>1, <1>3, <1>5, <1>7, <1>8, <1>9 DEF Selected, Tree!G, G

\* Nothing links to an operation of GOAT's.
LEMMA LinkTargets ==
    ASSUME ProgramInv, NEW i \in DOMAIN trace, NEW j, j = trace[i].link, j # Nil
    PROVE  j \in DOMAIN trace /\ i < j /\ trace[j].typ \notin GoatTypes
<1>1. j \in DOMAIN trace /\ i < j /\ LinkFits(i, j)
  BY DEF ProgramInv, LinkInv, History, LinksFit
<1>2. PICK typ : typ = trace[j].typ
  OBVIOUS
<1>3. typ \in {"GCDone", "GCSTWDone", "GCSweepDone", "GCMarkAssistDone", "GoUnblock", "GoSysExit",
               "UserTaskEnd", "UserRegionEnd", "GoEnd"} \cup StartTypes \cup LeaveTypes
  BY <1>1, <1>2 DEF LinkFits, NextStart, StartsAt, WakesAt
<1>4. typ \notin GoatTypes
  BY <1>3 DEF GoatTypes, StartTypes, LeaveTypes, ParkTypes, YieldTypes, EndTypes
<1> QED BY <1>1, <1>2, <1>4

\* The types of rows, and which events they show.
LEMMA StoredTypes ==
    ASSUME NEW typ
    PROVE  /\ DB!StoredAs(typ) = "GoCreate" <=> typ = "GoCreate"
           /\ DB!StoredAs(typ) = "GoEnd" <=> typ = "GoEnd"
           /\ DB!StoredAs(typ) = "GoStart" <=> typ = "GoStart"
           /\ DB!StoredAs(typ) = "GoSched" <=> typ = "GoSched"
           /\ DB!StoredAs(typ) \in DB!CHNL => typ \in GoatTypes
           /\ typ \notin GoatTypes =>
                DB!StoredAs(typ) = typ /\ typ \notin DB!CHNL \cup DB!MUTX \cup DB!WGCV
  BY DEF DB!StoredAs, GoatTypes, DB!CHNL, DB!MUTX, DB!WGCV

\* Where the links lead from, and where to.
LEMMA LinkRows ==
    ASSUME ProgramInv, StoreInv, NEW k, NEW e, At(k, e), NEW l \in DOMAIN links
    PROVE  /\ \E r \in DOMAIN rows : Linking(rows[r]) /\ rows[r].link = l /\ links[l] = Stamp(rows[r])
           /\ l \in DOMAIN trace /\ trace[l].typ \notin GoatTypes
<1>1. PICK r \in DOMAIN rows : Linking(rows[r]) /\ rows[r].link = l
  BY DEF StoreInv, Linked
<1>2. links[l] = Stamp(rows[r])
  BY <1>1 DEF StoreInv, Linked
<1>3. PICK i : i = rows[r].off /\ i \in Past /\ rows[r].link = trace[i].link
  BY DEF StoreInv, Selected, Shows
<1>4. i \in DOMAIN trace
  BY <1>3 DEF At
<1>5. l = trace[i].link /\ l # Nil
  BY <1>1, <1>3 DEF Linking
<1> QED BY <1>1, <1>2, <1>4, <1>5, LinkTargets

LEMMA LinkedKept ==
    ASSUME ProgramInv, StoreInv, NEW k, NEW e, At(k, e), NEW n, NEW row, Inserted(k, e, n, row)
    PROVE  Linked'
<1>1. /\ DOMAIN rows' = DOMAIN rows \cup {n} /\ rows'[n] = row /\ n \notin DOMAIN rows
      /\ \A r \in DOMAIN rows : rows'[r] = rows[r]
      /\ links' = IF Linking(row) THEN DB!Entered(links, row.link, Stamp(row)) ELSE links
      /\ Linking(row) => row.link \notin DOMAIN links
  BY DEF Inserted
<1>2. /\ \A r \in DOMAIN rows : Linking(rows[r]) =>
           rows[r].link \in DOMAIN links /\ links[rows[r].link] = Stamp(rows[r])
      /\ \A l \in DOMAIN links : \E r \in DOMAIN rows : Linking(rows[r]) /\ rows[r].link = l
  BY DEF StoreInv, Linked
<1>3. PICK new : new = links'
  OBVIOUS
<1>4. /\ DOMAIN new = DOMAIN links \cup (IF Linking(row) THEN {row.link} ELSE {})
      /\ \A l \in DOMAIN links : new[l] = links[l]
      /\ Linking(row) => new[row.link] = Stamp(row)
  <2>1. CASE Linking(row)
    <3>1. PICK l, v : l = row.link /\ v = Stamp(row)
      OBVIOUS
    <3>2. new = [k1 \in DOMAIN links \cup {l} |-> IF k1 \in DOMAIN links THEN links[k1] ELSE v]
      BY <1>1, <1>3, <2>1, <3>1 DEF DB!Entered
    <3> QED BY <1>1, <2>1, <3>1, <3>2
  <2>2. CASE ~Linking(row)
    BY <1>1, <1>3, <2>2
  <2> QED BY <2>1, <2>2
<1>5. ASSUME NEW r \in DOMAIN rows', NEW x, x = rows'[r], Linking(x)
      PROVE  x.link \in DOMAIN new /\ new[x.link] = Stamp(x)
  <2>1. CASE r = n
    BY <1>1, <1>4, <1>5, <2>1
  <2>2. CASE r \in DOMAIN rows
    BY <1>1, <1>2, <1>4, <1>5, <2>2
  <2> QED BY <1>1, <2>1, <2>2
<1>6. ASSUME NEW l \in DOMAIN new
      PROVE  \E r \in DOMAIN rows' : Linking(rows'[r]) /\ rows'[r].link = l
  <2>1. CASE l \in DOMAIN links
    BY <1>1, <1>2, <2>1
  <2>2. CASE l \notin DOMAIN links
    BY <1>1, <1>4, <2>2
  <2> QED BY <2>1, <2>2
<1> QED BY <1>3, <1>5, <1>6 DEF Linked, Linking, Stamp, DB!CHNL, DB!MUTX, DB!WGCV, Nil

LEMMA MessagesKept ==
    ASSUME ProgramInv, StoreInv, NEW k, NEW e, At(k, e), NEW n, NEW row, Inserted(k, e, n, row)
    PROVE  Messages'
<1>1. /\ DOMAIN rows' = DOMAIN rows \cup {n} /\ rows'[n] = row /\ n \notin DOMAIN rows
      /\ \A r \in DOMAIN rows : rows'[r] = rows[r]
      /\ msgs' = IF row.typ = "ChSend" THEN DB!Entered(msgs, DB!Message(e), Stamp(row)) ELSE msgs
      /\ row.rid = DB!Rid(e, row.typ) /\ row.typ = DB!StoredAs(e.typ)
      /\ e.off = k /\ e.typ = trace[k].typ
  BY DEF Inserted, At
<1>2. PICK new, m0 : new = msgs' /\ m0 = DB!Message(e)
  OBVIOUS
<1>3. \A m \in DOMAIN msgs : \E r \in DOMAIN rows :
        rows[r].typ = "ChSend" /\ rows[r].rid = <<"C", m[1]>> /\ msgs[m] = Stamp(rows[r])
  BY DEF StoreInv, Messages
<1>4. ASSUME row.typ = "ChSend" PROVE row.rid = <<"C", m0[1]>>
  <2>1. trace[k].typ \in GoatTypes
    BY <1>1, <1>4, StoredTypes DEF DB!CHNL
  <2>2. k \notin DOMAIN links
    BY <2>1, LinkRows
  <2>3. m0[1] = e.args[1]
    BY <1>2 DEF DB!Message
  <2>4. DB!Kind(row.typ) = "C" /\ row.typ \in DB!CHNL
    BY <1>4 DEF DB!Kind, DB!CHNL, DB!MUTX, DB!Cv
  <2>5. DB!Rid(e, row.typ) = <<DB!Kind(row.typ), e.args[1]>>
    BY <1>1, <2>2, <2>4 DEF DB!Rid
  <2> QED BY <1>1, <2>3, <2>4, <2>5
<1>5. /\ DOMAIN new = DOMAIN msgs \cup (IF row.typ = "ChSend" THEN {m0} ELSE {})
      /\ \A m \in DOMAIN msgs : new[m] = msgs[m]
      /\ row.typ = "ChSend" /\ m0 \notin DOMAIN msgs => new[m0] = Stamp(row)
  <2>1. CASE row.typ = "ChSend"
    <3>1. PICK v : v = Stamp(row)
      OBVIOUS
    <3>2. new = [m \in DOMAIN msgs \cup {m0} |-> IF m \in DOMAIN msgs THEN msgs[m] ELSE v]
      BY <1>1, <1>2, <2>1, <3>1 DEF DB!Entered
    <3> QED BY <1>1, <2>1, <3>1, <3>2
  <2>2. CASE row.typ # "ChSend"
    BY <1>1, <1>2, <2>2
  <2> QED BY <2>1, <2>2
<1>6. ASSUME NEW m \in DOMAIN new
      PROVE  \E r \in DOMAIN rows' : /\ rows'[r].typ = "ChSend" /\ rows'[r].rid = <<"C", m[1]>>
                                     /\ new[m] = Stamp(rows'[r])
  <2>1. CASE m \in DOMAIN msgs
    <3>1. PICK r \in DOMAIN rows :
            rows[r].typ = "ChSend" /\ rows[r].rid = <<"C", m[1]>> /\ msgs[m] = Stamp(rows[r])
      BY <1>3, <2>1
    <3> QED BY <1>1, <1>5, <2>1, <3>1
  <2>2. CASE m \notin DOMAIN msgs
    <3>1. row.typ = "ChSend" /\ m = m0 /\ new[m] = Stamp(row)
      BY <1>5, <1>6, <2>2
    <3> QED BY <1>1, <1>4, <3>1
  <2> QED BY <2>1, <2>2
<1> QED BY <1>2, <1>6 DEF Messages, Stamp

LEMMA PredecessorsKept ==
    ASSUME ProgramInv, StoreInv, NEW k, NEW e, At(k, e), NEW n, NEW row, Inserted(k, e, n, row)
    PROVE  Predecessors'
<1>1. /\ DOMAIN rows' = DOMAIN rows \cup {n} /\ rows'[n] = row /\ n \notin DOMAIN rows
      /\ \A r \in DOMAIN rows : r < n /\ rows'[r] = rows[r]
      /\ row.off = k /\ row.link = e.link /\ row.typ = DB!StoredAs(e.typ)
      /\ row.pred = DB!PredOf(e, row.typ) /\ row.rid = DB!Rid(e, row.typ)
      /\ e.off = k /\ e.typ = trace[k].typ /\ e.link = trace[k].link /\ k \in DOMAIN trace
      /\ Past = 1..(k - 1) /\ k \in Nat \ {0}
  BY DEF Inserted, At
<1>2. \A r \in DOMAIN rows : Stamp(rows[r]) # Stamp(row)
  BY SelectedKept
<1>3. Predecessors /\ Linked /\ Messages /\ \A r \in DOMAIN rows : rows[r].off \in Past
  BY DEF StoreInv, Selected, Shows
<1> DEFINE Names(i, j)  == rows'[j].pred = Stamp(rows'[i])
           Leads(i, j) == /\ rows'[i].link = rows'[j].off
                          /\ rows'[i].typ \notin DB!CHNL \cup DB!MUTX \cup DB!WGCV
           Fitting(i, j) == /\ i < j
                          /\ \/ Leads(i, j)
                             \/ rows'[i].typ = "ChSend" /\ rows'[i].rid = rows'[j].rid
           Good(j) == /\ rows'[j].pred # DB!NULL =>
                           /\ Cardinality({i \in DOMAIN rows' : Names(i, j)}) = 1
                           /\ \A i \in DOMAIN rows' : Names(i, j) => Fitting(i, j)
                      /\ \A i \in DOMAIN rows' : Leads(i, j) => Names(i, j)
<1>4. ASSUME NEW i \in DOMAIN rows', NEW j \in DOMAIN rows', Leads(i, j)
      PROVE  i \in DOMAIN rows /\ Linking(rows'[i])
  <2>1. rows'[j].off \in 1..k
    <3>1. CASE j = n
      BY <1>1, <3>1
    <3>2. CASE j \in DOMAIN rows
      BY <1>1, <1>3, <3>2
    <3> QED BY <1>1, <3>1, <3>2
  <2>2. rows'[i].link # Nil
    BY <1>1, <1>4, <2>1 DEF Nil
  <2>3. CASE i = n
    <3>1. trace[k].link # Nil /\ trace[k].link <= k
      BY <1>1, <1>4, <2>1, <2>2, <2>3
    <3>2. PICK l : l = trace[k].link
      OBVIOUS
    <3>3. l \in DOMAIN trace /\ k < l
      BY <1>1, <3>1, <3>2, LinkTargets
    <3>4. l \in Nat
      BY <3>3, Positions
    <3> QED BY <1>1, <3>1, <3>2, <3>3, <3>4
  <2> QED BY <1>1, <1>4, <2>2, <2>3 DEF Linking
<1>5. ASSUME NEW j \in DOMAIN rows PROVE Good(j)
  <2>1. /\ rows'[j] = rows[j]
        /\ rows[j].pred # DB!NULL =>
             /\ Cardinality({i \in DOMAIN rows : rows[j].pred = Stamp(rows[i])}) = 1
             /\ \A i \in DOMAIN rows : rows[j].pred = Stamp(rows[i]) =>
                  /\ i < j
                  /\ \/ rows[i].link = rows[j].off /\ rows[i].typ \notin DB!CHNL \cup DB!MUTX \cup DB!WGCV
                     \/ rows[i].typ = "ChSend" /\ rows[i].rid = rows[j].rid
        /\ \A i \in DOMAIN rows :
             rows[i].link = rows[j].off /\ rows[i].typ \notin DB!CHNL \cup DB!MUTX \cup DB!WGCV
             => rows[j].pred = Stamp(rows[i])
    BY <1>1, <1>3, <1>5 DEF Predecessors, Precedes, Links, Stamp
  <2>2. \A i \in DOMAIN rows' : Leads(i, j) => Names(i, j)
    BY <1>1, <1>4, <1>5, <2>1
  <2>3. ASSUME rows[j].pred # DB!NULL PROVE ~Names(n, j)
    <3>1. {i \in DOMAIN rows : rows[j].pred = Stamp(rows[i])} # {}
      BY <2>1, <2>3, FS_EmptySet
    <3>2. PICK i \in DOMAIN rows : rows[j].pred = Stamp(rows[i])
      BY <3>1
    <3> QED BY <1>1, <1>2, <2>1, <3>2
  <2>4. ASSUME rows[j].pred # DB!NULL
        PROVE  {i \in DOMAIN rows' : Names(i, j)} = {i \in DOMAIN rows : rows[j].pred = Stamp(rows[i])}
    BY <1>1, <2>1, <2>3, <2>4
  <2>5. ASSUME rows[j].pred # DB!NULL, NEW i \in DOMAIN rows', Names(i, j) PROVE Fitting(i, j)
    BY <1>1, <1>5, <2>1, <2>3, <2>5
  <2> QED BY <2>1, <2>2, <2>4, <2>5
<1>6. ASSUME NEW i \in DOMAIN rows, row.pred = Stamp(rows[i]), Fitting(i, n) PROVE
        /\ {h \in DOMAIN rows' : Names(h, n)} = {i}
        /\ \A h \in DOMAIN rows' : Names(h, n) => Fitting(h, n)
        /\ Cardinality({h \in DOMAIN rows' : Names(h, n)}) = 1
  <2>1. ASSUME NEW h \in DOMAIN rows', Names(h, n) PROVE h = i
    <3>1. h # n
      BY <1>1, <1>2, <1>6, <2>1
    <3>2. h \in DOMAIN rows /\ Stamp(rows[h]) = Stamp(rows[i])
      BY <1>1, <1>6, <2>1, <3>1
    <3>3. \A r, s \in DOMAIN rows : r < s /\ rows[r].g = rows[s].g => rows[r].vc < rows[s].vc
      BY DEF StoreInv, Selected
    <3>4. rows[h].vc = rows[i].vc /\ rows[h].g = rows[i].g
      BY <3>2 DEF Stamp
    <3>5. rows[h].vc \in Nat /\ h \in Nat /\ i \in Nat
      BY <3>2 DEF StoreInv, Selected, Shows, Inserted
    <3> QED BY <1>6, <3>2, <3>3, <3>4, <3>5
  <2>2. Names(i, n)
    BY <1>1, <1>6
  <2>3. {h \in DOMAIN rows' : Names(h, n)} = {i}
    BY <1>1, <2>1, <2>2
  <2> QED BY <1>6, <2>1, <2>3, FS_Singleton
<1>7. Good(n)
  <2>1. CASE k \in DOMAIN links
    <3>1. row.pred = links[k]
      BY <1>1, <2>1 DEF DB!PredOf
    <3>2. PICK i \in DOMAIN rows : Linking(rows[i]) /\ rows[i].link = k /\ links[k] = Stamp(rows[i])
      BY <2>1, LinkRows
    <3>3. Fitting(i, n) /\ row.pred = Stamp(rows[i])
      BY <1>1, <3>1, <3>2 DEF Linking
    <3>4. \A h \in DOMAIN rows' : Leads(h, n) => Names(h, n)
      <4> SUFFICES ASSUME NEW h \in DOMAIN rows', Leads(h, n) PROVE Names(h, n)
        OBVIOUS
      <4>1. h \in DOMAIN rows /\ rows'[h] = rows[h] /\ Linking(rows[h]) /\ rows[h].link = k
        BY <1>1, <1>4
      <4> QED BY <1>1, <1>3, <3>1, <4>1 DEF Linked
    <3> QED BY <1>6, <3>3, <3>4
  <2>2. ASSUME k \notin DOMAIN links
        PROVE  \A h \in DOMAIN rows' : ~Leads(h, n)
    <3> SUFFICES ASSUME NEW h \in DOMAIN rows', Leads(h, n) PROVE FALSE
      OBVIOUS
    <3>1. h \in DOMAIN rows /\ rows'[h] = rows[h] /\ Linking(rows[h]) /\ rows[h].link = k
      BY <1>1, <1>4
    <3> QED BY <1>3, <2>2, <3>1 DEF Linked
  <2>3. CASE k \notin DOMAIN links /\ row.typ = "ChRecv" /\ DB!Message(e) \in DOMAIN msgs
    <3>1. PICK m : m = DB!Message(e)
      OBVIOUS
    <3>2. row.pred = msgs[m]
      BY <1>1, <2>3, <3>1 DEF DB!PredOf
    <3>3. PICK i \in DOMAIN rows :
            rows[i].typ = "ChSend" /\ rows[i].rid = <<"C", m[1]>> /\ msgs[m] = Stamp(rows[i])
      BY <1>3, <2>3, <3>1 DEF Messages
    <3>4. DB!Kind(row.typ) = "C" /\ row.typ \in DB!CHNL
      BY <2>3 DEF DB!Kind, DB!CHNL, DB!MUTX, DB!Cv
    <3>5. row.rid = <<DB!Kind(row.typ), e.args[1]>>
      BY <1>1, <2>3, <3>4 DEF DB!Rid
    <3>6. m[1] = e.args[1]
      BY <3>1 DEF DB!Message
    <3>7. Fitting(i, n) /\ row.pred = Stamp(rows[i])
      BY <1>1, <3>2, <3>3, <3>4, <3>5, <3>6
    <3> QED BY <1>6, <2>2, <2>3, <3>7
  <2>4. CASE k \notin DOMAIN links /\ ~(row.typ = "ChRecv" /\ DB!Message(e) \in DOMAIN msgs)
    <3>1. row.pred = DB!NULL
      BY <1>1, <2>4 DEF DB!PredOf
    <3> QED BY <1>1, <2>2, <2>4, <3>1
  <2> QED BY <2>1, <2>3, <2>4
<1>8. \A j \in DOMAIN rows' : Good(j)
  BY <1>1, <1>5, <1>7
<1> QED BY <1>8 DEF Predecessors, Precedes, Links, Stamp, DB!NULL, DB!CHNL, DB!MUTX, DB!WGCV
-----------------------------------------------------------------------------
Adds(x, t, K, new) == Roster(t, K) /\ x.gid \notin K /\ new = t \o <<x>>

LEMMA NewRow ==
    ASSUME NEW t, NEW K, NEW x, NEW new, Adds(x, t, K, new)
    PROVE  /\ Roster(new, K \cup {x.gid})
           /\ \A i \in DOMAIN new : new[i] = x \/ \E j \in DOMAIN t : new[i] = t[j]
<1>0. Roster(t, K) /\ x.gid \notin K /\ new = t \o <<x>>
  BY DEF Adds
<1>1. PICK S : t \in Seq(S)
  BY <1>0 DEF Roster
<1>2. PICK n : n = Len(t) + 1
  OBVIOUS
<1>3. new = Append(t, x)
  <2>1. t \in Seq(S \cup {x}) /\ <<x>> \in Seq(S \cup {x})
    BY <1>1, Appends
  <2> QED BY <1>0, <2>1
<1>4. /\ new \in Seq(S \cup {x})
      /\ n \in Nat /\ n \notin DOMAIN t /\ Len(new) = n
      /\ DOMAIN new = DOMAIN t \cup {n} /\ new[n] = x
      /\ \A i \in DOMAIN t : i \in Nat /\ i < n /\ new[i] = t[i]
  BY <1>1, <1>2, <1>3, Appends
<1>5. /\ \A k, l \in DOMAIN t : t[k].gid = t[l].gid => k = l
      /\ K = {t[k].gid : k \in DOMAIN t}
      /\ IsFiniteSet(K) /\ Cardinality(K) = Len(t)
  BY <1>0 DEF Roster
<1>6. K \cup {x.gid} = {new[k].gid : k \in DOMAIN new}
  <2>1. \A k \in DOMAIN t : new[k].gid = t[k].gid
    BY <1>4
  <2>2. {new[k].gid : k \in DOMAIN new} = {new[k].gid : k \in DOMAIN t} \cup {new[n].gid}
    BY <1>4
  <2>3. {new[k].gid : k \in DOMAIN t} = {t[k].gid : k \in DOMAIN t}
    BY <2>1
  <2> QED BY <1>4, <1>5, <2>2, <2>3
<1>7. IsFiniteSet(K \cup {x.gid}) /\ Cardinality(K \cup {x.gid}) = Len(new)
  <2>1. Len(t) \in Nat
    BY <1>1
  <2>2. Cardinality(K \cup {x.gid}) = Cardinality(K) + 1 /\ IsFiniteSet(K \cup {x.gid})
    BY <1>0, <1>5, FS_AddElement
  <2> QED BY <1>2, <1>4, <1>5, <2>1, <2>2
<1>8. \A k, l \in DOMAIN new : new[k].gid = new[l].gid => k = l
  <2>1. \A k \in DOMAIN t : new[k].gid \in K
    BY <1>4, <1>5
  <2> QED BY <1>0, <1>4, <1>5, <2>1
<1> QED BY <1>4, <1>6, <1>7, <1>8 DEF Roster

LEMMA NewValues ==
    ASSUME NEW t, NEW K, Roster(t, K), NEW new,
           new = [k \in DOMAIN t |-> new[k]], \A k \in DOMAIN t : new[k].gid = t[k].gid
    PROVE  Roster(new, K)
<1>1. PICK S : t \in Seq(S)
  BY DEF Roster
<1>2. Len(t) \in Nat /\ DOMAIN t = 1..Len(t) /\ DOMAIN new = 1..Len(t)
  BY <1>1
<1>3. \E T : new \in Seq(T)
  <2>1. new \in Seq({new[k] : k \in 1..Len(t)})
    BY <1>2
  <2> QED BY <2>1
<1>4. Len(new) = Len(t)
  BY <1>2, <1>3
<1>5. /\ \A k, l \in DOMAIN t : t[k].gid = t[l].gid => k = l
      /\ K = {t[k].gid : k \in DOMAIN t}
      /\ IsFiniteSet(K) /\ Cardinality(K) = Len(t)
  BY DEF Roster
<1>6. K = {new[k].gid : k \in DOMAIN new}
  BY <1>2, <1>5
<1>7. \A k, l \in DOMAIN new : new[k].gid = new[l].gid => k = l
  BY <1>2, <1>5
<1> QED BY <1>3, <1>4, <1>5, <1>6, <1>7 DEF Roster

LEMMA TellsStays ==
    ASSUME ProgramInv, NEW k, NEW e, At(k, e), NEW row, Tells(row), ~EndsAt(k, row.gid)
    PROVE  Tells(row)'
  BY DEF At, Tells, Tree!G, DB!Root

\* The table of goroutines keeps up.
LEMMA ListedStays ==
    ASSUME ProgramInv, Listed, NEW k, NEW e, At(k, e), e.typ \notin {"GoCreate", "GoEnd"}, grtns' = grtns
    PROVE  Listed'
<1>1. k \in DOMAIN trace /\ trace[k].typ = e.typ /\ next = k
  BY DEF At
<1>2. k > 1 /\ \A g : ~EndsAt(k, g) /\ ~BornAt(k, g)
  BY <1>1, ActsLater DEF EndsAt, BornAt
<1>3. \A g \in G : Known(g)' <=> Known(g)
  BY <1>1, <1>2, KnownGrows DEF Known
<1>4. {g \in Tree!G : Known(g)}' = {g \in Tree!G : Known(g)}
  BY <1>3 DEF Tree!G, G
<1>5. ASSUME NEW l \in DOMAIN grtns' PROVE Tells(grtns[l])'
  <2>1. PICK row : row = grtns'[l]
    OBVIOUS
  <2>2. Tells(row)
    BY <2>1 DEF Listed
  <2>3. Tells(row)'
    BY <1>2, <2>2, TellsStays
  <2> QED BY <2>1, <2>3 DEF Tells
<1>6. Roster(grtns', {g \in Tree!G : Known(g)}')
  BY <1>4 DEF Listed
<1> QED BY <1>5, <1>6 DEF Listed, Roster

\* A goroutine that acts has a row.
LEMMA ActsStored ==
    ASSUME ProgramInv, Listed, NEW k, NEW e, At(k, e), e.typ # "GoCreate"
    PROVE  DB!Stored(e.g) /\ k > 1 /\ Known(e.g)
<1>1. k \in DOMAIN trace /\ trace[k].typ = e.typ /\ trace[k].g = e.g /\ next = k /\ Past = 1..(k - 1)
  BY DEF At
<1>2. e.g \in G /\ k > 1 /\ (e.g = NoG \/ \E j \in Past : BornAt(j, e.g))
  BY <1>1, ActsLater
<1>3. Known(e.g)
  BY <1>1, <1>2 DEF Known
<1>4. {g \in Tree!G : Known(g)} = {grtns[l].gid : l \in DOMAIN grtns}
  BY DEF Listed, Roster
<1>5. e.g \in {g \in Tree!G : Known(g)}
  BY <1>2, <1>3 DEF Tree!G, G
<1> QED BY <1>2, <1>3, <1>4, <1>5 DEF DB!Stored

LEMMA ListedEnds ==
    ASSUME ProgramInv, Listed, NEW k, NEW e, At(k, e), e.typ = "GoEnd",
           grtns' = DB!Ended(e), Len(rows') \in Nat
    PROVE  Listed'
<1>1. k \in DOMAIN trace /\ trace[k].typ = e.typ /\ trace[k].g = e.g /\ next = k /\ Past' = Past \cup {k}
      /\ \A i, g : EndsAt(i, g)' <=> EndsAt(i, g)
  BY DEF At
<1>2. k > 1 /\ \A g : ~BornAt(k, g) /\ (EndsAt(k, g) <=> g = e.g)
  BY <1>1, ActsStored DEF EndsAt, BornAt
<1>3. \A g \in G : Known(g)' <=> Known(g)
  BY <1>1, <1>2, KnownGrows DEF Known
<1>4. {g \in Tree!G : Known(g)}' = {g \in Tree!G : Known(g)}
  BY <1>3 DEF Tree!G, G
<1>5. PICK new, at : new = grtns' /\ at = Len(rows')
  OBVIOUS
<1>6. new = [l \in DOMAIN grtns |-> IF grtns[l].gid = e.g THEN [grtns[l] EXCEPT !.ended = at]
                                    ELSE grtns[l]]
  BY <1>5 DEF DB!Ended
<1>7. ASSUME NEW l \in DOMAIN grtns
      PROVE  new[l].gid = grtns[l].gid /\ Tells(new[l])'
  <2>1. PICK row : row = grtns[l]
    OBVIOUS
  <2>2. Tells(row)
    BY <1>7, <2>1 DEF Listed
  <2>3. CASE row.gid = e.g
    <3>1. PICK now : now = [row EXCEPT !.ended = at]
      OBVIOUS
    <3>2. now = [gid |-> row.gid, parent |-> row.parent, create |-> row.create, ended |-> at]
      BY <2>2, <3>1 DEF Tells
    <3>3. \E i \in Past' : EndsAt(i, row.gid)'
      BY <1>1, <1>2, <2>3
    <3>4. at # -1 /\ at \in Int
      BY <1>5
    <3>5. Tells(now)'
      BY <2>2, <3>2, <3>3, <3>4 DEF Tells, At, Tree!G, DB!Root
    <3>6. new[l] = now
      BY <1>6, <1>7, <2>1, <2>3, <3>1
    <3> QED BY <2>1, <3>2, <3>5, <3>6
  <2>4. CASE row.gid # e.g
    <3>1. new[l] = row
      BY <1>6, <1>7, <2>1, <2>4
    <3>2. Tells(row)'
      BY <1>2, <2>2, <2>4, TellsStays
    <3> QED BY <2>1, <3>1, <3>2
  <2> QED BY <2>3, <2>4
<1>8. DOMAIN new = DOMAIN grtns /\ new = [l \in DOMAIN grtns |-> new[l]]
  BY <1>6
<1>9. Roster(new, {g \in Tree!G : Known(g)})
  BY <1>7, <1>8, NewValues DEF Listed
<1>10. \A l \in DOMAIN grtns' : Tells(grtns[l])'
  BY <1>5, <1>7, <1>8 DEF Tells
<1>11. Roster(grtns', {g \in Tree!G : Known(g)}')
  BY <1>4, <1>5, <1>9
<1> QED BY <1>10, <1>11 DEF Listed, Roster

LEMMA ListedGrows ==
    ASSUME ProgramInv, Listed, NEW k, NEW e, At(k, e), e.typ = "GoCreate",
           grtns' = DB!Goroutines(e)
    PROVE  Listed'
<1>1. /\ k \in DOMAIN trace /\ trace[k].typ = e.typ /\ trace[k].g = e.g /\ trace[k].arg = e.arg
      /\ next = k /\ Past' = Past \cup {k} /\ Past = 1..(k - 1) /\ Past' \subseteq DOMAIN trace
      /\ trace' = trace /\ carried' = carried /\ e.stk = carried[k].stk
      /\ \A i, g : EndsAt(i, g)' <=> EndsAt(i, g)
      /\ \A i, g : BornAt(i, g)' <=> BornAt(i, g)
      /\ k \in Nat \ {0} /\ k \notin Past
  BY DEF At
<1>2. PICK a, c, stk : a = e.arg /\ c = e.g /\ stk = e.stk
  OBVIOUS
<1>3. /\ a \in Goroutine /\ a # NoG /\ c \in G /\ c # a /\ a \in G
      /\ \A j \in DOMAIN trace : BornAt(j, a) => j = k
      /\ \A i \in DOMAIN trace : i <= k => trace[i].g # a
      /\ IF c = NoG THEN k = 1 ELSE \E j \in 1..(k - 1) : BornAt(j, c)
  BY <1>1, <1>2, CreatedOnce DEF G
<1>4. \A g : ~EndsAt(k, g) /\ (BornAt(k, g) <=> g = a)
  BY <1>1, <1>2 DEF EndsAt, BornAt
<1>5. PICK K : K = {g \in Tree!G : Known(g)}
  OBVIOUS
<1>6. Roster(grtns, K)
  BY <1>5 DEF Listed
<1>7. a \notin K
  BY <1>1, <1>3, <1>5 DEF Known
<1>8. {g \in Tree!G : Known(g)}' = K \cup {c, a}
  <2>1. \A g \in G : Known(g)' <=> g = NoG \/ Known(g) \/ g = a
    BY <1>4, KnownGrows
  <2>2. Tree!G = G /\ {g \in Tree!G : Known(g)}' = {g \in G : Known(g)'}
    BY DEF Tree!G, G
  <2>3. CASE c = NoG
    <3>1. K = {}
      BY <1>1, <1>3, <1>5, <2>3 DEF Known
    <3>2. \A g \in G : ~Known(g)
      BY <1>5, <2>2, <3>1
    <3> QED BY <1>3, <2>1, <2>2, <2>3, <3>1, <3>2
  <2>4. CASE c # NoG
    <3>1. c \in K /\ NoG \in K
      BY <1>1, <1>3, <1>5, <2>2, <2>4, NoGApart DEF Known, G
    <3> QED BY <1>3, <1>5, <2>1, <2>2, <3>1
  <2> QED BY <2>3, <2>4
<1>9. PICK old, root, new :
         /\ root = DB!Grtn(c, DB!Root, stk) /\ new = DB!Grtn(a, c, stk)
         /\ old = grtns \o DB!Creator(e)
  OBVIOUS
<1>10. /\ root = [gid |-> c, parent |-> DB!Root, create |-> stk, ended |-> -1]
       /\ new = [gid |-> a, parent |-> c, create |-> stk, ended |-> -1]
       /\ grtns' = old \o <<new>>
  BY <1>2, <1>9 DEF DB!Grtn, DB!Goroutines
<1>11. /\ Roster(old, K \cup {c})
       /\ \A i \in DOMAIN old : (old[i] = root /\ c = NoG) \/ \E j \in DOMAIN grtns : old[i] = grtns[j]
  <2>1. DB!Stored(c) <=> c \in K
    BY <1>6 DEF DB!Stored, Roster
  <2>2. CASE c \in K
    <3>1. PICK S : grtns \in Seq(S)
      BY <1>6 DEF Roster
    <3>2. old = grtns
      BY <1>2, <1>9, <2>1, <2>2, <3>1 DEF DB!Creator
    <3>3. K \cup {c} = K
      BY <2>2
    <3> QED BY <1>6, <3>2, <3>3
  <2>3. CASE c \notin K
    <3>1. old = grtns \o <<root>>
      BY <1>2, <1>9, <2>1, <2>3 DEF DB!Creator
    <3>2. c = NoG
      BY <1>1, <1>3, <1>5, <2>3 DEF Known, Tree!G, G
    <3>3. root.gid = c
      BY <1>10
    <3>4. Adds(root, grtns, K, old)
      BY <1>6, <2>3, <3>1, <3>3 DEF Adds
    <3>5. PICK t, L : t = grtns /\ L = K \cup {root.gid}
      OBVIOUS
    <3>6. Adds(root, t, K, old)
      BY <3>4, <3>5
    <3>7. Roster(old, L) /\ \A i \in DOMAIN old : old[i] = root \/ \E j \in DOMAIN t : old[i] = t[j]
      BY <3>5, <3>6, NewRow
    <3>8. L = K \cup {c}
      BY <3>3, <3>5
    <3> QED BY <3>2, <3>5, <3>7, <3>8
  <2> QED BY <2>2, <2>3
<1>12. /\ Roster(grtns', K \cup {c, a})
       /\ \A i \in DOMAIN grtns' : grtns'[i] = new \/ \E j \in DOMAIN old : grtns'[i] = old[j]
  <2>1. PICK now, L : now = grtns' /\ L = K \cup {c}
    OBVIOUS
  <2>2. new.gid = a /\ a \notin L /\ L \cup {a} = K \cup {c, a} /\ Adds(new, old, L, now)
    BY <1>3, <1>7, <1>10, <1>11, <2>1 DEF Adds
  <2>3. /\ Roster(now, L \cup {a})
        /\ \A i \in DOMAIN now : now[i] = new \/ \E j \in DOMAIN old : now[i] = old[j]
    BY <2>2, NewRow
  <2> QED BY <2>1, <2>2, <2>3
<1>13. Tells(new)'
  <2>1. BornAt(k, new.gid)' /\ new.parent = trace'[k].g /\ new.create = carried'[k].stk /\ k \in Past'
    BY <1>1, <1>2, <1>4, <1>10
  <2>2. \A i \in Past' : ~EndsAt(i, new.gid)'
    <3> SUFFICES ASSUME NEW i \in Past', EndsAt(i, a) PROVE FALSE
      BY <1>1, <1>10
    <3>1. i \in DOMAIN trace /\ i <= k /\ trace[i].g = a
      BY <1>1 DEF EndsAt
    <3> QED BY <1>3, <3>1
  <2> QED BY <1>3, <1>10, <2>1, <2>2 DEF Tells, Tree!G, G
<1>14. ASSUME c = NoG PROVE Tells(root)'
  <2>1. \A i \in Past' : ~EndsAt(i, root.gid)'
    <3> SUFFICES ASSUME NEW i \in Past', EndsAt(i, NoG) PROVE FALSE
      BY <1>1, <1>10, <1>14
    <3>1. i \in DOMAIN trace /\ trace[i].g = NoG /\ trace[i].typ = "GoEnd"
      BY <1>1 DEF EndsAt
    <3>2. i = 1 \/ trace[i].typ = "GoUnblock"
      BY <3>1 DEF ProgramInv, Lives
    <3>3. k = 1 /\ i = k
      BY <1>3, <1>14, <1>1, <3>1, <3>2
    <3> QED BY <1>1, <3>1, <3>3
  <2> QED BY <1>3, <1>10, <1>14, <2>1 DEF Tells, Tree!G, G, DB!Root
<1>15. ASSUME NEW i \in DOMAIN grtns' PROVE Tells(grtns[i])'
  <2>1. PICK row : row = grtns'[i]
    OBVIOUS
  <2>2. row = new \/ (row = root /\ c = NoG) \/ \E j \in DOMAIN grtns : row = grtns[j]
    BY <1>11, <1>12, <1>15, <2>1
  <2>3. ASSUME NEW j \in DOMAIN grtns, row = grtns[j] PROVE Tells(row)'
    BY <1>4, <2>3, TellsStays DEF Listed
  <2>4. Tells(row)'
    BY <1>13, <1>14, <2>2, <2>3
  <2> QED BY <2>1, <2>4 DEF Tells
<1> QED BY <1>8, <1>12, <1>15 DEF Listed, Roster
-----------------------------------------------------------------------------
\* An end shows no stack, and what has none of goat's is stored.
LEMMA Ignored ==
    ASSUME ProgramInv, NEW k, NEW e, At(k, e)
    PROVE  DB!storeIgnore(e) => e.typ \notin {"GoCreate", "GoStart", "GoSched", "GoEnd"}
<1>1. k \in DOMAIN trace /\ trace[k].typ = e.typ /\ e.stk = carried[k].stk
  BY DEF At
<1>2. e.typ = "GoEnd" => e.stk = <<>>
  BY <1>1 DEF ProgramInv, Stacks
<1>3. e.typ = "GoEnd" => ~DB!Has(e.stk, DB!GoatFns)
  BY <1>2 DEF DB!Has
<1> QED BY <1>3, StoredTypes DEF DB!storeIgnore

LEMMA PredecessorsStay ==
    ASSUME Predecessors, rows' = rows
    PROVE  Predecessors'
<1>1. \A i, j : (Precedes(i, j)' <=> Precedes(i, j)) /\ (Links(i, j)' <=> Links(i, j))
  BY DEF Precedes, Links, DB!CHNL, DB!MUTX, DB!WGCV
<1>2. \A j : {i \in DOMAIN rows' : Precedes(i, j)'} = {i \in DOMAIN rows : Precedes(i, j)}
  BY <1>1
<1> QED BY <1>1, <1>2 DEF Predecessors, DB!NULL

LEMMA RowsStay ==
    ASSUME StoreInv, rows' = rows, localClock' = localClock, msgs' = msgs, links' = links
    PROVE  Linked' /\ Messages' /\ Predecessors' /\ Sequences' /\ localClock' \in [Tree!G -> Nat]
<1>1. Linked /\ Messages /\ Predecessors /\ Sequences /\ localClock \in [Tree!G -> Nat]
  BY DEF StoreInv
<1>2. Linked'
  BY <1>1 DEF Linked, Linking, Stamp, DB!CHNL, DB!MUTX, DB!WGCV, Nil
<1>3. Messages'
  BY <1>1 DEF Messages, Stamp
<1>4. Predecessors'
  BY <1>1, PredecessorsStay
<1>5. Sequences' /\ localClock' \in [Tree!G -> Nat]
  BY <1>1 DEF Sequences
<1> QED BY <1>2, <1>3, <1>4, <1>5

LEMMA StoreIdle ==
    ASSUME ProgramInv, StoreInv, NEW k, NEW e, At(k, e), DB!storeIgnore(e), UNCHANGED DB!tables
    PROVE  StoreInv'
<1>1. /\ k \in DOMAIN trace /\ k \in Past' /\ Past' = Past \cup {k}
      /\ trace' = trace /\ carried' = carried /\ e = Parsed(k)
      /\ \A i : Parsed(i)' = Parsed(i)
  BY DEF At
<1>2. /\ rows' = rows /\ grtns' = grtns /\ localClock' = localClock /\ msgs' = msgs /\ links' = links
  BY DEF DB!tables
<1>3. Selected'
  <2>1. ASSUME NEW r \in DOMAIN rows PROVE Shows(rows[r])'
    <3>1. PICK row : row = rows[r]
      OBVIOUS
    <3>2. Shows(row)
      BY <2>1, <3>1 DEF StoreInv, Selected
    <3>3. Shows(row)'
      BY <1>1, <1>2, <3>2 DEF Shows, DB!StoredAs
    <3>4. rows'[r] = row
      BY <1>2, <3>1
    <3> QED BY <3>3, <3>4 DEF Shows
  <2>2. \A i \in Past' : ~DB!storeIgnore(Parsed(i))' => \E r \in DOMAIN rows : rows[r].off = i
    <3> SUFFICES ASSUME NEW i \in Past', ~DB!storeIgnore(Parsed(i))'
                 PROVE  \E r \in DOMAIN rows : rows[r].off = i
      OBVIOUS
    <3>1. ~DB!storeIgnore(Parsed(i))
      BY <1>1 DEF DB!storeIgnore, DB!StoredAs, DB!Has, DB!GoatFns
    <3>2. i \in Past
      BY <1>1, <3>1
    <3> QED BY <3>1, <3>2 DEF StoreInv, Selected
  <2> QED BY <1>2, <2>1, <2>2 DEF StoreInv, Selected
<1>4. Listed'
  BY <1>2, Ignored, ListedStays DEF StoreInv
<1>5. Linked' /\ Messages' /\ Predecessors' /\ Sequences' /\ localClock' \in [Tree!G -> Nat]
  BY <1>2, RowsStay
<1> QED BY <1>3, <1>4, <1>5 DEF StoreInv, Tree!G

LEMMA StoreGrows ==
    ASSUME ProgramInv, StoreInv, NEW k, NEW e, At(k, e), DB!Insert(e), ~DB!storeIgnore(e), ~DB!Panics(e)
    PROVE  StoreInv'
<1>1. PICK n, row : Inserted(k, e, n, row)
  BY Inserts
<1>2. Sequences'
  BY Inserts DEF Sequences
<1>3. localClock' \in [Tree!G -> Nat] /\ Selected'
  BY <1>1, SelectedKept
<1>4. Linked' /\ Messages' /\ Predecessors'
  BY <1>1, LinkedKept, MessagesKept, PredecessorsKept
<1>5. Listed'
  <2>1. Listed /\ Len(rows') \in Nat
    BY <1>1 DEF StoreInv, Inserted
  <2>2. CASE e.typ = "GoCreate"
    <3>1. grtns' = DB!Goroutines(e)
      BY <2>2, StoredTypes DEF DB!Insert
    <3> QED BY <2>1, <2>2, <3>1, ListedGrows
  <2>3. CASE e.typ = "GoEnd"
    <3>1. grtns' = DB!Ended(e)
      BY <2>3, StoredTypes DEF DB!Insert
    <3> QED BY <2>1, <2>3, <3>1, ListedEnds
  <2>4. CASE e.typ \notin {"GoCreate", "GoEnd"}
    <3>1. grtns' = grtns
      BY <2>4, StoredTypes DEF DB!Insert
    <3> QED BY <2>1, <2>4, <3>1, ListedStays
  <2> QED BY <2>2, <2>3, <2>4
<1> QED BY <1>2, <1>3, <1>4, <1>5 DEF StoreInv, Tree!G

\* What stops Store.
LEMMA StoreFits ==
    ASSUME ProgramInv, StoreInv, NEW k, NEW e, At(k, e), DB!Panics(e)
    PROVE  EndsInRegion \/ Nameless
<1>1. /\ k \in DOMAIN trace /\ trace[k].typ = e.typ /\ e.link = trace[k].link
      /\ Past \subseteq DOMAIN trace /\ k \notin Past
  BY DEF At
<1>2. CASE e.typ \in DB!Unnamed
  BY <1>1, <1>2 DEF Nameless
<1>3. CASE DB!EndsUnknown(e)
  BY <1>3, ActsStored DEF DB!EndsUnknown, StoreInv
<1>4. CASE DB!LinkedTwice(e)
  <2>1. e.link \in DOMAIN links /\ e.link # Nil
    BY <1>4 DEF DB!LinkedTwice, DB!IsLink, Nil
  <2>2. PICK r \in DOMAIN rows : rows[r].link = e.link
    BY <2>1 DEF StoreInv, Linked
  <2>3. PICK i : i = rows[r].off /\ i \in Past /\ rows[r].link = trace[i].link
    BY DEF StoreInv, Selected, Shows
  <2>4. /\ i \in DOMAIN trace /\ i # k /\ trace[i].link = trace[k].link /\ trace[i].link # Nil
    BY <1>1, <2>1, <2>2, <2>3
  <2>5. /\ trace[trace[i].link].typ = "GoEnd"
        /\ trace[i].typ = "UserRegionStart" \/ trace[k].typ = "UserRegionStart"
    BY <1>1, <2>4 DEF ProgramInv, LinkedOnce
  <2> QED BY <1>1, <2>4, <2>5 DEF EndsInRegion, Nil
<1> QED BY <1>2, <1>3, <1>4 DEF DB!Panics

LEMMA StoreBare ==
    ASSUME StoreInv, next \in {0, 1}, next' \in {0, 1}, UNCHANGED store
    PROVE  StoreInv'
<1>1. Past = {} /\ Past' = {}
  <2>1. 1..(0 - 1) = {} /\ 1..(1 - 1) = {}
    OBVIOUS
  <2> QED BY <2>1 DEF Past
<1>2. /\ rows' = rows /\ grtns' = grtns /\ localClock' = localClock /\ msgs' = msgs /\ links' = links
  BY DEF store
<1>3. /\ \A g : ~Known(g) /\ ~Known(g)'
      /\ {g \in Tree!G : Known(g)} = {} /\ {g \in Tree!G : Known(g)}' = {}
  BY <1>1 DEF Known, Tree!G
<1>4. DOMAIN rows = {}
  BY <1>1 DEF StoreInv, Selected, Shows
<1>5. DOMAIN links = {} /\ DOMAIN msgs = {}
  BY <1>4 DEF StoreInv, Linked, Messages
<1>6. Roster(grtns, {})
  BY <1>3 DEF StoreInv, Listed
<1>7. DOMAIN grtns = {}
  <2>1. {} = {grtns[k].gid : k \in DOMAIN grtns}
    BY <1>6, Zenon DEF Roster
  <2> QED BY <2>1, Zenon
<1>8. Listed'
  BY <1>2, <1>3, <1>6, <1>7 DEF Listed, Roster
<1>9. Selected' /\ Linked' /\ Messages' /\ Predecessors'
  BY <1>1, <1>2, <1>4, <1>5 DEF Selected, Linked, Messages, Predecessors
<1>10. Sequences' /\ localClock' \in [Tree!G -> Nat]'
  BY <1>2 DEF StoreInv, Sequences, Tree!G
<1> QED BY <1>8, <1>9, <1>10 DEF StoreInv

LEMMA StoreStarts == GoatInit => StoreInv /\ ~storePanic
<1> SUFFICES ASSUME GoatInit PROVE StoreInv /\ ~storePanic
  OBVIOUS
<1>1. /\ next = 0 /\ rows = <<>> /\ grtns = <<>> /\ links = <<>> /\ msgs = <<>> /\ ~storePanic
      /\ localClock = [g \in Tree!G |-> 0]
  BY DEF GoatInit, DB!StoreInit, DB!NULL, Tree!G
<1>2. Past = {}
  <2>1. 1..(0 - 1) = {}
    OBVIOUS
  <2> QED BY <1>1, <2>1 DEF Past
<1>3. DOMAIN rows = {} /\ DOMAIN grtns = {} /\ DOMAIN links = {} /\ DOMAIN msgs = {}
      /\ rows \in Seq({}) /\ grtns \in Seq({}) /\ Len(grtns) = 0
  BY <1>1
<1>4. {g \in Tree!G : Known(g)} = {}
  BY <1>1, <1>2 DEF Known
<1>5. Roster(grtns, {})
  BY <1>3, FS_EmptySet DEF Roster
<1>6. Selected /\ Linked /\ Messages /\ Predecessors
  BY <1>2, <1>3 DEF Selected, Linked, Messages, Predecessors
<1>7. Listed /\ Sequences
  BY <1>3, <1>4, <1>5 DEF Listed, Sequences
<1>8. localClock \in [Tree!G -> Nat]
  BY <1>1
<1> QED BY <1>1, <1>6, <1>7, <1>8 DEF StoreInv
-----------------------------------------------------------------------------
(***************************************************************************)
(* The inductive invariant                                                 *)
(***************************************************************************)
LEMMA GoatStarts == GoatInit => GoatInv
  BY ProgramStarts, TreeStarts, StoreStarts DEF GoatInit, GoatInv

LEMMA AnalyseKept ==
    ASSUME GoatInv, Analyse
    PROVE  GoatInv'
<1>1. PICK k, e : At(k, e)
  BY Reads DEF GoatInv
<1>2. ProgramInv /\ TreeInv /\ StoreInv /\ ~storePanic /\ UNCHANGED program
  BY DEF GoatInv, Analyse, Panicked
<1>3. Parsed(next) = e /\ next' = k + 1 /\ k \in DOMAIN trace /\ k \in Nat \ {0} /\ trace' = trace
  BY <1>1 DEF At
<1>4. Tree!GetGoroutineInfo(e) /\ DB!Store(e)
  BY <1>3 DEF Analyse
<1>5. ProgramInv'
  BY <1>2, ProgramStays
<1>6. TreeInv'
  BY <1>1, <1>2, <1>4, TreeKept
<1>7. Reading'
  <2>1. Len(trace) \in Nat /\ DOMAIN trace = 1..Len(trace)
    BY <1>2, Positions
  <2>2. next > 0 /\ next = k /\ Begun
    BY <1>1, <1>3 DEF At, GoatInv, Reading
  <2> QED BY <1>3, <2>1, <2>2 DEF Reading, Begun
<1>8. storePanic' <=> DB!Panics(e)
  BY <1>4 DEF DB!Store
<1>9. CASE DB!Panics(e)
  <2>1. EndsInRegion \/ Nameless
    BY <1>1, <1>2, <1>9, StoreFits
  <2>2. (EndsInRegion \/ Nameless)' /\ next' > 1
    BY <1>3, <2>1 DEF EndsInRegion, Nameless, DB!Unnamed
  <2>3. Predecessors'
    <3>1. Predecessors /\ rows' = rows
      BY <1>2, <1>4, <1>9 DEF StoreInv, DB!Store, DB!tables
    <3> QED BY <3>1, PredecessorsStay
  <2> QED BY <1>5, <1>6, <1>7, <1>8, <1>9, <2>2, <2>3 DEF GoatInv
<1>10. CASE ~DB!Panics(e) /\ DB!storeIgnore(e)
  <2>1. StoreInv'
    BY <1>1, <1>2, <1>4, <1>10, StoreIdle DEF DB!Store
  <2> QED BY <1>5, <1>6, <1>7, <1>8, <1>10, <2>1 DEF GoatInv
<1>11. CASE ~DB!Panics(e) /\ ~DB!storeIgnore(e)
  <2>1. StoreInv'
    BY <1>1, <1>2, <1>4, <1>11, StoreGrows DEF DB!Store
  <2> QED BY <1>5, <1>6, <1>7, <1>8, <1>11, <2>1 DEF GoatInv
<1> QED BY <1>9, <1>10, <1>11

LEMMA PastStays ==
    ASSUME next' = next, UNCHANGED <<trace, carried>>
    PROVE  /\ Past' = Past
           /\ \A g : (Known(g)' <=> Known(g)) /\ \A i : (BornAt(i, g)' <=> BornAt(i, g)) /\ (EndsAt(i, g)' <=> EndsAt(i, g))
           /\ \A i : Parsed(i)' = Parsed(i)
  BY DEF Past, Known, BornAt, EndsAt, Parsed, Args

LEMMA TreeStays ==
    ASSUME TreeInv, next' = next, UNCHANGED <<trace, carried>>,
           UNCHANGED <<gmap, edges, main, tracer, treePanic>>
    PROVE  TreeInv'
<1>1. ASSUME NEW g \in Tree!G PROVE Remembered(g, gmap[g])'
  <2>1. Remembered(g, gmap[g])
    BY <1>1 DEF TreeInv
  <2> QED BY <2>1, PastStays DEF Remembered, LastOf, Tree!None
<1>2. GInfo' = GInfo
  BY PastStays DEF GInfo, Tree!G, Tree!None
<1> QED BY <1>1, <1>2, PastStays DEF TreeInv, Tree!G, Tree!nil

LEMMA StoreStays ==
    ASSUME StoreInv, next' = next, UNCHANGED <<trace, carried>>,
           UNCHANGED <<rows, grtns, localClock, msgs, links>>
    PROVE  StoreInv'
<1>1. Selected'
  BY PastStays DEF StoreInv, Selected, Shows, DB!StoredAs, DB!storeIgnore, DB!Has, DB!GoatFns
<1>2. Listed'
  <2>1. {g \in Tree!G : Known(g)}' = {g \in Tree!G : Known(g)}
    BY PastStays DEF Tree!G
  <2>2. ASSUME NEW k \in DOMAIN grtns PROVE Tells(grtns[k])'
    BY <2>2, PastStays DEF StoreInv, Listed, Tells, Tree!G, DB!Root
  <2>3. Roster(grtns', {g \in Tree!G : Known(g)}')
    BY <2>1 DEF StoreInv, Listed
  <2> QED BY <2>2, <2>3 DEF Listed, Roster
<1> QED BY <1>1, <1>2, RowsStay DEF StoreInv, Tree!G

LEMMA GoatKept == GoatInv /\ [GoatNext]_gvars => GoatInv'
<1> SUFFICES ASSUME GoatInv, [GoatNext]_gvars PROVE GoatInv'
  OBVIOUS
<1>1. CASE Run
  <2>1. next = 0 /\ next' = 0 /\ UNCHANGED tree /\ UNCHANGED store /\ Traced
    BY <1>1 DEF Run
  <2>2. ~storePanic /\ ~storePanic'
    BY <2>1 DEF GoatInv, store
  <2>3. ProgramInv' /\ TreeInv' /\ StoreInv'
    BY <2>1, <2>2, ProgramKept, TreeBare, StoreBare DEF GoatInv
  <2>4. Reading'
    <3>1. Len(trace') \in Nat
      BY <2>3, Positions DEF ProgramInv, LinkInv, Inv, PostTypeOK
    <3> QED BY <2>1, <3>1 DEF Reading
  <2> QED BY <2>2, <2>3, <2>4 DEF GoatInv
<1>2. CASE Ends
  <2>1. next = 0 /\ next' = 1 /\ UNCHANGED tree /\ UNCHANGED store /\ UNCHANGED program /\ Begun
    BY <1>2 DEF Ends
  <2>2. ~storePanic /\ ~storePanic'
    BY <2>1 DEF GoatInv, store
  <2>3. ProgramInv' /\ TreeInv' /\ StoreInv'
    BY <2>1, <2>2, ProgramStays, TreeBare, StoreBare DEF GoatInv
  <2>4. Reading'
    <3>1. Len(trace) \in Nat /\ trace' = trace
      BY <2>1, Positions DEF GoatInv, program, post
    <3> QED BY <2>1, <3>1 DEF Reading, Begun
  <2> QED BY <2>2, <2>3, <2>4 DEF GoatInv
<1>3. CASE Analyse
  BY <1>3, AnalyseKept
<1>4. CASE UNCHANGED gvars
  <2>1. /\ UNCHANGED program /\ next' = next /\ UNCHANGED <<trace, carried>>
        /\ UNCHANGED <<gmap, edges, main, tracer, treePanic>>
        /\ UNCHANGED <<rows, grtns, localClock, msgs, links, storePanic>>
    BY <1>4 DEF gvars, program, post, tree, store
  <2>2. ProgramInv' /\ Reading'
    BY <2>1, ProgramStays DEF GoatInv, Reading, Begun
  <2>3. TreeInv'
    BY <2>1, TreeStays DEF GoatInv
  <2>4. ~storePanic => StoreInv'
    BY <2>1, StoreStays DEF GoatInv
  <2>5. (EndsInRegion' <=> EndsInRegion) /\ (Nameless' <=> Nameless)
    BY <2>1 DEF EndsInRegion, Nameless, DB!Unnamed
  <2>6. Predecessors => Predecessors'
    BY <2>1, PredecessorsStay
  <2> QED BY <2>1, <2>2, <2>3, <2>4, <2>5, <2>6 DEF GoatInv
<1> QED BY <1>1, <1>2, <1>3, <1>4 DEF GoatNext, Reported

\* The analyses remember what happened, whatever program is traced.
THEOREM GoatInductive == GoatSpec => []GoatInv
<1>1. GoatInit => GoatInv
  BY GoatStarts
<1>2. GoatInv /\ [GoatNext]_gvars => GoatInv'
  BY GoatKept
<1> QED BY <1>1, <1>2, PTL DEF GoatSpec

\* No order of events the runtime can write makes the tree panic (ginfo.go:118,
\* 155, 158, 176); the database panics only at a goroutine that ends inside a
\* region or at an event without a name (store.go:220, util.go:35).
THEOREM TracesAreAnalysed == GoatSpec => []NoPanic
<1>1. GoatInv => NoPanic
  BY DEF GoatInv, TreeInv, NoPanic
<1> QED BY <1>1, GoatInductive, PTL

\* Who precedes whom in the tables is who linked there, or sent what was
\* received: one row each, and an earlier one (store.go:230).
THEOREM PredecessorsAreUnique == GoatSpec => []Predecessors
<1>1. GoatInv => Predecessors
  BY DEF GoatInv, StoreInv
<1> QED BY <1>1, GoatInductive, PTL
-----------------------------------------------------------------------------
(***************************************************************************)
(* The whole trace is analysed                                             *)
(***************************************************************************)
\* What is known then; Born(g) is short for the creations of all the trace.
Born(g) == \E i \in DOMAIN trace : BornAt(i, g)

Done ==
    /\ ProgramInv /\ TreeInv /\ StoreInv
    /\ Past = DOMAIN trace /\ DOMAIN trace = 1..Len(trace) /\ Len(trace) \in Nat /\ Len(trace) >= 4
    /\ main = Main /\ tracer = Tracer
    /\ \A g : Known(g) <=> g = NoG \/ Born(g)

LEMMA AtEnd ==
    ASSUME GoatInv, Analysed
    PROVE  Done
<1>1. ProgramInv /\ TreeInv /\ StoreInv /\ next > Len(trace) /\ next \in Nat /\ next <= Len(trace) + 1
      /\ (next > 0 => Begun)
  BY DEF GoatInv, Analysed, Panicked, Reading
<1>2. Len(trace) \in Nat /\ DOMAIN trace = 1..Len(trace)
  BY <1>1, Positions
<1>3. next = Len(trace) + 1 /\ Len(trace) >= 4
  <2>1. PICK l \in Nat : l = Len(trace)
    BY <1>2
  <2>2. next = l + 1
    BY <1>1, <2>1
  <2> QED BY <1>1, <2>1, <2>2 DEF Begun
<1>4. Past = DOMAIN trace
  <2>1. PICK l \in Nat : l = Len(trace)
    BY <1>2
  <2>2. 1..((l + 1) - 1) = 1..l
    BY <2>1
  <2> QED BY <1>2, <1>3, <2>1, <2>2 DEF Past
<1>5. next > 3 /\ next > 1
  BY <1>2, <1>3
<1>6. \A g : Known(g) <=> g = NoG \/ Born(g)
  BY <1>4, <1>5 DEF Known, Born
<1> QED BY <1>1, <1>2, <1>3, <1>4, <1>5, <1>6 DEF Done, TreeInv

\* Who is created where, and what its creation shows.
LEMMA Births ==
    ASSUME Done, NEW i \in DOMAIN trace, NEW g, BornAt(i, g)
    PROVE  /\ g \in Goroutine /\ g # NoG /\ trace[i].g \in G
           /\ IF g = Main THEN i = 1 /\ carried[i].stk = InSnapshot
              ELSE IF g = Tracer THEN i = 3 /\ carried[i].stk = InStart /\ trace[i].g = Main
              ELSE /\ g \in Program /\ i > 3
                   /\ carried[i].stk \in {<<"main.main">>, <<"main.f">>}
                   /\ trace[i].g \in Goroutine \ {Tracer, Watcher}
<1>1. /\ ProgramInv /\ Prologue /\ Lives /\ CreateFits /\ DOMAIN trace = 1..Len(trace) /\ Len(trace) \in Nat
      /\ Len(trace) >= 4 /\ i \in Nat \ {0} /\ trace[i].g \in G
  BY Positions DEF Done, ProgramInv, LinkInv, Holders
<1>2. g \in Goroutine /\ g # NoG
  BY <1>1, NoGApart DEF Lives, BornAt
<1>3. \A j \in DOMAIN trace : BornAt(j, g) => j = i
  BY <1>1 DEF CreateFits, BornAt
<1>4. 1 \in DOMAIN trace /\ 3 \in DOMAIN trace
  BY <1>1
<1>5. CASE g = Main
  <2>1. BornAt(1, Main) /\ carried[1].stk = InSnapshot
    BY <1>1, <1>4 DEF Prologue
  <2>2. i = 1
    BY <1>3, <1>4, <1>5, <2>1
  <2> QED BY <1>1, <1>2, <1>5, <2>1, <2>2
<1>6. CASE g = Tracer
  <2>1. BornAt(3, Tracer) /\ carried[3].stk = InStart /\ trace[3].g = Main
    BY <1>1, <1>4 DEF Prologue
  <2>2. i = 3
    BY <1>3, <1>4, <1>6, <2>1
  <2> QED BY <1>1, <1>2, <1>6, <2>1, <2>2, Apart
<1>7. CASE g \notin {Main, Tracer}
  <2>1. i # 1 /\ i # 2 /\ i # 3
    BY <1>1, <1>4, <1>7 DEF Prologue, BornAt
  <2>2. i > 3
    BY <1>1, <2>1
  <2>3. trace[i].g \in Goroutine \ {Tracer, Watcher} /\ carried[i].stk = Code(trace[i].g)
    BY <1>1, <2>2 DEF Prologue, BornAt
  <2>4. carried[i].stk \in {<<"main.main">>, <<"main.f">>}
    BY <1>1, <2>3, Apart, Codes
  <2> QED BY <1>1, <1>2, <1>7, <2>2, <2>3, <2>4 DEF Program
<1> QED BY <1>5, <1>6, <1>7

LEMMA Showing ==
    /\ ~Tree!Has(<<"main.main">>, Tree!GoatStart) /\ ~Tree!Has(<<"main.f">>, Tree!GoatStart)
    /\ Tree!Has(InSnapshot, Tree!GoatStart) /\ Tree!Has(InStart, Tree!GoatStart)
    /\ InSnapshot # <<>> /\ InStart # <<>> /\ <<"main.main">> # <<>> /\ <<"main.f">> # <<>>
<1>1. PICK s, t, u, v : /\ s = InSnapshot /\ t = InStart /\ u = <<"main.main">> /\ v = <<"main.f">>
  OBVIOUS
<1>2. s = <<"goat.Start", "main.main">> /\ t = <<"runtime/trace.Start", "goat.Start", "main.main">>
  BY <1>1, Starting
<1>3. 1 \in DOMAIN s /\ s[1] = "goat.Start" /\ 2 \in DOMAIN t /\ t[2] = "goat.Start"
  BY <1>2
<1>4. DOMAIN u = {1} /\ u[1] = "main.main" /\ DOMAIN v = {1} /\ v[1] = "main.f"
  BY <1>1
<1>5. s # <<>> /\ t # <<>> /\ u # <<>> /\ v # <<>>
  BY <1>3, <1>4
<1>6. "main.main" # "goat.Start" /\ "main.f" # "goat.Start"
  OBVIOUS
<1> QED BY <1>1, <1>3, <1>4, <1>5, <1>6 DEF Tree!Has, Tree!GoatStart

\* The application is what the program created.
LEMMA AppIs ==
    ASSUME Done
    PROVE  Tree!App = {g \in Program : Born(g)}
<1>1. Tree!G = G /\ \A g \in G : Remembered(g, gmap[g])
  BY DEF Done, TreeInv, Tree!G, G
<1>2. ASSUME NEW g \in G
      PROVE  /\ gmap[g].known <=> g = NoG \/ Born(g)
             /\ ~Born(g) => gmap[g].create = <<>>
             /\ \A i \in DOMAIN trace : BornAt(i, g) => gmap[g].create = carried[i].stk
  BY <1>1, <1>2 DEF Done, Remembered, Born
<1>3. ASSUME NEW g \in G, Born(g)
      PROVE  /\ g \in Goroutine /\ gmap[g].create # <<>>
             /\ Tree!Has(gmap[g].create, Tree!GoatStart) <=> g \in {Main, Tracer}
  <2>1. PICK i \in DOMAIN trace : BornAt(i, g)
    BY <1>3 DEF Born
  <2>2. PICK s : s = gmap[g].create
    OBVIOUS
  <2>3. s = carried[i].stk
    BY <1>2, <2>1, <2>2
  <2>4. /\ g \in Goroutine
        /\ g = Main => s = InSnapshot
        /\ g = Tracer => s = InStart
        /\ g \notin {Main, Tracer} => s \in {<<"main.main">>, <<"main.f">>}
    BY <2>1, <2>3, Births, Apart
  <2> QED BY <2>2, <2>4, Showing
<1>4. \A g \in G : g \in Tree!App <=> Born(g) /\ g \notin {Main, Tracer}
  BY <1>1, <1>2, <1>3 DEF Tree!App
<1>5. \A g \in Program : g \in G
  BY DEF Program, G
<1>6. \A g \in Tree!App : g \in G
  BY <1>1 DEF Tree!App
<1>7. \A g \in G : Born(g) => g \in Goroutine
  BY <1>3
<1> QED BY <1>4, <1>5, <1>6, <1>7 DEF Program
-----------------------------------------------------------------------------
(***************************************************************************)
(* The verdicts of the tree                                                *)
(***************************************************************************)
\* The last event of a goroutine, at the end.
LastAt(i, g) ==
    /\ i \in DOMAIN trace /\ trace[i].g = g
    /\ \A j \in DOMAIN trace : trace[j].g = g => j <= i

LEMMA LastIs ==
    ASSUME Done, NEW g \in G
    PROVE  \/ gmap[g].last = Tree!None /\ \A i \in DOMAIN trace : trace[i].g = g => i = 1
           \/ \E i : LastAt(i, g) /\ gmap[g].last = Parsed(i)
<1>1. Remembered(g, gmap[g]) /\ Past = DOMAIN trace
  BY DEF Done, TreeInv, Tree!G, G
<1> QED BY <1>1 DEF Remembered, LastOf, LastAt

\* An event is not none.
LEMMA SomeEvent ==
    ASSUME Done, NEW i \in DOMAIN trace
    PROVE  /\ Parsed(i) # Tree!None /\ Parsed(i).typ = trace[i].typ /\ Parsed(i).stk = carried[i].stk
<1>1. trace[i].typ \in Happening /\ Parsed(i).typ = trace[i].typ /\ Parsed(i).stk = carried[i].stk
  BY DEF Done, ProgramInv, Parsed
<1>2. "None" \notin Happening
  <2>1. "None" \notin EventTypes
    BY DEF EventTypes, LeaveTypes, ParkTypes, YieldTypes, EndTypes, StartTypes, SnapTypes, LocalTypes,
           PlainTypes, GoatTypes
  <2> QED BY <2>1, HappeningTypes
<1>3. Tree!None.typ = "None"
  BY DEF Tree!None
<1> QED BY <1>1, <1>2, <1>3

\* Who ended did so last.
LEMMA LastEnds ==
    ASSUME Done, NEW g \in G
    PROVE  gmap[g].last.typ = "GoEnd" <=> \E i \in DOMAIN trace : EndsAt(i, g)
<1>1. CASE gmap[g].last = Tree!None /\ \A i \in DOMAIN trace : trace[i].g = g => i = 1
  <2>1. gmap[g].last.typ # "GoEnd"
    BY <1>1 DEF Tree!None
  <2>2. ~EndsAt(1, g)
    BY DEF Done, ProgramInv, Prologue, BornAt, EndsAt
  <2> QED BY <1>1, <2>1, <2>2 DEF EndsAt
<1>2. CASE \E i : LastAt(i, g) /\ gmap[g].last = Parsed(i)
  <2>1. PICK i : LastAt(i, g) /\ gmap[g].last = Parsed(i)
    BY <1>2
  <2>2. i \in DOMAIN trace /\ gmap[g].last.typ = trace[i].typ /\ trace[i].g = g
    BY <2>1, SomeEvent DEF LastAt
  <2>3. ASSUME NEW j \in DOMAIN trace, EndsAt(j, g) PROVE j = i
    <3>1. g \in Goroutine
      <4>1. g = NoG => j = 1 \/ trace[j].typ = "GoUnblock"
        BY <2>3 DEF Done, ProgramInv, Lives, EndsAt
      <4>2. ~EndsAt(1, g)
        BY DEF Done, ProgramInv, Prologue, BornAt, EndsAt
      <4> QED BY <2>3, <4>1, <4>2 DEF G, EndsAt
    <3>2. ~(i > j)
      BY <2>2, <2>3, <3>1 DEF Done, ProgramInv, Deaths
    <3>3. j <= i
      BY <2>1, <2>3 DEF LastAt, EndsAt
    <3> QED BY <2>2, <3>2, <3>3 DEF Done
  <2> QED BY <2>2, <2>3 DEF EndsAt
<1> QED BY <1>1, <1>2, LastIs

\* What main did last.
LEMMA MainsLast ==
    ASSUME Done
    PROVE  \E i : /\ LastAt(i, Main) /\ gmap[Main].last = Parsed(i) /\ Main \in G
                  /\ Tree!GlobalDL <=> ~StopsAt(i)
                  /\ trace[i].typ = "GoSched" => carried[i].stk # <<>>
                  /\ StopsAt(i) => trace[i].typ = "GoSched"
<1>1. Main \in G /\ main = Main
  BY Apart DEF Done, G
<1>2. 2 \in DOMAIN trace /\ trace[2].g = Main
  BY DEF Done, ProgramInv, Prologue
<1>3. PICK i : LastAt(i, Main) /\ gmap[Main].last = Parsed(i)
  BY <1>1, <1>2, LastIs
<1>4. PICK last : last = gmap[Main].last
  OBVIOUS
<1>5. i \in DOMAIN trace /\ last # Tree!None /\ last.typ = trace[i].typ /\ last.stk = carried[i].stk
  BY <1>3, <1>4, SomeEvent DEF LastAt
<1>6. /\ trace[i].typ = "GoSched" => carried[i].stk # <<>>
      /\ StopsAt(i) => trace[i].typ = "GoSched"
  BY <1>5 DEF Done, ProgramInv, Stacks
<1>7. Tree!Stopped(last) <=> StopsAt(i)
  BY <1>5, <1>6 DEF Tree!Stopped, StopsAt
<1>8. Tree!GlobalDL <=> ~StopsAt(i)
  BY <1>1, <1>4, <1>5, <1>7 DEF Tree!GlobalDL
<1> QED BY <1>1, <1>3, <1>6, <1>8

LEMMA StoppedHow ==
    ASSUME Done
    PROVE  Stopped <=> StopsAt(Len(trace))
<1>1. trace # <<>> /\ Last(carried) = carried[Len(trace)]
  <2>1. trace # <<>>
    BY DEF Done
  <2>2. Last(carried) = carried[Len(carried)] /\ Len(carried) = Len(trace)
    BY DEF Last, Done, ProgramInv
  <2> QED BY <2>1, <2>2
<1> QED BY <1>1 DEF Stopped, StopsAt

LEMMA Verdict ==
    ASSUME Done
    PROVE  Tree!GlobalDL <=> ~(Stopped /\ trace[Len(trace)].g = Main)
<1>1. PICK i : LastAt(i, Main) /\ (Tree!GlobalDL <=> ~StopsAt(i))
  BY MainsLast
<1>2. PICK n : n = Len(trace)
  OBVIOUS
<1>3. DOMAIN trace = 1..n /\ n \in Nat /\ n >= 4 /\ (Stopped <=> StopsAt(n))
  BY <1>2, StoppedHow DEF Done
<1>4. StopsAt(i) => i = n
  BY <1>1, <1>2 DEF Done, ProgramInv, Stacks, LastAt
<1>5. trace[n].g = Main => i = n
  BY <1>1, <1>3 DEF LastAt
<1>6. trace[i].g = Main
  BY <1>1 DEF LastAt
<1> QED BY <1>1, <1>2, <1>3, <1>4, <1>5, <1>6

LEMMA Leaks ==
    ASSUME Done
    PROVE  Tree!LeakedApp = {g \in Program : gs[g].known /\ gs[g].state # "gDead"}
<1>1. Lives /\ Deaths /\ CreateFits
  BY DEF Done, ProgramInv, LinkInv, Holders
<1>2. ASSUME NEW g \in Program
      PROVE  /\ Born(g) <=> gs[g].known
             /\ Born(g) => (gmap[g].last.typ # "GoEnd" <=> gs[g].state # "gDead")
  <2>1. g \in Goroutine /\ g \in G
    BY DEF Program, G
  <2>2. Born(g) <=> gs[g].known
    BY <1>1, <2>1 DEF Lives, CreateFits, Born, BornAt
  <2>3. gmap[g].last.typ = "GoEnd" <=> \E i \in DOMAIN trace : EndsAt(i, g)
    BY <2>1, LastEnds
  <2>4. ASSUME Born(g) PROVE (\E i \in DOMAIN trace : EndsAt(i, g)) <=> gs[g].state = "gDead"
    BY <1>1, <2>1, <2>2, <2>4 DEF Deaths
  <2> QED BY <2>2, <2>3, <2>4
<1>3. Tree!LeakedApp = {g \in {h \in Program : Born(h)} : gmap[g].last.typ # "GoEnd"}
  BY AppIs DEF Tree!LeakedApp
<1> QED BY <1>2, <1>3

\* Main is in a global deadlock unless it was main that stopped the trace
\* (deadlock_checker.go:55, 62).
THEOREM VerdictIsTrue == GoatSpec => []GlobalVerdict
<1>1. GoatInv => GlobalVerdict
  BY AtEnd, Verdict DEF GlobalVerdict
<1> QED BY <1>1, GoatInductive, PTL

\* The leaked goroutines are those of the program that still live
\* (deadlock_checker.go:70).
THEOREM LeaksAreAlive == GoatSpec => []LeaksLive
<1>1. GoatInv => LeaksLive
  BY AtEnd, Leaks DEF LeaksLive
<1> QED BY <1>1, GoatInductive, PTL
-----------------------------------------------------------------------------
(***************************************************************************)
(* The tables tell what the tree does                                      *)
(***************************************************************************)
LEMMA Rosters ==
    ASSUME Done
    PROVE  /\ \A l \in DOMAIN grtns : Tells(grtns[l])
           /\ \A k, l \in DOMAIN grtns : grtns[k].gid = grtns[l].gid => k = l
           /\ \A g \in G : g = NoG \/ Born(g) <=> \E l \in DOMAIN grtns : grtns[l].gid = g
           /\ Cardinality({g \in G : g = NoG \/ Born(g)}) = Len(grtns)
           /\ DOMAIN grtns = 1..Len(grtns)
<1>1. Listed /\ Tree!G = G
  BY DEF Done, StoreInv, Tree!G, G
<1>2. PICK K : K = {g \in Tree!G : Known(g)}
  OBVIOUS
<1>3. Roster(grtns, K)
  BY <1>1, <1>2 DEF Listed
<1>4. K = {g \in G : g = NoG \/ Born(g)}
  BY <1>1, <1>2 DEF Done
<1>5. DOMAIN grtns = 1..Len(grtns)
  BY <1>3 DEF Roster
<1>6. \A g \in G : g = NoG \/ Born(g) <=> \E l \in DOMAIN grtns : grtns[l].gid = g
  <2>1. K = {grtns[l].gid : l \in DOMAIN grtns}
    BY <1>3 DEF Roster
  <2> QED BY <1>4, <2>1
<1> QED BY <1>1, <1>3, <1>4, <1>5, <1>6 DEF Listed, Roster

LEMMA Tables ==
    ASSUME Done
    PROVE  /\ Len(grtns) = Tree!DLReport.TotalG
           /\ \A k \in DOMAIN grtns :
                LET g == grtns[k].gid
                IN  /\ gmap[g].known
                    /\ IF grtns[k].parent = DB!Root THEN \A e \in edges : e[2] # g
                       ELSE <<grtns[k].parent, g>> \in edges
                    /\ grtns[k].ended # -1 <=> gmap[g].last.typ = "GoEnd"
<1>1. /\ Tree!G = G /\ Past = DOMAIN trace
      /\ \A g \in G : Remembered(g, gmap[g])
      /\ \A g : Known(g) <=> g = NoG \/ Born(g)
      /\ \A i \in DOMAIN trace : trace[i].typ = "GoCreate" => <<trace[i].g, trace[i].arg>> \in edges
      /\ \A e \in edges : \E i \in DOMAIN trace : trace[i].typ = "GoCreate" /\ e = <<trace[i].g, trace[i].arg>>
  BY DEF Done, TreeInv, Tree!G, G
<1>2. \A g \in G : gmap[g].known <=> g = NoG \/ Born(g)
  BY <1>1 DEF Remembered
<1>3. Len(grtns) = Tree!DLReport.TotalG
  <2>1. {g \in Tree!G : gmap[g].known} = {g \in G : g = NoG \/ Born(g)}
    BY <1>1, <1>2
  <2>2. Tree!Cardinality({g \in G : g = NoG \/ Born(g)}) = Len(grtns)
    BY Rosters DEF Tree!Cardinality, Cardinality
  <2> QED BY <2>1, <2>2 DEF Tree!DLReport
<1>4. ASSUME NEW k \in DOMAIN grtns, NEW g, g = grtns[k].gid
      PROVE  /\ gmap[g].known
             /\ IF grtns[k].parent = DB!Root THEN \A e \in edges : e[2] # g
                ELSE <<grtns[k].parent, g>> \in edges
             /\ grtns[k].ended # -1 <=> gmap[g].last.typ = "GoEnd"
  <2>1. PICK row : row = grtns[k] /\ Tells(row)
    BY Rosters
  <2>2. g \in G /\ g = row.gid
    BY <1>1, <1>4, <2>1 DEF Tells
  <2>3. gmap[g].known
    BY <1>2, <1>4, <2>2, Rosters
  <2>4. row.ended # -1 <=> gmap[g].last.typ = "GoEnd"
    BY <1>1, <2>1, <2>2, LastEnds DEF Tells
  <2>5. CASE g = NoG /\ row.parent = DB!Root
    <3>1. \A e \in edges : e[2] # g
      <4> SUFFICES ASSUME NEW d \in edges, d[2] = g PROVE FALSE
        OBVIOUS
      <4>1. PICK i \in DOMAIN trace : trace[i].typ = "GoCreate" /\ d = <<trace[i].g, trace[i].arg>>
        BY <1>1
      <4>2. trace[i].arg = NoG
        BY <2>5, <4>1
      <4>3. trace[i].arg \in Goroutine
        BY <4>1 DEF Done, ProgramInv, Lives
      <4> QED BY <4>2, <4>3, NoGApart
    <3> QED BY <2>1, <2>3, <2>4, <2>5, <3>1
  <2>6. CASE \E i \in DOMAIN trace : BornAt(i, g) /\ row.parent = trace[i].g
    <3>1. PICK i \in DOMAIN trace : BornAt(i, g) /\ row.parent = trace[i].g
      BY <2>6
    <3>2. trace[i].g \in G
      BY Positions DEF Done
    <3>3. row.parent # DB!Root
      BY <1>1, <3>1, <3>2, GoatAssumption
    <3>4. <<row.parent, g>> \in edges
      BY <1>1, <3>1 DEF BornAt
    <3> QED BY <2>1, <2>3, <2>4, <3>3, <3>4
  <2> QED BY <1>1, <2>1, <2>2, <2>5, <2>6 DEF Tells
<1> QED BY <1>3, <1>4

\* The table of goroutines is that of the tree (store.go:347, ginfo.go:118).
THEOREM TablesAreTheTree == GoatSpec => []TablesAgree
<1>1. GoatInv => TablesAgree
  <2> SUFFICES ASSUME GoatInv, Analysed
               PROVE  /\ Len(grtns) = Tree!DLReport.TotalG
                      /\ \A k \in DOMAIN grtns :
                           LET g == grtns[k].gid
                           IN  /\ gmap[g].known
                               /\ IF grtns[k].parent = DB!Root THEN \A e \in edges : e[2] # g
                                  ELSE <<grtns[k].parent, g>> \in edges
                               /\ grtns[k].ended # -1 <=> gmap[g].last.typ = "GoEnd"
    BY DEF TablesAgree
  <2>1. Done
    BY AtEnd
  <2> QED BY <2>1, Tables
<1> QED BY <1>1, GoatInductive, PTL
-----------------------------------------------------------------------------
(***************************************************************************)
(* The verdicts of the database                                            *)
(***************************************************************************)
ReaderFns == {"runtime/trace.Start", "runtime/trace.Start.func1"}

LEMMA ShowingReader ==
    /\ ~DB!Has(<<"main.main">>, ReaderFns) /\ ~DB!Has(<<"main.f">>, ReaderFns)
    /\ ~DB!Has(InSnapshot, ReaderFns) /\ DB!Has(InStart, ReaderFns)
    /\ \A s : DB!Has(s, {"goat.Start"}) <=> Tree!Has(s, Tree!GoatStart)
<1>1. PICK s, t, u, v : /\ s = InSnapshot /\ t = InStart /\ u = <<"main.main">> /\ v = <<"main.f">>
  OBVIOUS
<1>2. s = <<"goat.Start", "main.main">> /\ t = <<"runtime/trace.Start", "goat.Start", "main.main">>
  BY <1>1, Starting
<1>3. DOMAIN s = 1..2 /\ s[1] = "goat.Start" /\ s[2] = "main.main" /\ 1 \in DOMAIN t /\ t[1] = "runtime/trace.Start"
  BY <1>2
<1>4. DOMAIN u = {1} /\ u[1] = "main.main" /\ DOMAIN v = {1} /\ v[1] = "main.f"
  BY <1>1
<1>5. {"main.main", "main.f", "goat.Start"} \cap ReaderFns = {} /\ "runtime/trace.Start" \in ReaderFns
  BY DEF ReaderFns
<1>6. ~DB!Has(s, ReaderFns)
  <2>1. \A i \in DOMAIN s : i = 1 \/ i = 2
    BY <1>3
  <2> QED BY <1>3, <1>5, <2>1 DEF DB!Has
<1>7. DB!Has(t, ReaderFns) /\ ~DB!Has(u, ReaderFns) /\ ~DB!Has(v, ReaderFns)
  BY <1>3, <1>4, <1>5 DEF DB!Has
<1>8. \A x : DB!Has(x, {"goat.Start"}) <=> Tree!Has(x, Tree!GoatStart)
  BY DEF DB!Has, Tree!Has, Tree!GoatStart
<1> QED BY <1>1, <1>6, <1>7, <1>8

\* The rows with a creation stack: of whom, and what they show.
LEMMA CreatedRows ==
    ASSUME Done
    PROVE  /\ \A l \in DOMAIN grtns : l \in DB!Created <=> grtns[l].gid # NoG
           /\ \A l \in DB!Created :
                /\ l \in DOMAIN grtns /\ grtns[l].gid \in G /\ Born(grtns[l].gid)
                /\ DB!Has(grtns[l].create, ReaderFns) <=> grtns[l].gid = Tracer
                /\ grtns[l].gid = Tracer => grtns[l].parent = Main
                /\ DB!Has(grtns[l].create, {"goat.Start"}) <=> grtns[l].gid \in {Main, Tracer}
<1> SUFFICES ASSUME NEW l \in DOMAIN grtns
    PROVE  /\ l \in DB!Created <=> grtns[l].gid # NoG
           /\ l \in DB!Created =>
                /\ grtns[l].gid \in G /\ Born(grtns[l].gid)
                /\ DB!Has(grtns[l].create, ReaderFns) <=> grtns[l].gid = Tracer
                /\ grtns[l].gid = Tracer => grtns[l].parent = Main
                /\ DB!Has(grtns[l].create, {"goat.Start"}) <=> grtns[l].gid \in {Main, Tracer}
  BY DEF DB!Created
<1>1. PICK row, g : row = grtns[l] /\ g = row.gid /\ Tells(row)
  BY Rosters
<1>2. CASE g = NoG
  BY <1>1, <1>2 DEF DB!Created
<1>3. CASE g # NoG
  <2>1. PICK i \in DOMAIN trace : BornAt(i, g) /\ row.parent = trace[i].g /\ row.create = carried[i].stk
    BY <1>1, <1>3 DEF Tells, Done
  <2>2. PICK s : s = row.create
    OBVIOUS
  <2>3. /\ g \in Goroutine
        /\ g = Main => s = InSnapshot
        /\ g = Tracer => s = InStart /\ row.parent = Main
        /\ g \notin {Main, Tracer} => s \in {<<"main.main">>, <<"main.f">>}
    BY <2>1, <2>2, Births, Apart
  <2>4. s # <<>>
    BY <2>3, Showing
  <2>5. DB!Has(s, ReaderFns) <=> g = Tracer
    BY <2>3, ShowingReader, Apart
  <2>6. DB!Has(s, {"goat.Start"}) <=> g \in {Main, Tracer}
    BY <2>3, Showing, ShowingReader
  <2>7. g \in G /\ Born(g)
    BY <2>1, <2>3 DEF G, Born
  <2>8. l \in DB!Created
    BY <1>1, <1>3, <2>2, <2>4 DEF DB!Created
  <2> QED BY <1>1, <1>3, <2>2, <2>3, <2>5, <2>6, <2>7, <2>8
<1> QED BY <1>2, <1>3

LEMMA WhoIsWho ==
    ASSUME Done
    PROVE  DB!main = Main /\ DB!tracer = Tracer /\ DB!app = {g \in Program : Born(g)}
<1>1. /\ \A l \in DOMAIN grtns : l \in DB!Created <=> grtns[l].gid # NoG
      /\ \A l \in DB!Created :
           /\ l \in DOMAIN grtns /\ grtns[l].gid \in G /\ Born(grtns[l].gid)
           /\ DB!Has(grtns[l].create, ReaderFns) <=> grtns[l].gid = Tracer
           /\ grtns[l].gid = Tracer => grtns[l].parent = Main
           /\ DB!Has(grtns[l].create, {"goat.Start"}) <=> grtns[l].gid \in {Main, Tracer}
  BY CreatedRows
<1>2. /\ Tracer \in G /\ Tracer # NoG /\ Born(Tracer)
  <2>1. 3 \in DOMAIN trace /\ BornAt(3, Tracer)
    BY DEF Done, ProgramInv, Prologue
  <2> QED BY <2>1, Apart DEF G, Born
<1>3. PICK t \in DOMAIN grtns : grtns[t].gid = Tracer
  BY <1>2, Rosters
<1>4. t \in Nat /\ \A l \in DOMAIN grtns : grtns[l].gid = Tracer => l = t
  BY <1>3, Rosters
<1>5. DB!IsTracer = {t}
  <2>1. DB!IsTracer = {l \in DB!Created : DB!Has(grtns[l].create, ReaderFns)}
    BY DEF DB!IsTracer, ReaderFns
  <2> QED BY <1>1, <1>2, <1>3, <1>4, <2>1
<1>6. DB!First(DB!IsTracer) = t
  <2>1. \A k \in {t} : (\A l \in {t} : k <= l) => k = t
    OBVIOUS
  <2>2. \A l \in {t} : t <= l
    BY <1>4
  <2> QED BY <1>5, <2>1, <2>2 DEF DB!First
<1>7. DB!tracer = Tracer /\ DB!main = Main
  BY <1>1, <1>2, <1>3, <1>6 DEF DB!tracer, DB!main
<1>8. ASSUME NEW g PROVE g \in DB!app <=> g \in Program /\ Born(g)
  <2>1. g \in DB!app <=> \E l \in DB!Created : ~DB!Has(grtns[l].create, {"goat.Start"}) /\ g = grtns[l].gid
    BY DEF DB!app
  <2>2. ASSUME g \in DB!app PROVE g \in Program /\ Born(g)
    <3>1. PICK l \in DB!Created : ~DB!Has(grtns[l].create, {"goat.Start"}) /\ g = grtns[l].gid
      BY <2>1, <2>2
    <3>2. g # NoG /\ g \in G /\ Born(g) /\ g \notin {Main, Tracer}
      BY <1>1, <3>1
    <3> QED BY <3>2 DEF G, Program
  <2>3. ASSUME g \in Program, Born(g) PROVE g \in DB!app
    <3>1. g \in G /\ g # NoG /\ g \notin {Main, Tracer}
      BY <2>3, Apart DEF Program, G
    <3>2. PICK l \in DOMAIN grtns : grtns[l].gid = g
      BY <2>3, <3>1, Rosters
    <3> QED BY <1>1, <2>1, <3>1, <3>2
  <2> QED BY <2>2, <2>3
<1> QED BY <1>7, <1>8

LEMMA HasLeast ==
    ASSUME NEW S \in SUBSET Nat, S # {}
    PROVE  \E k \in S : \A j \in S : k <= j
<1>1. PICK k \in S : \A j \in S : ~(<<j, k>> \in OpToRel(<, Nat))
  BY NatLessThanWellFounded, WFMin
<1>2. \A j \in S : ~(j < k)
  BY <1>1 DEF OpToRel
<1> QED BY <1>2

LEMMA HasGreatest ==
    ASSUME NEW n \in Nat, NEW S \in SUBSET (1..n), S # {}
    PROVE  \E m \in S : \A j \in S : j <= m
<1> DEFINE T == {n - j : j \in S}
<1>1. T \in SUBSET Nat /\ T # {}
  <2>1. ASSUME NEW j \in S PROVE n - j \in Nat
    <3>1. j \in 1..n
      OBVIOUS
    <3> QED BY <3>1
  <2> QED BY <2>1
<1>2. PICK x \in T : \A y \in T : x <= y
  <2> HIDE DEF T
  <2> QED BY <1>1, HasLeast
<1>3. PICK m \in S : x = n - m
  BY <1>2
<1>4. ASSUME NEW j \in S PROVE j <= m
  <2>1. n - j \in T
    OBVIOUS
  <2>2. n - m <= n - j
    BY <1>2, <1>3, <2>1
  <2> QED BY <2>2
<1> QED BY <1>4

LEMMA Stock ==
    ASSUME Done
    PROVE  /\ DOMAIN rows = 1..Len(rows) /\ Len(rows) \in Nat
           /\ \A r \in DOMAIN rows :
                /\ rows[r].off \in DOMAIN trace /\ rows[r].off \in Nat
                /\ rows[r].g = trace[rows[r].off].g
                /\ rows[r].typ = DB!StoredAs(trace[rows[r].off].typ)
                /\ rows[r].stk = carried[rows[r].off].stk
           /\ \A r, s \in DOMAIN rows : r < s => rows[r].off < rows[s].off
           /\ \A i \in DOMAIN trace : ~DB!storeIgnore(Parsed(i)) => \E r \in DOMAIN rows : rows[r].off = i
<1>1. Selected /\ Sequences /\ Past = DOMAIN trace /\ DOMAIN trace = 1..Len(trace)
  BY DEF Done, StoreInv
<1>2. DOMAIN rows = 1..Len(rows) /\ Len(rows) \in Nat
  BY <1>1 DEF Sequences
<1> QED BY <1>1, <1>2 DEF Selected, Shows

\* What is stored of an event, whatever it is about.
LEMMA AlwaysStored ==
    ASSUME Done, NEW i \in DOMAIN trace,
           \/ trace[i].typ \in {"GoCreate", "GoStart", "GoSched", "GoEnd"}
           \/ trace[i].g = Main
    PROVE  \E r \in DOMAIN rows : rows[r].off = i
<1>1. Parsed(i).typ = trace[i].typ /\ Parsed(i).stk = carried[i].stk /\ DOMAIN trace = 1..Len(trace)
  BY DEF Parsed, Done
<1>2. CASE trace[i].typ \in {"GoCreate", "GoStart", "GoSched"}
  <2>1. ~DB!storeIgnore(Parsed(i))
    BY <1>1, <1>2, StoredTypes DEF DB!storeIgnore
  <2> QED BY <2>1, Stock
<1>3. CASE trace[i].typ = "GoEnd"
  <2>1. carried[i].stk = <<>>
    BY <1>3 DEF Done, ProgramInv, Stacks
  <2>2. ~DB!storeIgnore(Parsed(i))
    BY <1>1, <2>1 DEF DB!storeIgnore, DB!Has
  <2> QED BY <2>2, Stock
<1>4. CASE trace[i].typ \notin {"GoCreate", "GoStart", "GoSched"} /\ trace[i].g = Main
  <2>1. \A k \in DOMAIN carried[i].stk : carried[i].stk[k] \notin DB!GoatFns
    BY <1>4, Apart DEF Done, ProgramInv, Stacks, DB!GoatFns
  <2>2. ~DB!storeIgnore(Parsed(i))
    BY <1>1, <2>1 DEF DB!storeIgnore, DB!Has
  <2> QED BY <2>2, Stock
<1> QED BY <1>2, <1>3, <1>4

LEMMA LastRow ==
    ASSUME Done, NEW g, NEW i, LastAt(i, g), NEW r \in DOMAIN rows, rows[r].off = i
    PROVE  DB!LastOf(g) = {r}
<1>1. rows[r].g = g /\ r \in Nat /\ i \in Nat
  BY Stock DEF LastAt
<1>2. ASSUME NEW l \in DOMAIN rows, rows[l].g = g PROVE l <= r
  <2>1. rows[l].off <= i
    BY <1>2, Stock DEF LastAt
  <2>2. l \in Nat /\ rows[l].off \in Nat /\ (r < l => rows[r].off < rows[l].off)
    BY Stock
  <2>3. ~(r < l)
    BY <1>1, <2>1, <2>2
  <2> QED BY <1>1, <2>2, <2>3
<1>3. \A k \in DB!LastOf(g) : k = r
  <2> SUFFICES ASSUME NEW k \in DB!LastOf(g) PROVE k = r
    OBVIOUS
  <2>1. k \in DOMAIN rows /\ rows[k].g = g /\ r <= k
    BY <1>1 DEF DB!LastOf
  <2>2. k <= r /\ k \in Nat
    BY <1>2, <2>1, Stock
  <2> QED BY <1>1, <2>1, <2>2
<1>4. r \in DB!LastOf(g)
  BY <1>1, <1>2 DEF DB!LastOf
<1> QED BY <1>3, <1>4

\* Both checkers look at main's last event.
LEMMA SameVerdict ==
    ASSUME Done
    PROVE  DB!Checker.GlobalDL = Tree!DLReport.GlobalDL
<1>1. PICK i : /\ LastAt(i, Main)
               /\ Tree!GlobalDL <=> ~StopsAt(i)
               /\ trace[i].typ = "GoSched" => carried[i].stk # <<>>
               /\ StopsAt(i) => trace[i].typ = "GoSched"
  BY MainsLast
<1>2. i \in DOMAIN trace /\ trace[i].g = Main
  BY <1>1 DEF LastAt
<1>3. PICK r \in DOMAIN rows : rows[r].off = i
  BY <1>2, AlwaysStored
<1>4. DB!LastOf(DB!main) = {r}
  BY <1>1, <1>3, LastRow, WhoIsWho
<1>5. rows[r].typ = "GoSched" <=> trace[i].typ = "GoSched"
  BY <1>3, Stock, StoredTypes
<1>6. rows[r].stk = carried[i].stk
  BY <1>3, Stock
<1>7. DB!isGlobalDL <=> ~StopsAt(i)
  BY <1>1, <1>4, <1>5, <1>6 DEF DB!isGlobalDL, StopsAt
<1>8. DB!isGlobalDL \in BOOLEAN /\ Tree!GlobalDL \in BOOLEAN
  BY DEF DB!isGlobalDL, Tree!GlobalDL
<1> QED BY <1>1, <1>7, <1>8 DEF DB!Checker, Tree!DLReport

\* The database suspects the leaked goroutines that ran.
LEMMA Suspects ==
    ASSUME Done
    PROVE  DB!suspicious = {g \in Tree!LeakedApp : gmap[g].last # Tree!None}
<1>1. DB!app = Tree!App /\ Tree!App = {g \in Program : Born(g)}
  BY WhoIsWho, AppIs
<1>2. ASSUME NEW g \in Program
      PROVE  (\E k \in DB!LastOf(g) : rows[k].typ # "GoEnd")
             <=> gmap[g].last.typ # "GoEnd" /\ gmap[g].last # Tree!None
  <2>1. g \in G /\ g # NoG
    BY Apart DEF Program, G
  <2>2. ASSUME NEW k \in DB!LastOf(g), rows[k].typ # "GoEnd"
        PROVE  gmap[g].last.typ # "GoEnd" /\ gmap[g].last # Tree!None
    <3>1. k \in DOMAIN rows /\ rows[k].g = g
      BY <2>2 DEF DB!LastOf
    <3>2. PICK j \in DOMAIN trace : j = rows[k].off /\ trace[j].g = g
      BY <3>1, Stock
    <3>3. j # 1
      BY <2>1, <3>2 DEF Done, ProgramInv, Prologue
    <3>4. PICK i : LastAt(i, g) /\ gmap[g].last = Parsed(i)
      BY <2>1, <3>2, <3>3, LastIs
    <3>5. i \in DOMAIN trace /\ gmap[g].last # Tree!None /\ gmap[g].last.typ = trace[i].typ
      BY <3>4, SomeEvent DEF LastAt
    <3>6. ASSUME trace[i].typ = "GoEnd" PROVE FALSE
      <4>1. PICK r \in DOMAIN rows : rows[r].off = i
        BY <3>5, <3>6, AlwaysStored
      <4>2. DB!LastOf(g) = {r}
        BY <3>4, <4>1, LastRow
      <4>3. rows[r].typ = "GoEnd"
        BY <3>6, <4>1, Stock, StoredTypes
      <4> QED BY <2>2, <4>2, <4>3
    <3> QED BY <3>5, <3>6
  <2>3. ASSUME gmap[g].last.typ # "GoEnd", gmap[g].last # Tree!None
        PROVE  \E k \in DB!LastOf(g) : rows[k].typ # "GoEnd"
    <3>1. PICK i : LastAt(i, g) /\ gmap[g].last = Parsed(i)
      BY <2>1, <2>3, LastIs
    <3>2. i \in DOMAIN trace /\ trace[i].g = g /\ DOMAIN trace = 1..Len(trace) /\ Len(trace) \in Nat
      BY <3>1 DEF LastAt, Done
    <3>3. PICK j \in 1..i : trace[j].typ = "GoStart" /\ trace[j].g = g
      BY <2>1, <3>2 DEF Done, ProgramInv, Lives
    <3>4. j \in DOMAIN trace
      BY <3>2
    <3>5. PICK r \in DOMAIN rows : rows[r].off = j
      BY <3>3, <3>4, AlwaysStored
    <3> DEFINE Own == {l \in DOMAIN rows : rows[l].g = g}
    <3>6. r \in Own
      BY <3>3, <3>5, Stock
    <3>7. PICK k \in Own : \A l \in Own : l <= k
      <4>1. Own \in SUBSET (1..Len(rows)) /\ Len(rows) \in Nat /\ Own # {}
        BY <3>6, Stock
      <4> HIDE DEF Own
      <4> QED BY <4>1, HasGreatest
    <3>8. k \in DB!LastOf(g)
      BY <3>7 DEF DB!LastOf
    <3>9. ASSUME rows[k].typ = "GoEnd" PROVE FALSE
      <4>1. rows[k].off \in DOMAIN trace /\ EndsAt(rows[k].off, g)
        BY <3>7, <3>9, Stock, StoredTypes DEF EndsAt
      <4> QED BY <2>1, <2>3, <4>1, LastEnds
    <3> QED BY <3>8, <3>9
  <2> QED BY <2>2, <2>3
<1>3. DB!suspicious = {g \in {h \in Program : Born(h)} : \E k \in DB!LastOf(g) : rows[k].typ # "GoEnd"}
  BY <1>1 DEF DB!suspicious
<1>4. Tree!LeakedApp = {g \in {h \in Program : Born(h)} : gmap[g].last.typ # "GoEnd"}
  BY <1>1 DEF Tree!LeakedApp
<1> QED BY <1>2, <1>3, <1>4

\* The database, which leaves out what goat does itself, comes to the verdicts
\* of the tree (checker.go:96, 128; deadlock_checker.go:55, 70).
THEOREM VerdictsAreTheSame == GoatSpec => []VerdictsAgree
<1>1. GoatInv => VerdictsAgree
  <2> SUFFICES ASSUME GoatInv, Analysed
               PROVE  /\ DB!main = main /\ DB!tracer = tracer /\ DB!app = Tree!App
                      /\ DB!Checker.GlobalDL = Tree!DLReport.GlobalDL
                      /\ DB!suspicious = {g \in Tree!LeakedApp : gmap[g].last # Tree!None}
    BY DEF VerdictsAgree
  <2>1. Done
    BY AtEnd
  <2>2. main = Main /\ tracer = Tracer
    BY <2>1 DEF Done
  <2> QED BY <2>1, <2>2, WhoIsWho, AppIs, SameVerdict, Suspects
<1> QED BY <1>1, GoatInductive, PTL
-----------------------------------------------------------------------------
(***************************************************************************)
(* The tree below main                                                     *)
(***************************************************************************)
Step(S) == S \cup UNION {Tree!Children(g) : g \in S}
Layers(V, n) == V = [d \in 0..n |-> IF d = 0 THEN {main} ELSE Step(V[d - 1])]

\* The layers exist, however many there are: the least number of them that
\* does not would have all but the last one.
LEMMA LayersExist ==
    \A n \in Nat : \E V : Layers(V, n)
<1> DEFINE S == {n \in Nat : ~ \E V : Layers(V, n)}
<1> SUFFICES ASSUME S # {} PROVE FALSE
  OBVIOUS
<1>1. PICK n \in S : \A j \in S : n <= j
  <2>1. S \in SUBSET Nat
    OBVIOUS
  <2> QED BY <2>1, HasLeast
<1>2. n \in Nat /\ ~ \E V : Layers(V, n)
  BY <1>1
<1>3. n # 0
  <2> DEFINE W == [d \in 0..0 |-> {main}]
  <2>1. Layers(W, 0)
    BY DEF Layers
  <2> QED BY <1>2, <2>1
<1>4. PICK m \in Nat : n = m + 1
  <2>1. n - 1 \in Nat /\ n = (n - 1) + 1
    BY <1>2, <1>3
  <2> QED BY <2>1
<1>5. PICK V : Layers(V, m)
  <2>1. m \notin S
    BY <1>1, <1>4
  <2> QED BY <2>1
<1> DEFINE W == [d \in 0..n |-> IF d = n THEN Step(V[m]) ELSE V[d]]
<1>6. ASSUME NEW d \in 0..n
      PROVE  W[d] = IF d = 0 THEN {main} ELSE Step(W[d - 1])
  <2>1. W[d] = IF d = n THEN Step(V[m]) ELSE V[d]
    OBVIOUS
  <2>2. CASE d = n
    <3>1. d - 1 = m /\ m \in 0..n /\ m # n /\ d # 0
      BY <1>3, <1>4, <2>2
    <3>2. W[m] = V[m]
      BY <3>1
    <3> QED BY <2>1, <2>2, <3>1, <3>2
  <2>3. CASE d # n
    <3>1. d \in 0..m
      BY <1>4, <2>3
    <3>2. V[d] = IF d = 0 THEN {main} ELSE Step(V[d - 1])
      BY <1>5, <3>1 DEF Layers
    <3>3. d # 0 => d - 1 \in 0..n /\ d - 1 # n
      BY <1>4, <3>1
    <3>4. d # 0 => W[d - 1] = V[d - 1]
      BY <3>3
    <3> QED BY <2>1, <2>3, <3>2, <3>4
  <2> QED BY <2>2, <2>3
<1>7. Layers(W, n)
  <2>1. W = [d \in 0..n |-> W[d]]
    OBVIOUS
  <2> QED BY <1>6, <2>1 DEF Layers
<1> QED BY <1>2, <1>7

\* What GetGTree returns is the last layer.
LEMMA TheLastLayer ==
    ASSUME IsFiniteSet(Tree!G)
    PROVE  \E V, n : n \in Nat /\ n = Cardinality(Tree!G) /\ Layers(V, n) /\ Tree!GTree = V[n]
<1> DEFINE n == Cardinality(Tree!G)
           V == CHOOSE W : Layers(W, n)
<1>1. n \in Nat
  BY FS_CardinalityType
<1>2. Layers(V, n)
  BY <1>1, LayersExist
<1>3. Tree!GTree = V[n]
  BY DEF Tree!GTree, Layers, Step, Tree!Cardinality, Cardinality
<1> HIDE DEF V, n
<1> QED BY <1>1, <1>2, <1>3 DEF n

\* Whoever is below main was created by main, or by who is below main.
LEMMA MissesAChild ==
    ASSUME Done, NEW S, Main \in S, ~(Tree!App \subseteq S)
    PROVE  \E g \in Tree!App \ S : g \in Step(S)
<1> DEFINE I == {i \in DOMAIN trace : \E g \in Tree!App \ S : BornAt(i, g)}
<1>1. /\ ProgramInv /\ DOMAIN trace = 1..Len(trace) /\ Len(trace) \in Nat
      /\ Tree!App = {g \in Program : Born(g)}
      /\ \A i \in DOMAIN trace : trace[i].typ = "GoCreate" => <<trace[i].g, trace[i].arg>> \in edges
  BY AppIs DEF Done, TreeInv
<1>2. I \in SUBSET Nat /\ I # {}
  <2>1. PICK g : g \in Tree!App \ S
    OBVIOUS
  <2>2. PICK i \in DOMAIN trace : BornAt(i, g)
    BY <1>1, <2>1 DEF Born
  <2> QED BY <1>1, <2>1, <2>2
<1>3. PICK i \in I : \A j \in I : i <= j
  <2> HIDE DEF I
  <2> QED BY <1>2, HasLeast
<1>4. PICK g \in Tree!App \ S : BornAt(i, g)
  BY <1>3
<1>5. PICK c : c = trace[i].g
  OBVIOUS
<1>6. i \in DOMAIN trace /\ c \in Goroutine \ {Tracer, Watcher}
  <2>1. g # Main /\ g # Tracer
    BY <1>1, <1>4 DEF Program
  <2> QED BY <1>3, <1>4, <1>5, <2>1, Births
<1>7. PICK j \in 1..(i - 1) : BornAt(j, c)
  <2>1. c # NoG
    BY <1>6, Apart
  <2> QED BY <1>1, <1>4, <1>5, <1>6, <2>1, CreatedOnce DEF BornAt
<1>8. j \in DOMAIN trace /\ j < i /\ i \in Nat
  BY <1>1, <1>6, <1>7
<1>9. c \in S
  <2> SUFFICES ASSUME c \notin S PROVE FALSE
    OBVIOUS
  <2>1. c \in Tree!App
    BY <1>1, <1>6, <1>7, <1>8 DEF Program, Born
  <2>2. j \in I
    BY <1>7, <1>8, <2>1
  <2> QED BY <1>1, <1>3, <1>8, <2>2
<1>10. g \in Tree!Children(c)
  BY <1>1, <1>4, <1>5, <1>6 DEF BornAt, Tree!Children
<1> QED BY <1>4, <1>9, <1>10 DEF Step

\* A layer holds the application, or more goroutines than layers come before it.
Reaches(S, d) ==
    /\ Main \in S /\ S \subseteq Tree!App \cup {Main}
    /\ Tree!App \subseteq S \/ Cardinality(S) > d

LEMMA LayersGrow ==
    ASSUME Done, NEW n \in Nat, NEW V, Layers(V, n)
    PROVE  \A d \in 0..n : Reaches(V[d], d)
<1> DEFINE B == {d \in 0..n : ~Reaches(V[d], d)}
<1> SUFFICES ASSUME B # {} PROVE FALSE
  OBVIOUS
<1>1. PICK d \in B : \A j \in B : d <= j
  <2>1. B \in SUBSET Nat
    OBVIOUS
  <2> QED BY <2>1, HasLeast
<1>2. d \in 0..n /\ ~Reaches(V[d], d)
  BY <1>1
<1>3. V[d] = IF d = 0 THEN {main} ELSE Step(V[d - 1])
  BY <1>2 DEF Layers
<1>4. main = Main /\ IsFiniteSet(Tree!App \cup {Main})
  <2>1. main = Main
    BY DEF Done
  <2>2. IsFiniteSet(Tree!App)
    <3>1. IsFiniteSet(Goroutine) /\ Tree!App \in SUBSET Goroutine
      BY GoatAssumption, AppIs DEF Program
    <3> QED BY <3>1, FS_Subset
  <2> QED BY <2>1, <2>2, FS_AddElement
<1>5. CASE d = 0
  <2>1. V[d] = {Main} /\ Cardinality(V[d]) = 1
    BY <1>3, <1>4, <1>5, FS_Singleton
  <2> QED BY <1>2, <1>5, <2>1 DEF Reaches
<1>6. CASE d # 0
  <2>1. PICK m \in 0..n : d = m + 1
    <3>1. d - 1 \in 0..n /\ d = (d - 1) + 1
      BY <1>2, <1>6
    <3> QED BY <3>1
  <2>2. PICK S : S = V[m] /\ Reaches(S, m)
    <3>1. m \notin B
      BY <1>1, <2>1
    <3> QED BY <3>1
  <2>3. V[d] = Step(S)
    <3>1. d - 1 = m
      BY <2>1
    <3> QED BY <1>3, <1>6, <2>2, <3>1
  <2>4. S \subseteq Step(S) /\ Step(S) \subseteq Tree!App \cup {Main}
    BY <2>2 DEF Step, Reaches, Tree!Children
  <2>5. Main \in Step(S)
    BY <2>2, <2>4 DEF Reaches
  <2>6. CASE Tree!App \subseteq S
    BY <1>2, <2>3, <2>4, <2>5, <2>6 DEF Reaches
  <2>7. CASE ~(Tree!App \subseteq S)
    <3>1. PICK g \in Tree!App \ S : g \in Step(S)
      BY <2>2, <2>7, MissesAChild DEF Reaches
    <3>2. IsFiniteSet(S) /\ IsFiniteSet(Step(S))
      BY <1>4, <2>2, <2>4, FS_Subset DEF Reaches
    <3>3. Cardinality(S \cup {g}) = Cardinality(S) + 1 /\ Cardinality(S) \in Nat
      BY <3>1, <3>2, FS_AddElement, FS_CardinalityType
    <3>4. Cardinality(S \cup {g}) <= Cardinality(Step(S)) /\ Cardinality(Step(S)) \in Nat
      <4>1. S \cup {g} \in SUBSET Step(S)
        BY <2>4, <3>1
      <4> QED BY <3>2, <4>1, FS_Subset, FS_CardinalityType
    <3>5. Cardinality(S) > m
      BY <2>2, <2>7 DEF Reaches
    <3>6. Cardinality(Step(S)) > d
      BY <2>1, <3>3, <3>4, <3>5
    <3> QED BY <1>2, <2>3, <2>4, <2>5, <3>6 DEF Reaches
  <2> QED BY <2>6, <2>7
<1> QED BY <1>5, <1>6

LEMMA WholeTree ==
    ASSUME Done
    PROVE  Tree!GTree = Tree!App \cup {Main}
<1>1. IsFiniteSet(Tree!G)
  BY GoatAssumption, FS_AddElement DEF Tree!G
<1>2. PICK V, n : n \in Nat /\ n = Cardinality(Tree!G) /\ Layers(V, n) /\ Tree!GTree = V[n]
  BY <1>1, TheLastLayer
<1>3. n \in 0..n
  BY <1>2
<1>4. Reaches(V[n], n)
  BY <1>2, <1>3, LayersGrow
<1>5. Tree!App \cup {Main} \subseteq Tree!G
  BY Apart, AppIs DEF Program, Tree!G
<1>6. V[n] \in SUBSET Tree!G
  BY <1>4, <1>5 DEF Reaches
<1>7. Cardinality(V[n]) <= n
  BY <1>1, <1>2, <1>6, FS_Subset
<1>8. Cardinality(V[n]) \in Nat
  BY <1>1, <1>6, FS_Subset, FS_CardinalityType
<1>9. Tree!App \subseteq V[n]
  BY <1>2, <1>4, <1>7, <1>8 DEF Reaches
<1> QED BY <1>2, <1>4, <1>9 DEF Reaches

\* GetGTree (ginfo.go:66) loses nobody: whenever the trace has been read to its
\* end, the nodes it reaches from main are main and all the application.
THEOREM TreeIsTheApplication == GoatSpec => []TreeHoldsApp
<1>1. GoatInv => TreeHoldsApp
  BY AtEnd, WholeTree DEF TreeHoldsApp
<1> QED BY <1>1, GoatInductive, PTL
=============================================================================
