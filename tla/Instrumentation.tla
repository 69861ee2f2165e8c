--------------------------- MODULE Instrumentation ---------------------------
(***************************************************************************)
(* src/instrument: finding the concurrency usages of a Go package and      *)
(* rewriting it so that it yields before each of them and is traced.       *)
(*                                                                         *)
(* A package is one sequence of syntax nodes, its files' trees in preorder *)
(* (the order in which astutil.Apply visits them), with their depth.  Only *)
(* the nodes the visitors tell apart are kept: calls, selectors and        *)
(* literals are collapsed into the node that holds them.  A node begins a  *)
(* line or shares the one before it, as go/printer leaves it.              *)
(***************************************************************************)
EXTENDS Integers, Sequences, SequencesExt, FiniteSets

CONSTANTS
    Calls,      \* the names the package calls, as selectors or (close) plainly
    FuncNames,  \* the functions it declares
    Modes,      \* which of the three Instrument functions are called
    MaxNodes    \* bound on the size of the package

AllModes == {"criticalPoints", "traceOnly", "criticOnly"}
ASSUME InstrumentAssumption ==
    Modes \subseteq AllModes /\ MaxNodes \in Nat
    /\ FuncNames \subseteq {"main", "Test", "(T)Test", "f"}
    /\ Calls \cap {"goat", "yields"} = {}   \* these mark what is injected

VARIABLES
    pc,       \* "source", "identified", "rewritten", "returned" or "panic"
    mode,     \* the function called
    src,      \* the package as written
    usages,   \* what Identify finds in it
    out,      \* the package as rewritten
    returned  \* what Identify finds in that, and the caller gets

vars == <<pc, mode, src, usages, out, returned>>

\* list: the node is an element of a list of its parent.  id tells the nodes
\* of the source apart, in both trees; what is injected has id 0.
Node(kind, op, depth, begins, list, id) ==
    [kind |-> kind, op |-> op, depth |-> depth, begins |-> begins, list |-> list, id |-> id]
Stmt(kind, op, depth) == Node(kind, op, depth, TRUE, TRUE, 0)
Part(kind, op, depth) == Node(kind, op, depth, FALSE, FALSE, 0)
Later(n) == [n EXCEPT !.begins = TRUE]

Line(t, i)     == Cardinality({j \in 1..i : t[j].begins})
End(t, i)      == LET beyond == {j \in (i + 1)..Len(t) : t[j].depth <= t[i].depth}
                  IN  IF beyond = {} THEN Len(t) ELSE Min(beyond) - 1
Below(t, i)    == (i + 1)..End(t, i)
Children(t, i) == {j \in Below(t, i) : t[j].depth = t[i].depth + 1}
Parent(t, i)   == CHOOSE h \in 1..(i - 1) : t[h].depth = t[i].depth - 1 /\ i <= End(t, h)
FileOf(t, i)   == CHOOSE h \in 1..i : t[h].kind = "File" /\ i \in {h} \cup Below(t, h)
-----------------------------------------------------------------------------
(* Identify *)

\* The usage a name stands for, whatever it is a method of.
UsageOf == [Lock |-> "LOCK", Unlock |-> "UNLOCK", RLock |-> "RLOCK", RUnlock |-> "RUNLOCK",
            Add |-> "ADD", Done |-> "DONE", Signal |-> "SIGNAL", Wait |-> "WAIT",
            Broadcast |-> "BROADCAST", close |-> "CLOSE"]

usage(typ, line, id) == [typ |-> typ, line |-> line, id |-> id]

\* A select of three or more cases, or of one case and a default; one of two
\* cases, or of one, is not a usage.
SelectUsages(t, i) ==
    LET cases == Children(t, i + 1)
        first == Min(cases)
        last  == Max(cases)
        at(j, typ) == usage(typ, Line(t, j), t[i].id)
        nb(case)   == <<at(case, "NBCASE"), at(i, "NBSELECT")>>
    IN  CASE Cardinality(cases) > 2 -> <<at(i, "SELECT")>>
          [] Cardinality(cases) = 2 /\ t[first].kind = "Default" -> nb(last)
          [] Cardinality(cases) = 2 /\ t[first].kind # "Default" /\ t[last].kind = "Default" -> nb(first)
          [] OTHER -> <<>>

\* The visitor of Identify at node i; commclauses are the lines of the cases
\* seen so far.
Found(t, i, commclauses) ==
    LET n == t[i]
        here(typ) == <<usage(typ, Line(t, i), n.id)>>
    IN  CASE n.kind = "Go"     -> here("GO")
          [] n.kind = "Select" -> SelectUsages(t, i)
          [] n.kind = "Ident" /\ n.op \in DOMAIN UsageOf /\ (n.op = "Done" => Line(t, i) \notin commclauses)
                               -> here(UsageOf[n.op])
          [] n.kind = "Send" /\ n.list -> here("SEND")
          [] n.kind = "Recv" /\ Line(t, i) \notin commclauses -> here("RECV")
          [] n.kind = "Block" /\ t[Parent(t, i)].kind = "Range"
                               -> <<usage("RANGE", Line(t, Parent(t, i)), n.id)>>
          [] OTHER             -> <<>>

\* Below a send or a receive that was found nothing is visited.
IdentifyVisit(acc, t, i) ==
    IF i <= acc.skip THEN acc
    ELSE LET found == Found(t, i, acc.commclauses)
         IN  [usages      |-> acc.usages \o found,
              commclauses |-> acc.commclauses \cup
                    (IF t[i].kind \in {"Clause", "Default"} THEN {Line(t, i)} ELSE {}),
              skip        |-> IF t[i].kind \in {"Send", "Recv"} /\ found # <<>>
                              THEN End(t, i) ELSE acc.skip]

Identify(t) ==
    LET visited[i \in 0..Len(t)] ==
            IF i = 0 THEN [usages |-> <<>>, commclauses |-> {}, skip |-> 0]
            ELSE IdentifyVisit(visited[i - 1], t, i)
    IN  visited[Len(t)].usages
-----------------------------------------------------------------------------
(* The rewritings *)

\* The nodes of declrations.go.  A converted defer calls a closure that yields
\* (or not) and then calls what was deferred; that stays its child.
astNode_sched(depth)    == Stmt("Sched", "goat", depth)
\* Bug: main waits for the watcher's answer.
astNode_goatMainAck(depth) == <<Stmt("Start", "goat", depth), Stmt("Go", "goat", depth),
                                Stmt("Defer", "goat", depth), Stmt("Recv", "goat", depth)>>

astNode_goatMain(depth) == <<Stmt("Start", "goat", depth), Stmt("Go", "goat", depth),
                             Stmt("Defer", "goat", depth)>>
astNode_goatRaceMain(depth)   == <<Stmt("Start", "goat", depth)>>
astNode_convertDefer(n)       == [n EXCEPT !.op = "yields"]
astNode_convertDeferNoSched(n) == [n EXCEPT !.op = "closure"]

ToSched(us, m) == {u \in ToSet(us) : m = "criticalPoints" => u.typ # "NBCASE"}
conclines(us, m) == IF m = "traceOnly" THEN {} ELSE {u.line : u \in ToSched(us, m)}

\* Bug: a declaration is taken for a statement.
CanInsertAny(n) == n.list

\* A declaration, too, is an element of a list, but not of statements; what a
\* label stands before is no element of a list.
CanInsert(n) == n.list /\ n.kind \notin {"Func", "Var"}

\* Bug: a defer is treated as any statement.
ConvertsNot(n) == FALSE

Converts(n) == n.kind = "Defer"

\* A yield goes before the first node visited on each line.
SchedVisit(acc, t, i) ==
    LET n == t[i]
        l == Line(t, i)
    IN  CASE l \notin acc.lines -> [acc EXCEPT !.out = Append(@, n)]
          [] l \in acc.lines /\ Converts(n) ->
                [acc EXCEPT !.out = Append(@, astNode_convertDefer(n)), !.lines = @ \ {l}]
          [] l \in acc.lines /\ ~Converts(n) /\ CanInsert(n) ->
                [acc EXCEPT !.out = @ \o <<astNode_sched(n.depth), n>>, !.lines = @ \ {l}]
          [] OTHER -> [acc EXCEPT !.panic = TRUE]

InjectSched(t, lines) ==
    LET visited[i \in 0..Len(t)] ==
            IF i = 0 THEN [out |-> <<>>, lines |-> lines, panic |-> FALSE]
            ELSE SchedVisit(visited[i - 1], t, i)
    IN  visited[Len(t)]

Insert(t, i, nodes) == SubSeq(t, 1, i) \o nodes \o SubSeq(t, i + 1, Len(t))

\* Every loop over a range yields at the end of its body.  ast.Inspect visits
\* the nodes of the tree as it is by then, what was put in included; at most
\* one is put in per node of t.
RangeVisit(acc, k) ==
    IF k \in DOMAIN acc /\ acc[k].kind = "Range"
    THEN Insert(acc, End(acc, k), <<astNode_sched(acc[k].depth + 2)>>) ELSE acc

InjectRange(t) ==
    LET edited[k \in 0..(2 * Len(t))] == IF k = 0 THEN t ELSE RangeVisit(edited[k - 1], k)
    IN  edited[2 * Len(t)]

mainIn(n) == n.kind = "Func" /\ n.op = "main"
testIn(n) == n.kind = "Func" /\ n.op \in {"Test", "(T)Test"}

goatMain(depth, m) ==
    IF m = "criticOnly" THEN astNode_goatRaceMain(depth) ELSE astNode_goatMain(depth)

Traced(n) == n.kind = "Func" /\ n.op \in {"main", "Test"}

\* Bug: what is prepended takes the place of the first statement.
MainVisitOver(acc, k, m) ==
    IF k \in DOMAIN acc /\ Traced(acc[k])
    THEN SubSeq(acc, 1, k + 1) \o goatMain(acc[k].depth + 2, m) \o SubSeq(acc, k + 3, Len(acc)) ELSE acc

\* Functions begin by starting the trace; methods are left alone.
MainVisit(acc, k, m) ==
    IF k \in DOMAIN acc /\ Traced(acc[k]) THEN Insert(acc, k + 1, goatMain(acc[k].depth + 2, m)) ELSE acc

InjectMain(t, m) ==
    LET edited[k \in 0..(4 * Len(t))] == IF k = 0 THEN t ELSE MainVisit(edited[k - 1], k, m)
    IN  edited[4 * Len(t)]

ConvertDefers(t) ==
    [i \in DOMAIN t |-> IF t[i].kind = "Defer" THEN astNode_convertDeferNoSched(t[i]) ELSE t[i]]

\* AddImport, before the tree below the file is changed.
AddImport(t, files) == [i \in DOMAIN t |-> IF i \in files THEN [t[i] EXCEPT !.op = "goat"] ELSE t[i]]
concfiles(t, us, m) ==
    {FileOf(t, i) : i \in {j \in DOMAIN t : Line(t, j) \in {u.line : u \in ToSched(us, m)}}}
tracefiles(t) == {FileOf(t, i) : i \in {j \in DOMAIN t : mainIn(t[j]) \/ testIn(t[j])}}

rewrite_traceOnly(t) == InjectMain(ConvertDefers(AddImport(t, tracefiles(t))), "traceOnly")

\* rewrite_randomSched and rewrite_randomSchedOnly
rewrite_sched(t, us, m) ==
    LET r == InjectSched(AddImport(t, concfiles(t, us, m)), conclines(us, m))
    IN  [panic |-> r.panic, out |-> InjectMain(InjectRange(r.out), m)]
-----------------------------------------------------------------------------
(* Go packages, one piece of code after the other *)

Block(d)   == Part("Block", "", d)
Ident(o,d) == Part("Ident", o, d)

\* An If stands for every statement that holds a block and is no usage itself.
Simple(d) ==
    {<<Stmt("Expr", "", d), Ident(o, d + 1)>> : o \in Calls}
    \cup {<<Stmt("Defer", "", d), Ident(o, d + 1)>> : o \in Calls}
    \cup {<<Stmt("Send", "", d)>>, <<Stmt("Recv", "", d)>>}
    \cup {<<Stmt("Recv", "", d), Ident("Done", d + 1)>>}
    \cup {<<Stmt(k, "", d), Block(d + 1)>> : k \in {"Go", "Defer", "Range", "If", "Select", "Switch"}}
    \cup {<<Stmt("If", "", d), Part("Recv", "", d + 1), Block(d + 1)>>}
    \* a chain of calls or a list of arguments, broken before the last one
    \cup {<<Stmt("Expr", "", d), Later(Ident(o, d + 1))>> : o \in Calls}

\* What a label stands before is no element of a list.
Labelled(d) ==
    {<<Stmt("Label", "", d), [p[1] EXCEPT !.list = FALSE]>> \o Tail(p) : p \in Simple(d + 1)}

Statements(d) == Simple(d) \cup Labelled(d)

\* The cases of a select; communication without a call is part of the case.
Clauses(d) ==
    {<<Stmt("Default", "", d)>>, <<Stmt("Clause", "", d)>>}
    \cup {<<Stmt("Clause", "", d), Part("Recv", "", d + 1), Ident(o, d + 2)>> : o \in Calls}

Cases(d) == {<<Stmt("Case", "", d)>>} \cup {<<Stmt("Case", "", d), Ident(o, d + 1)>> : o \in Calls}

\* There is one main.  A function may stand on one line; a variable or a type
\* declared beside it may name a usage.
Declared == {f \in FuncNames : f = "main" => ~(\E i \in DOMAIN src : mainIn(src[i]))}
Declarations(d) ==
    {<<Stmt("Func", f, d), Block(d + 1)>> : f \in Declared}
    \cup {<<Stmt("Func", f, d), Block(d + 1), [Stmt("Send", "", d + 2) EXCEPT !.begins = FALSE]>> : f \in Declared \ {"main", "Test"}}
    \cup {<<Stmt("Var", "", d), Ident(o, d + 1)>> : o \in Calls}

ElseIfs(d) == {<<Later(Part("If", "", d)), Part("Recv", "", d + 1), Block(d + 1)>>}

\* What may follow inside node i, the last of its depth.
Pieces(i) ==
    LET d == src[i].depth + 1
        holder == IF i > 1 THEN src[Parent(src, i)].kind ELSE "none"
    IN  CASE src[i].kind = "File" -> Declarations(d)
          [] src[i].kind = "Block" /\ holder = "Select" -> Clauses(d)
          [] src[i].kind = "Block" /\ holder = "Switch" -> Cases(d)
          [] src[i].kind = "Block" /\ holder \notin {"Select", "Switch"} -> Statements(d)
          [] src[i].kind \in {"Clause", "Default", "Case"} -> Statements(d)
          [] src[i].kind = "If" /\ src[Max(Children(src, i))].kind = "Block" -> ElseIfs(d)
          [] OTHER -> {}

Open == {i \in DOMAIN src : \A k \in (i + 1)..Len(src) : src[k].depth > src[i].depth}

File == Node("File", "", 0, TRUE, FALSE, 1)

Init ==
    /\ pc = "source" /\ mode = "none"
    /\ src = <<File>>
    /\ usages = <<>> /\ out = <<>> /\ returned = <<>>

Add(piece) ==
    /\ pc = "source" /\ Len(src) + Len(piece) <= MaxNodes
    /\ src' = src \o [k \in DOMAIN piece |-> [piece[k] EXCEPT !.id = Len(src) + k]]
    /\ UNCHANGED <<pc, mode, usages, out, returned>>

Write == Add(<<File>>) \/ \E i \in Open : \E piece \in Pieces(i) : Add(piece)
-----------------------------------------------------------------------------
(* InstrumentCriticalPoints, InstrumentTraceOnly, InstrumentCriticOnly *)

First ==
    /\ pc = "source"
    /\ usages' = Identify(src)
    /\ mode' \in Modes
    /\ pc' = "identified"
    /\ UNCHANGED <<src, out, returned>>

Rewrite ==
    LET r == IF mode = "traceOnly" THEN [panic |-> FALSE, out |-> rewrite_traceOnly(src)]
             ELSE rewrite_sched(src, usages, mode)
    IN  /\ pc = "identified"
        /\ pc' = IF r.panic THEN "panic" ELSE "rewritten"
        /\ out' = IF r.panic THEN <<>> ELSE r.out
        /\ UNCHANGED <<mode, src, usages, returned>>

\* A statement among the cases of a select or a switch is no Go.
Parses(t) ==
    \A i \in DOMAIN t : t[i].kind \in {"Select", "Switch"} =>
        \A j \in Children(t, i + 1) : t[j].kind \in {"Clause", "Default", "Case"}

\* Nor does a file compile that calls goat without importing it, or imports it
\* without a call.
UsesGoat(t, f)    == \E i \in Below(t, f) : t[i].op \in {"goat", "yields"}
ImportsMatch(t) ==
    \A f \in DOMAIN t : t[f].kind = "File" => (t[f].op = "goat" <=> UsesGoat(t, f))

\* Of a package with an error the loader gives no program (AllowErrors is not
\* set); Identify ignores the error and goes on to what the program has created.
Loads(t) == Parses(t) /\ ImportsMatch(t)

Second ==
    /\ pc = "rewritten"
    /\ \/ Loads(out) /\ pc' = "returned" /\ returned' = Identify(out)
       \/ ~Loads(out) /\ pc' = "panic" /\ returned' = <<>>
    /\ UNCHANGED <<mode, src, usages, out>>

Finished == pc \in {"returned", "panic"} /\ UNCHANGED vars

Next == Write \/ First \/ Rewrite \/ Second \/ Finished

Spec == Init /\ [][Next]_vars
-----------------------------------------------------------------------------
(***************************************************************************)
(* Properties                                                              *)
(***************************************************************************)
Sched(n) == n.kind = "Sched" \/ (n.kind = "Defer" /\ n.op = "yields")

\* What begins line l of the rewritten package.
LineStart(l) == CHOOSE i \in DOMAIN out : out[i].begins /\ Line(out, i) = l

\* "inject goat.Sched_Handler to concurrency lines" (rewrite.go:55), said of
\* what the caller gets: whatever the traced program reports as a usage is
\* preceded by a yield where its line begins, or is deferred with one; and
\* a loop receives again only after a yield.  Cases of a nonblocking select
\* are the exception (rewrite.go:29).  No statement yields twice.
Yields ==
    pc = "returned" /\ mode # "traceOnly" =>
        /\ \A u \in ToSet(returned) :
            u.id # 0 /\ u.typ # "NBCASE" =>
                LET i == LineStart(u.line)
                IN  /\ Sched(out[i]) \/ (out[i].kind # "Defer" /\ out[i - 1].kind = "Sched"
                                               /\ out[i - 1].depth = out[i].depth)
                    /\ u.typ = "RANGE" => Sched(out[Max(Children(out, i + 1))])
        /\ \A k \in 2..Len(out) : Sched(out[k]) /\ out[k - 1].kind = "Sched" => out[k].depth # out[k - 1].depth

\* The second Identify is there "to update source lines of critical points after
\* rewrite" (instrument.go:8): it finds what the first one found, in the same
\* order, and the goroutine of goat.Watch once per function that is traced.
Kinds(us) == [k \in DOMAIN us |-> <<us[k].typ, us[k].id>>]
Reidentified ==
    pc = "returned" =>
        LET added == SelectSeq(returned, LAMBDA u : u.id = 0)
        IN  /\ Kinds(SelectSeq(returned, LAMBDA u : u.id # 0)) = Kinds(usages)
            /\ Len(added) = IF mode = "criticOnly" THEN 0
                            ELSE Cardinality({i \in DOMAIN src : src[i].kind = "Func"
                                                                 /\ src[i].op \in {"main", "Test"}})

\* Without what was injected, the rewritten package is the source: every node is
\* there, as it was and where it was; none is lost, doubled or moved by editing a
\* tree while it is walked.
Injected(n) == n.id = 0
Plain(n)    == IF n.kind \in {"File", "Defer"} THEN [n EXCEPT !.op = "any"] ELSE n

Extends(t, s) ==
    /\ \A i \in DOMAIN s : \E k \in DOMAIN t : t[k].id = s[i].id
    /\ \A k \in DOMAIN t : ~Injected(t[k]) =>
            /\ \E i \in DOMAIN s : Plain(t[k]) = Plain(s[i])
            /\ \A j \in DOMAIN t : j < k => t[j].id < t[k].id

OnlyAdds == pc \in {"rewritten", "returned"} => Extends(out, src)

\* What stops the Instrument functions.  Where a usage stands: on the line of a
\* declaration, an else-if, a case, a broken expression, or a labelled statement
\* that is not deferred, or in a case of a nonblocking select with
\* InstrumentCriticOnly.  And what a file holds: something to trace but no
\* usage, as it then calls goat and does not import it; or, with
\* InstrumentTraceOnly, only test methods, as it then imports what it does not
\* call.  Each of these stops it, and nothing else does.
Stops(u) ==
    LET i == CHOOSE i \in DOMAIN src : src[i].begins /\ Line(src, i) = u.line
        within(kind) == src[i].depth > 0 /\ src[Parent(src, i)].kind = kind
    IN  \/ src[i].kind \in {"Func", "Var", "Ident", "Clause", "Default", "Case"} /\ u.typ # "NBCASE"
        \/ src[i].kind = "If" /\ within("If")
        \/ src[i].kind # "Defer" /\ within("Label")
        \/ u.typ = "NBCASE" /\ mode = "criticOnly"

Misfits(f) ==
    LET traced == \E i \in Below(src, f) : Traced(src[i])
        used   == \E u \in ToSet(usages) : u.id \in Below(src, f)
        tests  == \E i \in Below(src, f) : testIn(src[i])
    IN  IF mode = "traceOnly" THEN tests /\ ~traced ELSE traced /\ ~used

StopsOnly ==
    pc \in {"returned", "panic"} =>
        (pc = "panic" <=> \/ mode # "traceOnly" /\ \E u \in ToSet(usages) : Stops(u)
                          \/ \E f \in DOMAIN src : src[f].kind = "File" /\ Misfits(f))

\* "for all ast files in the package: add import github.com/staheri/goat/goat"
\* (rewrite.go:53-54): a file that is written imports goat exactly if it calls
\* it; otherwise it does not compile.
ImportsFit == pc = "rewritten" => ImportsMatch(out)
=============================================================================
