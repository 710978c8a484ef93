------------------------------ MODULE Emission ------------------------------
(* A region tree is written as C (emit.rs region and sequence) and the C runs  *)
(* beside the graph. The C is a region tree whose ifs have tests, a sequence   *)
(* of [head, invert, runs] joined by && or ||; runs says that the statements   *)
(* of the head are part of the expression. The rewritings of assignments (a    *)
(* diamond as ?:, an arm's value returned at once) are left out.               *)
(* What is written for a block are its statements and the copies that the phis *)
(* of its successors stand for. Emission asks two questions of a branch, and   *)
(* neither answers the other: graph.bare are the branches for which nothing is *)
(* written (head_emits_only_test: a statement whose value is dead is not       *)
(* written, a copy is), graph.tests those without an operation that is a       *)
(* statement (head_is_only_a_test: a dead one is, a copy is not).              *)
EXTENDS TailSinking

VARIABLES
    graph,      \* [succs, taken, entries, weight, bare, tests]
    phase,      \* "walk", "sink", "lift", "emit" or "run"
    keep,       \* Ctx::keep_single
    round,      \* walks so far
    tree,       \* the region tree, and from "run" on the C
    labels, gotos,
    exact,      \* history: no step went where the careful variants would not
    place,      \* what the C does next: [what, block, path, test]
    expected    \* what the graph does next: [what, block]

vars == <<graph, phase, keep, round, tree, labels, gotos, exact, place, expected>>

-----------------------------------------------------------------------------
(* The text. *)
Test(head, invert) == [head |-> head, invert |-> invert, runs |-> FALSE]
Branch(op, tests, then, other) ==
    [kind |-> "if", op |-> op, tests |-> tests, then |-> then, other |-> other]

RECURSIVE falls_straight_back(_)
falls_straight_back(r) ==
    r \in {Empty, Continue} \/ (r.kind = "seq" /\ \A s \in Steps(r) : falls_straight_back(Child(r, s)))

RECURSIVE ends_control(_)
ends_control(r) ==
    \/ r.kind \in {"break", "continue", "goto"}
    \/ r.kind = "seq" /\ r.parts # <<>> /\ ends_control(r.parts[Len(r.parts)])

RECURSIVE region_ends_control(_, _)
region_ends_control(g, r) ==
    CASE r.kind = "block" -> g.succs[r.at] = <<>>
      [] r.kind = "seq" -> r.parts # <<>> /\ region_ends_control(g, r.parts[Len(r.parts)])
      [] r.kind = "if" -> r.other # None /\ \A s \in Steps(r) : region_ends_control(g, Child(r, s))
      [] r.kind = "switch" -> r.default # None /\ \A s \in Steps(r) : region_ends_control(g, Child(r, s))
      [] OTHER -> r.kind \in {"break", "continue", "goto"}

(* if (a) { if (b) body }: [tests, then] of as many as have no else. *)
RECURSIVE NoElse(_, _, _)
NoElse(e, tests, then) ==
    LET n == Nested(then)
    IN  IF n # None /\ n.other = None /\ n.head \in e.g.bare /\ (e.careful => n.head \notin e.named)
        THEN NoElse(e, Append(tests, Test(n.head, n.invert)), n.then)
        ELSE [tests |-> tests, then |-> then]

(* if (a) { if (b) u else s } else s, also where s is a goto to the other arm. *)
RECURSIVE starts_at(_, _)
starts_at(r, at) ==
    \/ r = Block(at)
    \/ r.kind = "seq" /\ r.parts # <<>> /\ starts_at(r.parts[1], at)
    \/ r.kind = "if" /\ r.head = at
RECURSIVE Conjunction(_, _, _, _)
Conjunction(e, tests, then, shared) ==
    LET n == Nested(then)
        on(arm, other) == Conjunction(e, Append(tests, Test(n.head, n.invert # (arm = n.other))), arm, other)
        to(arm) == shared.kind = "goto" /\ starts_at(arm, shared.at)
    IN  IF \/ n = None \/ n.head \notin e.g.tests \/ n.other = None
           \/ e.careful /\ (n.head \in e.named \/ n.head \notin e.g.bare)
        THEN [tests |-> tests, then |-> then, shared |-> shared]
        ELSE CASE n.other = shared -> on(n.then, shared)
               [] n.then = shared  -> on(n.other, shared)
               [] to(n.then)       -> on(n.other, n.then)
               [] to(n.other)      -> on(n.then, n.other)
               [] OTHER -> [tests |-> tests, then |-> then, shared |-> shared]

(* { prep; if (b) unique else shared }, else shared: [before, test, unique],   *)
(* None otherwise.                                                             *)
NestedShared(then, shared) ==
    LET n == then.parts[Len(then.parts)]
        b == then.parts[Len(then.parts) - 1]
    IN  IF \/ then.kind # "seq" \/ Len(then.parts) < 2 \/ n.kind # "if" \/ n.other = None
           \/ b # Block(n.head) \/ shared \notin {n.then, n.other}
        THEN None
        ELSE [before |-> Several(Front(then.parts)), head |-> n.head,
              invert |-> IF n.other = shared THEN n.invert ELSE ~n.invert,
              unique |-> IF n.other = shared THEN n.then ELSE n.other]

(* The longest end of an arm that is also what follows its if: the arm without *)
(* it, None when there is none or nothing is left.                             *)
WithoutSuffix(r, following) ==
    LET n == Len(r.parts)
        same == {k \in 1..n : k <= Len(following) /\ SubSeq(r.parts, n - k + 1, n) = SubSeq(following, 1, k)}
        most == CHOOSE k \in same : \A j \in same : j <= k
    IN  IF r.kind # "seq" \/ same = {} \/ most = n THEN None ELSE Of(SubSeq(r.parts, 1, n - most))

(* The guards with the same body that follow one another from i on. *)
IsGuard(parts, i) ==
    /\ i + 1 <= Len(parts) /\ parts[i + 1].kind = "if" /\ parts[i] = Block(parts[i + 1].head)
    /\ parts[i + 1].other = None /\ parts[i + 1].then # Empty
RECURSIVE Guards(_, _, _)
Guards(e, parts, i) ==
    IF /\ IsGuard(parts, i + 2) /\ parts[i + 3].then = parts[i + 1].then
       /\ parts[i + 3].head \notin e.named
    THEN <<parts[i + 1]>> \o Guards(e, parts, i + 2)
    ELSE <<parts[i + 1]>>

(* while (c), which writes nothing for the head; or do { } while (c) and       *)
(* while (1) { if (!c) break; }, which do and are the same run. The careful    *)
(* variant takes the first only where there is nothing to write.               *)
WhileLoop(e, r, body) ==
    LET only_a_test == r.head \in e.g.tests
    IN  [kind |-> "while", head |-> r.head, invert |-> r.invert,
         runs |-> ~only_a_test \/ (e.careful /\ r.head \notin e.g.bare),
         body |-> IF ~only_a_test /\ falls_straight_back(r.body) THEN Empty ELSE body]

RECURSIVE Emit(_, _), EmitParts(_, _, _)
EmitIf(e, r) ==
    LET E(c) == Emit(e, c)
        test == Test(r.head, r.invert)
        chain == NoElse(e, <<test>>, r.then)
        shared == NestedShared(r.then, r.other)
        both == Conjunction(e, <<test>>, r.then, r.other)
        early(tests, then, other) == Several(<<Branch("and", tests, E(then), None), E(other)>>)
    IN  CASE r.other = None -> Branch("and", chain.tests, E(chain.then), None)
          [] r.other # None /\ shared # None /\ shared.head \notin e.g.bare
             /\ (e.careful => region_ends_control(e.g, shared.unique)) ->
                Several(<<Branch("and", <<test>>,
                              Several(<<E(shared.before),
                                        Branch("and", <<Test(shared.head, shared.invert)>>, E(shared.unique), None)>>),
                              None),
                          E(r.other)>>)
          [] r.other # None /\ Len(both.tests) > 1 ->
                IF region_ends_control(e.g, both.then) THEN early(both.tests, both.then, both.shared)
                ELSE Branch("and", both.tests, E(both.then), E(both.shared))
          [] r.other # None /\ region_ends_control(e.g, r.then) -> early(<<test>>, r.then, r.other)
          [] r.other # None /\ region_ends_control(e.g, r.other) ->
                early(<<Test(r.head, ~r.invert)>>, r.other, r.then)
          [] OTHER -> Branch("and", <<test>>, E(r.then), E(r.other))

EmitParts(e, parts, i) ==
    LET guards == Guards(e, parts, i)
        prefix == WithoutSuffix(parts[i + 1].then, SubSeq(parts, i + 2, Len(parts)))
        tests == [k \in DOMAIN guards |-> [Test(guards[k].head, guards[k].invert) EXCEPT !.runs = k > 1]]
        test == Test(parts[i + 1].head, parts[i + 1].invert)
    IN  IF i > Len(parts) THEN <<>>
        ELSE IF /\ i < Len(parts) /\ parts[i + 1].kind = "if" /\ parts[i] = Block(parts[i + 1].head)
                /\ parts[i + 1].other = None /\ parts[i + 1].head \notin e.named /\ prefix # None
        THEN <<parts[i], Branch("and", <<test>>, Emit(e, prefix), None)>>
             \o EmitParts(e, parts, i + 2)
        ELSE IF IsGuard(parts, i) /\ Len(guards) > 1
        THEN <<parts[i], Branch("or", tests, Emit(e, guards[1].then), None)>>
             \o EmitParts(e, parts, i + 2 * Len(guards))
        ELSE <<Emit(e, parts[i])>> \o EmitParts(e, parts, i + 1)

Emit(e, r) ==
    CASE r.kind = "seq" -> Several(EmitParts(e, r.parts, 1))
      [] r.kind = "if" -> EmitIf(e, r)
      [] r.kind = "while" -> WhileLoop(e, r, Emit(e, r.body))
      [] r.kind = "switch" ->
            LET arm(a) == IF ends_control(a) THEN Emit(e, a)
                          ELSE Several(<<Emit(e, a), Break>>)
            IN  WithChildren(r, arm)
      [] OTHER -> WithChildren(r, LAMBDA c : Emit(e, c))

-----------------------------------------------------------------------------
(* The C runs. A place is a block's statements, a test, the end of the         *)
(* function after a return, or "lost": nowhere the C says.                     *)
At(what, block, path, test) == [what |-> what, block |-> block, path |-> path, test |-> test]
Lost == At("lost", NoBlock, <<>>, 0)
Enclosing(c, path, kinds) ==
    LET inside == {i \in 0..Len(path) - 1 : Node(c, SubSeq(path, 1, i)).kind \in kinds}
    IN  SubSeq(path, 1, CHOOSE i \in inside : \A j \in inside : j <= i)
Loops == {"while", "infinite"}
Labelled(c, block) == Cardinality(Definitions(c, block)) = 1 /\ block \in labels

RECURSIVE Into(_, _), After(_, _)
Into(c, path) ==
    LET r == Node(c, path) IN
    CASE r.kind = "seq" -> IF r.parts = <<>> THEN After(c, path) ELSE Into(c, Append(path, Part(1)))
      [] r.kind = "block" -> At("run", r.at, path, 0)
      [] IsLoop(r) -> IF r.kind = "while" /\ ~r.runs THEN At("test", r.head, path, 1)
                      ELSE At("run", r.head, path, 0)
      [] r.kind = "if" -> At("test", r.tests[1].head, path, 1)
      [] r.kind = "switch" -> At("test", r.head, path, 1)
      [] r.kind = "goto" ->
            IF Labelled(c, r.at) THEN Into(c, CHOOSE p \in Definitions(c, r.at) : TRUE) ELSE Lost
      [] r.kind = "break" -> After(c, Enclosing(c, path, Loops \cup {"switch"}))
      [] r.kind = "continue" -> Into(c, Enclosing(c, path, Loops))
      [] r.kind = "empty" -> After(c, path)
After(c, path) ==
    IF path = <<>> THEN Lost
    ELSE LET up == Front(path)
             r == Node(c, up)
             s == path[Len(path)]
             follows == CASE s[1] = "part" /\ s[2] < Len(r.parts) -> <<Part(s[2] + 1)>>
                          [] s[1] = "case" /\ s[2] < Len(r.cases) -> <<Case(s[2] + 1)>>
                          [] s[1] = "case" /\ s[2] = Len(r.cases) /\ r.default # None -> <<Default>>
                          [] OTHER -> <<>>
         IN  IF follows = <<>> /\ ~IsLoop(r) THEN After(c, up) ELSE Into(c, up \o follows)

(* Into a child of a construct, or past it when it has none such. *)
Enter(c, path, steps) == IF steps = <<>> THEN After(c, path) ELSE Into(c, path \o steps)
Chosen(r, holds, cases) ==
    CASE r.kind = "if" -> IF holds THEN <<Then>> ELSE IF r.other = None THEN <<>> ELSE <<Else>>
      [] r.kind = "while" -> IF holds THEN <<Body>> ELSE <<>>
      [] r.kind = "switch" ->
            IF cases # {} THEN <<Case(CHOOSE i \in cases : TRUE)>>
            ELSE IF r.default # None THEN <<Default>> ELSE <<>>
NextTest(c, p) ==
    LET t == Node(c, p.path).tests[p.test + 1]
    IN  At(IF t.runs THEN "run" ELSE "test", t.head, p.path, p.test + 1)

(* From a place, when the branch of its block is taken, or goes to a case. *)
FromTest(c, p, taken, value) ==
    LET r == Node(c, p.path)
        holds == taken # (IF r.kind = "if" THEN r.tests[p.test].invert ELSE r.invert)
        more == p.test < Len(r.tests)
        cases == {i \in DOMAIN r.cases : value \in r.cases[i].values}
    IN  IF r.kind = "if" /\ more /\ (holds <=> r.op = "and") THEN NextTest(c, p)
        ELSE Enter(c, p.path, Chosen(r, holds, cases))
FromRun(c, p) ==
    LET r == Node(c, p.path) IN
    CASE graph.succs[p.block] = <<>> -> At("end", NoBlock, <<>>, 0)
      [] r.kind = "if" -> At("test", p.block, p.path, p.test)
      [] r.kind = "block" -> After(c, p.path)
      [] r.kind = "while" -> At("test", r.head, p.path, 1)
      [] r.kind = "infinite" -> Into(c, Append(p.path, Body))

(* Nothing is written for a bare block. *)
RECURSIVE Settled(_, _)
Settled(c, p) == IF p.what = "run" /\ p.block \in graph.bare THEN Settled(c, FromRun(c, p)) ELSE p

IsBranch(b) == Len(graph.succs[b]) > 1
Arrive(b) == [what |-> IF b \in graph.bare THEN "test" ELSE "run", block |-> b]

-----------------------------------------------------------------------------
CONSTANT Graphs     \* the control flow graphs
Init ==
    /\ graph \in Graphs /\ phase = "walk" /\ keep = {} /\ round = 0
    /\ tree = Empty /\ labels = {} /\ gotos = 0 /\ exact = TRUE
    /\ place = Lost /\ expected = Arrive(Entry)
Done(next) == phase' = next /\ UNCHANGED <<graph, keep, round, place, expected>>

(* structure_with walks again while a block is both labelled and copied. It is *)
(* not exact for a multi-way branch that becomes the test of a while.          *)
WalkGraph ==
    /\ phase = "walk"
    /\ \E w \in {Region(Facts(graph), Start(graph, keep), Entry, NoBlock, NoBlock)} :
         /\ tree' = w.tree /\ labels' = w.c.labels /\ gotos' = w.c.gotos
         /\ exact' = ~\E p \in Paths(w.tree) :
                 Node(w.tree, p).kind = "while" /\ IsSwitch(graph, Node(w.tree, p).head)
         /\ \E clash \in {labelled_twice(w.tree, w.c.labels)} :
              IF clash # {} /\ round < 4
              THEN /\ keep' = keep \cup clash /\ round' = round + 1
                   /\ UNCHANGED <<graph, phase, place, expected>>
              ELSE Done("sink")
SinkTails ==
    /\ phase = "sink" /\ Done("lift")
    /\ \E s \in {sink_shared_tails(graph, [tree |-> tree, labels |-> labels, gotos |-> gotos,
                                           exact |-> exact])} :
         tree' = s.tree /\ labels' = s.labels /\ gotos' = s.gotos /\ exact' = s.exact
LiftGuards ==
    /\ phase = "lift" /\ Done("emit")
    /\ tree' = lift_exit_guards(graph, tree, labels, graph.weight)
    /\ UNCHANGED <<labels, gotos, exact>>
Write ==
    LET c(careful) == Emit([g |-> graph, named |-> labels, careful |-> careful], tree) IN
    /\ phase = "emit" /\ phase' = "run"
    /\ tree' = c(FALSE) /\ exact' = (exact /\ tree' = c(TRUE))
    /\ place' = Settled(tree', Into(tree', <<>>))
    /\ expected' = Arrive(Entry)
    /\ UNCHANGED <<graph, keep, round, labels, gotos>>

Run ==
    /\ phase = "run" /\ place.what = "run" /\ expected.what = "run"
    /\ place' = Settled(tree, FromRun(tree, place))
    /\ expected' = LET succs == graph.succs[expected.block] IN
           CASE succs = <<>>    -> [what |-> "end", block |-> NoBlock]
             [] Len(succs) = 1  -> Arrive(succs[1])
             [] OTHER           -> [expected EXCEPT !.what = "test"]
    /\ UNCHANGED <<graph, phase, keep, round, tree, labels, gotos, exact>>
Choose ==
    /\ phase = "run" /\ place.what = "test" /\ expected.what = "test"
    /\ LET b == expected.block
           succs == ToSet(graph.succs[b])
           table == ToSet(graph.entries[b])
       IN  \/ /\ table = {}
              /\ \E s \in succs :
                    /\ place' = Settled(tree, FromTest(tree, place, s = graph.taken[b], -1))
                    /\ expected' = Arrive(s)
           \/ \E e \in table :
                    /\ place' = Settled(tree, FromTest(tree, place, FALSE, e.value))
                    /\ expected' = Arrive(e.target)
    /\ UNCHANGED <<graph, phase, keep, round, tree, labels, gotos, exact>>

Next == WalkGraph \/ SinkTails \/ LiftGuards \/ Write \/ Run \/ Choose
Spec == Init /\ [][Next]_vars

-----------------------------------------------------------------------------
(* ControlIsKept: "inventing a shape that is not there is the one thing this   *)
(* must not do" (structure.rs:4-6): whatever its branches do, the C comes to   *)
(* the blocks and the tests of the graph in their order and returns where the  *)
(* graph does, however a tail was copied, jumped to, moved behind the arms     *)
(* that share it or returned from at once, and however tests were joined.      *)
(* Behaviours in which a step was not exact are left out: the ways there are   *)
(* to lose control or copies in the code are told apart by the careful         *)
(* variants of PartExits, NoElse, Conjunction, EmitIf and WhileLoop and by the *)
(* heads of WalkGraph.                                                         *)
ControlIsKept == phase = "run" /\ exact => [what |-> place.what, block |-> place.block] = expected

(* NothingIsLost: "reachable blocks the region tree never mentions: their code *)
(* would be missing from the output with nothing downstream able to tell ...   *)
(* Correct structuring leaves this empty" (structure.rs:118-123), which it is  *)
(* reported for rather than asserted, after tails have been sunk.              *)
NothingIsLost == phase \in {"sink", "lift"} => lost_blocks(graph, tree) = {}
=============================================================================
