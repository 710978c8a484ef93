----------------------------- MODULE MCEmission -----------------------------
(* Every graph of four blocks, those with a jump table among them, and larger  *)
(* ones with the shapes that structure.rs and emit.rs have cases for.          *)
EXTENDS Emission

(* Light blocks weigh 1. *)
Graph(succs, taken, entries, bare, tests, light) ==
    LET N == Len(succs)
        branches == {b \in 1..N : Len(succs[b]) = 2 /\ entries[b] = <<>>}
    IN  [succs |-> succs, entries |-> entries,
         taken |-> [b \in 1..N |-> IF b \in branches THEN succs[b][taken] ELSE NoBlock],
         bare |-> bare \cap branches, tests |-> tests \cap branches,
         weight |-> [b \in 1..N |-> IF b \in light THEN 1 ELSE 3]]
NoTables(succs) == [b \in DOMAIN succs |-> <<>>]
Reached(succs) == Closure([b \in DOMAIN succs |-> ToSet(succs[b])], {}, {Entry}) = DOMAIN succs

Some == {<<>>} \cup {<<s>> : s \in 1..4} \cup {p \in (1..4) \X (1..4) : p[1] < p[2]}
Four == {f \in Some \X Some \X Some \X Some : Reached(f)}
Small == {Graph(f, 1, NoTables(f), bare, tests, {3}) :
             f \in Four, bare \in {{}, 1..4}, tests \in {{}, 1..4}}

(* Block 2 is a multi-way branch. *)
Tables == {<<3, 4>>, <<3, 4, 3>>, <<3, 1, 4>>, <<3, 2, 4>>, <<2, 4>>}
Table(f, targets) ==
    LET succs == [f EXCEPT ![2] = SelectSeq(<<1, 2, 3, 4>>, LAMBDA s : s \in ToSet(targets))]
    IN  Graph(succs, 1, [NoTables(f) EXCEPT ![2] = [i \in DOMAIN targets |-> [value |-> i, target |-> targets[i]]]],
              {}, {}, {4})
MultiWay == {g \in {Table(<<a, <<>>, b, c>>, t) :
                a \in {<<2>>, <<2, 3>>, <<2, 4>>}, b \in Some, c \in Some, t \in Tables} : Reached(g.succs)}

(* A switch whose arm jumps behind an endless loop. *)
Behind == Graph(<<<<3, 4>>, <<3, 5>>, <<4, 5>>, <<2, 4, 5>>, <<>>>>, 1,
                [b \in 1..5 |-> IF b = 4 THEN <<[value |-> 1, target |-> 4], [value |-> 2, target |-> 2],
                                               [value |-> 3, target |-> 5]>> ELSE <<>>], {3}, {3}, {1, 4})

(* a && b and a && b && c with a shared else, a || b, two guards with one      *)
(* epilogue, the same in a loop and with a jump to the second guard, two       *)
(* levels of arms that share a tail, and a loop in a loop; with heads for      *)
(* which nothing is written, which write only copies (tests, not bare) and     *)
(* whose statements are dead (bare, not tests).                                *)
HeadKinds == {<<bare, bare>> : bare \in {{}, {2}, {2, 3}, 1..7}}
               \cup {<<{}, {2}>>, <<{}, 1..7>>, <<{2}, {2, 3}>>, <<{2, 3}, {}>>}
Larger == {Graph(f, taken, NoTables(f), w[1], w[2], light) :
    taken \in {1, 2}, light \in {{}, {3}, {4, 5}}, w \in HeadKinds, f \in {
        <<<<2, 4>>, <<3, 4>>, <<5>>, <<5>>, <<>>>>,
        <<<<2, 3>>, <<3, 4>>, <<5>>, <<5>>, <<>>>>,
        <<<<2, 4>>, <<3, 4>>, <<>>, <<5>>, <<>>>>,
        <<<<2, 3>>, <<5>>, <<4, 5>>, <<5>>, <<>>>>,
        <<<<2, 3>>, <<3, 5>>, <<2, 4>>, <<5>>, <<>>>>,
        <<<<2>>, <<3, 6>>, <<4, 5>>, <<5>>, <<2>>, <<>>>>,
        <<<<2, 5>>, <<3, 4>>, <<6>>, <<6, 5>>, <<6>>, <<>>>>,
        <<<<2, 6>>, <<3, 5>>, <<4>>, <<3, 2>>, <<6>>, <<>>>>,
        <<<<2, 3>>, <<4, 5>>, <<4, 6>>, <<5>>, <<6>>, <<>>>>,
        <<<<2, 5>>, <<3, 5>>, <<4, 5>>, <<6>>, <<6>>, <<>>>>,
        <<<<2, 4>>, <<6, 4>>, <<3, 2>>, <<3, 5>>, <<4, 6>>, <<4, 7>>, <<>>>>}}

MCGraphs == Small \cup MultiWay \cup {Behind} \cup Larger
=============================================================================
