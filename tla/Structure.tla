----------------------------- MODULE Structure ------------------------------
(* A control flow graph becomes a region tree (structure.rs structure_with).   *)
(* A graph has [succs, taken, entries]: each block's successors in the order   *)
(* of their addresses, where its conditional branch jumps to (NoBlock for a    *)
(* block that has none), and the [value, target] of its jump table (empty when *)
(* it is no multi-way branch). The bound of 200 nested regions is left out.    *)
EXTENDS RegionTree

CONSTANTS
    Entry,          \* the function's entry
    MaxCopiedTail,  \* MAX_COPIED_TAIL: blocks of one copied tail
    Floor,          \* duplication_budget: what is added to the number of blocks
    MaxRounds       \* bound: rounds of a fixed point (structure.rs:1374, 1457)

Blocks(g) == DOMAIN g.succs
Succs(g, b) == ToSet(g.succs[b])
Preds(g, b) == {p \in Blocks(g) : b \in Succs(g, p)}
IsSwitch(g, b) == g.entries[b] # <<>>

-----------------------------------------------------------------------------
(* Orders and the two trees of dominators. *)
RECURSIVE Visit(_, _, _)
Visit(edges, s, at) ==
    LET entered == [s EXCEPT !.seen = @ \cup {at}]
        done == FoldLeft(LAMBDA t, n : IF n \in t.seen THEN t ELSE Visit(edges, t, n), entered, edges[at])
    IN  [done EXCEPT !.order = <<at>> \o @]

(* Reverse postorder over some edges from some starts, one after another. *)
Order(edges, starts) ==
    FoldLeft(LAMBDA s, at : IF at \in s.seen THEN s ELSE Visit(edges, s, at),
             [seen |-> {}, order |-> <<>>], starts).order
reverse_postorder(g) == Order(g.succs, <<Entry>>)

Rank(order, b) == IF b \in ToSet(order) THEN SelectInSeq(order, LAMBDA x : x = b) - 1 ELSE 0
Up(tree, b) == IF b \in DOMAIN tree THEN tree[b] ELSE b

(* Walk two chains up until they meet; a chain that ends stops the walk. *)
RECURSIVE Intersect(_, _, _, _)
Intersect(tree, order, a, b) ==
    IF a = b THEN a
    ELSE IF Rank(order, a) > Rank(order, b)
    THEN IF Up(tree, a) = a THEN a ELSE Intersect(tree, order, Up(tree, a), b)
    ELSE IF Up(tree, b) = b THEN a ELSE Intersect(tree, order, a, Up(tree, b))

(* One block's parent: the meeting of its inputs that have one already. *)
Place(inputs, order, roots, tree, at) ==
    LET ready == SelectSeq(inputs[at], LAMBDA p : p \in DOMAIN tree)
    IN  IF at \in roots \/ ready = <<>> THEN tree
        ELSE (at :> FoldLeft(LAMBDA a, b : Intersect(tree, order, a, b), ready[1], Tail(ready))) @@ tree

RECURSIVE Settle(_, _, _, _, _)
Settle(inputs, order, roots, tree, rounds) ==
    LET next == FoldLeft(LAMBDA t, at : Place(inputs, order, roots, t, at), tree, order)
    IN  IF next = tree \/ rounds = 0 THEN next
        ELSE Settle(inputs, order, roots, next, rounds - 1)
ParentTree(inputs, order, roots) == Settle(inputs, order, roots, [r \in roots |-> r], MaxRounds)

Sorted(g, S) == SelectSeq([b \in Blocks(g) |-> b], LAMBDA b : b \in S)
PredLists(g) == [b \in Blocks(g) |-> Sorted(g, Preds(g, b))]
dominators(g) == ParentTree(PredLists(g), reverse_postorder(g), {Entry})

(* Without a block that leaves, the last in order stands in for the exit. *)
Leaving(g) ==
    LET exits == {b \in Blocks(g) : g.succs[b] = <<>>}
        order == reverse_postorder(g)
    IN  IF exits # {} THEN exits ELSE {order[Len(order)]}
postdominators(g) ==
    ParentTree(g.succs, Order(PredLists(g), Sorted(g, Leaving(g))), Leaving(g))

RECURSIVE dominates(_, _, _)
dominates(idom, a, b) == a = b \/ (Up(idom, b) # b /\ dominates(idom, a, Up(idom, b)))

(* The blocks that reach S without passing through a barrier, or are reached. *)
RECURSIVE Closure(_, _, _)
Closure(edges, barrier, S) ==
    LET more == (UNION {edges[b] : b \in S} \cup S) \ barrier
    IN  IF more = S THEN S ELSE Closure(edges, barrier, more)

loop_body(g, head, latches) ==
    {head} \cup Closure([b \in Blocks(g) |-> Preds(g, b)], {head}, latches \ {head})

(* What is known of a graph before it is walked. *)
FactsFrom(g, idom) ==
    LET latches(h) == {b \in Preds(g, h) : dominates(idom, h, b)}
        headers == {h \in Blocks(g) : latches(h) # {}}
    IN  [g |-> g, postdom |-> postdominators(g), headers |-> headers,
         bodies |-> [h \in headers |-> loop_body(g, h, latches(h))]]
Facts(g) == FactsFrom(g, dominators(g))

-----------------------------------------------------------------------------
(* The walk. Its state c is Ctx: what is emitted, labelled and counted so far, *)
(* what may still be copied, and the loops being written, innermost last.      *)
Start(g, keep) ==
    [emitted |-> {}, labels |-> {}, gotos |-> 0, duplication |-> Floor + Cardinality(Blocks(g)),
     loops |-> <<>>, keep_single |-> keep, switch_depth |-> 0]

Innermost(c) == c.loops[Len(c.loops)]
InLoop(c) == c.loops # <<>>

(* Where a loop leaves to: by its header, or where most of its body does. *)
loop_exit(f, head) ==
    LET body == f.bodies[head]
        edges(s) == Cardinality({b \in body : s \in Succs(f.g, b)})
        outside == UNION {Succs(f.g, b) : b \in body} \ body
        own == Succs(f.g, head) \ body
        best == {s \in outside : \A t \in outside : edges(t) < edges(s) \/ (edges(t) = edges(s) /\ s <= t)}
    IN  IF outside = {} THEN NoBlock
        ELSE IF Len(f.g.succs[head]) = 2 /\ own # {} THEN CHOOSE s \in own : \A t \in own : s <= t
        ELSE CHOOSE s \in best : TRUE

(* What a copy of the tail at a block would write, {} when it is not allowed. *)
copyable_tail(f, c, at, stop) ==
    LET barrier == {stop} \cup (IF InLoop(c) THEN {Innermost(c).head, Innermost(c).exit} ELSE {})
        blocks == Closure([b \in Blocks(f.g) |-> Succs(f.g, b)], barrier, {at})
        busy == {c.loops[i].head : i \in DOMAIN c.loops} \cup c.keep_single
    IN  IF blocks \cap busy # {} \/ Cardinality(blocks) > MaxCopiedTail
           \/ Cardinality(blocks) > c.duplication
        THEN {} ELSE blocks

(* The join of a branch's arms, where both come back together. *)
join_of(f, head) ==
    IF Len(f.g.succs[head]) # 2 \/ Up(f.postdom, head) = head THEN NoBlock ELSE f.postdom[head]

(* Mutant of trim_tail: whatever comes last. *)
trim_tailAnything(r) ==
    IF r.kind = "seq" /\ r.parts # <<>> THEN Of(Front(r.parts)) ELSE IF r = Continue THEN Empty ELSE r
(* A continue that ends a loop's body says nothing. *)
trim_tail(r) ==
    CASE r = Continue -> Empty
      [] r.kind = "seq" -> Of(IF r.parts # <<>> /\ r.parts[Len(r.parts)] = Continue
                              THEN Front(r.parts) ELSE r.parts)
      [] OTHER -> r

(* A piece of a walk: a tree, the state after it, and where to go on. *)
Piece(tree, c) == [tree |-> tree, c |-> c]
Branched(tree, c, after) == [tree |-> tree, c |-> c, after |-> after]
Until(join, stop) == IF join = NoBlock THEN stop ELSE join

RECURSIVE Region(_, _, _, _, _), Walk(_, _, _, _, _, _)

(* Structure from a block until stop. *)
RegionOf(w) == Piece(Of(w.parts), w.c)
Region(f, c, at, stop, enclosing) == RegionOf(Walk(f, c, <<>>, at, stop, enclosing))

(* A copy: the counted blocks are unmarked, and marked again after it. *)
Marked(piece, blocks) == [piece EXCEPT !.c.emitted = @ \cup blocks]
duplicate(f, c, at, stop, enclosing, blocks) ==
    Marked(Region(f, [c EXCEPT !.duplication = @ - Cardinality(blocks), !.emitted = @ \ blocks],
                  at, stop, enclosing),
           blocks \cap c.emitted)

(* One arm after the other; an arm that is the join itself is none.            *)
IfOf(head, invert, join, then, other) == Branched(If(head, invert, then, other.tree), other.c, join)
ElseAfter(f, head, invert, join, then, taken, stop, enclosing) ==
    IfOf(head, invert, join, then.tree,
         IF taken = NoBlock THEN Piece(None, then.c) ELSE Region(f, then.c, taken, stop, enclosing))
build_if(f, c, head, stop, enclosing) ==
    LET succs == f.g.succs[head]
        taken == IF f.g.taken[head] = NoBlock THEN succs[2] ELSE f.g.taken[head]
        fall == IF succs[1] # taken THEN succs[1] ELSE succs[2]
        join == join_of(f, head)
        first == IF fall = join THEN taken ELSE fall
    IN  ElseAfter(f, head, first = fall, join,
                  IF first = join THEN Piece(Empty, c) ELSE Region(f, c, first, Until(join, stop), enclosing),
                  IF join \in {fall, taken} THEN NoBlock ELSE taken, Until(join, stop), enclosing)

(* The indices that share a body share an arm, in the order they first appear; *)
(* a successor that the table does not name is the default.                    *)
Leave(piece, c) == [piece EXCEPT !.c.switch_depth = c.switch_depth]
Arm(f, c, at, stop, enclosing) ==
    Leave(Region(f, [c EXCEPT !.switch_depth = @ + 1], at, stop, enclosing), c)
AddCase(s, values, arm) == [cases |-> Append(s.cases, [values |-> values, body |-> arm.tree]), c |-> arm.c]
SwitchOf(head, join, cases, default) == Branched(Switch(head, cases, default.tree), default.c, join)
WithDefault(f, head, join, s, unnamed, stop, enclosing) ==
    SwitchOf(head, join, s.cases,
             IF unnamed = <<>> THEN Piece(None, s.c) ELSE Arm(f, s.c, unnamed[1], stop, enclosing))
build_switch(f, c, head, stop, enclosing) ==
    LET entries == f.g.entries[head]
        join == IF Up(f.postdom, head) = head THEN NoBlock ELSE f.postdom[head]
        targets == FoldLeft(LAMBDA s, e : IF e.target \in ToSet(s) THEN s ELSE Append(s, e.target),
                            <<>>, entries)
        values(t) == {entries[i].value : i \in {j \in DOMAIN entries : entries[j].target = t}}
        add(s, t) == AddCase(s, values(t), IF t = join THEN Piece(Break, s.c)
                                           ELSE Arm(f, s.c, t, Until(join, stop), enclosing))
    IN  WithDefault(f, head, join, FoldLeft(add, [cases |-> <<>>, c |-> c], targets),
                    SelectSeq(f.g.succs[head], LAMBDA s : s \notin ToSet(targets) /\ s # join),
                    Until(join, stop), enclosing)

build_branch(f, c, head, stop, enclosing) ==
    IF IsSwitch(f.g, head) THEN build_switch(f, c, head, stop, enclosing)
    ELSE build_if(f, c, head, stop, enclosing)

(* A header with one way in and one out is a while; any other is entered as    *)
(* its branch would be anywhere, and the walk goes on where the arms rejoin.   *)
WhileOf(head, invert, body) == Piece(While(head, invert, body.tree), body.c)
InfiniteOf(head, body) == Piece(Infinite(head, body.tree), body.c)
Followed(tree, rest) == Piece(Several(<<tree, rest.tree>>), rest.c)
WithRest(f, head, branch) ==
    IF branch.after \in {NoBlock, head} THEN branch
    ELSE Followed(branch.tree, Region(f, branch.c, branch.after, head, head))
LoopOf(piece, c) ==
    Piece([piece.tree EXCEPT !.body = trim_tail(@)],
          [piece.c EXCEPT !.loops = c.loops, !.switch_depth = c.switch_depth])
InnerLoop(f, c, head) ==
    LET succs == f.g.succs[head]
        body == f.bodies[head]
        inside == IF succs[1] \in body THEN succs[1] ELSE succs[2]
        outside == IF succs[1] \in body THEN succs[2] ELSE succs[1]
        taken == IF f.g.taken[head] = NoBlock THEN succs[1] ELSE f.g.taken[head]
    IN  CASE Len(succs) = 2 /\ inside \in body /\ outside \notin body ->
                WhileOf(head, inside # taken, Region(f, c, inside, head, head))
          [] Len(succs) = 1 -> InfiniteOf(head, Region(f, c, succs[1], head, head))
          [] OTHER -> InfiniteOf(head, WithRest(f, head, build_branch(f, c, head, head, head)))
build_loop(f, c, head) ==
    LoopOf(InnerLoop(f, [c EXCEPT !.emitted = @ \cup {head}, !.switch_depth = 0,
                                  !.loops = Append(@, [head |-> head, exit |-> loop_exit(f, head)])],
                     head), c)

Ended(parts, piece) == [parts |-> Append(parts, piece.tree), c |-> piece.c]
GoOn(f, parts, piece, next, stop, enclosing) ==
    IF next \in {NoBlock, stop} THEN Ended(parts, piece)
    ELSE Walk(f, piece.c, Append(parts, piece.tree), next, stop, enclosing)
Rejoin(f, parts, branch, stop, enclosing) == GoOn(f, parts, branch, branch.after, stop, enclosing)
Walk(f, c, parts, cursor, stop, enclosing) ==
    LET jump == Piece(Goto(cursor), [c EXCEPT !.gotos = @ + 1, !.labels = @ \cup {cursor}])
        tail == copyable_tail(f, c, cursor, stop)
        marked == [c EXCEPT !.emitted = @ \cup {cursor}]
        succs == f.g.succs[cursor]
    IN  CASE cursor = stop -> [parts |-> parts, c |-> c]
          [] InLoop(c) /\ cursor = Innermost(c).head -> Ended(parts, Piece(Continue, c))
          [] InLoop(c) /\ cursor = Innermost(c).exit ->
                Ended(parts, IF c.switch_depth = 0 THEN Piece(Break, c) ELSE jump)
          [] cursor \in c.emitted ->
                Ended(parts, IF tail # {} THEN duplicate(f, c, cursor, stop, enclosing, tail) ELSE jump)
          [] cursor \in f.headers /\ cursor # enclosing ->
                GoOn(f, parts, build_loop(f, c, cursor), loop_exit(f, cursor), stop, enclosing)
          [] succs = <<>> -> Ended(parts, Piece(Block(cursor), marked))
          [] Len(succs) = 1 ->
                GoOn(f, parts, Piece(Block(cursor), marked), succs[1], stop, enclosing)
          [] OTHER ->
                Rejoin(f, Append(parts, Block(cursor)), build_branch(f, marked, cursor, stop, enclosing),
                       stop, enclosing)

-----------------------------------------------------------------------------
(* Blocks that are both labelled and written more than once. *)
Written(tree, b) ==
    Cardinality({p \in Paths(tree) :
        LET r == Node(tree, p) IN HeldAt(r) = b \/ (r.kind \in {"if", "switch"} /\ r.head = b)})
labelled_twice(tree, labels) == {b \in labels : Written(tree, b) > 1}

lost_blocks(g, tree) == Blocks(g) \ (Mentioned(tree) \cup Heads(tree))
=============================================================================
