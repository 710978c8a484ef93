-------------------------------- MODULE Ssa --------------------------------
(* A function put into SSA form (func.rs build, ssa.rs build), block by block. *)
(* An operation reads and writes locations, whole or only their low part; what *)
(* it computes is left out, but for what a copy does.                          *)
EXTENDS Integers, Sequences, FiniteSets, SequencesExt

CONSTANTS
    Locs,        \* locations: whole registers and temporaries
    LiveOut,     \* Abi::live_at_return: what a caller reads when a function returns
    ArgLocs,     \* what a function reads when it is called
    NoFunction,  \* nothing is lifted, or nothing runs
    Undefined,   \* the version of Operand::Undefined: what the location held on entry
    NoLoc        \* an operation without an input, or without an output

VARIABLES
    fn,          \* the function: [entry, blocks, idom], blocks of [ops, successors, predecessors]
    phis,        \* of each block, the locations that have a phi there
    stack,       \* blocks to rename
    incoming,    \* of each block, the operands of locations at its start
    renamed,     \* of each block: [phis, ops, exit]
    counters     \* the next version of each location

ssa == <<fn, phis, stack, incoming, renamed, counters>>

(* What an operation is, which location it reads and writes, and which parts.  *)
(* Only a pure one depends on nothing but its input (opt.rs pure).             *)
Codes == {"copy", "pure", "load", "undefine", "store", "branch", "switch", "call", "tail", "return"}
Parts == {"whole", "low"}
Ops == [code : Codes, in : Locs \cup {NoLoc}, part : Parts, out : Locs \cup {NoLoc}, of : Parts]

(* Values are pairs of a location and a version; so are the other operands.    *)
NoOperand == <<>>

(* What an operation reads without naming it: a return the caller's results, a *)
(* call or a branch out of the function the arguments.                         *)
Implicit(op) == CASE op.code = "return" -> LiveOut
                  [] op.code \in {"call", "tail", "switch"} -> ArgLocs
                  [] OTHER -> {}

SsaInit ==
    /\ fn = NoFunction /\ phis = <<>> /\ stack = <<>> /\ incoming = <<>> /\ renamed = <<>>
    /\ counters = [l \in Locs |-> 0]

-----------------------------------------------------------------------------
(* Edges between the blocks there are, in the order of addresses. *)
Graph(ops, successors) ==
    [a \in DOMAIN ops |->
        [ops |-> ops[a],
         successors |-> SetToSortSeq(successors[a] \cap DOMAIN ops, <),
         predecessors |-> SetToSortSeq({p \in DOMAIN ops : a \in successors[p]}, <)]]

(* Reverse postorder, with a stack of blocks and how far their successors are. *)
Visit(g, s) ==
    LET top == s.stack[Len(s.stack)]
        rest == Front(s.stack)
        succs == g[top.at].successors
        next == succs[top.i + 1]
    IN  IF top.i >= Len(succs) THEN [s EXCEPT !.stack = rest, !.post = <<top.at>> \o @]
        ELSE LET again == Append(rest, [top EXCEPT !.i = @ + 1])
             IN  IF next \in s.seen THEN [s EXCEPT !.stack = again]
                 ELSE [s EXCEPT !.stack = Append(again, [at |-> next, i |-> 0]),
                                !.seen = @ \cup {next}]
ReversePostorder(entry, g) ==
    LET s[n \in 0..Cardinality(DOMAIN g) * (Cardinality(DOMAIN g) + 1)] ==
            IF n = 0 THEN [stack |-> <<[at |-> entry, i |-> 0]>>, seen |-> {entry}, post |-> <<>>]
            ELSE LET p == s[n - 1] IN IF p.stack = <<>> THEN p ELSE Visit(g, p)
    IN  s[Cardinality(DOMAIN g) * (Cardinality(DOMAIN g) + 1)].post

(* Walk up the dominator tree so far until two blocks meet; the one that comes *)
(* later in the order goes up.                                                 *)
Place(order, a) == CHOOSE i \in DOMAIN order : order[i] = a
Intersect(idom, order, a, b) ==
    LET m[n \in 0..2 * Len(order)] ==
            IF n = 0 THEN <<a, b>>
            ELSE LET p == m[n - 1]
                 IN  IF p[1] = p[2] THEN p
                     ELSE IF Place(order, p[1]) > Place(order, p[2]) THEN <<idom[p[1]], p[2]>>
                     ELSE <<p[1], idom[p[2]]>>
    IN  m[2 * Len(order)][1]

(* Immediate dominators: passes in reverse postorder until nothing changes.    *)
Improve(g, order, idom, at) ==
    LET meet(cur, p) == IF p \notin DOMAIN idom THEN cur
                        ELSE IF cur = NoFunction THEN p ELSE Intersect(idom, order, cur, p)
        new == FoldLeft(meet, NoFunction, g[at].predecessors)
    IN  IF new = NoFunction THEN idom ELSE (at :> new) @@ idom
Dominators(entry, g, order) ==
    LET pass(idom) == FoldLeft(LAMBDA d, at : Improve(g, order, d, at), idom, Tail(order))
        d[n \in 0..Len(order) + 1] == IF n = 0 THEN entry :> entry ELSE pass(d[n - 1])
    IN  d[Len(order) + 1]

(* The blocks from p up to, and without, the dominator of at.                  *)
UpTo(idom, p, at) ==
    LET top == IF at \in DOMAIN idom THEN idom[at] ELSE at
        up[n \in 0..Cardinality(DOMAIN idom)] ==
            IF n = 0 THEN {p} \ {top}
            ELSE LET u == up[n - 1]
                 IN  (u \cup {idom[x] : x \in u \cap DOMAIN idom}) \ {top}
    IN  up[Cardinality(DOMAIN idom)]

Frontiers(g, idom) ==
    [x \in DOMAIN g |->
        {at \in DOMAIN g : /\ Len(g[at].predecessors) >= 2
                                /\ \E p \in ToSet(g[at].predecessors) : x \in UpTo(idom, p, at)}]

(* Phis: the iterated frontier of the blocks that define a location.           *)
Defines(g, l) == {a \in DOMAIN g : \E i \in DOMAIN g[a].ops : g[a].ops[i].out = l}
Placed(g, df, l) ==
    LET s[n \in 0..Cardinality(DOMAIN g)] ==
            IF n = 0 THEN {}
            ELSE LET p == s[n - 1] IN UNION {df[a] : a \in p \cup Defines(g, l)}
    IN  s[Cardinality(DOMAIN g)]

(* A function is lifted, and renaming starts at its entry. *)
Lift(entry, g) ==
    /\ fn = NoFunction
    /\ LET idom == Dominators(entry, g, ReversePostorder(entry, g))
           df == Frontiers(g, idom)
       IN  /\ fn' = [entry |-> entry, blocks |-> g, idom |-> idom]
           /\ phis' = [a \in DOMAIN g |-> {l \in Locs : a \in Placed(g, df, l)}]
    /\ stack' = <<entry>> /\ incoming' = (entry :> <<>>)
    /\ UNCHANGED <<renamed, counters>>

-----------------------------------------------------------------------------
(* Renaming one operation: its input is what the location holds now; a write   *)
(* to a part keeps the rest of what was there before. sees is history: what    *)
(* the locations that are read without being named hold.                       *)
Holds(current, l) == IF l \in DOMAIN current THEN current[l] ELSE <<l, Undefined>>
Convert(acc, op) ==
    LET out == IF op.out = NoLoc THEN NoOperand ELSE <<op.out, acc.counters[op.out]>>
    IN  [ops |-> Append(acc.ops,
             [op |-> op, out |-> out,
              in |-> IF op.in = NoLoc THEN NoOperand ELSE Holds(acc.current, op.in),
              old |-> IF op.out = NoLoc \/ op.of = "whole" THEN NoOperand
                      ELSE Holds(acc.current, op.out),
              sees |-> [l \in Implicit(op) |-> Holds(acc.current, l)]]),
         current |-> IF op.out = NoLoc THEN acc.current ELSE (op.out :> out) @@ acc.current,
         counters |-> IF op.out = NoLoc THEN acc.counters
                      ELSE [acc.counters EXCEPT ![op.out] = @ + 1]]

(* A block starts from what reached it, with its phis on top.                  *)
RenameBlock(at) ==
    LET here == phis[at]
        start == IF at \in DOMAIN incoming THEN incoming[at] ELSE <<>>
        acc == [ops |-> <<>>, current |-> [l \in here |-> <<l, counters[l]>>] @@ start,
                counters |-> [l \in Locs |-> counters[l] + IF l \in here THEN 1 ELSE 0]]
    IN  FoldLeft(Convert, acc, fn.blocks[at].ops)

Children(at) == {c \in DOMAIN fn.idom : c # fn.entry /\ c # at /\ fn.idom[c] = at}

(* One turn of the loop: its successors inherit what they have not yet, the    *)
(* blocks it dominates inherit all of it, and both are renamed next.           *)
Rename ==
    /\ stack # <<>>
    /\ LET at == stack[Len(stack)]
           done == RenameBlock(at)
           succs == ToSet(fn.blocks[at].successors)
           from(s) == IF s \in Children(at) THEN done.current
                      ELSE (IF s \in DOMAIN incoming THEN incoming[s] ELSE <<>>) @@ done.current
       IN  IF at \in DOMAIN renamed
           THEN stack' = Front(stack) /\ UNCHANGED <<incoming, renamed, counters>>
           ELSE /\ renamed' = renamed @@ (at :> [phis |-> [l \in phis[at] |-> <<l, counters[l]>>],
                                                ops |-> done.ops, exit |-> done.current])
                /\ counters' = done.counters
                /\ incoming' = [s \in DOMAIN incoming \cup succs \cup Children(at) |->
                                   IF s \in succs \cup Children(at) THEN from(s) ELSE incoming[s]]
                /\ stack' = Front(stack) \o SetToSortSeq(Children(at), <)
                            \o SelectSeq(fn.blocks[at].successors,
                                         LAMBDA s : s \notin DOMAIN renamed \cup {at})
    /\ UNCHANGED <<fn, phis>>

(* The inputs of a phi, one for each predecessor: what the location holds at   *)
(* the predecessor's end.                                                      *)
PhiInput(p, l) == IF p \in DOMAIN renamed THEN Holds(renamed[p].exit, l) ELSE <<l, Undefined>>

(* The finished form: of each block its phis, by location, and its operations, *)
(* by their places in the block.                                               *)
Filled ==
    [at \in DOMAIN renamed |->
        [phis |-> [l \in phis[at] |->
             [out |-> renamed[at].phis[l],
              inputs |-> [p \in ToSet(fn.blocks[at].predecessors) |-> PhiInput(p, l)]]],
         ops |-> renamed[at].ops]]
=============================================================================
