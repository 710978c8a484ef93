---------------------------- MODULE TailSinking -----------------------------
(* What is rewritten in a finished region tree: a tail that several arms jump  *)
(* to is written after them (structure.rs sink_shared_tails), and an epilogue  *)
(* is copied into the light arm of a guard (lift_exit_guards).                 *)
EXTENDS Structure

CONSTANTS
    SinkRounds,     \* the 8 of structure.rs:1619
    LiftRounds,     \* the 8 of structure.rs:344
    GuardMax,       \* GUARD_MAX: the heaviest guard
    ExitMax         \* EXIT_MAX: the heaviest epilogue

-----------------------------------------------------------------------------
(* How control leaves a region once the tail and the gotos to it are cut out:  *)
(* "never", only where something was cut out ("hole"), "other"wise, or         *)
(* "refused" when falling through a hole would not reach the tail. The holes   *)
(* are [tail, gotos], paths from the region the tail is to follow.             *)
Inside(path, hole) == Len(hole) > Len(path) /\ IsPrefix(path, hole)
GotoInside(holes, path) == \E h \in holes.gotos : Inside(path, h)
DefInside(holes, path) == Inside(path, holes.tail)
HoleInside(holes, path) == GotoInside(holes, path) \/ DefInside(holes, path)

(* Mutant of JoinExits: a hole hides the other way out. *)
JoinExitsHoleFirst(a, b) == CASE "refused" \in {a, b} -> "refused"
                              [] "hole" \in {a, b}    -> "hole"
                              [] "other" \in {a, b}   -> "other"
                              [] OTHER                -> "never"
JoinExits(a, b) == CASE "refused" \in {a, b} -> "refused"
                     [] "other" \in {a, b}   -> "other"
                     [] "hole" \in {a, b}    -> "hole"
                     [] OTHER                -> "never"

(* A break leaves this loop or switch, and not one further in. *)
RECURSIVE breaks_out(_)
breaks_out(r) == r = Break \/ (r.kind \in {"seq", "if"} /\ \E s \in Steps(r) : breaks_out(Child(r, s)))

(* Every hole would bind its break to the construct it is in. *)
RECURSIVE holes_bind_here(_, _, _)
holes_bind_here(r, path, holes) ==
    \/ path \in holes.gotos \cup {holes.tail}
    \/ IF IsLoop(r) \/ r.kind = "switch" THEN ~HoleInside(holes, path)
       ELSE \A s \in Steps(r) : holes_bind_here(Child(r, s), Append(path, s), holes)

RECURSIVE exits(_, _, _, _), PartExits(_, _, _, _, _)

(* The parts of a sequence from i on. The careful variant also looks for the   *)
(* tail in a part that falls through, and behind one that does not.            *)
AfterPart(g, r, path, holes, i, e) ==
    LET here == Append(path, Part(i))
        cut_next == i < Len(r.parts) /\ Append(path, Part(i + 1)) = holes.tail
    IN  CASE e = "refused" \/ i = Len(r.parts) -> e
          [] e = "never" -> IF holes.careful THEN PartExits(g, r, path, holes, i + 1) ELSE e
          [] e = "hole" -> IF here = holes.tail \/ cut_next THEN "hole" ELSE "refused"
          [] OTHER -> IF ~cut_next /\ (GotoInside(holes, here) \/ (holes.careful /\ DefInside(holes, here)))
                      THEN "refused"
                      ELSE PartExits(g, r, path, holes, i + 1)
PartExits(g, r, path, holes, i) ==
    IF i > Len(r.parts) THEN "other"
    ELSE AfterPart(g, r, path, holes, i, exits(g, r.parts[i], Append(path, Part(i)), holes))

exits(g, r, path, holes) ==
    LET arm(s) == exits(g, Child(r, s), Append(path, s), holes) IN
    CASE path \in holes.gotos \cup {holes.tail} -> "hole"
      [] r.kind = "block" -> IF g.succs[r.at] = <<>> THEN "never" ELSE "other"
      [] r.kind \in {"goto", "break", "continue"} -> "never"
      [] r.kind = "empty" -> "other"
      [] r.kind = "seq" -> PartExits(g, r, path, holes, 1)
      [] r.kind = "if" -> JoinExits(arm(Then), IF r.other = None THEN "other" ELSE arm(Else))
      [] r.kind = "while" -> IF HoleInside(holes, path) THEN "refused" ELSE "other"
      [] r.kind = "infinite" ->
            IF ~HoleInside(holes, path) THEN IF breaks_out(r.body) THEN "other" ELSE "never"
            ELSE IF DefInside(holes, path) \/ breaks_out(r.body)
                    \/ ~holes_bind_here(r.body, Append(path, Body), holes)
            THEN "refused" ELSE "hole"
      [] r.kind = "switch" ->
            IF ~HoleInside(holes, path) THEN "other"
            ELSE IF DefInside(holes, path)
                    \/ \E s \in Steps(r) :
                          \/ breaks_out(Child(r, s))
                          \/ /\ HoleInside(holes, Append(path, s))
                             /\ ~holes_bind_here(Child(r, s), Append(path, s), holes)
                          \/ arm(s) \in {"refused", "other"}
            THEN "refused" ELSE "hole"

-----------------------------------------------------------------------------
(* Sinking the tail that begins at a block: the tail is the block and what     *)
(* follows it in its sequence, and moves to the end of the innermost region    *)
(* that holds it and every goto to it. [tree, gotos]: those it did away with.  *)
CommonPrefix(paths) ==
    LET p == CHOOSE q \in paths : TRUE
        shared == {i \in 0..Len(p) : \A q \in paths : IsPrefix(SubSeq(p, 1, i), q)}
    IN  SubSeq(p, 1, CHOOSE i \in shared : \A j \in shared : j <= i)

(* A goto in a loop or an arm of a switch has to leave a break behind. *)
needs_break(region, path) ==
    \E i \in 0..Len(path) - 1 : LET r == Node(region, SubSeq(path, 1, i)) IN IsLoop(r) \/ r.kind = "switch"

InSequence(def) == def # <<>> /\ def[Len(def)][1] = "part"
Container(def) == IF InSequence(def) THEN Front(def) ELSE def
Moves(def, p) ==
    IF InSequence(def)
    THEN /\ Inside(Front(def), p) /\ p[Len(def)][1] = "part"
         /\ p[Len(def)][2] >= def[Len(def)][2]
    ELSE IsPrefix(def, p)
TailFrom(held, def) ==
    IF InSequence(def) THEN Of(SubSeq(held.parts, def[Len(def)][2], Len(held.parts))) ELSE held
LeftOf(held, def) ==
    IF InSequence(def) THEN Several(SubSeq(held.parts, 1, def[Len(def)][2] - 1)) ELSE Empty

Unsunk(tree) == [tree |-> tree, gotos |-> 0, exact |-> TRUE]
(* The tail goes behind the common region; a hole is left where it was and at  *)
(* each goto.                                                                  *)
Sunk(g, tree, def, gotos, common, region, held) ==
    LET Below(p) == SubSeq(p, Len(common) + 1, Len(p))
        holes(careful) == [tail |-> Below(def), gotos |-> {Below(p) : p \in gotos}, careful |-> careful]
        cut == FoldSet(LAMBDA p, t : Put(t, p, IF needs_break(region, Below(p)) THEN Break ELSE Empty),
                       Put(tree, Container(def), LeftOf(held, def)), gotos)
    IN  IF exits(g, region, <<>>, holes(FALSE)) # "hole" THEN Unsunk(tree)
        ELSE [tree |-> Put(tree, common, Of(PartsOf(Node(cut, common)) \o PartsOf(TailFrom(held, def)))),
              gotos |-> Cardinality(gotos), exact |-> exits(g, region, <<>>, holes(TRUE)) = "hole"]
SunkFrom(g, tree, def, gotos, common) ==
    Sunk(g, tree, def, gotos, common, Node(tree, common), Node(tree, Container(def)))
sink_at(g, tree, def, gotos) ==
    IF \E p \in gotos : Moves(def, p) THEN Unsunk(tree)
    ELSE SunkFrom(g, tree, def, gotos, CommonPrefix({def} \cup gotos))
sink_one(g, tree, target) ==
    IF Gotos(tree, target) = {} \/ Cardinality(Definitions(tree, target)) # 1 THEN Unsunk(tree)
    ELSE sink_at(g, tree, CHOOSE p \in Definitions(tree, target) : TRUE, Gotos(tree, target))

(* Drop what is empty; an if left with an else only is the negated if. *)
RECURSIVE tidy(_)
tidy(r) ==
    LET t == WithChildren(r, tidy) IN
    CASE r.kind = "seq" -> Of(SelectSeq(t.parts, LAMBDA p : p # Empty))
      [] r.kind = "if" ->
            IF t.then = Empty
            THEN IF t.other \in {None, Empty} THEN [t EXCEPT !.other = None]
                 ELSE [t EXCEPT !.then = t.other, !.other = None, !.invert = ~@]
            ELSE [t EXCEPT !.other = IF @ = Empty THEN None ELSE @]
      [] OTHER -> t

(* One round over the labels there are, lowest first. s: [tree, labels, gotos]. *)
WithSunk(s, one, target) ==
    [tree |-> one.tree, gotos |-> s.gotos - one.gotos, exact |-> s.exact /\ one.exact,
     labels |-> IF one.gotos > 0 /\ Gotos(one.tree, target) = {} THEN s.labels \ {target} ELSE s.labels]
SinkRound(g, s) ==
    FoldLeft(LAMBDA t, target : WithSunk(t, sink_one(g, t.tree, target), target), s, Sorted(g, s.labels))

(* As many rounds as do away with a goto, and a tidy tree if one did. *)
RECURSIVE SinkRoundsFrom(_, _, _, _)
SinkRoundsFrom(g, s, t, n) ==
    IF n = 0 \/ t.gotos = s.gotos THEN s ELSE SinkRoundsFrom(g, t, SinkRound(g, t), n - 1)
TidyIfSunk(s, t) == IF t.gotos = s.gotos THEN s ELSE [t EXCEPT !.tree = tidy(@)]
sink_shared_tails(g, s) == TidyIfSunk(s, SinkRoundsFrom(g, s, SinkRound(g, s), SinkRounds))

-----------------------------------------------------------------------------
(* The statement weight of a straight-line arm, -1 when it has structure. *)
RECURSIVE straight_weight(_, _)
straight_weight(r, weight) ==
    CASE r = Empty -> 0
      [] r.kind = "block" -> weight[r.at]
      [] r.kind = "seq" ->
            LET ws == [i \in DOMAIN r.parts |-> straight_weight(r.parts[i], weight)]
            IN  IF -1 \in ToSet(ws) THEN -1 ELSE FoldLeft(+, 0, ws)
      [] OTHER -> -1

(* "then", "else" or "none": which arm is the guard. *)
Lighter(a, b) == a \in 1..GuardMax /\ (b = -1 \/ b >= 3 * a)
guard_side(then, other) ==
    CASE Lighter(then, other) -> "then" [] Lighter(other, then) -> "else" [] OTHER -> "none"

RECURSIVE ends_with_block(_, _)
ends_with_block(r, at) ==
    r = Block(at) \/ (r.kind = "seq" /\ r.parts # <<>> /\ ends_with_block(r.parts[Len(r.parts)], at))

(* The if that is an arm, or stands in it after its own head: None otherwise. *)
Nested(r) ==
    IF r.kind = "if" THEN r
    ELSE IF r.kind = "seq" /\ Len(r.parts) = 2 /\ r.parts[2].kind = "if"
            /\ r.parts[1] = Block(r.parts[2].head)
    THEN r.parts[2] ELSE None

(* In front of an epilogue, if (a && b) { light } else { rest }: the light arm *)
(* returns. None when the branch has not that shape.                           *)
plant_in(n, branch, exit, weight) ==
    LET on_then == n.other = branch.other
        light == IF on_then THEN n.then ELSE n.other
        out == Several(<<light, Block(exit)>>)
        inner == IF on_then THEN [n EXCEPT !.then = out] ELSE [n EXCEPT !.other = out]
        planted == IF branch.then.kind = "if" THEN inner ELSE Several(<<Block(n.head), inner>>)
    IN  IF \/ n = None \/ n.other = None
           \/ branch.other \notin {n.then, n.other}
           \/ straight_weight(light, weight) \notin 1..GuardMax
           \/ \E p \in Paths(light) : Node(light, p) = Block(exit)
        THEN None ELSE [branch EXCEPT !.then = planted]
plant_conjunction_exit(branch, exit, weight) == plant_in(Nested(branch.then), branch, exit, weight)

(* The parts that a branch before an epilogue is replaced by, <<>> if by none. *)
lift_one(g, branch, tail, labels, weight) ==
    LET exit == tail.at
        planted == plant_conjunction_exit(branch, exit, weight)
        side == guard_side(straight_weight(branch.then, weight), straight_weight(branch.other, weight))
        guard == IF side = "then" THEN branch.then ELSE branch.other
        rest == PartsOf(IF side = "then" THEN branch.other ELSE branch.then)
        first == If(branch.head, IF side = "then" THEN branch.invert ELSE ~branch.invert,
                    Several(<<guard, Block(exit)>>), None)
        whole == <<first>> \o rest
    IN  IF \/ branch.kind # "if" \/ branch.other = None \/ tail.kind # "block"
           \/ exit \in labels \/ g.succs[exit] # <<>> \/ weight[exit] > ExitMax
        THEN <<>>
        ELSE IF planted # None THEN <<planted, tail>>
        ELSE IF side = "none" THEN <<>>
        ELSE IF ends_with_block(whole[Len(whole)], exit) THEN whole ELSE Append(whole, tail)

RECURSIVE lift_seq(_, _, _, _, _)
LiftFrom(g, parts, lifted, labels, weight, n) ==
    IF n = 0 \/ lifted = <<>> THEN parts
    ELSE lift_seq(g, SubSeq(parts, 1, Len(parts) - 2) \o lifted, labels, weight, n - 1)
lift_seq(g, parts, labels, weight, n) ==
    LET last == Len(parts)
    IN  LiftFrom(g, parts, IF last < 2 THEN <<>> ELSE lift_one(g, parts[last - 1], parts[last], labels, weight),
                 labels, weight, n)

RECURSIVE lift_exit_guards_rec(_, _, _, _)
lift_exit_guards_rec(g, r, labels, weight) ==
    LET t == WithChildren(r, LAMBDA c : lift_exit_guards_rec(g, c, labels, weight))
    IN  IF t.kind = "seq" THEN [t EXCEPT !.parts = lift_seq(g, @, labels, weight, LiftRounds)] ELSE t
lift_exit_guards(g, tree, labels, weight) == tidy(lift_exit_guards_rec(g, tree, labels, weight))
=============================================================================
