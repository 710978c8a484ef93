----------------------------- MODULE RegionTree -----------------------------
(* The region trees of structure.rs: a function's control flow as sequences,   *)
(* branches, loops, switches and jumps. A place in a tree is the path of the   *)
(* steps that lead to it from the root.                                        *)
EXTENDS Integers, Sequences, FiniteSets, SequencesExt

CONSTANT NoBlock     \* Option::None, where the code has an Option<Addr>

(* The variants of Region; None is an arm that an if or a switch lacks. *)
Block(at) == [kind |-> "block", at |-> at]
Several(parts) == [kind |-> "seq", parts |-> parts]
If(head, invert, then, other) ==
    [kind |-> "if", head |-> head, invert |-> invert, then |-> then, other |-> other]
While(head, invert, body) ==
    [kind |-> "while", head |-> head, invert |-> invert, body |-> body]
Infinite(head, body) == [kind |-> "infinite", head |-> head, body |-> body]
Switch(head, cases, default) ==
    [kind |-> "switch", head |-> head, cases |-> cases, default |-> default]
Goto(at) == [kind |-> "goto", at |-> at]
Break == [kind |-> "break"]
Continue == [kind |-> "continue"]
Empty == [kind |-> "empty"]
None == [kind |-> "none"]

IsLoop(r) == r.kind \in {"while", "infinite"}

(* A sequence of no parts is Empty and one of a single part is that part. *)
Of(parts) == CASE parts = <<>>    -> Empty
               [] Len(parts) = 1  -> parts[1]
               [] OTHER           -> Several(parts)
PartsOf(r) == IF r.kind = "seq" THEN r.parts ELSE <<r>>

(* The steps from a region to its children. *)
Part(i) == <<"part", i>>
Then == <<"then", 0>>
Else == <<"else", 0>>
Body == <<"body", 0>>
Case(i) == <<"case", i>>
Default == <<"default", 0>>

Steps(r) ==
    CASE r.kind = "seq"    -> {Part(i) : i \in DOMAIN r.parts}
      [] r.kind = "if"     -> {Then} \cup {s \in {Else} : r.other # None}
      [] IsLoop(r)         -> {Body}
      [] r.kind = "switch" -> {Case(i) : i \in DOMAIN r.cases} \cup {s \in {Default} : r.default # None}
      [] OTHER             -> {}

Child(r, s) == CASE s[1] = "part"    -> r.parts[s[2]]
                 [] s[1] = "then"    -> r.then
                 [] s[1] = "else"    -> r.other
                 [] s[1] = "body"    -> r.body
                 [] s[1] = "case"    -> r.cases[s[2]].body
                 [] s[1] = "default" -> r.default
WithChild(r, s, c) == CASE s[1] = "part"    -> [r EXCEPT !.parts[s[2]] = c]
                        [] s[1] = "then"    -> [r EXCEPT !.then = c]
                        [] s[1] = "else"    -> [r EXCEPT !.other = c]
                        [] s[1] = "body"    -> [r EXCEPT !.body = c]
                        [] s[1] = "case"    -> [r EXCEPT !.cases[s[2]].body = c]
                        [] s[1] = "default" -> [r EXCEPT !.default = c]

Node(r, path) == FoldLeft(Child, r, path)

RECURSIVE Put(_, _, _)
Put(r, path, new) ==
    IF path = <<>> THEN new
    ELSE WithChild(r, path[1], Put(Child(r, path[1]), Tail(path), new))

RECURSIVE Paths(_)
Paths(r) == {<<>>} \cup UNION {{<<s>> \o p : p \in Paths(Child(r, s))} : s \in Steps(r)}

(* A rewriting applied to every child. *)
WithChildren(r, F(_)) ==
    FoldSet(LAMBDA s, t : WithChild(t, s, F(Child(t, s))), r, Steps(r))

(* Where the statements of a block are written, and where they are jumped to:  *)
(* an if or a switch has its head's statements in the Block before it.         *)
HeldAt(r) == CASE r.kind = "block" -> r.at [] IsLoop(r) -> r.head [] OTHER -> NoBlock
Definitions(r, block) == {p \in Paths(r) : HeldAt(Node(r, p)) = block}
Gotos(r, block) == {p \in Paths(r) : Node(r, p) = Goto(block)}

Mentioned(r) == {HeldAt(Node(r, p)) : p \in Paths(r)} \ {NoBlock}
Heads(r) == {Node(r, p).head : p \in {q \in Paths(r) : Node(r, q).kind \in {"if", "switch"}}}
=============================================================================
