----------------------------- MODULE MCPtxBlock -----------------------------
(* Small instances of PtxBlock for TLC: every kernel of up to three of these  *)
(* instructions, on words of three bits.                                       *)
EXTENDS PtxBlock, Bitwise

BitByBit(by, v, b) == CASE by = "and" -> v & b [] by = "or" -> v | b [] OTHER -> v ^^ b

Access(op, by, sp, at, guard) == [op |-> op, by |-> by, sp |-> sp, at |-> at, guard |-> guard]
Some ==
    {Access(op, "none", sp, "same", g) : op \in {"ld", "st"}, sp \in {"global", "shared"},
                                         g \in {"always", "first"}}
    \cup {Access("red", "add", sp, "same", g) : sp \in {"global", "shared"},
                                                g \in {"always", "first"}}
    \cup {Access("red", by, "global", "same", "always") : by \in {"and", "xor", "max", "smin"}}
    \cup {Access(op, "none", "shared", "mine", "always") : op \in {"ld", "st"}}
    \cup {Access("st", "none", "global", at, "zero") : at \in {"same", "mine", "wild"}}
    \cup {Access("atom", by, "global", "same", "always") : by \in {"add", "cas"}}
    \cup {[op |-> "bar", guard |-> g] : g \in {"always", "zero"}}
    \cup {[op |-> "ret", guard |-> "zero"]}

ThreeLong == [1 .. 3 -> Some]
TwoThreads == {[grid |-> 1, block |-> 2], [grid |-> 2, block |-> 1]}
=============================================================================
