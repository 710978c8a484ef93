------------------------------ MODULE Dataflow ------------------------------
(* The passes over a function in SSA form that do not compute (opt.rs optimize,*)
(* propagate, cse, remove_dead), and a run: the same path is taken through the *)
(* operations as they were lifted and through their form.                      *)
EXTENDS Ssa

CONSTANT
    MaxSteps     \* bound: blocks of one run

VARIABLES
    form,        \* of each block: [phis, ops], what is left of them
    run          \* the execution: [at, regs, vals, steps, agree, lost]

dataflow == <<ssa, form, run>>

DataflowInit == SsaInit /\ form = <<>> /\ run = NoFunction

(* Every predecessor is renamed: the phis get their inputs. *)
Fill ==
    /\ fn # NoFunction /\ stack = <<>> /\ form = <<>>
    /\ form' = Filled
    /\ UNCHANGED <<ssa, run>>

-----------------------------------------------------------------------------
(* The operations of a form, and its phis. *)
OpsOf(f) == UNION {{f[at].ops[i] : i \in DOMAIN f[at].ops} : at \in DOMAIN f}
PhisOf(f) == UNION {{f[at].phis[l] : l \in DOMAIN f[at].phis} : at \in DOMAIN f}
InputsOf(phi) == {phi.inputs[p] : p \in DOMAIN phi.inputs}

(* Copies: of a whole location, and phis whose inputs are all one other value. *)
Copies(f) ==
    {<<o.out, o.in>> : o \in {o \in OpsOf(f) : o.op.code = "copy"}}
    \cup UNION {{<<phi.out, v>> : v \in {v \in InputsOf(phi) : InputsOf(phi) = {v} /\ v # phi.out}} :
                   phi \in PhisOf(f)}

(* Every operand is replaced by what it was copied from, up to 64 copies ago.  *)
Propagate(f) ==
    LET copies == Copies(f)
        source == [v \in {c[1] : c \in copies} |-> (CHOOSE c \in copies : c[1] = v)[2]]
        next(v, n) == IF v \in DOMAIN source THEN source[v] ELSE v
        resolve(v) == IF v \in DOMAIN source THEN FoldLeft(next, v, [n \in 1..64 |-> n]) ELSE v
        phi(p) == [p EXCEPT !.inputs = [b \in DOMAIN p.inputs |-> resolve(p.inputs[b])]]
        op(o) == [o EXCEPT !.in = resolve(@), !.old = resolve(@)]
    IN  [at \in DOMAIN f |-> [phis |-> [l \in DOMAIN f[at].phis |-> phi(f[at].phis[l])],
                              ops |-> [i \in DOMAIN f[at].ops |-> op(f[at].ops[i])]]]

(* Within a block, a pure operation seen before becomes a copy of its value.   *)
CseBlock(ops) ==
    LET key(o) == <<o.in, o.old, o.op.part, o.op.of>>
        first(i) == CHOOSE j \in DOMAIN ops :
                        /\ ops[j].op.code = "pure" /\ key(ops[j]) = key(ops[i])
                        /\ \A k \in DOMAIN ops :
                             ops[k].op.code = "pure" /\ key(ops[k]) = key(ops[i]) => j <= k
    IN  [i \in DOMAIN ops |->
            IF ops[i].op.code = "pure" /\ first(i) # i
            THEN [ops[i] EXCEPT !.op = [@ EXCEPT !.code = "copy", !.part = "whole", !.of = "whole"],
                                !.in = ops[first(i)].out, !.old = NoOperand]
            ELSE ops[i]]
Cse(f) == [at \in DOMAIN f |-> [f[at] EXCEPT !.ops = CseBlock(@)]]

-----------------------------------------------------------------------------
(* The last write of a location before a place in a block, or else the write   *)
(* with the highest version anywhere.                                          *)
LastDefinition(f, at, l, before) ==
    LET here == {i \in DOMAIN f[at].ops : i < before /\ f[at].ops[i].op.out = l}
        others == {v \in {o.out : o \in OpsOf(f) \cup PhisOf(f)} : v # NoOperand /\ v[1] = l}
    IN  IF here # {} THEN {f[at].ops[Max(here)].out}
        ELSE IF l \in DOMAIN f[at].phis THEN {f[at].phis[l].out}
        ELSE {v \in others : \A w \in others : w[2] <= v[2]}

HasEffect(o) == o.op.code \in {"store", "branch", "switch", "call", "tail", "return"}

(* Mutant of Seeds: nothing is live that is read without being named. *)
SeedsNamed(f) == {o.in : o \in {o \in OpsOf(f) : HasEffect(o)}}
Seeds(f) ==
    {o.in : o \in {o \in OpsOf(f) : HasEffect(o)}}
    \cup UNION {UNION {UNION {LastDefinition(f, at, l, i) : l \in Implicit(f[at].ops[i].op)} :
                         i \in DOMAIN f[at].ops} : at \in DOMAIN f}
Live(f) ==
    LET reads == [v \in {o.out : o \in OpsOf(f) \cup PhisOf(f)} |->
                     UNION ({{o.in, o.old} : o \in {o \in OpsOf(f) : o.out = v}}
                            \cup {InputsOf(phi) : phi \in {phi \in PhisOf(f) : phi.out = v}})]
        live[n \in 0..Cardinality(DOMAIN reads)] ==
            IF n = 0 THEN Seeds(f)
            ELSE LET l == live[n - 1]
                 IN  l \cup UNION {reads[v] : v \in (l \cap DOMAIN reads) \ {NoOperand}}
    IN  live[Cardinality(DOMAIN reads)]

(* Only operations with an effect, and those whose value is live, stay.        *)
RemoveDead(f) ==
    LET live == Live(f)
        stays(o) == o.op.out = NoLoc \/ HasEffect(o) \/ o.out \in live
        phi(ps) == {l \in DOMAIN ps : ps[l].out \in live}
        op(os) == {i \in DOMAIN os : stays(os[i])}
    IN  [at \in DOMAIN f |-> [phis |-> [l \in phi(f[at].phis) |-> f[at].phis[l]],
                              ops |-> [i \in op(f[at].ops) |-> f[at].ops[i]]]]

(* One round of the passes, as long as one changes something. Those between    *)
(* them compute on constants.                                                  *)
Optimize ==
    /\ form # <<>> /\ run = NoFunction
    /\ form' = RemoveDead(Cse(Propagate(form))) /\ form' # form
    /\ UNCHANGED <<ssa, run>>

-----------------------------------------------------------------------------
(* A run. Each part of a location holds a token: where it was computed, unless *)
(* it depends on nothing but its input, and the input.                         *)
Token(site, of) == [site |-> site, of |-> of]
Both(token) == [low |-> token, high |-> token]
OnEntry(l) == Both(Token(<<>>, <<l>>))
Unknown == Both(Token(<<>>, <<Undefined>>))
Gone == Both(Token(<<>>, <<NoLoc>>))
Value(vals, v) == IF v = NoOperand THEN Unknown
                  ELSE IF v[2] = Undefined THEN OnEntry(v[1])
                  ELSE IF v \in DOMAIN vals THEN vals[v] ELSE Gone

View(part, x) == IF part = "whole" THEN <<x.low, x.high>> ELSE <<x.low>>
Computed(op, site, seen, old) ==
    LET token == Token(IF op.code = "pure" THEN <<>> ELSE site, View(op.part, seen))
    IN  IF op.code = "copy" THEN seen
        ELSE IF op.of = "whole" THEN Both(token) ELSE [old EXCEPT !.low = token]

(* One operation as it was lifted, beside what is left of it. *)
RunOp(acc, op) ==
    LET site == <<acc.at, acc.i, acc.steps>>
        kept == acc.i \in DOMAIN form[acc.at].ops
        o == form[acc.at].ops[acc.i]
        seen == IF op.in = NoLoc THEN Unknown ELSE acc.regs[op.in]
        value == Computed(op, site, seen, IF op.out = NoLoc THEN Unknown ELSE acc.regs[op.out])
        held == Computed(o.op, site, Value(acc.vals, o.in), Value(acc.vals, o.old))
    IN  [acc EXCEPT
            !.i = @ + 1,
            !.regs = IF op.out = NoLoc THEN @ ELSE [@ EXCEPT ![op.out] = value],
            !.vals = IF kept /\ op.out # NoLoc THEN (o.out :> held) @@ @ ELSE @,
            !.agree = @ /\ (kept => IF op.out # NoLoc THEN held = value
                                    ELSE View(op.part, Value(acc.vals, o.in)) = View(op.part, seen)),
            !.lost = IF op.code \in {"return", "call", "tail"}
                     THEN @ \cup {<<acc.i, l>> : l \in {l \in DOMAIN o.sees :
                                                Value(acc.vals, o.sees[l]) # acc.regs[l]}}
                     ELSE @]

(* A block is entered from another, or from outside the function. A phi takes  *)
(* the input of the predecessor; from outside it has none.                     *)
RunBlock(r, at, from) ==
    LET here == {form[at].phis[l] : l \in DOMAIN form[at].phis}
        merged == [v \in {phi.out : phi \in here} |->
                      IF from = NoFunction THEN Unknown
                      ELSE Value(r.vals, (CHOOSE phi \in here : phi.out = v).inputs[from])]
        acc == [at |-> at, i |-> 1, steps |-> r.steps + 1, agree |-> r.agree, lost |-> {},
                regs |-> r.regs, vals |-> merged @@ r.vals]
    IN  FoldLeft(RunOp, acc, fn.blocks[at].ops)

Enter ==
    /\ form # <<>> /\ run = NoFunction
    /\ run' = RunBlock([steps |-> 0, agree |-> TRUE, regs |-> [l \in Locs |-> OnEntry(l)],
                        vals |-> <<>>], fn.entry, NoFunction)
    /\ UNCHANGED <<ssa, form>>

Go ==
    /\ run # NoFunction /\ run.steps < MaxSteps
    /\ \E s \in ToSet(fn.blocks[run.at].successors) : run' = RunBlock(run, s, run.at)
    /\ UNCHANGED <<ssa, form>>

DataflowNext ==
    \/ Rename /\ UNCHANGED <<form, run>>
    \/ Fill \/ Optimize \/ Enter \/ Go

-----------------------------------------------------------------------------
(* What last_definition takes for the value that reaches a place is that.      *)
Foreseen(at, i, l) == LastDefinition(Filled, at, l, i) \subseteq {renamed[at].ops[i].sees[l]}

(* ReadsAgree: wherever control goes, an operation in SSA form computes what   *)
(* it computes in the function as it was lifted, after any number of rounds of *)
(* the passes: "'where did this come from' is a lookup rather than a search"   *)
(* (ssa.rs:3-4). What a caller or a callee reads is still there, too, where    *)
(* last_definition foresees it (opt.rs:264-286). A function with a branch of   *)
(* its own back to its entry is left out: frontiers asks for two predecessors  *)
(* (ssa.rs:296) and does not count the caller as one.                          *)
ReadsAgree ==
    run # NoFunction /\ fn.blocks[fn.entry].predecessors = <<>> =>
        /\ run.agree
        /\ \A x \in run.lost : ~Foreseen(run.at, x[1], x[2])
=============================================================================
