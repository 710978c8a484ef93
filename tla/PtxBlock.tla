------------------------------ MODULE PtxBlock ------------------------------
(* Kernels of blocks of threads: every interleaving of the threads of a launch *)
(* (the semantics interp.rs mirrors instruction for instruction, after         *)
(* Ptx/Semantics/SIMT.lean), and the search for counterexamples                *)
(* (e5r-verify ptx/blocksearch.rs), which runs one schedule of it, records     *)
(* every access and looks for races in the record.                             *)
EXTENDS Integers, Sequences

CONSTANTS
    Shapes,      \* launches: [grid, block], CTAs and threads in each
    Bodies,      \* kernels: sequences of instructions, without the final ret
    Cells,       \* words of the one allocation in each space, from 0 up
    Modulus,     \* how many values a word has
    Bits(_, _, _) \* "and", "or" and "xor" of two words, bit by bit

Numbers == 0 .. Modulus - 1

(* What an atomic computes, by: red has the operations that commute, atom also *)
(* exch and the comparison cas.                                                *)
Reds == {"add", "and", "or", "xor", "min", "max", "smin", "smax"}
Atoms == Reds \cup {"exch", "cas"}

(* An instruction: what it does, whose word of which space it accesses, and    *)
(* the guard that skips it. "mine" is the word with the thread's number in its *)
(* CTA, "same" word 0 for all, "wild" a word outside of the allocation.        *)
Accessing(ops, bys) ==
    [op : ops, by : bys, sp : {"global", "shared"}, at : {"mine", "same", "wild"},
     guard : {"always", "first", "zero"}]
Instrs == Accessing({"ld", "st"}, {"none"}) \cup Accessing({"red"}, Reds)
          \cup Accessing({"atom"}, Atoms)
          \cup [op : {"bar", "ret"}, guard : {"always", "first", "zero"}]

ASSUME LaunchesAssumption ==
    /\ Shapes \subseteq [grid : Nat \ {0}, block : Nat \ {0}]
    /\ Bodies \subseteq Seq(Instrs)
    /\ Cells \in Nat \ {0} /\ Modulus \in Nat \ {0}

ASSUME BitsAssumption ==
    \A by \in {"and", "or", "xor"}, v, b, c \in Numbers :
        Bits(by, v, b) \in Numbers /\ Bits(by, Bits(by, v, b), c) = Bits(by, Bits(by, v, c), b)

VARIABLES
    kernel, shape,
    cfg,         \* the interleaved execution
    run          \* the search: its own execution, what it records, and where it is

launchVars == <<kernel, shape, cfg, run>>

Threads(sh) == (0 .. sh.grid - 1) \X (0 .. sh.block - 1)
Cta(t) == t[1]
Words(sh) == {"global", "shared"} \X (0 .. sh.grid - 1) \X (0 .. Cells - 1)

-----------------------------------------------------------------------------
(* One step of one thread t at x, its counter and register: Ptx.tstep.         *)

Launched(sh) ==
    [ts |-> [t \in Threads(sh) |-> [pc |-> 1, r |-> 0]],
     mem |-> [w \in Words(sh) |-> 0],
     ph |-> [b \in 0 .. sh.grid - 1 |-> 0]]

Instr(k, x) == IF x.pc > Len(k) THEN [op |-> "ret", guard |-> "always"] ELSE k[x.pc]
Taken(k, t, x) ==
    CASE Instr(k, x).guard = "always" -> TRUE
      [] Instr(k, x).guard = "first" -> t[2] = 0
      [] OTHER -> x.r = 0
Addr(i, t) == CASE i.at = "mine" -> t[2] [] i.at = "same" -> 0 [] OTHER -> Cells
Kind(i) == CASE i.op = "ld" -> "read" [] i.op = "st" -> "write" [] OTHER -> "atomic"

(* An access; by is the operation of an atomic, which the record of the code   *)
(* leaves out and no check looks at.                                           *)
NoAccess == [kind |-> "none", by |-> "none", sp |-> "none", addr |-> 0]
Pending(k, t, x) ==
    LET i == Instr(k, x) IN
    IF Taken(k, t, x) /\ i.op \notin {"bar", "ret"}
    THEN [kind |-> Kind(i), by |-> i.by, sp |-> i.sp, addr |-> Addr(i, t)] ELSE NoAccess

(* How the next step ends: moved, waiting at bar.sync, halted or a fault.      *)
End(k, t, x) ==
    CASE Taken(k, t, x) /\ Instr(k, x).op = "bar" -> "wait"
      [] Taken(k, t, x) /\ Instr(k, x).op = "ret" -> "halted"
      [] Pending(k, t, x) # NoAccess /\ Pending(k, t, x).addr \notin 0 .. Cells - 1 -> "fault"
      [] OTHER -> "ok"

(* The word of an access; a CTA has a shared memory of its own.                *)
Word(t, a) == <<a.sp, IF a.sp = "shared" THEN Cta(t) ELSE 0, a.addr>>

(* What an atomic makes of the value v with its operand b: atom_val, at the    *)
(* width of a word, and cas of a word that was 0.                              *)
Signed(v) == IF 2 * v < Modulus THEN v ELSE v - Modulus
AtomVal(by, v, b) ==
    CASE by = "add" -> IF v + b < Modulus THEN v + b ELSE v + b - Modulus
      [] by = "min" -> IF v <= b THEN v ELSE b
      [] by = "max" -> IF b <= v THEN v ELSE b
      [] by = "smin" -> IF Signed(v) <= Signed(b) THEN v ELSE b
      [] by = "smax" -> IF Signed(b) <= Signed(v) THEN v ELSE b
      [] by = "exch" -> b
      [] by = "cas" -> IF v = 0 THEN b ELSE v
      [] OTHER -> Bits(by, v, b)

(* The operand of a store or an atomic depends on the register and the thread; *)
(* atom also returns what was there.                                           *)
Operand(t, x) == (x.r + 2 * t[2] + Cta(t) + 1) % Modulus
Written(t, x, a, v) ==
    CASE a.kind = "read" -> v
      [] a.kind = "write" -> Operand(t, x)
      [] OTHER -> AtomVal(a.by, v, Operand(t, x))
Moved(k, c, t) ==
    LET x == c.ts[t]
        a == Pending(k, t, x)
        w == Word(t, a)
        loads == a # NoAccess /\ Instr(k, x).op \in {"ld", "atom"}
    IN  [ts |-> [c.ts EXCEPT ![t] = [pc |-> x.pc + 1, r |-> IF loads THEN c.mem[w] ELSE x.r]],
         mem |-> IF a = NoAccess THEN c.mem ELSE [c.mem EXCEPT ![w] = Written(t, x, a, @)],
         ph |-> c.ph]

Ends(k, c, t) == End(k, t, c.ts[t])
InCta(sh, b) == {t \in Threads(sh) : Cta(t) = b}
BarReady(k, sh, c, b) ==
    \A t, u \in InCta(sh, b) : Ends(k, c, t) = "wait" /\ c.ts[t].pc = c.ts[u].pc
Released(sh, c, b) ==
    [ts |-> [t \in Threads(sh) |-> IF Cta(t) = b THEN [pc |-> c.ts[t].pc + 1, r |-> c.ts[t].r]
                                   ELSE c.ts[t]],
     mem |-> c.mem, ph |-> [c.ph EXCEPT ![b] = @ + 1]]
Diverged(k, sh, c) ==
    \E t, u \in Threads(sh) :
        /\ Cta(t) = Cta(u) /\ Ends(k, c, t) = "wait"
        /\ \/ Ends(k, c, u) = "halted"
           \/ Ends(k, c, u) = "wait" /\ c.ts[u].pc # c.ts[t].pc
Faults(k, sh, c) == Diverged(k, sh, c) \/ \E t \in Threads(sh) : Ends(k, c, t) = "fault"
AllHalted(k, sh, c) == \A t \in Threads(sh) : Ends(k, c, t) = "halted"

-----------------------------------------------------------------------------
(* The search: blocksearch::run. CTA after CTA and thread after thread, each   *)
(* until it waits, halts or faults. Without loops its fuel never runs out.     *)

RunThread(t, n) == [do |-> "run", t |-> t, n |-> n]
Release(b) == [do |-> "release", b |-> b]

SearchStart(sh) ==
    [cfg |-> Launched(sh), events |-> << >>, choices |-> << >>,
     cta |-> 0, turn |-> 0, within |-> 0, end |-> "running"]

Turn == <<run.cta, run.turn>>
InTurn == run.end = "running" /\ run.turn < shape.block
RoundOver == run.end = "running" /\ run.turn = shape.block

(* run_until_wait: one step of the thread, its access recorded with the number *)
(* of the choices made before the thread's turn and its own steps since.       *)
Advance ==
    LET a == Pending(kernel, Turn, run.cfg.ts[Turn])
        e == [t |-> Turn, phase |-> run.cfg.ph[run.cta], access |-> a,
              prefix |-> Len(run.choices), within |-> run.within]
    IN  /\ InTurn /\ Ends(kernel, run.cfg, Turn) = "ok"
        /\ run' = [run EXCEPT !.cfg = Moved(kernel, @, Turn), !.within = @ + 1,
                              !.events = IF a = NoAccess THEN @ ELSE Append(@, e)]
        /\ UNCHANGED <<kernel, shape, cfg>>

EndTurn ==
    /\ InTurn /\ Ends(kernel, run.cfg, Turn) # "ok"
    /\ run' = [run EXCEPT !.choices = Append(@, RunThread(Turn, run.within)),
                          !.turn = @ + 1, !.within = 0,
                          !.end = IF Ends(kernel, run.cfg, Turn) = "fault" THEN "fault" ELSE @]
    /\ UNCHANGED <<kernel, shape, cfg>>

Waits == \E t \in InCta(shape, run.cta) : Ends(kernel, run.cfg, t) = "wait"
EndRound ==
    /\ RoundOver /\ Waits
    /\ run' = IF BarReady(kernel, shape, run.cfg, run.cta)
              THEN [run EXCEPT !.cfg = Released(shape, @, run.cta), !.turn = 0,
                               !.choices = Append(@, Release(run.cta))]
              ELSE [run EXCEPT !.end = "fault"]
    /\ UNCHANGED <<kernel, shape, cfg>>

EndCta ==
    /\ RoundOver /\ ~Waits
    /\ run' = [run EXCEPT !.cta = @ + 1, !.turn = 0,
                          !.end = IF run.cta + 1 = shape.grid THEN "done" ELSE @]
    /\ UNCHANGED <<kernel, shape, cfg>>

(* Mutant of Separated: whatever their CTAs. *)
SeparatedByPhase(a, b) == a.phase # b.phase

Separated(a, b) == Cta(a.t) = Cta(b.t) /\ a.phase # b.phase

Race(a, b) ==
    /\ a.t # b.t /\ a.access.sp = b.access.sp
    /\ a.access.sp = "shared" => Cta(a.t) = Cta(b.t)
    /\ ~(a.access.kind = "read" /\ b.access.kind = "read")
    /\ a.access.addr = b.access.addr
    /\ ~(a.access.kind = "atomic" /\ b.access.kind = "atomic")
    /\ ~Separated(a, b)

Races(events) ==
    {p \in (DOMAIN events) \X (DOMAIN events) : p[1] < p[2] /\ Race(events[p[1]], events[p[2]])}
FirstRace(events) ==
    CHOOSE p \in Races(events) : \A q \in Races(events) :
        p[1] < q[1] \/ (p[1] = q[1] /\ p[2] <= q[2])

(* Atomics of two threads on one word that are not the same operation, and no  *)
(* barrier between them: they are no race, and do not commute.                 *)
Alike(a, b) == a.kind = "atomic" /\ b.kind = "atomic" /\ a.by = b.by
Mingled(events) ==
    \E i, j \in DOMAIN events :
        LET a == events[i]  b == events[j] IN
        /\ a.t # b.t /\ Word(a.t, a.access) = Word(b.t, b.access)
        /\ a.access.kind = "atomic" /\ b.access.kind = "atomic" /\ ~Alike(a.access, b.access)
        /\ ~Separated(a, b)

(* The choices that lead up to an access.                                      *)
(* Mutant of Prefix: up to and including the access. *)
PrefixAfter(choices, e) == Append(SubSeq(choices, 1, e.prefix), RunThread(e.t, e.within + 1))
Prefix(choices, e) == Append(SubSeq(choices, 1, e.prefix), RunThread(e.t, e.within))

(* What search makes of the run: a fault, a race, or the memory at its end.    *)
Passed == run.end = "done" /\ Races(run.events) = {}
Raced == run.end = "done" /\ Races(run.events) # {}

-----------------------------------------------------------------------------
(* Ptx.Cfg.exec: the choices replayed, as long as each of them is a step.      *)
Stepped(k, s, t) ==
    IF s.legal /\ Ends(k, s.cfg, t) = "ok" THEN [legal |-> TRUE, cfg |-> Moved(k, s.cfg, t)]
    ELSE [legal |-> FALSE, cfg |-> s.cfg]
Chosen(k, sh, s, ch) ==
    IF ch.do = "release"
    THEN IF s.legal /\ BarReady(k, sh, s.cfg, ch.b)
         THEN [legal |-> TRUE, cfg |-> Released(sh, s.cfg, ch.b)]
         ELSE [legal |-> FALSE, cfg |-> s.cfg]
    ELSE LET after[i \in 0 .. ch.n] == IF i = 0 THEN s ELSE Stepped(k, after[i - 1], ch.t)
         IN  after[ch.n]
Begun(sh) == [legal |-> TRUE, cfg |-> Launched(sh)]
Exec(k, sh, choices) ==
    LET after[i \in 0 .. Len(choices)] ==
            IF i = 0 THEN Begun(sh) ELSE Chosen(k, sh, after[i - 1], choices[i])
    IN  after[Len(choices)]

-----------------------------------------------------------------------------
LaunchInit ==
    /\ kernel \in Bodies /\ shape \in Shapes
    /\ cfg = Launched(shape) /\ run = SearchStart(shape)

(* The launches the verdict is about, once there is one. *)
Step(t) ==
    /\ run.end # "running" /\ Ends(kernel, cfg, t) = "ok"
    /\ cfg' = Moved(kernel, cfg, t)
    /\ UNCHANGED <<kernel, shape, run>>

Barrier(b) ==
    /\ run.end # "running" /\ BarReady(kernel, shape, cfg, b)
    /\ cfg' = Released(shape, cfg, b)
    /\ UNCHANGED <<kernel, shape, run>>

LaunchNext ==
    \/ Advance \/ EndTurn \/ EndRound \/ EndCta
    \/ \E t \in Threads(shape) : Step(t)
    \/ \E b \in 0 .. shape.grid - 1 : Barrier(b)
LaunchSpec == LaunchInit /\ [][LaunchNext]_launchVars

-----------------------------------------------------------------------------
Old(k) == \E i \in DOMAIN k : k[i].op = "atom"

(* Ptx.Conflict: the same word of the same space, and one of them writes.      *)
Conflict(t, a, u, b) ==
    /\ a.sp = b.sp /\ a.addr = b.addr
    /\ a.sp = "shared" => Cta(t) = Cta(u)
    /\ a.kind # "read" \/ b.kind # "read"

(* Two threads about to make conflicting accesses that are not both atomic, in *)
(* c and in d, and no barrier of one CTA between them (Ptx.raceB).             *)
RaceAt(k, c, t, d, u) ==
    LET a == Pending(k, t, c.ts[t])  b == Pending(k, u, d.ts[u]) IN
    /\ t # u /\ a # NoAccess /\ b # NoAccess /\ Conflict(t, a, u, b)
    /\ ~(a.kind = "atomic" /\ b.kind = "atomic")
    /\ Cta(t) = Cta(u) => c.ph[Cta(t)] = d.ph[Cta(u)]

(* OneScheduleIsEnough: when the one schedule of the search neither faults nor *)
(* shows a race, no atomic returns what it found, and the threads between two  *)
(* barriers combine into a word with one operation, then no interleaving       *)
(* faults, diverges or comes to a race, and every one that ends leaves the     *)
(* memory the search compared with the specification                           *)
(* (blocksearch.rs:282-325 and 366-443, interp.rs:341-364 and 811-875).        *)
OneScheduleIsEnough ==
    Passed /\ ~Old(kernel) /\ ~Mingled(run.events) =>
        /\ ~Faults(kernel, shape, cfg)
        /\ \A t, u \in Threads(shape) : ~RaceAt(kernel, cfg, t, cfg, u)
        /\ AllHalted(kernel, shape, cfg) => cfg.mem = run.cfg.mem

(* WitnessesReplay: the choices recorded for a race are steps of the launch,   *)
(* lead each of its two threads to the access it is reported with, and show    *)
(* the race Lean looks for there; those of a fault lead to a fault. So Lean    *)
(* can replay what is reported (blocksearch.rs:198-274, 310-321).              *)
WitnessesReplay ==
    /\ Raced =>
         LET p == FirstRace(run.events)
             a == run.events[p[1]]
             b == run.events[p[2]]
             s == Exec(kernel, shape, Prefix(run.choices, a))
             s2 == Exec(kernel, shape, Prefix(run.choices, b))
         IN  /\ s.legal /\ Pending(kernel, a.t, s.cfg.ts[a.t]) = a.access
             /\ s2.legal /\ Pending(kernel, b.t, s2.cfg.ts[b.t]) = b.access
             /\ RaceAt(kernel, s.cfg, a.t, s2.cfg, b.t)
    /\ run.end = "fault" =>
         LET s == Exec(kernel, shape, run.choices)
         IN  s.legal /\ Faults(kernel, shape, s.cfg)
=============================================================================
