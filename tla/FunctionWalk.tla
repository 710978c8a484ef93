---------------------------- MODULE FunctionWalk ----------------------------
(* The walk that finds the basic blocks of one function (cfg.rs build_raw), on *)
(* instructions of one size. An address is the place of an instruction; what   *)
(* the walk asks of one is where control goes next, and whether it reads a     *)
(* word. Reading a jump table (jumptable.rs) is a fact of the instruction: the *)
(* targets of a switch, none when no table is found.                           *)
EXTENDS Integers, Sequences, FiniteSets, SequencesExt

CONSTANTS
    LastAddr,    \* the executable addresses are 1..LastAddr
    InsnCap,     \* caps.function_insns
    BlockCap     \* caps.function_blocks

(* The code has 2^20 instructions and 2^18 blocks (error.rs:167-168).          *)
ASSUME CapsAssumption == LastAddr \in Nat \ {0} /\ InsnCap \in Nat \ {0} /\ BlockCap \in Nat \ {0}

Addrs == 1..LastAddr
Flows == {"next", "open", "load", "call", "jump", "cond", "switch", "ret", "trap", "bad"}
Insns == [flow : Flows, to : SUBSET (1..LastAddr + 1)]
IsExecutable(a) == a \in Addrs

(* A set of addresses as the code goes through one, from the least to the      *)
(* greatest: the i-th is the one with i - 1 below it.                          *)
InOrder(as) ==
    [i \in 1..Cardinality(as) |-> CHOOSE a \in as : Cardinality({b \in as : b < a}) = i - 1]

(* A walk is given c: the image, the function's entry, the entries of others,  *)
(* the functions that never return, and the addresses known to be data.        *)
Decodes(c, a) == IsExecutable(a) /\ c.image[a].flow # "bad"
TailTargets(c, a) == (c.image[a].to \cap c.stop_at) \ {c.entry}

(* The instruction at a is the last of its block. *)
EndsBlock(c, a) ==
    \/ c.image[a].flow \in {"ret", "trap", "switch", "jump", "cond"}
    \/ c.image[a].flow = "call" /\ c.image[a].to \subseteq c.noreturn

(* Where control goes from it, once branches to other functions are set aside. *)
Successors(c, a) ==
    CASE EndsBlock(c, a) /\ c.image[a].flow \in {"ret", "trap", "call"} -> {}
      [] c.image[a].flow = "switch" -> c.image[a].to
      [] c.image[a].flow = "jump" -> c.image[a].to \ TailTargets(c, a)
      [] c.image[a].flow = "cond" -> (c.image[a].to \ TailTargets(c, a)) \cup {a + 1}
      [] OTHER -> {a + 1}

Terminator(c, a) ==
    CASE c.image[a].flow = "ret" -> "Return"
      [] c.image[a].flow = "trap" -> "Trap"
      [] c.image[a].flow = "call" -> "NoReturnCall"
      [] c.image[a].flow = "switch" /\ c.image[a].to = {} -> "Unresolved"
      [] c.image[a].flow = "jump" /\ TailTargets(c, a) # {} ->
            IF TailTargets(c, a) \subseteq c.noreturn THEN "NoReturnCall" ELSE "TailCall"
      [] OTHER -> "Flow"

-----------------------------------------------------------------------------
(* w is the walk so far: the stack of starts, the runs found from each start,  *)
(* the calls, and what is left of the cap on instructions.                     *)
Start(c) == [work |-> <<c.entry>>, ends |-> <<>>, calls |-> {},
             has_indirect |-> FALSE, budget |-> InsnCap, halt |-> "Complete"]

(* The run from start stops before a. *)
Capped(w, start, a) == a - start >= w.budget
Joins(w, start, a) == a # start /\ a \in DOMAIN w.ends
Stuck(c, a) == a \in c.data \/ ~Decodes(c, a)
StopsAt(c, w, start) ==
    Min({a \in start..LastAddr + 1 :
            Capped(w, start, a) \/ Joins(w, start, a) \/ Stuck(c, a) \/ EndsBlock(c, a)})

(* The run from start, and why it halts the walk, if it does. *)
Run(c, w, start) ==
    LET a == StopsAt(c, w, start)
        cut == [end |-> a, successors |-> {}, term |-> "Unresolved"]
    IN  CASE Capped(w, start, a) -> [run |-> cut, halt |-> "InstructionCap"]
          [] ~Capped(w, start, a) /\ Joins(w, start, a) ->
                [run |-> [cut EXCEPT !.successors = {a}, !.term = "Flow"], halt |-> w.halt]
          [] ~Capped(w, start, a) /\ ~Joins(w, start, a) /\ Stuck(c, a) ->
                [run |-> cut, halt |-> "Undecodable"]
          [] OTHER -> [run |-> [end |-> a + 1, successors |-> Successors(c, a),
                                term |-> Terminator(c, a)],
                       halt |-> w.halt]

Called(c, start, end) ==
    UNION {IF c.image[a].flow = "call" THEN c.image[a].to
           ELSE IF c.image[a].flow \in {"jump", "cond"} THEN TailTargets(c, a) ELSE {} :
           a \in start..end - 1}

(* A new start is taken off the stack: its run, and the starts it leads to. *)
Extend(c, w, start, run, halt) ==
    [work |-> Front(w.work) \o
              InOrder({t \in run.successors \ DOMAIN w.ends : t # start /\ IsExecutable(t)}),
     ends |-> [s \in DOMAIN w.ends \cup {start} |-> IF s = start THEN run ELSE w.ends[s]],
     calls |-> w.calls \cup Called(c, start, run.end),
     has_indirect |-> w.has_indirect \/
         (run.end > start /\ run.term = "Unresolved" /\ c.image[run.end - 1].flow = "switch"),
     budget |-> w.budget - (run.end - start),
     halt |-> halt]
Taken(c, w, start, r) == Extend(c, w, start, r.run, r.halt)

(* One turn of the loop: the last start of the stack, if it is new. *)
WalkOne(c, w) ==
    LET start == w.work[Len(w.work)]
    IN  CASE start \in DOMAIN w.ends -> [w EXCEPT !.work = Front(@)]
          [] start \notin DOMAIN w.ends /\ Cardinality(DOMAIN w.ends) >= BlockCap ->
                [w EXCEPT !.work = <<>>, !.halt = "BlockCap"]
          [] OTHER -> Taken(c, w, start, Run(c, w, start))

(* Turns enough for every start to be popped as often as it can be pushed. *)
Turns == 1 + LastAddr * LastAddr
Walked(c) ==
    LET w[n \in 0..Turns] ==
            IF n = 0 THEN Start(c)
            ELSE LET v == w[n - 1] IN IF v.work = <<>> THEN v ELSE WalkOne(c, v)
    IN  w[Turns]

(* A run that covers another's start ends there.                               *)
(* Mutant of Cut: a run keeps what it walked over. *)
CutNot(w, start) == w.ends[start]
Cut(w, start) ==
    LET run == w.ends[start]
        inside == {s \in DOMAIN w.ends : start < s /\ s < run.end}
    IN  IF inside = {} THEN run
        ELSE [end |-> Min(inside), successors |-> {Min(inside)}, term |-> "Flow"]

(* The blocks of a finished walk, without those of no instruction. *)
BlockAt(w, start) ==
    LET run == Cut(w, start)
    IN  [at |-> start, end |-> run.end, successors |-> run.successors, term |-> run.term]
BlocksAt(w, starts) == [i \in DOMAIN starts |-> BlockAt(w, starts[i])]
Found(w) ==
    [blocks |-> BlocksAt(w, InOrder({s \in DOMAIN w.ends : w.ends[s].end > s})),
     calls |-> w.calls, has_indirect |-> w.has_indirect, halt |-> w.halt]
RawCfg(c) == Found(Walked(c))

-----------------------------------------------------------------------------
(* What the blocks should be, from one instruction to the next. *)
Runs(c, a) == Decodes(c, a) /\ a \notin c.data
Spread(c, as) == as \cup UNION {Successors(c, a) : a \in {x \in as : Runs(c, x)}}
Reachable(c) ==
    LET r[n \in 0..LastAddr] == IF n = 0 THEN {c.entry} ELSE Spread(c, r[n - 1])
    IN  {a \in r[LastAddr] : Runs(c, a)}

IsCapped(cfg) == cfg.halt \in {"InstructionCap", "BlockCap"}
Covers(blocks) == UNION {b.at..b.end - 1 : b \in blocks}

(* ExactBlocks: the blocks share no instruction; they hold the instructions    *)
(* that can be reached and, unless a cap ended the walk, all of them; no edge  *)
(* goes into the middle of one, and each leads where its last instruction does.*)
ExactBlocks(c, raw) ==
    LET blocks == ToSet(raw.blocks)
    IN  /\ \A b, d \in blocks : b # d => (b.at..b.end - 1) \cap (d.at..d.end - 1) = {}
        /\ Covers(blocks) \subseteq Reachable(c)
        /\ ~IsCapped(raw) => Covers(blocks) = Reachable(c)
        /\ \A b \in blocks :
             /\ \A a \in Reachable(c) :
                  ~IsCapped(raw) => Successors(c, a) \cap (b.at + 1..b.end - 1)
                                \subseteq (IF a \in b.at..b.end - 2 THEN {a + 1} ELSE {})
             /\ b.term # "Unresolved" => b.successors = Successors(c, b.end - 1)
=============================================================================
