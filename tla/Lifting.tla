------------------------------ MODULE Lifting -------------------------------
(* From a program to the SSA form of one of its functions: the functions are   *)
(* found, one of them is lifted from its blocks (decompile.rs, func.rs build)  *)
(* and renamed, and then it runs. What an instruction reads and writes is a    *)
(* fact of it, like where it goes.                                             *)
EXTENDS Recovery, Dataflow

CONSTANTS
    Effects,     \* what the instructions read and write: functions from addresses to Ops
    Result       \* where a call leaves its result

LiftingInit == Init /\ DataflowInit

(* The operations of an instruction of a function with blocks at here. A       *)
(* conditional branch stands together with what computes its condition; a call *)
(* leaves its result, and the other registers that it may change undefined.    *)
Control(code, in) == [code |-> code, in |-> in, part |-> "whole", out |-> NoLoc, of |-> "whole"]
Clobber == [i \in 1..Cardinality(ArgLocs \ {Result}) |->
               [Control("undefine", NoLoc) EXCEPT !.out = SetToSeq(ArgLocs \ {Result})[i]]]
CallTo(in) == <<[Control("call", in) EXCEPT !.out = Result]>> \o Clobber
Lifted(a, effect, here) ==
    LET i == image[a]
        e == effect[a]
    IN  CASE i.flow = "ret" -> <<Control("return", NoLoc)>>
          [] i.flow = "trap" -> <<>>
          [] i.flow = "call" -> CallTo(NoLoc)
          [] i.flow = "open" -> CallTo(e.in)
          [] i.flow = "jump" -> <<Control(IF i.to \subseteq here THEN "branch" ELSE "tail", NoLoc)>>
          [] i.flow = "switch" -> <<Control("switch", e.in)>>
          [] i.flow = "cond" -> <<e, Control("branch", IF e.out = NoLoc THEN e.in ELSE e.out)>>
          [] OTHER -> <<e>>

LiftFunction ==
    /\ phase = "done"
    /\ \E f \in DOMAIN known, effect \in Effects :
         LET here == {b.at : b \in BlocksOf(f)}
             block(a) == CHOOSE b \in BlocksOf(f) : b.at = a
             ops(b) == FlattenSeq([i \in 1..b.end - b.at |-> Lifted(b.at + i - 1, effect, here)])
         IN  Lift(f, Graph([a \in here |-> ops(block(a))], [a \in here |-> block(a).successors]))
    /\ UNCHANGED <<vars, form, run>>

LiftingNext ==
    \/ Next /\ UNCHANGED dataflow
    \/ LiftFunction
    \/ DataflowNext /\ UNCHANGED vars

LiftingSpec == LiftingInit /\ [][LiftingNext]_<<vars, dataflow>>
=============================================================================
