----------------------------- MODULE MCLifting ------------------------------
(* Small instances of Lifting for TLC. *)
EXTENDS Lifting

CONSTANTS Eax, Ebx     \* registers

\* Blocks that start at one address collide, and so do those four addresses apart.
MCHash(b) == b.at

I(flow, to) == [flow |-> flow, to |-> to]
Plain == I("next", {})
Ret == I("ret", {})
Trap == I("trap", {})
Open == I("open", {})

\* Five instructions: what each address may hold.
MayHold ==
    <<{I("cond", {3}), I("cond", {5}), I("call", {3}), I("call", {5}),
       I("switch", {2, 5}), I("load", {4})},
      {Plain, Ret, I("jump", {4}), I("call", {5})},
      {Plain, Ret, Open, I("jump", {2}), I("cond", {5})},
      {Plain, I("bad", {}), I("jump", {5}), I("cond", {2})},
      {Ret, Trap, I("cond", {3})}>>
MCImages ==
    {<<a, b, c, d, e>> : a \in MayHold[1], b \in MayHold[2], c \in MayHold[3], d \in MayHold[4], e \in MayHold[5]}
MCHints == {1 :> NoName, (1 :> "main" @@ 5 :> "abort"), (1 :> "main" @@ 3 :> NoName)}

Op(code, in, out) == [code |-> code, in |-> in, part |-> "whole", out |-> out, of |-> "whole"]
Low(code, in, out) == [Op(code, in, out) EXCEPT !.of = "low"]
OfLow(code, in, out) == [Op(code, in, out) EXCEPT !.part = "low"]
MCEffects ==
    {<<Op("load", Eax, Eax), Op("copy", Eax, Ebx), Op("store", Ebx, NoLoc),
       Low("pure", Ebx, Eax), OfLow("store", Eax, NoLoc)>>,
     <<Op("pure", Ebx, Eax), OfLow("pure", Ebx, Eax), OfLow("pure", Ebx, Ebx),
       Op("copy", Eax, Ebx), Op("load", Ebx, Eax)>>}
=============================================================================
