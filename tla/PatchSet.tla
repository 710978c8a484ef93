------------------------------ MODULE PatchSet ------------------------------
(* Patch sets (e5r-db patch.rs, e5r-cli patch.rs): edits recorded on one build *)
(* of a program and applied to it, or to a later link of it, as a whole or not *)
(* at all, and taken back. An edit is anchored to the function it is in, and   *)
(* finds it through the anchor index (anchor.rs).                              *)
EXTENDS Integers, Sequences, FiniteSets, FiniteSetsExt

CONSTANTS
    Functions,    \* functions of the program
    Length,       \* instructions in each, one address each
    Ops, Imms,    \* what anchors keep of an instruction's shape, and the rest
    Relative,     \* instructions whose operand depends on where things are linked
    Wanted,       \* instructions an author writes
    Words,        \* what the data may hold at first
    MaxEdits,     \* bound: edits in a set
    MaxRelinks    \* bound: links after the recording

ASSUME SizesAssumption ==
    /\ IsFiniteSet(Functions) /\ Length \in Nat \ {0} /\ MaxEdits \in Nat /\ MaxRelinks \in Nat
    /\ \A part \in {Relative, Wanted, Words} : part \subseteq [op : Ops, imm : Imms]

VARIABLES
    image,    \* the instruction at each address of the file
    order,    \* which function was linked at each slot
    set,      \* the patch set: edits in the order of their content ids
    phase,    \* "recording", "shipped", "applied", "reverted" or "forced"
    before,   \* the image the set was applied to
    built,    \* history: the functions of the build the set is recorded on
    meant,    \* history: what the author wrote over the instructions of each
    relinks

vars == <<image, order, set, phase, before, built, meant, relinks>>

Insns == [op : Ops, imm : Imms]
Slots == 0 .. Cardinality(Functions) - 1
Addrs == 0 .. Cardinality(Functions) * Length      \* the last one is data
Data == Cardinality(Functions) * Length
Bodies == [0 .. Length - 1 -> Insns]

Entry(slot) == slot * Length
Slot(a) == a \div Length
Body(img, slot) == [i \in 0 .. Length - 1 |-> img[Entry(slot) + i]]
Shape(body) == [i \in 0 .. Length - 1 |-> body[i].op]

-----------------------------------------------------------------------------
(* Anchors. *)

NoFunction == [abs |-> -1]

(* The anchor of an address: the bytes and the entry of its function, and the  *)
(* offset in it; outside of functions, the address alone.                      *)
Anchor(img, a) ==
    IF a = Data THEN [anchored |-> FALSE, abs |-> a, off |-> 0]
    ELSE [anchored |-> TRUE, bytes |-> Body(img, Slot(a)), abs |-> Entry(Slot(a)),
          off |-> a - Entry(Slot(a))]

(* Mutant of Resolve: the first function of the shape will do. *)
ResolveByFirst(img, want) ==
    LET sameBytes == {s \in Slots : Body(img, s) = want.bytes}
        sameShape == {s \in Slots : Shape(Body(img, s)) = Shape(want.bytes)}
        there == {s \in Slots : Entry(s) = want.abs}
    IN  CASE sameBytes # {} -> [slot |-> Min(sameBytes), how |-> "exact"]
          [] sameBytes = {} /\ sameShape # {} -> [slot |-> Min(sameShape), how |-> "shape"]
          [] OTHER -> [slot |-> Min(there), how |-> "address"]

(* AnchorIndex::resolve: equal bytes, at the lowest address; else an equal     *)
(* shape if only one function has it, else the one at the recorded address or  *)
(* any of them; else the function at the address.                              *)
Resolve(img, want) ==
    LET sameBytes == {s \in Slots : Body(img, s) = want.bytes}
        sameShape == {s \in Slots : Shape(Body(img, s)) = Shape(want.bytes)}
        there == {s \in Slots : Entry(s) = want.abs}
    IN  CASE sameBytes # {} -> [slot |-> Min(sameBytes), how |-> "exact"]
          [] sameBytes = {} /\ Cardinality(sameShape) = 1 ->
               [slot |-> Min(sameShape), how |-> "shape"]
          [] sameBytes = {} /\ Cardinality(sameShape) > 1 ->
               [slot |-> IF there \cap sameShape # {} THEN Min(there)
                         ELSE CHOOSE s \in sameShape : TRUE,
                how |-> "ambiguous"]
          [] OTHER -> [slot |-> Min(there), how |-> "address"]

Place(img, e) ==
    IF ~e.at.anchored THEN [addr |-> e.at.abs, how |-> "address"]
    ELSE LET found == Resolve(img, e.at)
         IN  [addr |-> Entry(found.slot) + e.at.off, how |-> found.how]

(* Mutant of Confident: one of several of the same shape will do. *)
ConfidentIfFound(how) == how # "address"

Confident(how) == how \in {"exact", "shape"}

-----------------------------------------------------------------------------
(* Edits and sets of them. *)

inverse(e) == [e EXCEPT !.expect = e.replace, !.replace = e.expect]
Revert(edits) == {inverse(e) : e \in edits}

(* preview: where every edit lands, each in range and on what it expects, and  *)
(* in the order of addresses no two neighbours overlapping.                    *)
Change(img, e) == [addr |-> Place(img, e).addr, how |-> Place(img, e).how, edit |-> e]
Size(c) == Len(c.edit.expect)
InRange(c) == c.addr + Size(c) <= Cardinality(Addrs)
Matches(img, c) == \A i \in 1 .. Size(c) : img[c.addr + i - 1] = c.edit.expect[i]

Neighbours(changes, c, d) ==
    /\ c # d /\ c.addr <= d.addr
    /\ ~ \E x \in changes \ {c, d} : c.addr < x.addr /\ x.addr < d.addr
(* Mutant of Overlaps: only edits of the very same address. *)
OverlapsAtStart(changes) == \E c, d \in changes : c # d /\ c.addr = d.addr
Overlaps(changes) ==
    \E c, d \in changes : Neighbours(changes, c, d) /\ c.addr + Size(c) > d.addr

Preview(img, edits) == {Change(img, e) : e \in edits}
Fits(img, edits) ==
    LET changes == Preview(img, edits) IN
    /\ \A c \in changes : InRange(c) /\ Matches(img, c)
    /\ ~Overlaps(changes)

Write(img, changes) ==
    [a \in Addrs |->
        IF \E c \in changes : a \in c.addr .. c.addr + Size(c) - 1
        THEN LET c == CHOOSE c \in changes : a \in c.addr .. c.addr + Size(c) - 1
             IN  c.edit.replace[a - c.addr + 1]
        ELSE img[a]]

-----------------------------------------------------------------------------
Init ==
    /\ image \in [Addrs -> Insns] /\ image[Data] \in Words
    /\ order \in {f \in [Slots -> Functions] : \A s, t \in Slots : f[s] = f[t] => s = t}
    /\ set = {} /\ phase = "recording" /\ before = image /\ relinks = 0
    /\ built = [f \in Functions |-> Body(image, CHOOSE s \in Slots : order[s] = f)]
    /\ meant = [f \in Functions |-> <<>>]

(* The instructions of its function that an edit writes. *)
Covers(e, i) == i - e.at.off + 1 \in DOMAIN e.replace
Noted(known, e) ==
    LET written == {i \in 0 .. Length - 1 : Covers(e, i)}
    IN  [i \in DOMAIN known \cup written |->
            IF i \in written THEN e.replace[i - e.at.off + 1] ELSE known[i]]

(* patch record: what is there becomes the expectation; an edit that is there  *)
(* already is dropped. Nothing keeps an edit from running past its function.   *)
Record(a, replace) ==
    LET e == [at |-> Anchor(image, a),
              expect |-> [i \in DOMAIN replace |-> image[a + i - 1]], replace |-> replace]
    IN
    /\ phase = "recording" /\ a + Len(replace) <= Cardinality(Addrs)
    /\ Cardinality(set \cup {e}) <= MaxEdits
    /\ set' = set \cup {e}
    /\ meant' = IF a = Data THEN meant
                ELSE [meant EXCEPT ![order[Slot(a)]] = Noted(@, e)]
    /\ UNCHANGED <<image, order, phase, before, built, relinks>>

(* The program is linked again: its functions are in another order, and what   *)
(* depends on addresses is written anew.                                       *)
Linked(insn, imm) ==
    IF {insn, [insn EXCEPT !.imm = imm]} \subseteq Relative THEN [insn EXCEPT !.imm = imm] ELSE insn
Moved(f, imms) ==
    [a \in Addrs |->
        IF a = Data THEN Linked(image[a], imms[a])
        ELSE LET old == CHOOSE s \in Slots : order[s] = f[Slot(a)]
             IN  Linked(image[Entry(old) + a - Entry(Slot(a))], imms[a])]

Relink(f, imms) ==
    /\ phase \in {"recording", "shipped"} /\ relinks < MaxRelinks
    /\ set # {}
    /\ order' = f /\ relinks' = relinks + 1 /\ phase' = "shipped"
    /\ image' = Moved(f, imms)
    /\ UNCHANGED <<set, before, built, meant>>

(* patch apply: refused when an edit was found by less than its content, *)
(* unless the user allows it.                                            *)
Apply(allow) ==
    LET changes == Preview(image, set) IN
    /\ phase \in {"recording", "shipped"} /\ set # {}
    /\ Fits(image, set)
    /\ allow \/ \A c \in changes : Confident(c.how)
    /\ image' = Write(image, changes)
    /\ before' = image /\ phase' = "applied"
    /\ UNCHANGED <<order, set, built, meant, relinks>>

(* patch revert of the set just applied, on an analysis of the patched file. *)
Undo(allow) ==
    LET back == Revert(set)  changes == Preview(image, back) IN
    /\ phase = "applied"
    /\ Fits(image, back)
    /\ LET sure == \A c \in changes : Confident(c.how) IN
         /\ allow \/ sure
         /\ phase' = IF sure THEN "reverted" ELSE "forced"
    /\ image' = Write(image, changes)
    /\ UNCHANGED <<order, set, before, built, meant, relinks>>

Replacements == {<<i>> : i \in Wanted} \cup {<<i, i>> : i \in Wanted}
Orders == {f \in [Slots -> Functions] : \A s, t \in Slots : f[s] = f[t] => s = t}
Next ==
    \/ \E a \in Addrs, r \in Replacements : Record(a, r)
    \/ \E f \in Orders, imms \in [Addrs -> Imms] : Relink(f, imms)
    \/ \E allow \in BOOLEAN : Apply(allow) \/ Undo(allow)
Spec == Init /\ [][Next]_vars

-----------------------------------------------------------------------------
InFunction(e) == e.at.anchored => e.at.off + Len(e.expect) <= Length

(* Another function than the one an edit was recorded in has its bytes now. *)
Lookalike(e) ==
    \E s \in Slots, f \in Functions :
        f # order[s] /\ built[f] = e.at.bytes /\ Body(before, s) = e.at.bytes
Certain(e) == e.at.anchored => Confident(Place(before, e).how) /\ ~Lookalike(e)

(* LandsAsMeant: when every edit of a function was found by bytes that no      *)
(* other function has, or by a shape that only one has, and stays inside its   *)
(* function, an applied set leaves in every function the instructions its      *)
(* author wrote, and all others as the linker wrote them, wherever the         *)
(* functions are and whatever the link changed in them: "a patch made before a *)
(* relink still lands on the right instruction" (patch.rs:8-12, 350-425).      *)
LandsAsMeant ==
    phase = "applied" /\ (\A e \in set : InFunction(e) /\ Certain(e)) =>
        \A s \in Slots, i \in 0 .. Length - 1 :
            Body(image, s)[i] = IF i \in DOMAIN meant[order[s]] THEN meant[order[s]][i]
                                ELSE Body(before, s)[i]

(* RevertRestores: when every edit stays inside its function, a revert that    *)
(* found every one of them with certainty gives back the file as it was, twins *)
(* or not, although the bytes it looks for have changed (patch.rs:427-440: the *)
(* inverse resolves by shape or by address).                                   *)
RevertRestores ==
    phase = "reverted" /\ (\A e \in set : InFunction(e)) => image = before

(* WrittenOnce: an applied set has no address that two of its edits write, so  *)
(* the result does not depend on their order (patch.rs:392-403; only           *)
(* neighbours in the order of addresses are compared).                         *)
WrittenOnce ==
    phase = "applied" =>
        \A c, d \in Preview(before, set) :
            c # d => (c.addr .. c.addr + Size(c) - 1) \cap (d.addr .. d.addr + Size(d) - 1) = {}
=============================================================================
