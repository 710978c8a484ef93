--------------------------- MODULE PatchSetProofs ---------------------------
(***************************************************************************)
(* Proofs about patch sets, for every program, any number of edits of any  *)
(* length, and any number of links.                                        *)
(***************************************************************************)
EXTENDS PatchSet, TLAPS, FiniteSetTheorems, SequenceTheorems, WellFoundedInduction

(* A set of numbers has a least one. *)
LEMMA LeastOf ==
    ASSUME NEW S \in SUBSET Nat, S # {}
    PROVE  \E n \in S : \A m \in S : n <= m
<1> DEFINE R == OpToRel(<, Nat)
<1>1. IsWellFoundedOn(R, Nat) BY NatLessThanWellFounded
<1>2. \A x, y \in Nat : x < y => <<x, y>> \in R BY DEF OpToRel
<1> HIDE DEF R
<1>3. PICK x \in S : \A y \in S : ~ (<<y, x>> \in R) BY <1>1, WFMin
<1>4. \A m \in S : x <= m
    <2> TAKE m \in S
    <2>1. ~(<<m, x>> \in R) BY <1>3
    <2>2. ~(m < x) BY <1>2, <2>1
    <2> QED BY <2>2
<1> QED BY <1>4

LEMMA LeastIsMin ==
    ASSUME NEW S \in SUBSET Nat, S # {}
    PROVE  Min(S) \in S
<1>1. \E n \in S : \A m \in S : n <= m BY LeastOf
<1> QED BY <1>1 DEF Min

-----------------------------------------------------------------------------
(* Slots and addresses. *)

LEMMA Sizes ==
    /\ Length \in Nat \ {0} /\ Cardinality(Functions) \in Nat
    /\ Data \in Nat /\ Cardinality(Addrs) = Data + 1 /\ Addrs = 0 .. Data
<1>1. Length \in Nat \ {0} /\ Cardinality(Functions) \in Nat BY SizesAssumption, FS_CardinalityType
<1>2. \A x, y \in Nat : x * y \in Nat OBVIOUS
<1>3. Data \in Nat BY <1>1, <1>2 DEF Data
<1>4. Addrs = 0 .. Data BY DEF Addrs, Data
<1>5. Cardinality(0 .. Data) = Data + 1 BY <1>3, FS_Interval
<1> QED BY <1>1, <1>3, <1>4, <1>5

LEMMA Products ==
    ASSUME NEW x \in Nat, NEW y \in Nat, NEW z \in Nat, x <= y
    PROVE  x * z \in Nat /\ x * z <= y * z /\ (x + 1) * z = x * z + z
OBVIOUS

(* An address in a slot. *)
LEMMA InSlot ==
    ASSUME NEW s \in Slots, NEW i \in 0 .. Length - 1
    PROVE  /\ Entry(s) \in Nat /\ Entry(s) + i \in Addrs /\ Entry(s) + i < Data
           /\ Slot(Entry(s) + i) = s
<1> DEFINE n == Cardinality(Functions)
<1>1. s \in Nat /\ n \in Nat /\ s + 1 <= n /\ Length \in Nat /\ i \in Nat /\ i < Length BY Sizes DEF Slots
<1> HIDE DEF n
<1>2. s * Length \in Nat /\ (s + 1) * Length <= n * Length /\ (s + 1) * Length = s * Length + Length
    BY <1>1, Products
<1>3. Data = n * Length /\ Data \in Nat /\ Addrs = 0 .. Data BY Sizes DEF Data, n
<1>4. (s * Length + i) \div Length = s BY <1>1, <1>2
<1> QED BY <1>1, <1>2, <1>3, <1>4 DEF Entry, Slot

LEMMA SlotOf ==
    ASSUME NEW a \in Addrs, a # Data
    PROVE  Slot(a) \in Slots /\ a - Entry(Slot(a)) \in 0 .. Length - 1
<1> DEFINE n == Cardinality(Functions)  q == a \div Length
<1>1. a \in Nat /\ a < Data /\ Data = n * Length /\ Length \in Nat \ {0} /\ n \in Nat
    BY Sizes DEF Data
<1> HIDE DEF n
<1>2. q \in Nat /\ a - q * Length \in 0 .. Length - 1 BY <1>1
<1> HIDE DEF q
<1>3. q < n
    <2> SUFFICES ASSUME n <= q PROVE FALSE BY <1>1, <1>2
    <2>1. n * Length <= q * Length /\ q * Length \in Nat BY <1>1, <1>2, Products
    <2> QED BY <1>1, <1>2, <2>1
<1> QED BY <1>1, <1>2, <1>3 DEF Slots, Slot, Entry, q, n

-----------------------------------------------------------------------------
(* Changes and what they write. *)

Places(c) == c.addr .. c.addr + Size(c) - 1

ChangeOK(c) == c.addr \in Nat /\ Size(c) \in Nat \ {0}

(* Looking at neighbours is enough: no two changes write the same address. *)
LEMMA NeighboursSuffice ==
    ASSUME NEW changes, \A c \in changes : ChangeOK(c), ~Overlaps(changes),
           NEW c \in changes, NEW d \in changes, c # d
    PROVE  Places(c) \cap Places(d) = {}
<1>1. ASSUME NEW x \in changes, NEW y \in changes, x # y, x.addr <= y.addr
      PROVE  x.addr + Size(x) <= y.addr
    <2> DEFINE later == {z \in changes \ {x} : x.addr <= z.addr}
               addrs == {z.addr : z \in later}
    <2>1. addrs \in SUBSET Nat /\ y.addr \in addrs BY <1>1 DEF ChangeOK
    <2>2. PICK n \in addrs : \A m \in addrs : n <= m
        <3> HIDE DEF addrs
        <3> QED BY <2>1, LeastOf
    <2>3. PICK z \in later : n = z.addr BY <2>2
    <2>4. n <= y.addr BY <2>1, <2>2
    <2>5. Neighbours(changes, x, z)
        <3>1. x # z /\ x.addr <= z.addr BY <2>3
        <3>2. ~ \E w \in changes \ {x, z} : x.addr < w.addr /\ w.addr < z.addr
            <4> SUFFICES ASSUME NEW w \in changes \ {x, z}, x.addr < w.addr, w.addr < z.addr
                         PROVE FALSE
                OBVIOUS
            <4>1. w.addr \in Nat /\ x.addr \in Nat /\ z.addr \in Nat BY <2>3 DEF ChangeOK
            <4>2. w \in later BY <4>1
            <4>3. z.addr <= w.addr BY <2>2, <2>3, <4>2
            <4> QED BY <4>1, <4>3
        <3> QED BY <3>1, <3>2 DEF Neighbours
    <2>6. ~(x.addr + Size(x) > z.addr) BY <2>3, <2>5 DEF Overlaps
    <2>7. x.addr \in Nat /\ Size(x) \in Nat /\ z.addr \in Nat /\ y.addr \in Nat BY <2>3 DEF ChangeOK
    <2> QED BY <2>3, <2>4, <2>6, <2>7
<1>2. c.addr \in Nat /\ Size(c) \in Nat /\ d.addr \in Nat /\ Size(d) \in Nat BY DEF ChangeOK
<1>3. CASE c.addr <= d.addr
    <2>1. c.addr + Size(c) <= d.addr BY <1>1, <1>3
    <2> QED BY <1>2, <2>1 DEF Places
<1>4. CASE ~(c.addr <= d.addr)
    <2>1. d.addr + Size(d) <= c.addr BY <1>1, <1>2, <1>4
    <2> QED BY <1>2, <2>1 DEF Places
<1> QED BY <1>3, <1>4

(* Every address that is written holds what its one change puts there. *)
LEMMA Written ==
    ASSUME NEW img, NEW changes, \A c \in changes : ChangeOK(c), ~Overlaps(changes), NEW a \in Addrs
    PROVE  /\ \A c \in changes : a \in Places(c) =>
                  Write(img, changes)[a] = c.edit.replace[a - c.addr + 1]
           /\ (\A c \in changes : a \notin Places(c)) => Write(img, changes)[a] = img[a]
<1>1. ASSUME NEW c \in changes, a \in Places(c)
      PROVE  Write(img, changes)[a] = c.edit.replace[a - c.addr + 1]
    <2> DEFINE d == CHOOSE d \in changes : a \in Places(d)
    <2>1. d \in changes /\ a \in Places(d) BY <1>1
    <2>2. Write(img, changes)[a] = d.edit.replace[a - d.addr + 1] BY <1>1 DEF Write, Places
    <2> HIDE DEF d
    <2>3. d = c BY <1>1, <2>1, NeighboursSuffice
    <2> QED BY <2>2, <2>3
<1>2. ASSUME \A c \in changes : a \notin Places(c)
      PROVE  Write(img, changes)[a] = img[a]
    BY <1>2 DEF Write, Places
<1> QED BY <1>1, <1>2

-----------------------------------------------------------------------------
(* Edits: as long before as after, anchored in a function or at the data; and  *)
(* recorded edits, which expect what their anchor carries of the function.     *)
EditOK(e) ==
    /\ e = [at |-> e.at, expect |-> e.expect, replace |-> e.replace]
    /\ e.expect \in Seq(Insns) /\ e.replace \in Seq(Insns)
    /\ Len(e.replace) = Len(e.expect) /\ Len(e.expect) \in Nat \ {0}
    /\ e.at.anchored \in BOOLEAN
    /\ e.at.anchored =>
          /\ e.at.bytes \in Bodies /\ e.at.off \in 0 .. Length - 1
          /\ \E s \in Slots : e.at.abs = Entry(s)
    /\ ~e.at.anchored => e.at.abs = Data

Recorded(e) ==
    /\ EditOK(e)
    /\ e.at.anchored => \A i \in 1 .. Len(e.expect) :
           e.at.off + i <= Length => e.expect[i] = e.at.bytes[e.at.off + i - 1]

Images == [Addrs -> Insns]

LEMMA BodyIs ==
    ASSUME NEW img \in Images, NEW s \in Slots
    PROVE  /\ Body(img, s) \in Bodies
           /\ \A i \in 0 .. Length - 1 : Body(img, s)[i] = img[Entry(s) + i]
<1>1. \A i \in 0 .. Length - 1 : Entry(s) + i \in Addrs BY InSlot
<1> QED BY <1>1 DEF Images, Bodies, Body

SameBytes(img, want) == {s \in Slots : Body(img, s) = want.bytes}
SameShape(img, want) == {s \in Slots : Shape(Body(img, s)) = Shape(want.bytes)}

(* The ways to find a function: by its bytes, by a shape that no other has, or *)
(* not for sure.                                                               *)
FoundOK(img, want, found) ==
    /\ found.slot \in Slots
    /\ SameBytes(img, want) # {} => found.how = "exact" /\ found.slot \in SameBytes(img, want)
    /\ SameBytes(img, want) = {} =>
           \/ found.how = "shape" /\ SameShape(img, want) = {found.slot}
           \/ /\ found.how \in {"ambiguous", "address"}
              /\ \A s \in Slots : SameShape(img, want) # {s}

LEMMA Resolved ==
    ASSUME NEW img, NEW want, NEW home \in Slots, want.abs = Entry(home)
    PROVE  FoundOK(img, want, Resolve(img, want))
<1> DEFINE sameBytes == SameBytes(img, want)
           sameShape == SameShape(img, want)
           there == {s \in Slots : Entry(s) = want.abs}
           some == IF there \cap sameShape # {} THEN Min(there)
                   ELSE CHOOSE s \in sameShape : TRUE
<1>1. Slots \in SUBSET Nat /\ IsFiniteSet(Slots)
    <2>1. 0 \in Int /\ Cardinality(Functions) - 1 \in Int BY Sizes
    <2> QED BY <2>1, FS_Interval DEF Slots
<1>2. sameBytes \in SUBSET Slots /\ sameShape \in SUBSET Slots /\ there \in SUBSET Slots /\ home \in there
    BY DEF SameBytes, SameShape
<1>3. sameBytes # {} => Min(sameBytes) \in sameBytes
    <2> HIDE DEF sameBytes
    <2> QED BY <1>1, <1>2, LeastIsMin
<1>4. sameShape # {} => Min(sameShape) \in sameShape
    <2> HIDE DEF sameShape
    <2> QED BY <1>1, <1>2, LeastIsMin
<1>5. Min(there) \in there
    <2> HIDE DEF there
    <2> QED BY <1>1, <1>2, LeastIsMin
<1>6. sameShape # {} => some \in Slots BY <1>2, <1>5
<1>7. IsFiniteSet(sameShape) BY <1>1, <1>2, FS_Subset
<1>8. /\ Cardinality(sameShape) \in Nat
      /\ Cardinality(sameShape) = 0 <=> sameShape = {}
      /\ Cardinality(sameShape) = 1 <=> \E x : sameShape = {x}
    <2> HIDE DEF sameShape
    <2> QED BY <1>7, FS_CardinalityType, FS_EmptySet, FS_Singleton
<1>9. Resolve(img, want) =
          CASE sameBytes # {} -> [slot |-> Min(sameBytes), how |-> "exact"]
            [] sameBytes = {} /\ Cardinality(sameShape) = 1 -> [slot |-> Min(sameShape), how |-> "shape"]
            [] sameBytes = {} /\ Cardinality(sameShape) > 1 -> [slot |-> some, how |-> "ambiguous"]
            [] OTHER -> [slot |-> Min(there), how |-> "address"]
    BY DEF Resolve, SameBytes, SameShape
<1> DEFINE found == Resolve(img, want)
<1>10. CASE sameBytes # {}
    <2>1. found = [slot |-> Min(sameBytes), how |-> "exact"]
        <3> HIDE DEF sameBytes, sameShape, there, some
        <3> QED BY <1>9, <1>10
    <2> QED BY <1>2, <1>3, <1>10, <2>1 DEF FoundOK
<1>11. CASE sameBytes = {} /\ Cardinality(sameShape) = 1
    <2>1. found = [slot |-> Min(sameShape), how |-> "shape"]
        <3> HIDE DEF sameBytes, sameShape, there, some
        <3> QED BY <1>8, <1>9, <1>11
    <2>2. PICK x : sameShape = {x} BY <1>8, <1>11
    <2>3. Min(sameShape) = x BY <1>4, <2>2
    <2> HIDE DEF found, sameBytes, sameShape
    <2>4. x \in Slots BY <1>2, <2>2
    <2> QED BY <1>11, <2>1, <2>2, <2>3, <2>4 DEF FoundOK, found, sameBytes, sameShape
<1>12. CASE sameBytes = {} /\ Cardinality(sameShape) > 1
    <2>1. found = [slot |-> some, how |-> "ambiguous"]
        <3> HIDE DEF sameBytes, sameShape, there, some
        <3> QED BY <1>8, <1>9, <1>12
    <2>2. sameShape # {} /\ \A s \in Slots : sameShape # {s} BY <1>8, <1>12
    <2> HIDE DEF found, some
    <2> QED BY <1>6, <1>12, <2>1, <2>2 DEF FoundOK, found
<1>13. CASE sameBytes = {} /\ Cardinality(sameShape) = 0
    <2>1. found = [slot |-> Min(there), how |-> "address"]
        <3> HIDE DEF sameBytes, sameShape, there, some
        <3> QED BY <1>8, <1>9, <1>13
    <2>2. \A s \in Slots : sameShape # {s} BY <1>8, <1>13
    <2> HIDE DEF found
    <2> QED BY <1>2, <1>5, <1>13, <2>1, <2>2 DEF FoundOK, found
<1> QED BY <1>8, <1>10, <1>11, <1>12, <1>13

(* Where the i-th instruction of an edit goes. *)
At(img, e, i) == Place(img, e).addr + i - 1

LEMMA Placed ==
    ASSUME NEW img, NEW e, EditOK(e)
    PROVE  /\ Place(img, e).addr \in Nat
           /\ e.at.anchored => \E s \in Slots :
                  /\ Place(img, e).addr = Entry(s) + e.at.off
                  /\ FoundOK(img, e.at, [slot |-> s, how |-> Place(img, e).how])
           /\ ~e.at.anchored => Place(img, e) = [addr |-> Data, how |-> "address"]
<1>1. CASE e.at.anchored
    <2>1. PICK home \in Slots : e.at.abs = Entry(home) BY <1>1 DEF EditOK
    <2> DEFINE found == Resolve(img, e.at)
    <2>2. FoundOK(img, e.at, found) BY <2>1, Resolved
    <2>3. Place(img, e) = [addr |-> Entry(found.slot) + e.at.off, how |-> found.how] BY <1>1 DEF Place
    <2> HIDE DEF found
    <2>4. found.slot \in Slots BY <2>2 DEF FoundOK
    <2>5. FoundOK(img, e.at, [slot |-> found.slot, how |-> Place(img, e).how])
        BY <2>2, <2>3 DEF FoundOK
    <2>6. Entry(found.slot) \in Nat
        <3>1. 0 \in 0 .. Length - 1 BY Sizes
        <3> QED BY <2>4, <3>1, InSlot
    <2>7. e.at.off \in Nat BY <1>1, Sizes DEF EditOK
    <2> QED BY <1>1, <2>3, <2>4, <2>5, <2>6, <2>7
<1>2. CASE ~e.at.anchored
    <2>1. Place(img, e) = [addr |-> Data, how |-> "address"] BY <1>2 DEF Place, EditOK
    <2> QED BY <1>2, <2>1, Sizes
<1> QED BY <1>1, <1>2 DEF EditOK

(* What it means that a set of edits turns an image into another one: every    *)
(* edit finds what it expects, leaves what it replaces, and meets no other     *)
(* edit; the rest stays.                                                       *)
Turns(img, edits, new) ==
    /\ \A e \in edits, i \in Nat : i \in 1 .. Len(e.expect) =>
           /\ At(img, e, i) \in Addrs
           /\ img[At(img, e, i)] = e.expect[i] /\ new[At(img, e, i)] = e.replace[i]
    /\ \A e, d \in edits : \A i, j \in Nat :
           i \in 1 .. Len(e.expect) /\ j \in 1 .. Len(d.expect) /\ At(img, e, i) = At(img, d, j) => e = d
    /\ \A a \in Addrs :
           (\A e \in edits, i \in Nat : i \in 1 .. Len(e.expect) => At(img, e, i) # a) => new[a] = img[a]

LEMMA FitsTurns ==
    ASSUME NEW img \in Images, NEW edits, \A e \in edits : EditOK(e), Fits(img, edits)
    PROVE  /\ Turns(img, edits, Write(img, Preview(img, edits)))
           /\ Write(img, Preview(img, edits)) \in Images
<1> DEFINE changes == Preview(img, edits)  new == Write(img, changes)
<1>1. ASSUME NEW e \in edits
      PROVE  /\ Change(img, e) \in changes /\ Change(img, e).edit = e
             /\ Change(img, e).addr = Place(img, e).addr
             /\ Change(img, e).addr \in Nat /\ Size(Change(img, e)) = Len(e.expect)
             /\ Len(e.expect) \in Nat \ {0}
             /\ ChangeOK(Change(img, e))
    <2>1. EditOK(e) OBVIOUS
    <2>2. Place(img, e).addr \in Nat BY <2>1, Placed
    <2>3. Change(img, e).edit = e /\ Change(img, e).addr = Place(img, e).addr BY DEF Change
    <2>4. Len(e.expect) \in Nat \ {0} BY <2>1 DEF EditOK
    <2>5. Size(Change(img, e)) = Len(e.expect) BY <2>3 DEF Size
    <2>6. Change(img, e) \in changes BY DEF Preview
    <2> QED BY <2>2, <2>3, <2>4, <2>5, <2>6 DEF ChangeOK
<1>2. \A c \in changes : ChangeOK(c) BY <1>1 DEF Preview
<1>3. ~Overlaps(changes) /\ \A c \in changes : InRange(c) /\ Matches(img, c) BY DEF Fits
<1>4. \A c \in changes : \E e \in edits : c = Change(img, e) BY DEF Preview
<1> HIDE DEF changes, new
<1>5. ASSUME NEW e \in edits, NEW i \in 1 .. Len(e.expect)
      PROVE  /\ At(img, e, i) \in Addrs /\ At(img, e, i) \in Places(Change(img, e))
             /\ img[At(img, e, i)] = e.expect[i] /\ new[At(img, e, i)] = e.replace[i]
    <2> DEFINE c == Change(img, e)  p == Place(img, e).addr
    <2>1. c \in changes /\ c.edit = e /\ c.addr = p /\ p \in Nat /\ Size(c) = Len(e.expect) /\ Len(e.expect) \in Nat
        BY <1>1
    <2>2. InRange(c) /\ Matches(img, c) BY <1>3, <2>1
    <2>3. At(img, e, i) = p + i - 1 BY DEF At
    <2> HIDE DEF c, p
    <2>4. p + Size(c) <= Data + 1 BY <2>1, <2>2, Sizes DEF InRange
    <2>5. p + i - 1 \in Addrs BY <2>1, <2>4, Sizes
    <2>6. p + i - 1 \in Places(c) BY <2>1 DEF Places
    <2>7. img[p + i - 1] = e.expect[i] BY <2>1, <2>2 DEF Matches
    <2>8. new[p + i - 1] = e.replace[i]
        <3>1. new[p + i - 1] = c.edit.replace[(p + i - 1) - c.addr + 1]
            BY <1>2, <1>3, <2>1, <2>5, <2>6, Written DEF new
        <3>2. (p + i - 1) - p + 1 = i BY <2>1
        <3> QED BY <2>1, <3>1, <3>2
    <2> QED BY <2>3, <2>5, <2>6, <2>7, <2>8 DEF c
<1>6. ASSUME NEW e \in edits, NEW d \in edits, NEW i \in 1 .. Len(e.expect), NEW j \in 1 .. Len(d.expect),
             At(img, e, i) = At(img, d, j)
      PROVE  e = d
    <2> SUFFICES ASSUME e # d PROVE FALSE OBVIOUS
    <2>1. Change(img, e) # Change(img, d) BY <1>1
    <2>2. Places(Change(img, e)) \cap Places(Change(img, d)) = {}
        BY <1>1, <1>2, <1>3, <2>1, NeighboursSuffice
    <2> QED BY <1>5, <1>6, <2>2
<1>7. ASSUME NEW a \in Addrs, \A e \in edits, i \in Nat : i \in 1 .. Len(e.expect) => At(img, e, i) # a
      PROVE  new[a] = img[a]
    <2>1. ASSUME NEW c \in changes, a \in Places(c) PROVE FALSE
        <3>1. PICK e \in edits : c = Change(img, e) BY <1>4
        <3>2. c.addr = Place(img, e).addr /\ c.addr \in Nat /\ Size(c) = Len(e.expect) /\ Len(e.expect) \in Nat
            BY <1>1, <3>1
        <3> DEFINE i == a - c.addr + 1
        <3>5. PICK x \in Nat, n \in Nat : x = c.addr /\ n = Len(e.expect) BY <3>2
        <3>6. a \in x .. x + n - 1 /\ a \in Int BY <2>1, <3>2, <3>5, Sizes DEF Places
        <3>7. i = a - x + 1 BY <3>5
        <3>8. i \in 1 .. n /\ i \in Nat /\ x + i - 1 = a BY <3>6, <3>7
        <3>3. i \in 1 .. Len(e.expect) /\ i \in Nat /\ Place(img, e).addr + i - 1 = a BY <3>2, <3>5, <3>8
        <3> HIDE DEF i
        <3>4. At(img, e, i) = a BY <3>3 DEF At
        <3> QED BY <1>7, <3>3, <3>4
    <2> QED BY <1>2, <1>3, <2>1, Written DEF new
<1>8. Turns(img, edits, new) BY <1>5, <1>6, <1>7 DEF Turns
<1>9. ASSUME NEW a \in Addrs PROVE new[a] \in Insns
    <2>1. CASE \E e \in edits, i \in Nat : i \in 1 .. Len(e.expect) /\ At(img, e, i) = a
        <3>1. PICK e \in edits, i \in Nat : i \in 1 .. Len(e.expect) /\ At(img, e, i) = a BY <2>1
        <3>2. new[a] = e.replace[i] BY <1>5, <3>1
        <3>3. e.replace \in Seq(Insns) /\ i \in 1 .. Len(e.replace) BY <3>1 DEF EditOK
        <3> QED BY <3>2, <3>3, ElementOfSeq
    <2>2. CASE ~\E e \in edits, i \in Nat : i \in 1 .. Len(e.expect) /\ At(img, e, i) = a
        <3>1. new[a] = img[a] BY <1>7, <2>2
        <3> QED BY <3>1 DEF Images
    <2> QED BY <2>1, <2>2
<1>10. new = [a \in Addrs |-> new[a]] BY DEF new, Write
<1>11. new \in Images BY <1>9, <1>10 DEF Images
<1> QED BY <1>8, <1>11 DEF new, changes

-----------------------------------------------------------------------------
(* What a confident revert restores. *)

Inside(edits) == \A e \in edits : Recorded(e) /\ InFunction(e)

LEMMA Inverses ==
    ASSUME NEW e, EditOK(e)
    PROVE  /\ EditOK(inverse(e)) /\ inverse(e).at = e.at
           /\ inverse(e).expect = e.replace /\ inverse(e).replace = e.expect
           /\ \A img : Place(img, inverse(e)) = Place(img, e)
<1>1. e = [at |-> e.at, expect |-> e.expect, replace |-> e.replace] BY DEF EditOK
<1>2. inverse(e) = [at |-> e.at, expect |-> e.replace, replace |-> e.expect]
    <2>1. PICK a, x, r : e = [at |-> a, expect |-> x, replace |-> r] BY <1>1
    <2>2. [e EXCEPT !.expect = e.replace, !.replace = e.expect]
              = [[e EXCEPT !.expect = e.replace] EXCEPT !.replace = e.expect]
        OBVIOUS
    <2>3. [e EXCEPT !.expect = e.replace] = [at |-> a, expect |-> r, replace |-> r] BY <2>1
    <2>4. [[at |-> a, expect |-> r, replace |-> r] EXCEPT !.replace = x]
              = [at |-> a, expect |-> r, replace |-> x]
        OBVIOUS
    <2> QED BY <2>1, <2>2, <2>3, <2>4 DEF inverse
<1>3. inverse(e).at = e.at /\ inverse(e).expect = e.replace /\ inverse(e).replace = e.expect BY <1>2
<1>4. \A img : Place(img, inverse(e)) = Place(img, e) BY <1>3 DEF Place
<1>5. EditOK(inverse(e)) BY <1>2, <1>3 DEF EditOK
<1> QED BY <1>3, <1>4, <1>5

(* An edit inside its function, placed at a slot: what the slot holds there. *)
LEMMA InItsSlot ==
    ASSUME NEW img \in Images, NEW e, Recorded(e), InFunction(e), e.at.anchored,
           NEW s \in Slots, Place(img, e).addr = Entry(s) + e.at.off,
           NEW i \in 1 .. Len(e.expect)
    PROVE  /\ e.at.off + i - 1 \in 0 .. Length - 1
           /\ At(img, e, i) = Entry(s) + (e.at.off + i - 1)
           /\ img[At(img, e, i)] = Body(img, s)[e.at.off + i - 1]
           /\ e.expect[i] = e.at.bytes[e.at.off + i - 1]
<1>1. e.at.off \in 0 .. Length - 1 /\ Len(e.expect) \in Nat /\ e.at.off + Len(e.expect) <= Length /\ Length \in Nat
    BY Sizes DEF Recorded, EditOK, InFunction
<1>2. e.at.off + i - 1 \in 0 .. Length - 1 /\ e.at.off + i <= Length BY <1>1
<1>3. Entry(s) \in Nat BY <1>2, InSlot
<1>4. At(img, e, i) = Entry(s) + (e.at.off + i - 1) BY <1>1, <1>3 DEF At
<1>5. img[At(img, e, i)] = Body(img, s)[e.at.off + i - 1] BY <1>2, <1>4, BodyIs
<1> QED BY <1>2, <1>4, <1>5 DEF Recorded

(* An edit that the revert finds for sure keeps every opcode; and unless it    *)
(* writes what was there, the revert found it by a shape of one function.      *)
LEMMA SureEdit ==
    ASSUME NEW new \in Images, NEW e, Recorded(e), InFunction(e), Confident(Place(new, e).how),
           \A i \in Nat : i \in 1 .. Len(e.expect) => new[At(new, e, i)] = e.replace[i]
    PROVE  /\ e.at.anchored
           /\ \A i \in Nat : i \in 1 .. Len(e.expect) => e.replace[i].op = e.expect[i].op
           /\ \/ \A i \in Nat : i \in 1 .. Len(e.expect) => e.replace[i] = e.expect[i]
              \/ \E s \in Slots : SameShape(new, e.at) = {s} /\ Place(new, e).addr = Entry(s) + e.at.off
<1>0. EditOK(e) BY DEF Recorded
<1>1. e.at.anchored
    <2>1. ~e.at.anchored => Place(new, e).how = "address" BY <1>0, Placed
    <2> QED BY <2>1, <1>0 DEF Confident, EditOK
<1>2. PICK s \in Slots : /\ Place(new, e).addr = Entry(s) + e.at.off
                         /\ FoundOK(new, e.at, [slot |-> s, how |-> Place(new, e).how])
    BY <1>0, <1>1, Placed
<1>3. ASSUME NEW i \in 1 .. Len(e.expect)
      PROVE  /\ e.at.off + i - 1 \in 0 .. Length - 1
             /\ e.replace[i] = Body(new, s)[e.at.off + i - 1]
             /\ e.expect[i] = e.at.bytes[e.at.off + i - 1]
    <2>1. Len(e.expect) \in Nat BY <1>0 DEF EditOK
    <2>2. new[At(new, e, i)] = e.replace[i] BY <2>1
    <2> QED BY <1>1, <1>2, <2>2, InItsSlot
<1>4. CASE Body(new, s) = e.at.bytes
    <2>1. \A i \in Nat : i \in 1 .. Len(e.expect) => e.replace[i] = e.expect[i] BY <1>3, <1>4
    <2> QED BY <1>1, <2>1
<1>5. CASE Body(new, s) # e.at.bytes
    <2>1. s \notin SameBytes(new, e.at) BY <1>5 DEF SameBytes
    <2>2. SameShape(new, e.at) = {s} BY <1>2, <2>1 DEF FoundOK, Confident
    <2>3. Shape(Body(new, s)) = Shape(e.at.bytes) BY <2>2 DEF SameShape
    <2>4. \A i \in 0 .. Length - 1 : Body(new, s)[i].op = e.at.bytes[i].op
        <3>1. \A body : \A i \in 0 .. Length - 1 : Shape(body)[i] = body[i].op BY DEF Shape
        <3> QED BY <2>3, <3>1
    <2>5. \A i \in Nat : i \in 1 .. Len(e.expect) => e.replace[i].op = e.expect[i].op BY <1>3, <2>4
    <2> QED BY <1>1, <1>2, <2>2, <2>5
<1> QED BY <1>4, <1>5

(* So the shapes are as they were, and an edit that was changed by the set is  *)
(* found where it was.                                                         *)
LEMMA SamePlace ==
    ASSUME NEW img \in Images, NEW new \in Images, NEW edits, Inside(edits), Turns(img, edits, new),
           \A e \in edits : Confident(Place(new, e).how),
           \A e \in edits, i \in Nat : i \in 1 .. Len(e.expect) => new[At(new, e, i)] = e.replace[i],
           NEW e \in edits
    PROVE  \/ \A i \in Nat : i \in 1 .. Len(e.expect) => e.replace[i] = e.expect[i]
           \/ Place(new, e).addr = Place(img, e).addr
<1>1. ASSUME NEW d \in edits
      PROVE  /\ Recorded(d) /\ InFunction(d) /\ EditOK(d) /\ d.at.anchored
             /\ \A i \in Nat : i \in 1 .. Len(d.expect) => d.replace[i].op = d.expect[i].op
             /\ \/ \A i \in Nat : i \in 1 .. Len(d.expect) => d.replace[i] = d.expect[i]
                \/ \E s \in Slots : SameShape(new, d.at) = {s} /\ Place(new, d).addr = Entry(s) + d.at.off
    <2>1. Recorded(d) /\ InFunction(d) BY DEF Inside
    <2>2. EditOK(d) BY <2>1 DEF Recorded
    <2> QED BY <2>1, <2>2, SureEdit
<1>2. \A a \in Addrs : new[a].op = img[a].op
    <2> TAKE a \in Addrs
    <2>1. CASE \E d \in edits, i \in Nat : i \in 1 .. Len(d.expect) /\ At(img, d, i) = a
        <3>1. PICK d \in edits, i \in Nat : i \in 1 .. Len(d.expect) /\ At(img, d, i) = a BY <2>1
        <3>2. img[a] = d.expect[i] /\ new[a] = d.replace[i] BY <3>1 DEF Turns
        <3>3. d.replace[i].op = d.expect[i].op BY <1>1, <3>1
        <3> QED BY <3>2, <3>3
    <2>2. CASE ~\E d \in edits, i \in Nat : i \in 1 .. Len(d.expect) /\ At(img, d, i) = a
        <3>1. new[a] = img[a] BY <2>2 DEF Turns
        <3> QED BY <3>1
    <2> QED BY <2>1, <2>2
<1>3. \A s \in Slots : Shape(Body(new, s)) = Shape(Body(img, s))
    <2> TAKE s \in Slots
    <2>1. \A i \in 0 .. Length - 1 : Body(new, s)[i].op = Body(img, s)[i].op
        <3> TAKE i \in 0 .. Length - 1
        <3>1. Entry(s) + i \in Addrs BY InSlot
        <3>2. Body(new, s)[i] = new[Entry(s) + i] /\ Body(img, s)[i] = img[Entry(s) + i] BY BodyIs
        <3> QED BY <1>2, <3>1, <3>2
    <2> QED BY <2>1 DEF Shape
<1>4. SameShape(new, e.at) = SameShape(img, e.at) BY <1>3 DEF SameShape
<1>5. ASSUME NEW s \in Slots, SameShape(new, e.at) = {s}, Place(new, e).addr = Entry(s) + e.at.off
      PROVE  Place(new, e).addr = Place(img, e).addr
    <2>1. PICK t \in Slots : /\ Place(img, e).addr = Entry(t) + e.at.off
                             /\ FoundOK(img, e.at, [slot |-> t, how |-> Place(img, e).how])
        BY <1>1, Placed
    <2>2. SameShape(img, e.at) = {s} BY <1>4, <1>5
    <2>3. SameBytes(img, e.at) \subseteq SameShape(img, e.at) BY DEF SameBytes, SameShape
    <2>4. t = s BY <2>1, <2>2, <2>3 DEF FoundOK
    <2> QED BY <1>5, <2>1, <2>4
<1> QED BY <1>1, <1>5
(* The edits that are written back: the inverse of every edit is where the     *)
(* edit is now, and gives back what the edit expected.                         *)
LEMMA BackTurns ==
    ASSUME NEW new, NEW result, NEW edits, \A e \in edits : EditOK(e),
           Turns(new, Revert(edits), result)
    PROVE  /\ \A e \in edits, i \in Nat : i \in 1 .. Len(e.expect) =>
                  /\ At(new, e, i) \in Addrs
                  /\ new[At(new, e, i)] = e.replace[i] /\ result[At(new, e, i)] = e.expect[i]
           /\ \A e, d \in edits : \A i, j \in Nat :
                  i \in 1 .. Len(e.expect) /\ j \in 1 .. Len(d.expect) /\ At(new, e, i) = At(new, d, j)
                      => e = d
           /\ \A a \in Addrs :
                  (\A e \in edits, i \in Nat : i \in 1 .. Len(e.expect) => At(new, e, i) # a)
                      => result[a] = new[a]
<1>1. ASSUME NEW e \in edits
      PROVE  /\ inverse(e) \in Revert(edits)
             /\ inverse(e).expect = e.replace /\ inverse(e).replace = e.expect
             /\ Len(inverse(e).expect) = Len(e.expect) /\ inverse(e).at = e.at
             /\ \A i : At(new, inverse(e), i) = At(new, e, i)
             /\ e = [at |-> e.at, expect |-> e.expect, replace |-> e.replace]
    <2>1. EditOK(e) OBVIOUS
    <2>2. inverse(e) \in Revert(edits) BY DEF Revert
    <2>3. Place(new, inverse(e)) = Place(new, e) BY <2>1, Inverses
    <2>4. \A i : At(new, inverse(e), i) = At(new, e, i) BY <2>3 DEF At
    <2>5. inverse(e).expect = e.replace /\ inverse(e).replace = e.expect /\ inverse(e).at = e.at
        BY <2>1, Inverses
    <2> QED BY <2>1, <2>2, <2>4, <2>5 DEF EditOK
<1>2. ASSUME NEW e \in edits, NEW i \in Nat, i \in 1 .. Len(e.expect)
      PROVE  /\ At(new, e, i) \in Addrs
             /\ new[At(new, e, i)] = e.replace[i] /\ result[At(new, e, i)] = e.expect[i]
    <2> DEFINE b == inverse(e)
    <2>1. b \in Revert(edits) /\ i \in 1 .. Len(b.expect) BY <1>1, <1>2
    <2> HIDE DEF b
    <2>2. /\ At(new, b, i) \in Addrs
          /\ new[At(new, b, i)] = b.expect[i] /\ result[At(new, b, i)] = b.replace[i]
        BY <2>1 DEF Turns
    <2> QED BY <1>1, <2>2 DEF b
<1>3. ASSUME NEW e \in edits, NEW d \in edits, NEW i \in Nat, NEW j \in Nat,
             i \in 1 .. Len(e.expect), j \in 1 .. Len(d.expect), At(new, e, i) = At(new, d, j)
      PROVE  e = d
    <2> DEFINE b == inverse(e)  c == inverse(d)
    <2>1. b \in Revert(edits) /\ i \in 1 .. Len(b.expect) BY <1>1, <1>3
    <2>2. c \in Revert(edits) /\ j \in 1 .. Len(c.expect) BY <1>1, <1>3
    <2>3. At(new, b, i) = At(new, c, j) BY <1>1, <1>3
    <2> HIDE DEF b, c
    <2>4. b = c BY <2>1, <2>2, <2>3 DEF Turns
    <2>5. e.at = d.at /\ e.expect = d.expect /\ e.replace = d.replace BY <1>1, <2>4 DEF b, c
    <2> QED BY <1>1, <2>5
<1>4. ASSUME NEW a \in Addrs, \A e \in edits, i \in Nat : i \in 1 .. Len(e.expect) => At(new, e, i) # a
      PROVE  result[a] = new[a]
    <2>1. ASSUME NEW b \in Revert(edits), NEW i \in Nat, i \in 1 .. Len(b.expect)
          PROVE  At(new, b, i) # a
        <3>1. PICK e \in edits : b = inverse(e) BY DEF Revert
        <3>2. i \in 1 .. Len(e.expect) /\ At(new, b, i) = At(new, e, i) BY <1>1, <2>1, <3>1
        <3> QED BY <1>4, <3>2
    <2> QED BY <2>1 DEF Turns
<1> QED BY <1>2, <1>3, <1>4

(* A revert that is sure of every edit gives back the image.                   *)
LEMMA Restores ==
    ASSUME NEW img \in Images, NEW new \in Images, NEW result \in Images, NEW edits, Inside(edits),
           Turns(img, edits, new), Turns(new, Revert(edits), result),
           \A e \in edits : Confident(Place(new, e).how)
    PROVE  result = img
<1>0. \A e \in edits : EditOK(e) BY DEF Inside, Recorded
<1>1. /\ \A e \in edits, i \in Nat : i \in 1 .. Len(e.expect) =>
             /\ At(new, e, i) \in Addrs
             /\ new[At(new, e, i)] = e.replace[i] /\ result[At(new, e, i)] = e.expect[i]
      /\ \A e, d \in edits : \A i, j \in Nat :
             i \in 1 .. Len(e.expect) /\ j \in 1 .. Len(d.expect) /\ At(new, e, i) = At(new, d, j) => e = d
      /\ \A a \in Addrs :
             (\A e \in edits, i \in Nat : i \in 1 .. Len(e.expect) => At(new, e, i) # a) => result[a] = new[a]
    BY <1>0, BackTurns
<1>2. ASSUME NEW e \in edits
      PROVE  \/ \A i \in Nat : i \in 1 .. Len(e.expect) => e.replace[i] = e.expect[i]
             \/ \A i \in Nat : At(new, e, i) = At(img, e, i)
    <2>1. \A d \in edits, i \in Nat : i \in 1 .. Len(d.expect) => new[At(new, d, i)] = d.replace[i] BY <1>1
    <2>2. \/ \A i \in Nat : i \in 1 .. Len(e.expect) => e.replace[i] = e.expect[i]
          \/ Place(new, e).addr = Place(img, e).addr
        BY <2>1, SamePlace
    <2> QED BY <2>2 DEF At
 (* An address that an edit wrote, and none gives back, was written in vain. *)
<1>3. ASSUME NEW a \in Addrs,
             \A d \in edits, j \in Nat : j \in 1 .. Len(d.expect) /\ At(img, d, j) = a /\ At(new, d, j) = a => FALSE
      PROVE  new[a] = img[a]
    <2>1. CASE \E d \in edits, j \in Nat : j \in 1 .. Len(d.expect) /\ At(img, d, j) = a
        <3>1. PICK d \in edits, j \in Nat : j \in 1 .. Len(d.expect) /\ At(img, d, j) = a BY <2>1
        <3>2. At(new, d, j) # At(img, d, j) BY <1>3, <3>1
        <3>3. d.replace[j] = d.expect[j] BY <1>2, <3>1, <3>2
        <3>4. img[a] = d.expect[j] /\ new[a] = d.replace[j] BY <3>1 DEF Turns
        <3> QED BY <3>3, <3>4
    <2>2. CASE ~\E d \in edits, j \in Nat : j \in 1 .. Len(d.expect) /\ At(img, d, j) = a
        BY <2>2 DEF Turns
    <2> QED BY <2>1, <2>2
<1>4. ASSUME NEW a \in Addrs PROVE result[a] = img[a]
    <2>1. CASE \E e \in edits, i \in Nat : i \in 1 .. Len(e.expect) /\ At(new, e, i) = a
        <3>1. PICK e \in edits, i \in Nat : i \in 1 .. Len(e.expect) /\ At(new, e, i) = a BY <2>1
        <3>2. new[a] = e.replace[i] /\ result[a] = e.expect[i] BY <1>1, <3>1
        <3>3. CASE At(img, e, i) = a
            <4>1. img[a] = e.expect[i] BY <3>1, <3>3 DEF Turns
            <4> QED BY <3>2, <4>1
        <3>4. CASE At(img, e, i) # a
            <4>1. At(new, e, i) # At(img, e, i) BY <3>1, <3>4
            <4>2. e.replace[i] = e.expect[i] BY <1>2, <3>1, <4>1
            <4>3. ~ \A k \in Nat : At(new, e, k) = At(img, e, k) BY <4>1
            <4>4. ASSUME NEW d \in edits, NEW j \in Nat, j \in 1 .. Len(d.expect),
                         At(img, d, j) = a, At(new, d, j) = a
                  PROVE  FALSE
                <5>1. d = e BY <1>1, <3>1, <4>4
                <5>2. Place(img, e).addr \in Nat /\ Place(new, e).addr \in Nat BY <1>0, Placed
                <5>3. j = i BY <3>1, <4>4, <5>1, <5>2 DEF At
                <5> QED BY <3>4, <4>4, <5>1, <5>3
            <4>5. new[a] = img[a] BY <1>3, <4>4
            <4> QED BY <3>2, <4>2, <4>5
        <3> QED BY <3>3, <3>4
    <2>2. CASE ~\E e \in edits, i \in Nat : i \in 1 .. Len(e.expect) /\ At(new, e, i) = a
        <3>1. result[a] = new[a] BY <1>1, <2>2
        <3>2. new[a] = img[a] BY <1>3, <2>2
        <3> QED BY <3>1, <3>2
    <2> QED BY <2>1, <2>2
<1> QED BY <1>4 DEF Images

-----------------------------------------------------------------------------
(* Every function is linked at some slot. *)
LEMMA EverySlotFound ==
    ASSUME NEW f \in Orders, NEW g \in Functions
    PROVE  \E s \in Slots : f[s] = g
<1> DEFINE n == Cardinality(Functions)
<1>1. IsFiniteSet(Functions) /\ n \in Nat BY SizesAssumption, FS_CardinalityType
<1>2. IsFiniteSet(Slots) /\ Cardinality(Slots) = n
    <2>1. 0 \in Int /\ n - 1 \in Int BY <1>1
    <2>2. IsFiniteSet(0 .. n - 1)
          /\ Cardinality(0 .. n - 1) = IF 0 > n - 1 THEN 0 ELSE (n - 1) - 0 + 1
        <3> HIDE DEF n
        <3> QED BY <2>1, FS_Interval
    <2> HIDE DEF n
    <2> QED BY <1>1, <2>2 DEF Slots, n
<1>3. f \in Injection(Slots, Functions) BY DEF Orders, Injection, IsInjective
<1>4. f \in Surjection(Slots, Functions) BY <1>1, <1>2, <1>3, FS_Injection
<1> QED BY <1>4 DEF Surjection

-----------------------------------------------------------------------------
(* What the author means: an invariant of recording and linking.               *)

EditOf(e, body) == e.at.anchored /\ e.at.bytes = body
MeantAt(orig, edits, m, f, i) ==
    \/ \E e \in edits : /\ EditOf(e, orig[f]) /\ Covers(e, i)
                       /\ i \in DOMAIN m[f] /\ m[f][i] = e.replace[i - e.at.off + 1]
    \/ (\A e \in edits : ~(EditOf(e, orig[f]) /\ Covers(e, i))) /\ i \notin DOMAIN m[f]

(* No function has the bytes of an edit but the one it was recorded in. *)
Sole(orig, edits) ==
    \A e \in edits, f, g \in Functions : EditOf(e, orig[f]) /\ EditOf(e, orig[g]) => f = g

(* Every edit is in a function of the recorded build; and where that is the    *)
(* only one of its bytes, the author means of each instruction what an edit of *)
(* it says, or else that it stays.                                             *)
Known(orig, edits, m) ==
    /\ DOMAIN m = Functions
    /\ \A e \in edits : e.at.anchored => \E f \in Functions : e.at.bytes = orig[f]
    /\ Sole(orig, edits) => \A f \in Functions, i \in 0 .. Length - 1 : MeantAt(orig, edits, m, f, i)

AsBuilt(img, ord, orig) == \A s \in Slots : Body(img, s) = orig[ord[s]]
SameShapes(img, ord, orig) == \A s \in Slots : Shape(Body(img, s)) = Shape(orig[ord[s]])

LEMMA LinkedIs ==
    ASSUME NEW insn \in Insns, NEW imm
    PROVE  Linked(insn, imm) \in Insns /\ Linked(insn, imm).op = insn.op
<1>1. [insn EXCEPT !.imm = imm].op = insn.op BY DEF Insns
<1>2. Relative \subseteq Insns BY SizesAssumption DEF Insns
<1> QED BY <1>1, <1>2 DEF Linked

(* A link moves the functions and keeps their shapes. *)
LEMMA LinkKeeps ==
    ASSUME NEW f \in Orders, NEW imms, NEW orig,
           image \in Images, order \in Orders, SameShapes(image, order, orig)
    PROVE  Moved(f, imms) \in Images /\ SameShapes(Moved(f, imms), f, orig)
<1> DEFINE img == image  ord == order  new == Moved(f, imms)
<1>1. ASSUME NEW s \in Slots
      PROVE  \E t \in Slots : /\ ord[t] = f[s]
                             /\ \A i \in 0 .. Length - 1 : /\ new[Entry(s) + i] \in Insns
                                                          /\ new[Entry(s) + i].op = img[Entry(t) + i].op
    <2> DEFINE t == CHOOSE t \in Slots : ord[t] = f[s]
    <2>1. f[s] \in Functions BY DEF Orders
    <2>2. t \in Slots /\ ord[t] = f[s] BY <2>1, EverySlotFound
    <2>3. ASSUME NEW i \in 0 .. Length - 1
          PROVE  new[Entry(s) + i] \in Insns /\ new[Entry(s) + i].op = img[Entry(t) + i].op
        <3> DEFINE a == Entry(s) + i
        <3>1. a \in Addrs /\ a # Data /\ Slot(a) = s /\ Entry(s) \in Nat BY InSlot, Sizes
        <3>2. Entry(t) \in Nat /\ Entry(t) + i \in Addrs BY <2>2, InSlot
        <3>3. new[a] = Linked(img[Entry(t) + a - Entry(s)], imms[a]) BY <3>1 DEF Moved
        <3> HIDE DEF t
        <3>4. Entry(t) + a - Entry(s) = Entry(t) + i BY <3>1, <3>2
        <3>5. img[Entry(t) + i] \in Insns BY <3>2 DEF Images
        <3> QED BY <3>3, <3>4, <3>5, LinkedIs
    <2> QED BY <2>2, <2>3
<1>2. new \in Images
    <2>1. ASSUME NEW a \in Addrs PROVE new[a] \in Insns
        <3>1. CASE a = Data
            <4>1. img[a] \in Insns BY DEF Images
            <4> QED BY <3>1, <4>1, LinkedIs DEF Moved
        <3>2. CASE a # Data
            <4>1. Slot(a) \in Slots /\ a - Entry(Slot(a)) \in 0 .. Length - 1 BY <3>2, SlotOf
            <4>2. Entry(Slot(a)) \in Nat /\ a \in Nat BY <4>1, InSlot, Sizes
            <4>3. Entry(Slot(a)) + (a - Entry(Slot(a))) = a BY <4>2
            <4> QED BY <1>1, <4>1, <4>3
        <3> QED BY <3>1, <3>2
    <2>2. new = [a \in Addrs |-> new[a]] BY DEF Moved
    <2> HIDE DEF new
    <2> QED BY <2>1, <2>2 DEF Images
<1>3. ASSUME NEW s \in Slots PROVE Shape(Body(new, s)) = Shape(orig[f[s]])
    <2>1. PICK t \in Slots : /\ ord[t] = f[s]
                             /\ \A i \in 0 .. Length - 1 : new[Entry(s) + i].op = img[Entry(t) + i].op
        BY <1>1
    <2>2. \A i \in 0 .. Length - 1 : Body(new, s)[i].op = Body(img, t)[i].op BY <1>2, <2>1, BodyIs
    <2>3. Shape(Body(new, s)) = Shape(Body(img, t)) BY <2>2 DEF Shape
    <2> QED BY <2>1, <2>3 DEF SameShapes
<1> QED BY <1>2, <1>3 DEF SameShapes

(* A recorded edit. *)
LEMMA RecordKeeps ==
    ASSUME NEW img \in Images, NEW ord \in Orders, NEW edits, NEW orig, AsBuilt(img, ord, orig),
           NEW m, Known(orig, edits, m),
           NEW a \in Addrs, NEW e, EditOK(e), e.at = Anchor(img, a), NEW new,
           new = IF a = Data THEN m ELSE [m EXCEPT ![ord[Slot(a)]] = Noted(@, e)]
    PROVE  Known(orig, edits \cup {e}, new)
<1>0. Sole(orig, edits \cup {e}) => Sole(orig, edits) BY DEF Sole
<1>1. CASE a = Data
    <2>1. ~e.at.anchored BY <1>1 DEF Anchor
    <2>2. \A body, i : ~(EditOf(e, body) /\ Covers(e, i)) BY <2>1 DEF EditOf
    <2>3. new = m BY <1>1
    <2>4. Known(orig, edits, m) OBVIOUS
    <2>5. \A f, i : MeantAt(orig, edits, m, f, i) => MeantAt(orig, edits \cup {e}, m, f, i)
        BY <2>2 DEF MeantAt
    <2>6. Known(orig, edits \cup {e}, m) BY <1>0, <2>1, <2>4, <2>5 DEF Known
    <2> QED BY <2>3, <2>6
<1>2. CASE a # Data
    <2> DEFINE s == Slot(a)  g == ord[s]
               body == Noted(m[g], e)  written == {i \in 0 .. Length - 1 : Covers(e, i)}
    <2>1. s \in Slots BY <1>2, SlotOf
    <2>2. g \in Functions /\ orig[g] = Body(img, s) BY <2>1 DEF Orders, AsBuilt
    <2>3. e.at.anchored /\ e.at.bytes = orig[g] BY <1>2, <2>2 DEF Anchor
    <2>4. DOMAIN m = Functions BY DEF Known
    <2>5. new = [m EXCEPT ![g] = body] BY <1>2
    <2>6. /\ DOMAIN body = DOMAIN m[g] \cup written
          /\ \A i \in DOMAIN m[g] \cup written :
                 body[i] = IF i \in written THEN e.replace[i - e.at.off + 1] ELSE m[g][i]
        BY DEF Noted
    <2> HIDE DEF body, g, s
    <2>7. DOMAIN new = Functions BY <2>4, <2>5
    <2>8. \A d \in edits \cup {e} : d.at.anchored => \E f \in Functions : d.at.bytes = orig[f]
        BY <2>2, <2>3 DEF Known
    <2>9. ASSUME Sole(orig, edits \cup {e}), NEW f \in Functions, NEW i \in 0 .. Length - 1
          PROVE  MeantAt(orig, edits \cup {e}, new, f, i)
        <3>1. MeantAt(orig, edits, m, f, i) BY <1>0, <2>9 DEF Known
        <3>2. CASE f # g
            <4>1. EditOf(e, orig[g]) BY <2>3 DEF EditOf
            <4>2. ~EditOf(e, orig[f]) BY <2>2, <2>9, <3>2, <4>1 DEF Sole
            <4>3. new[f] = m[f] BY <2>4, <2>5, <3>2
            <4> QED BY <3>1, <4>2, <4>3 DEF MeantAt
        <3>3. CASE f = g
            <4>1. new[f] = body BY <2>2, <2>4, <2>5, <3>3
            <4>2. CASE Covers(e, i)
                <5>1. i \in written BY <4>2
                <5>2. i \in DOMAIN new[f] /\ new[f][i] = e.replace[i - e.at.off + 1] BY <2>6, <4>1, <5>1
                <5>3. EditOf(e, orig[f]) BY <2>3, <3>3 DEF EditOf
                <5> QED BY <4>2, <5>2, <5>3 DEF MeantAt
            <4>3. CASE ~Covers(e, i)
                <5>1. i \notin written BY <4>3
                <5>2. i \in DOMAIN new[f] <=> i \in DOMAIN m[f] BY <2>6, <3>3, <4>1, <5>1
                <5>3. i \in DOMAIN m[f] => new[f][i] = m[f][i] BY <2>6, <3>3, <4>1, <5>1
                <5> QED BY <3>1, <4>3, <5>2, <5>3 DEF MeantAt
            <4> QED BY <4>2, <4>3
        <3> QED BY <3>2, <3>3
    <2> QED BY <2>7, <2>8, <2>9 DEF Known
<1> QED BY <1>1, <1>2

(* An edit that was found by bytes which no other function has taken on, or by *)
(* a shape of one function, was found in its function: a link keeps the shapes.*)
Sure(img, ord, orig, e) ==
    e.at.anchored =>
        /\ Confident(Place(img, e).how)
        /\ \A s \in Slots, f \in Functions :
               orig[f] = e.at.bytes /\ Body(img, s) = e.at.bytes => f = ord[s]

LEMMA FindsItsFunction ==
    ASSUME NEW img \in Images, NEW ord \in Orders, NEW orig, SameShapes(img, ord, orig),
           NEW e, EditOK(e), e.at.anchored, Sure(img, ord, orig, e),
           \E f \in Functions : e.at.bytes = orig[f]
    PROVE  \E u \in Slots : /\ Place(img, e).addr = Entry(u) + e.at.off
                           /\ \A f \in Functions : EditOf(e, orig[f]) <=> f = ord[u]
<1>1. PICK u \in Slots : /\ Place(img, e).addr = Entry(u) + e.at.off
                         /\ FoundOK(img, e.at, [slot |-> u, how |-> Place(img, e).how])
    BY Placed
<1>2. PICK g \in Functions : e.at.bytes = orig[g] OBVIOUS
<1>3. ASSUME NEW f \in Functions, orig[f] = e.at.bytes PROVE f = ord[u]
    <2>1. CASE SameBytes(img, e.at) # {}
        <3>1. Body(img, u) = e.at.bytes BY <1>1, <2>1 DEF FoundOK, SameBytes
        <3> QED BY <1>3, <3>1 DEF Sure
    <2>2. CASE SameBytes(img, e.at) = {}
        <3>1. SameShape(img, e.at) = {u} BY <1>1, <2>2 DEF FoundOK, Sure, Confident
        <3>2. PICK t \in Slots : ord[t] = f BY EverySlotFound
        <3>3. Shape(Body(img, t)) = Shape(e.at.bytes) BY <1>3, <3>2 DEF SameShapes
        <3>4. t \in SameShape(img, e.at) BY <3>3 DEF SameShape
        <3> QED BY <3>1, <3>2, <3>4
    <2> QED BY <2>1, <2>2
<1>4. g = ord[u] BY <1>2, <1>3
<1>5. \A f \in Functions : EditOf(e, orig[f]) <=> f = ord[u] BY <1>2, <1>3, <1>4 DEF EditOf
<1> QED BY <1>1, <1>5

(* So an edit inside its function lands on its instructions and no others.     *)
LEMMA LandsInItsFunction ==
    ASSUME NEW img \in Images, NEW ord \in Orders, NEW orig, SameShapes(img, ord, orig),
           NEW e, Recorded(e), InFunction(e), Sure(img, ord, orig, e),
           e.at.anchored => \E f \in Functions : e.at.bytes = orig[f],
           NEW s \in Slots, NEW i \in 0 .. Length - 1
    PROVE  /\ EditOf(e, orig[ord[s]]) /\ Covers(e, i) =>
                  /\ i - e.at.off + 1 \in 1 .. Len(e.expect)
                  /\ At(img, e, i - e.at.off + 1) = Entry(s) + i
           /\ \A k \in 1 .. Len(e.expect) :
                  At(img, e, k) = Entry(s) + i => EditOf(e, orig[ord[s]]) /\ Covers(e, i)
<1>0. EditOK(e) /\ DOMAIN e.replace = 1 .. Len(e.expect) /\ Len(e.expect) \in Nat
    <2>1. EditOK(e) BY DEF Recorded
    <2> QED BY <2>1 DEF EditOK
<1>1. CASE ~e.at.anchored
    <2>1. Place(img, e).addr = Data BY <1>0, <1>1, Placed
    <2>2. \A k \in 1 .. Len(e.expect) : At(img, e, k) >= Data
        <3> TAKE k \in 1 .. Len(e.expect)
        <3>1. At(img, e, k) = Data + k - 1 BY <2>1 DEF At
        <3> QED BY <1>0, <3>1, Sizes
    <2>3. Entry(s) + i < Data /\ Entry(s) + i \in Nat /\ Data \in Nat BY InSlot, Sizes
    <2> QED BY <1>1, <2>2, <2>3 DEF EditOf
<1>2. CASE e.at.anchored
    <2>1. PICK t \in Slots : /\ Place(img, e).addr = Entry(t) + e.at.off
                             /\ \A f \in Functions : EditOf(e, orig[f]) <=> f = ord[t]
        BY <1>0, <1>2, FindsItsFunction
    <2>2. ord[s] \in Functions /\ (ord[s] = ord[t] <=> s = t) BY DEF Orders
    <2>3. EditOf(e, orig[ord[s]]) <=> s = t BY <2>1, <2>2
    <2>6. \A k \in 1 .. Len(e.expect) :
              e.at.off + k - 1 \in 0 .. Length - 1 /\ At(img, e, k) = Entry(t) + (e.at.off + k - 1)
        BY <1>2, <2>1, InItsSlot
    <2>7. e.at.off \in Nat BY <1>0, <1>2, Sizes DEF EditOK
    <2>8. ASSUME EditOf(e, orig[ord[s]]), Covers(e, i)
          PROVE  /\ i - e.at.off + 1 \in 1 .. Len(e.expect)
                 /\ At(img, e, i - e.at.off + 1) = Entry(s) + i
        <3>1. s = t BY <2>3, <2>8
        <3>2. i - e.at.off + 1 \in 1 .. Len(e.expect) BY <1>0, <2>8 DEF Covers
        <3>3. e.at.off + (i - e.at.off + 1) - 1 = i BY <2>7, Sizes
        <3> QED BY <2>6, <3>1, <3>2, <3>3
    <2>9. ASSUME NEW k \in 1 .. Len(e.expect), At(img, e, k) = Entry(s) + i
          PROVE  EditOf(e, orig[ord[s]]) /\ Covers(e, i)
        <3> DEFINE j == e.at.off + k - 1
        <3>1. j \in 0 .. Length - 1 /\ Entry(t) + j = Entry(s) + i BY <2>6, <2>9
        <3> HIDE DEF j
        <3>2. Slot(Entry(t) + j) = t /\ Slot(Entry(s) + i) = s /\ Entry(t) \in Nat /\ Entry(s) \in Nat
            BY <3>1, InSlot
        <3>3. s = t BY <3>1, <3>2
        <3>4. j = i BY <3>1, <3>2, <3>3, Sizes
        <3>5. i - e.at.off + 1 = k BY <2>7, <3>4, <1>0 DEF j
        <3> QED BY <1>0, <2>3, <3>3, <3>5 DEF Covers
    <2> QED BY <2>8, <2>9
<1> QED BY <1>1, <1>2

(* So a set that fits leaves in every function what its author means.          *)
LEMMA Lands ==
    ASSUME NEW img \in Images, NEW ord \in Orders, NEW orig, SameShapes(img, ord, orig),
           NEW edits, Inside(edits), NEW m, Known(orig, edits, m),
           \A e \in edits : Sure(img, ord, orig, e),
           NEW new \in Images, Turns(img, edits, new), NEW s \in Slots, NEW i \in 0 .. Length - 1
    PROVE  Body(new, s)[i] = IF i \in DOMAIN m[ord[s]] THEN m[ord[s]][i] ELSE Body(img, s)[i]
<1> DEFINE f == ord[s]  a == Entry(s) + i
<1>1. f \in Functions BY DEF Orders
<1>2. ASSUME NEW e \in edits
      PROVE  /\ Recorded(e) /\ InFunction(e) /\ EditOK(e)
             /\ e.at.anchored => \E g \in Functions : e.at.bytes = orig[g]
    BY DEF Inside, Recorded, Known
<1>3. Sole(orig, edits)
    <2> SUFFICES ASSUME NEW e \in edits, NEW g \in Functions, NEW h \in Functions,
                        EditOf(e, orig[g]), EditOf(e, orig[h])
                 PROVE  g = h
        BY DEF Sole
    <2>1. e.at.anchored BY DEF EditOf
    <2>2. PICK u \in Slots : \A k \in Functions : EditOf(e, orig[k]) <=> k = ord[u]
        BY <1>2, <2>1, FindsItsFunction
    <2> QED BY <2>2
<1>4. MeantAt(orig, edits, m, f, i) BY <1>1, <1>3 DEF Known
<1>5. a \in Addrs /\ Body(new, s)[i] = new[a] /\ Body(img, s)[i] = img[a] BY InSlot, BodyIs
<1> HIDE DEF a
<1>6. ASSUME NEW e \in edits
      PROVE  /\ EditOf(e, orig[f]) /\ Covers(e, i) =>
                    /\ i - e.at.off + 1 \in 1 .. Len(e.expect)
                    /\ At(img, e, i - e.at.off + 1) = a
             /\ \A k \in 1 .. Len(e.expect) : At(img, e, k) = a => EditOf(e, orig[f]) /\ Covers(e, i)
    <2>1. Recorded(e) /\ InFunction(e) /\ Sure(img, ord, orig, e) BY <1>2
    <2>2. e.at.anchored => \E g \in Functions : e.at.bytes = orig[g] BY <1>2
    <2> QED BY <2>1, <2>2, LandsInItsFunction DEF a
<1> HIDE DEF f
<1>7. CASE \E e \in edits : /\ EditOf(e, orig[f]) /\ Covers(e, i)
                           /\ i \in DOMAIN m[f] /\ m[f][i] = e.replace[i - e.at.off + 1]
    <2>1. PICK e \in edits : /\ EditOf(e, orig[f]) /\ Covers(e, i)
                             /\ i \in DOMAIN m[f] /\ m[f][i] = e.replace[i - e.at.off + 1]
        BY <1>7
    <2>2. PICK k : k = i - e.at.off + 1 OBVIOUS
    <2>3. k \in 1 .. Len(e.expect) /\ At(img, e, k) = a BY <1>6, <2>1, <2>2
    <2>4. EditOK(e) BY <1>2
    <2>5. k \in Nat BY <2>3, <2>4 DEF EditOK
    <2>6. new[At(img, e, k)] = e.replace[k] BY <2>3, <2>5 DEF Turns
    <2> QED BY <1>5, <2>1, <2>2, <2>3, <2>6 DEF f
<1>8. CASE (\A e \in edits : ~(EditOf(e, orig[f]) /\ Covers(e, i))) /\ i \notin DOMAIN m[f]
    <2>1. \A e \in edits, k \in Nat : k \in 1 .. Len(e.expect) => At(img, e, k) # a BY <1>6, <1>8
    <2>2. new[a] = img[a] BY <1>5, <2>1 DEF Turns
    <2> QED BY <1>5, <1>8, <2>2 DEF f
<1> QED BY <1>4, <1>7, <1>8 DEF MeantAt

-----------------------------------------------------------------------------
(* The invariant: what an edit of the set carries; what the author means of the *)
(* build it was recorded on, and that every link kept the shapes of that build; *)
(* and that an applied set was written as a whole onto the image it fitted.     *)
Phases == {"recording", "shipped", "applied", "reverted", "forced"}

Applied ==
    phase = "applied" => Fits(before, set) /\ image = Write(before, Preview(before, set))

Meant ==
    /\ phase \in {"recording", "shipped"} => Known(built, set, meant) /\ SameShapes(image, order, built)
    /\ phase = "recording" => AsBuilt(image, order, built)

Inv ==
    /\ image \in Images /\ before \in Images
    /\ order \in Orders
    /\ phase \in Phases
    /\ \A e \in set : Recorded(e)
    /\ Applied
    /\ Meant
    /\ LandsAsMeant
    /\ RevertRestores

LEMMA RecordedOnImage ==
    ASSUME NEW img \in Images, NEW a \in Addrs, NEW r \in Seq(Insns), Len(r) # 0,
           a + Len(r) <= Cardinality(Addrs)
    PROVE  Recorded([at |-> Anchor(img, a),
                     expect |-> [i \in DOMAIN r |-> img[a + i - 1]], replace |-> r])
<1> DEFINE x == [i \in DOMAIN r |-> img[a + i - 1]]
<1>1. a \in Nat /\ Len(r) \in Nat /\ Len(r) # 0 /\ a + Len(r) <= Data + 1 /\ DOMAIN r = 1 .. Len(r) BY Sizes
<1>2. \A i \in 1 .. Len(r) : a + i - 1 \in Addrs BY <1>1, Sizes
<1>3. x \in Seq(Insns) /\ Len(x) = Len(r) /\ \A i \in 1 .. Len(r) : x[i] = img[a + i - 1]
    <2>1. \A i \in 1 .. Len(r) : img[a + i - 1] \in Insns BY <1>2 DEF Images
    <2>2. x = [i \in 1 .. Len(r) |-> img[a + i - 1]] BY <1>1
    <2> HIDE DEF x
    <2> QED BY <1>1, <2>1, <2>2
<1>4. PICK at : at = Anchor(img, a) OBVIOUS
<1>5. PICK d : d = [at |-> at, expect |-> x, replace |-> r] OBVIOUS
<1> HIDE DEF x
<1>6. d.at = at /\ d.expect = x /\ d.replace = r /\ d = [at |-> d.at, expect |-> d.expect, replace |-> d.replace]
    BY <1>5
<1>7. ASSUME a = Data PROVE Recorded(d)
    <2>1. Anchor(img, a) = [anchored |-> FALSE, abs |-> a, off |-> 0] BY <1>7 DEF Anchor
    <2>2. at.anchored = FALSE /\ at.abs = a BY <1>4, <2>1
    <2>3. EditOK(d) BY <1>1, <1>3, <1>6, <1>7, <2>2 DEF EditOK
    <2> QED BY <1>6, <2>2, <2>3 DEF Recorded
<1>8. ASSUME a # Data PROVE Recorded(d)
    <2> DEFINE s == Slot(a)
    <2>1. Anchor(img, a) = [anchored |-> TRUE, bytes |-> Body(img, s), abs |-> Entry(s), off |-> a - Entry(s)]
        BY <1>8 DEF Anchor
    <2>2. s \in Slots /\ a - Entry(s) \in 0 .. Length - 1 BY <1>8, SlotOf
    <2> HIDE DEF s
    <2>3. Body(img, s) \in Bodies /\ \A i \in 0 .. Length - 1 : Body(img, s)[i] = img[Entry(s) + i]
        BY <2>2, BodyIs
    <2>4. Entry(s) \in Nat BY <2>2, InSlot
    <2>5. at.anchored = TRUE /\ at.bytes = Body(img, s) /\ at.abs = Entry(s) /\ at.off = a - Entry(s)
        BY <1>4, <2>1
    <2>6. EditOK(d)
        <3>1. d.expect \in Seq(Insns) /\ d.replace \in Seq(Insns) /\ Len(d.replace) = Len(d.expect) BY <1>3, <1>6
        <3>2. Len(d.expect) \in Nat \ {0} BY <1>1, <1>3, <1>6
        <3>3. d.at.anchored = TRUE /\ d.at.bytes \in Bodies /\ d.at.off \in 0 .. Length - 1
            BY <1>6, <2>2, <2>3, <2>5
        <3>4. \E t \in Slots : d.at.abs = Entry(t) BY <1>6, <2>2, <2>5
        <3> QED BY <1>6, <3>1, <3>2, <3>3, <3>4 DEF EditOK
    <2>7. ASSUME NEW i \in 1 .. Len(r), a - Entry(s) + i <= Length
          PROVE  x[i] = Body(img, s)[a - Entry(s) + i - 1]
        <3>1. a - Entry(s) + i - 1 \in 0 .. Length - 1 BY <1>1, <2>2, <2>4, <2>7, Sizes
        <3>2. Entry(s) + (a - Entry(s) + i - 1) = a + i - 1 BY <1>1, <2>4
        <3> QED BY <1>3, <2>3, <3>1, <3>2
    <2>8. Recorded(d) BY <1>3, <1>6, <2>5, <2>6, <2>7 DEF Recorded
    <2> QED BY <2>8
<1>9. Recorded(d) BY <1>7, <1>8
<1> QED BY <1>4, <1>5, <1>9 DEF x

LEMMA ReplacementsOK ==
    ASSUME NEW r \in Replacements
    PROVE  r \in Seq(Insns) /\ Len(r) # 0
<1>0. Wanted \subseteq Insns BY SizesAssumption DEF Insns
<1>1. PICK i \in Insns : r = <<i>> \/ r = <<i, i>> BY <1>0 DEF Replacements
<1>2. <<i>> \in Seq(Insns) /\ Len(<<i>>) = 1 OBVIOUS
<1>3. <<i, i>> \in Seq(Insns) /\ Len(<<i, i>>) = 2 OBVIOUS
<1>4. CASE r = <<i>> BY <1>2, <1>4
<1>5. CASE r = <<i, i>> BY <1>3, <1>5
<1> QED BY <1>1, <1>4, <1>5

LEMMA InitInv == Init => Inv
<1> SUFFICES ASSUME Init PROVE Inv OBVIOUS
<1>1. image \in Images /\ before \in Images BY DEF Init, Images
<1>2. order \in Orders BY DEF Init, Orders
<1>3. Meant
    <2>1. meant = [f \in Functions |-> <<>>] /\ set = {} BY DEF Init
    <2>2. ASSUME NEW s \in Slots PROVE Body(image, s) = built[order[s]]
        <3> DEFINE t == CHOOSE t \in Slots : order[t] = order[s]
        <3>1. order[s] \in Functions BY <1>2 DEF Orders
        <3>2. t \in Slots /\ order[t] = order[s] OBVIOUS
        <3>3. built[order[s]] = Body(image, t) BY <3>1 DEF Init
        <3> HIDE DEF t
        <3>4. t = s BY <1>2, <3>2 DEF Orders
        <3> QED BY <3>3, <3>4
    <2>3. AsBuilt(image, order, built) /\ SameShapes(image, order, built)
        BY <2>2 DEF AsBuilt, SameShapes
    <2>4. Known(built, set, meant)
        <3>1. \A f \in Functions, i \in 0 .. Length - 1 : MeantAt(built, set, meant, f, i)
            BY <2>1 DEF MeantAt
        <3> QED BY <2>1, <3>1 DEF Known
    <2> QED BY <2>3, <2>4 DEF Meant
<1> QED BY <1>1, <1>2, <1>3 DEF Init, Inv, Phases, Applied, RevertRestores, LandsAsMeant

LEMMA StepInv == Inv /\ [Next]_vars => Inv'
<1> SUFFICES ASSUME Inv, [Next]_vars PROVE Inv' OBVIOUS
<1> USE DEF Inv
<1>1. ASSUME NEW a \in Addrs, NEW r \in Replacements, Record(a, r) PROVE Inv'
    <2>1. r \in Seq(Insns) /\ Len(r) # 0 BY ReplacementsOK
    <2> DEFINE e == [at |-> Anchor(image, a),
                     expect |-> [i \in DOMAIN r |-> image[a + i - 1]], replace |-> r]
    <2>2. Recorded(e) BY <1>1, <2>1, RecordedOnImage DEF Record
    <2>3. /\ set' = set \cup {e} /\ phase = "recording" /\ phase' = phase
          /\ image' = image /\ before' = before /\ order' = order /\ built' = built
        BY <1>1 DEF Record
    <2>4. e.at = Anchor(image, a) /\ e.replace = r OBVIOUS
    <2>5. meant' = IF a = Data THEN meant ELSE [meant EXCEPT ![order[Slot(a)]] = Noted(@, e)]
        BY <1>1 DEF Record
    <2> HIDE DEF e
    <2>6. \A d \in set' : Recorded(d) BY <2>2, <2>3
    <2>7. EditOK(e) BY <2>2 DEF Recorded
    <2>8. Known(built, set, meant) /\ AsBuilt(image, order, built) BY <2>3 DEF Meant
    <2>9. Known(built, set \cup {e}, meant') BY <2>4, <2>5, <2>7, <2>8, RecordKeeps
    <2>10. Meant' BY <2>3, <2>9 DEF Meant
    <2> QED BY <2>3, <2>6, <2>10 DEF Phases, Applied, RevertRestores, LandsAsMeant
<1>2. ASSUME NEW f \in Orders, NEW imms \in [Addrs -> Imms], Relink(f, imms) PROVE Inv'
    <2>1. /\ phase' = "shipped" /\ order' = f /\ set' = set /\ before' = before
          /\ built' = built /\ meant' = meant /\ phase \in {"recording", "shipped"}
        BY <1>2 DEF Relink
    <2>2. Known(built, set, meant) /\ SameShapes(image, order, built) BY <2>1 DEF Meant
    <2>3. image' \in Images /\ SameShapes(image', f, built) BY <1>2, <2>2, LinkKeeps DEF Relink
    <2>4. Meant' BY <2>1, <2>2, <2>3 DEF Meant
    <2> QED BY <2>1, <2>3, <2>4 DEF Phases, Applied, RevertRestores, LandsAsMeant
<1>3. ASSUME NEW allow \in BOOLEAN, Apply(allow) PROVE Inv'
    <2>1. /\ Fits(image, set) /\ image' = Write(image, Preview(image, set)) /\ before' = image
          /\ phase' = "applied" /\ order' = order /\ set' = set /\ meant' = meant /\ built' = built
          /\ phase \in {"recording", "shipped"}
        BY <1>3 DEF Apply
    <2>2. \A e \in set : EditOK(e) BY DEF Recorded
    <2>3. image' \in Images /\ Turns(image, set, image') BY <2>1, <2>2, FitsTurns
    <2>4. ASSUME \A e \in set : InFunction(e) /\ Certain(e)', NEW s \in Slots, NEW i \in 0 .. Length - 1
          PROVE  Body(image', s)[i] = IF i \in DOMAIN meant[order[s]] THEN meant[order[s]][i]
                                      ELSE Body(image, s)[i]
        <3>1. Inside(set) BY <2>4 DEF Inside
        <3>2. Known(built, set, meant) /\ SameShapes(image, order, built) BY <2>1 DEF Meant
        <3>3. \A e \in set : Sure(image, order, built, e)
            BY <2>1, <2>4 DEF Certain, Lookalike, Sure
        <3> QED BY <2>3, <3>1, <3>2, <3>3, Lands
    <2>5. LandsAsMeant' BY <2>1, <2>4 DEF LandsAsMeant, Certain, Lookalike
    <2> QED BY <2>1, <2>3, <2>5 DEF Phases, Applied, RevertRestores, Meant
<1>4. ASSUME NEW allow \in BOOLEAN, Undo(allow) PROVE Inv'
    <2> DEFINE back == Revert(set)  sure == \A c \in Preview(image, back) : Confident(c.how)
    <2>1. /\ phase = "applied" /\ Fits(image, back) /\ image' = Write(image, Preview(image, back))
          /\ phase' = (IF sure THEN "reverted" ELSE "forced")
          /\ order' = order /\ set' = set /\ before' = before
        BY <1>4 DEF Undo
    <2>2. \A e \in set : EditOK(e) BY DEF Recorded
    <2>3. \A e \in back : EditOK(e) BY <2>2, Inverses DEF Revert
    <2>4. Turns(image, back, image') /\ image' \in Images BY <2>1, <2>3, FitsTurns
    <2>5. Turns(before, set, image) BY <2>1, <2>2, FitsTurns DEF Applied
    <2>6. ASSUME phase' = "reverted", \A e \in set : InFunction(e) PROVE image' = before
        <3>1. sure BY <2>1, <2>6
        <3>2. ASSUME NEW e \in set PROVE Confident(Place(image, e).how)
            <4>1. Change(image, inverse(e)) \in Preview(image, back) BY DEF Revert, Preview
            <4>2. Change(image, inverse(e)).how = Place(image, inverse(e)).how BY DEF Change
            <4>3. Place(image, inverse(e)) = Place(image, e) BY <2>2, Inverses
            <4> QED BY <3>1, <4>1, <4>2, <4>3
        <3>3. Inside(set) BY <2>6 DEF Inside
        <3> QED BY <2>4, <2>5, <3>2, <3>3, Restores
    <2> HIDE DEF sure, back
    <2>7. RevertRestores' BY <2>1, <2>6 DEF RevertRestores
    <2>8. phase' \in Phases /\ phase' # "applied" /\ phase' \notin {"recording", "shipped"}
        BY <2>1 DEF Phases
    <2> QED BY <2>1, <2>4, <2>7, <2>8 DEF Applied, Meant, LandsAsMeant
<1>5. ASSUME UNCHANGED vars PROVE Inv'
    BY <1>5 DEF vars, Applied, RevertRestores, Meant, LandsAsMeant, Certain, Lookalike
<1> QED BY <1>1, <1>2, <1>3, <1>4, <1>5 DEF Next

LEMMA Invariance == Spec => []Inv
BY InitInv, StepInv, PTL DEF Spec

-----------------------------------------------------------------------------
(* LandsAsMeant, for any program, any number of edits and any number of links  *)
(* that move the functions and change what depends on addresses: an applied    *)
(* set of edits inside their functions, each found by bytes that no other      *)
(* function has or by a shape that only one has, leaves in every function what *)
(* its author wrote (anchor.rs resolve, patch.rs preview and apply).           *)
THEOREM AlwaysLandsAsMeant == Spec => []LandsAsMeant
<1>1. Inv => LandsAsMeant BY DEF Inv
<1> QED BY <1>1, Invariance, PTL

(* RevertRestores: a revert that found every edit by its content, by bytes or  *)
(* by a shape that only one function has, gives back the file as it was before *)
(* the set was applied (patch.rs inverse, preview and apply).                  *)
THEOREM AlwaysRestores == Spec => []RevertRestores
<1>1. Inv => RevertRestores BY DEF Inv
<1> QED BY <1>1, Invariance, PTL

(* WrittenOnce: comparing neighbours in the order of addresses is enough for   *)
(* no two edits of an applied set to write the same address (patch.rs preview).*)
THEOREM AlwaysWrittenOnce == Spec => []WrittenOnce
<1>1. Inv => WrittenOnce
    <2> SUFFICES ASSUME Inv, phase = "applied",
                        NEW c \in Preview(before, set), NEW d \in Preview(before, set), c # d
                 PROVE  Places(c) \cap Places(d) = {}
        BY DEF WrittenOnce, Places
    <2>1. ASSUME NEW x \in Preview(before, set) PROVE ChangeOK(x)
        <3>1. PICK e \in set : x = Change(before, e) BY DEF Preview
        <3>2. EditOK(e) BY DEF Inv, Recorded
        <3>3. x.addr = Place(before, e).addr /\ x.edit = e BY <3>1 DEF Change
        <3>4. x.addr \in Nat BY <3>2, <3>3, Placed
        <3> QED BY <3>2, <3>3, <3>4 DEF EditOK, ChangeOK, Size
    <2>2. ~Overlaps(Preview(before, set)) BY DEF Inv, Applied, Fits
    <2> QED BY <2>1, <2>2, NeighboursSuffice
<1> QED BY <1>1, Invariance, PTL
=============================================================================
