---------------------------- MODULE LiftingProofs ----------------------------
(***************************************************************************)
(* Proofs about program recovery, for every program: the walk of a         *)
(* function, for all caps, what is known of the others and what is data;   *)
(* the table of blocks, for every hash function and size of the index; the *)
(* rounds that walk and fill the table, however they are cut into slices;  *)
(* the functions that are found never to return, and the second walk of    *)
(* those that call them.                                                   *)
(***************************************************************************)
EXTENDS Lifting, TLAPS, FiniteSetTheorems, SequenceTheorems, WellFoundedInduction

(* A set of numbers has a least one. *)
LEMMA LeastOf ==
    ASSUME NEW S \in SUBSET Nat, S # {}
    PROVE  \E n \in S : \A m \in S : n <= m
<1> DEFINE R == OpToRel(<, Nat)
<1>1. IsWellFoundedOn(R, Nat) BY NatLessThanWellFounded
<1>2. \A x, y \in Nat : x < y => <<x, y>> \in R BY DEF OpToRel
<1> HIDE DEF R
<1>3. PICK x \in S : \A y \in S : ~ (<<y, x>> \in R) BY <1>1, WFMin
<1>4. \A m \in S : x <= m
    <2> TAKE m \in S
    <2>1. ~(<<m, x>> \in R) BY <1>3
    <2>2. ~(m < x) BY <1>2, <2>1
    <2> QED BY <2>2
<1> QED BY <1>4

(* So a set of numbers that has 0 and with each number the next has them all. *)
LEMMA AllNumbers ==
    ASSUME NEW S, 0 \in S, \A n \in Nat : n \in S => n + 1 \in S
    PROVE  Nat \subseteq S
<1> SUFFICES ASSUME Nat \ S # {} PROVE FALSE OBVIOUS
<1>1. PICK n \in Nat \ S : \A m \in Nat \ S : n <= m BY LeastOf
<1>2. n # 0 /\ n - 1 \in Nat OBVIOUS
<1>3. n - 1 \in S BY <1>1, <1>2
<1>4. (n - 1) + 1 \in S BY <1>2, <1>3
<1> QED BY <1>4

LEMMA IntervalSize ==
    ASSUME NEW N \in Nat
    PROVE  IsFiniteSet(0 .. N - 1) /\ Cardinality(0 .. N - 1) = N
<1>1. 0 \in Int /\ N - 1 \in Int OBVIOUS
<1>2. IsFiniteSet(0 .. N - 1)
      /\ Cardinality(0 .. N - 1) = IF 0 > N - 1 THEN 0 ELSE (N - 1) - 0 + 1
    BY <1>1, FS_Interval
<1> QED BY <1>2

-----------------------------------------------------------------------------
(* Sequences of whatever. *)
IsSeq(s) == \E S : s \in Seq(S)

LEMMA SeqLen ==
    ASSUME NEW s, IsSeq(s)
    PROVE  Len(s) \in Nat /\ DOMAIN s = 1 .. Len(s)
BY LenProperties DEF IsSeq

LEMMA SeqAppend ==
    ASSUME NEW s, IsSeq(s), NEW b
    PROVE  /\ IsSeq(Append(s, b)) /\ Len(Append(s, b)) = Len(s) + 1
           /\ \A i \in 1 .. Len(s) : Append(s, b)[i] = s[i]
           /\ Append(s, b)[Len(s) + 1] = b
<1>1. PICK S : s \in Seq(S) BY DEF IsSeq
<1>2. S \subseteq S \cup {b} OBVIOUS
<1>3. s \in Seq(S \cup {b}) BY <1>1, <1>2, SeqMonotonic
<1>4. Append(s, b) \in Seq(S \cup {b}) BY <1>3
<1> QED BY <1>3, <1>4 DEF IsSeq

LEMMA SeqTail ==
    ASSUME NEW s, IsSeq(s), s # <<>>
    PROVE  /\ IsSeq(Tail(s)) /\ Len(Tail(s)) = Len(s) - 1 /\ Len(s) \in Nat \ {0}
           /\ \A i \in 1 .. Len(s) - 1 : Tail(s)[i] = s[i + 1]
           /\ Head(s) = s[1]
<1>1. PICK S : s \in Seq(S) BY DEF IsSeq
<1>2. /\ Tail(s) \in Seq(S) /\ Len(Tail(s)) = Len(s) - 1
      /\ \A i \in 1 .. Len(Tail(s)) : Tail(s)[i] = s[i + 1]
    BY <1>1, HeadTailProperties
<1>3. Len(s) \in Nat \ {0} BY <1>1, EmptySeq
<1> QED BY <1>1, <1>2, <1>3 DEF IsSeq

LEMMA SeqEmpty == IsSeq(<<>>) /\ Len(<<>>) = 0 /\ \A s : IsSeq(s) /\ Len(s) = 0 => s = <<>>
<1>1. IsSeq(<<>>) /\ Len(<<>>) = 0 BY EmptySeq DEF IsSeq
<1>2. ASSUME NEW s, IsSeq(s), Len(s) = 0 PROVE s = <<>>
    <2>1. PICK S : s \in Seq(S) BY <1>2 DEF IsSeq
    <2> QED BY <1>2, <2>1, EmptySeq
<1> QED BY <1>1, <1>2

LEMMA ListedSeq ==
    ASSUME NEW s, NEW n \in Nat, s = [i \in 1 .. n |-> s[i]]
    PROVE  IsSeq(s) /\ Len(s) = n
<1> DEFINE S == {s[i] : i \in 1 .. n}
<1>1. s \in [1 .. n -> S] OBVIOUS
<1>2. s \in Seq(S) BY <1>1, SeqDef
<1> HIDE DEF S
<1>3. IsSeq(s) BY <1>2 DEF IsSeq
<1>4. Len(s) \in Nat /\ DOMAIN s = 1 .. Len(s) BY <1>3, SeqLen
<1>5. DOMAIN s = 1 .. n BY <1>1
<1>6. Len(s) = n
    <2>1. Len(s) # 0 => (Len(s) \in 1 .. n) BY <1>4, <1>5
    <2>2. n # 0 => (n \in 1 .. Len(s)) BY <1>4, <1>5
    <2> QED BY <1>4, <2>1, <2>2
<1> QED BY <1>3, <1>6

-----------------------------------------------------------------------------
(* A walk ends with finitely many runs, so its blocks are a sequence. *)
FiniteRuns(w) == "ends" \in DOMAIN w /\ IsFiniteSet(DOMAIN w.ends)

LEMMA RunAdded ==
    ASSUME NEW c, NEW w, FiniteRuns(w)
    PROVE  FiniteRuns(WalkOne(c, w))
<1> DEFINE start == w.work[Len(w.work)]
           r == Run(c, w, start)
           taken == Extend(c, w, start, r.run, r.halt)
           popped == [w EXCEPT !.work = Front(@)]
           full == [w EXCEPT !.work = <<>>, !.halt = "BlockCap"]
<1>1. WalkOne(c, w) = popped \/ WalkOne(c, w) = full \/ WalkOne(c, w) = taken BY DEF WalkOne, Taken
<1>2. FiniteRuns(popped) /\ FiniteRuns(full) BY DEF FiniteRuns
<1>3. FiniteRuns(taken)
    <2>1. DOMAIN taken.ends = DOMAIN w.ends \cup {start} /\ "ends" \in DOMAIN taken BY DEF Extend
    <2>2. IsFiniteSet(DOMAIN w.ends \cup {start}) BY FS_AddElement DEF FiniteRuns
    <2> QED BY <2>1, <2>2 DEF FiniteRuns
<1> QED BY <1>1, <1>2, <1>3

WalkTurn(c, v) == IF v.work = <<>> THEN v ELSE WalkOne(c, v)

LEMMA WalkedIs ==
    ASSUME NEW c, NEW N \in Nat
    PROVE  LET w[n \in 0 .. N] == IF n = 0 THEN Start(c) ELSE WalkTurn(c, w[n - 1])
           IN  w = [n \in 0 .. N |-> IF n = 0 THEN Start(c) ELSE WalkTurn(c, w[n - 1])]
<1> DEFINE Is(w, m) == w = [n \in 0 .. m |-> IF n = 0 THEN Start(c) ELSE WalkTurn(c, w[n - 1])]
           Good == {m \in Nat : \E w : Is(w, m)}
<1>1. Is([n \in 0 .. 0 |-> Start(c)], 0) OBVIOUS
<1>2. ASSUME NEW m \in Nat, NEW w, Is(w, m) PROVE \E v : Is(v, m + 1)
    <2> DEFINE v == [n \in 0 .. m + 1 |-> IF n = m + 1 THEN WalkTurn(c, w[m]) ELSE w[n]]
    <2>1. \A n \in 0 .. m : w[n] = IF n = 0 THEN Start(c) ELSE WalkTurn(c, w[n - 1]) BY <1>2
    <2>2. \A n \in 0 .. m : v[n] = w[n] OBVIOUS
    <2>3. v[m + 1] = WalkTurn(c, v[m]) BY <2>2
    <2>4. \A n \in 0 .. m : v[n] = IF n = 0 THEN Start(c) ELSE WalkTurn(c, v[n - 1])
        <3> TAKE n \in 0 .. m
        <3>1. n # 0 => n - 1 \in 0 .. m OBVIOUS
        <3> QED BY <2>1, <2>2, <3>1
    <2>5. \A n \in 0 .. m + 1 : v[n] = IF n = 0 THEN Start(c) ELSE WalkTurn(c, v[n - 1])
        <3> TAKE n \in 0 .. m + 1
        <3>1. n \in 0 .. m \/ n = m + 1 OBVIOUS
        <3>2. m + 1 # 0 /\ (m + 1) - 1 = m OBVIOUS
        <3> HIDE DEF v
        <3> QED BY <2>3, <2>4, <3>1, <3>2
    <2>6. v = [n \in 0 .. m + 1 |-> v[n]] OBVIOUS
    <2> HIDE DEF v
    <2>7. Is(v, m + 1) BY <2>5, <2>6
    <2> QED BY <2>7
<1>3. Nat \subseteq Good
    <2>1. 0 \in Good BY <1>1
    <2>2. \A n \in Nat : n \in Good => n + 1 \in Good BY <1>2
    <2> HIDE DEF Good
    <2> QED BY <2>1, <2>2, AllNumbers
<1> QED BY <1>3

LEMMA BlocksAreListed ==
    ASSUME NEW c
    PROVE  IsSeq(RawCfg(c).blocks)
<1>1. Turns \in Nat BY CapsAssumption DEF Turns
<1>2. PICK w : w = [n \in 0 .. Turns |-> IF n = 0 THEN Start(c) ELSE WalkTurn(c, w[n - 1])] /\ Walked(c) = w[Turns]
    BY <1>1, WalkedIs DEF Walked, WalkTurn
<1>3. \A n \in Nat : n \in 0 .. Turns => FiniteRuns(w[n])
    <2> DEFINE Good == {n \in Nat : n \in 0 .. Turns => FiniteRuns(w[n])}
    <2>1. 0 \in Good
        <3>1. w[0] = Start(c) BY <1>1, <1>2
        <3>2. DOMAIN <<>> = {} OBVIOUS
        <3>3. FiniteRuns(Start(c)) BY <3>2, FS_EmptySet DEF Start, FiniteRuns
        <3> QED BY <3>1, <3>3
    <2>2. ASSUME NEW n \in Good, n + 1 \in 0 .. Turns PROVE FiniteRuns(w[n + 1])
        <3>1. n \in 0 .. Turns /\ n + 1 # 0 /\ (n + 1) - 1 = n BY <1>1, <2>2
        <3>2. w[n + 1] = WalkTurn(c, w[n]) BY <1>2, <2>2, <3>1
        <3>3. FiniteRuns(w[n]) BY <3>1
        <3> QED BY <3>2, <3>3, RunAdded DEF WalkTurn
    <2>3. \A n \in Nat : n \in Good => n + 1 \in Good BY <2>2
    <2> HIDE DEF Good
    <2>4. Nat \subseteq Good BY <2>1, <2>3, AllNumbers
    <2> QED BY <2>4 DEF Good
<1>4. FiniteRuns(Walked(c)) BY <1>1, <1>2, <1>3
<1> DEFINE ends == Walked(c).ends
           starts == {s \in DOMAIN ends : ends[s].end > s}
           order == InOrder(starts)
           listed == BlocksAt(Walked(c), order)
<1>5. IsFiniteSet(starts) /\ Cardinality(starts) \in Nat
    <2>1. IsFiniteSet(DOMAIN ends) BY <1>4 DEF FiniteRuns
    <2>2. starts \subseteq DOMAIN ends OBVIOUS
    <2> HIDE DEF starts, ends
    <2>3. IsFiniteSet(starts) BY <2>1, <2>2, FS_Subset
    <2> QED BY <2>3, FS_CardinalityType
<1>6. RawCfg(c).blocks = listed BY DEF RawCfg, Found
<1> HIDE DEF starts
<1>7. DOMAIN order = 1 .. Cardinality(starts) BY DEF InOrder
<1>8. listed = [i \in 1 .. Cardinality(starts) |-> listed[i]] BY <1>7 DEF BlocksAt
<1> HIDE DEF listed
<1>9. PICK n \in Nat : n = Cardinality(starts) BY <1>5
<1>10. listed = [i \in 1 .. n |-> listed[i]] BY <1>8, <1>9
<1>11. IsSeq(listed) BY <1>10, ListedSeq
<1> QED BY <1>6, <1>11

-----------------------------------------------------------------------------
(* Sets of addresses and their order. *)
LEMMA LeastIs ==
    ASSUME NEW S \in SUBSET Nat, S # {}
    PROVE  Min(S) \in S /\ \A x \in S : Min(S) <= x
BY LeastOf DEF Min

LEMMA AddrsAreNumbers ==
    /\ Addrs \subseteq Nat /\ LastAddr \in Nat /\ IsFiniteSet(Addrs) /\ Cardinality(Addrs) = LastAddr
    /\ \A a \in Addrs : 1 <= a /\ a <= LastAddr
<1>1. LastAddr \in Nat /\ 1 \in Int /\ LastAddr \in Int BY CapsAssumption
<1>2. IsFiniteSet(1 .. LastAddr) /\ Cardinality(1 .. LastAddr) = IF 1 > LastAddr THEN 0 ELSE LastAddr - 1 + 1
    BY <1>1, FS_Interval
<1> QED BY <1>1, <1>2 DEF Addrs

(* Of a set in order: every element once. *)
LEMMA InOrderLists ==
    ASSUME NEW S \in SUBSET Nat, IsFiniteSet(S)
    PROVE  /\ Cardinality(S) \in Nat
           /\ InOrder(S) \in Seq(S) /\ Len(InOrder(S)) = Cardinality(S)
           /\ \A a \in S : \E i \in 1 .. Cardinality(S) : InOrder(S)[i] = a
<1>1. PICK n \in Nat : n = Cardinality(S) BY FS_CardinalityType
<1> DEFINE below(a) == {b \in S : b < a}
           rank == [a \in S |-> Cardinality(below(a))]
<1>2. ASSUME NEW a \in S
      PROVE  IsFiniteSet(below(a)) /\ Cardinality(below(a)) \in 0 .. n - 1
    <2>1. below(a) \in SUBSET S /\ below(a) # S OBVIOUS
    <2> HIDE DEF below
    <2>2. /\ IsFiniteSet(below(a)) /\ Cardinality(below(a)) <= Cardinality(S)
          /\ Cardinality(S) = Cardinality(below(a)) => S = below(a)
        BY <2>1, FS_Subset
    <2>3. Cardinality(below(a)) \in Nat BY <2>2, FS_CardinalityType
    <2> QED BY <1>1, <2>1, <2>2, <2>3
<1>3. ASSUME NEW a \in S, NEW b \in S, a < b PROVE Cardinality(below(a)) # Cardinality(below(b))
    <2>0. a \in Nat /\ b \in Nat /\ \A x \in S : x \in Nat OBVIOUS
    <2>3. \A x \in S : x < a => x < b
        <3> TAKE x \in S
        <3> QED BY <1>3, <2>0
    <2>4. ~(a < a) BY <2>0
    <2>1. below(a) \in SUBSET below(b) /\ a \in below(b) /\ a \notin below(a) BY <1>3, <2>3, <2>4
    <2>2. IsFiniteSet(below(b)) BY <1>2
    <2> HIDE DEF below
    <2>5. Cardinality(below(b)) = Cardinality(below(a)) => below(b) = below(a) BY <2>1, <2>2, FS_Subset
    <2> QED BY <2>1, <2>5
<1>4. rank \in Injection(S, 0 .. n - 1)
    <2>1. rank \in [S -> 0 .. n - 1] BY <1>2
    <2>2. ASSUME NEW a \in S, NEW b \in S, rank[a] = rank[b] PROVE a = b
        <3>1. Cardinality(below(a)) = Cardinality(below(b)) BY <2>2
        <3>2. ~(a < b) /\ ~(b < a) BY <1>3, <3>1
        <3> QED BY <3>2
    <2> HIDE DEF rank
    <2> QED BY <2>1, <2>2 DEF Injection, IsInjective
<1>5. rank \in Surjection(S, 0 .. n - 1)
    <2>1. IsFiniteSet(0 .. n - 1) /\ Cardinality(0 .. n - 1) = n BY IntervalSize
    <2> HIDE DEF rank
    <2> QED BY <1>1, <1>4, <2>1, FS_Injection
<1>6. \A r \in 0 .. n - 1 : \E a \in S : rank[a] = r
    <2> HIDE DEF rank
    <2> QED BY <1>5 DEF Surjection
<1>7. \A a \in S : rank[a] = Cardinality({b \in S : b < a}) OBVIOUS
<1>8. \A a, b \in S : rank[a] = rank[b] => a = b
    <2> HIDE DEF rank
    <2> QED BY <1>4 DEF Injection, IsInjective
<1>9. rank \in [S -> 0 .. n - 1] BY <1>2
<1> HIDE DEF rank, below
<1> DEFINE o == InOrder(S)
<1>10. o = [i \in 1 .. n |-> CHOOSE a \in S : Cardinality({b \in S : b < a}) = i - 1]
    BY <1>1 DEF InOrder
<1>11. ASSUME NEW i \in 1 .. n PROVE o[i] \in S /\ rank[o[i]] = i - 1
    <2>1. i - 1 \in 0 .. n - 1 OBVIOUS
    <2>2. PICK a \in S : rank[a] = i - 1 BY <1>6, <2>1
    <2>3. o[i] = CHOOSE x \in S : Cardinality({b \in S : b < x}) = i - 1 BY <1>10
    <2>4. o[i] \in S /\ Cardinality({b \in S : b < o[i]}) = i - 1 BY <1>7, <2>2, <2>3
    <2> QED BY <1>7, <2>4
<1>12. o \in [1 .. n -> S] BY <1>10, <1>11
<1>13. o \in Seq(S) BY <1>12, SeqDef
<1>14. Len(o) = n
    <2>1. o = [i \in 1 .. n |-> o[i]] BY <1>12
    <2> HIDE DEF o
    <2> QED BY <2>1, ListedSeq
<1>15. ASSUME NEW a \in S PROVE \E i \in 1 .. n : o[i] = a
    <2>1. rank[a] + 1 \in 1 .. n /\ rank[a] = (rank[a] + 1) - 1 BY <1>9
    <2>2. PICK i \in 1 .. n : rank[a] = i - 1 BY <2>1
    <2>3. o[i] \in S /\ rank[o[i]] = i - 1 BY <1>11
    <2> QED BY <1>8, <2>2, <2>3
<1> QED BY <1>1, <1>13, <1>14, <1>15

-----------------------------------------------------------------------------
(* One run: where it stops. *)
StopsHere(c, w, start, a) ==
    Capped(w, start, a) \/ Joins(w, start, a) \/ Stuck(c, a) \/ EndsBlock(c, a)

LEMMA StopsFirst ==
    ASSUME NEW c, NEW w, NEW start \in Addrs
    PROVE  /\ StopsAt(c, w, start) \in start .. LastAddr + 1
           /\ StopsHere(c, w, start, StopsAt(c, w, start))
           /\ \A a \in start .. StopsAt(c, w, start) - 1 : ~StopsHere(c, w, start, a)
<1> DEFINE S == {a \in start .. LastAddr + 1 : StopsHere(c, w, start, a)}
<1>1. start \in Nat /\ LastAddr \in Nat /\ start <= LastAddr BY AddrsAreNumbers
<1>2. LastAddr + 1 \in S
    <2>1. LastAddr + 1 \notin Addrs BY <1>1 DEF Addrs
    <2>2. Stuck(c, LastAddr + 1) BY <2>1 DEF Stuck, Decodes, IsExecutable
    <2> QED BY <1>1, <2>2 DEF StopsHere
<1>3. S \in SUBSET Nat BY <1>1
<1>4. StopsAt(c, w, start) = Min(S) BY DEF StopsAt, StopsHere
<1> HIDE DEF S
<1>5. Min(S) \in S /\ \A x \in S : Min(S) <= x BY <1>2, <1>3, LeastIs
<1>6. Min(S) \in start .. LastAddr + 1 /\ StopsHere(c, w, start, Min(S)) BY <1>5 DEF S
<1>7. ASSUME NEW a \in start .. Min(S) - 1 PROVE ~StopsHere(c, w, start, a)
    <2>1. a \in start .. LastAddr + 1 /\ ~(Min(S) <= a) BY <1>1, <1>6
    <2> QED BY <1>5, <2>1 DEF S
<1> QED BY <1>4, <1>6, <1>7

(* What a run from s is: instructions that run, one after the other; and where *)
(* it says to go on, its last instruction does.                                *)
RunInv(c, r, s) ==
    /\ r.end \in s .. LastAddr + 1
    /\ \A a \in s .. r.end - 1 : Runs(c, a)
    /\ \A a \in s .. r.end - 2 : ~EndsBlock(c, a)
    /\ IF r.term = "Unresolved" THEN r.successors = {}
       ELSE r.end > s /\ r.successors = Successors(c, r.end - 1)

(* It was not cut short: it ends where control goes to addresses that were     *)
(* seen, or before a start that was, or where nothing runs.                    *)
Finishes(c, r, s, seen) ==
    \/ r.end > s /\ EndsBlock(c, r.end - 1) /\ (Successors(c, r.end - 1) \cap Addrs) \subseteq seen
    \/ /\ r.end > s => ~EndsBlock(c, r.end - 1)
       /\ (r.end > s /\ r.end \in seen) \/ ~Runs(c, r.end)

(* Control goes on to the next instruction, inside a run. *)
LEMMA GoesOn ==
    ASSUME NEW c, NEW a, ~EndsBlock(c, a)
    PROVE  Successors(c, a) = {a + 1}
BY DEF EndsBlock, Successors

LEMMA NoWayOn ==
    ASSUME NEW c, NEW a, EndsBlock(c, a), Terminator(c, a) = "Unresolved"
    PROVE  Successors(c, a) = {}
<1>1. c.image[a].flow = "switch" /\ c.image[a].to = {} BY DEF Terminator
<1> QED BY <1>1 DEF Successors

(* What the walk w makes of the run r from start. *)
RunIsFound(c, w, start, r) ==
    /\ RunInv(c, r.run, start)
    /\ w.budget - (r.run.end - start) \in Nat
    /\ r.halt \in {"InstructionCap", "Undecodable", w.halt}
    /\ r.halt = "InstructionCap" => w.budget - (r.run.end - start) = 0
    /\ w.halt = "InstructionCap" => r.halt = "InstructionCap"
    /\ r.halt # "InstructionCap" =>
           Finishes(c, r.run, start, DOMAIN w.ends \cup (r.run.successors \cap Addrs))

LEMMA RunFound ==
    ASSUME NEW c, NEW w, NEW start \in Addrs, w.budget \in Nat,
           w.halt = "InstructionCap" => w.budget = 0
    PROVE  RunIsFound(c, w, start, Run(c, w, start))
<1>1. PICK a : a = StopsAt(c, w, start) OBVIOUS
<1>2. PICK r : r = Run(c, w, start) OBVIOUS
<1>3. /\ a \in start .. LastAddr + 1 /\ StopsHere(c, w, start, a)
      /\ \A b \in start .. a - 1 : ~StopsHere(c, w, start, b)
    BY <1>1, StopsFirst
<1>4. start \in Nat /\ LastAddr \in Nat /\ start <= LastAddr /\ a \in Nat BY <1>3, AddrsAreNumbers
<1>5. ASSUME NEW b \in start .. a - 1
      PROVE  /\ b - start < w.budget /\ ~Joins(w, start, b) /\ Runs(c, b) /\ ~EndsBlock(c, b)
    <2>1. ~StopsHere(c, w, start, b) BY <1>3
    <2>2. ~(b - start >= w.budget) BY <2>1 DEF StopsHere, Capped
    <2> QED BY <1>4, <2>1, <2>2 DEF StopsHere, Stuck, Runs
<1>6. a > start => a - start <= w.budget
    <2>1. ASSUME a > start PROVE a - start <= w.budget
        <3>1. a - 1 \in start .. a - 1 BY <1>4, <2>1
        <3>2. (a - 1) - start < w.budget BY <1>5, <3>1
        <3> QED BY <1>4, <3>2
    <2> QED BY <2>1
<1>7. a > start => ~EndsBlock(c, a - 1) /\ Successors(c, a - 1) = {a}
    <2>1. ASSUME a > start PROVE ~EndsBlock(c, a - 1) /\ Successors(c, a - 1) = {a}
        <3>1. a - 1 \in start .. a - 1 /\ (a - 1) + 1 = a BY <1>4, <2>1
        <3>2. ~EndsBlock(c, a - 1) BY <1>5, <3>1
        <3> QED BY <3>1, <3>2, GoesOn
    <2> QED BY <2>1
<1>8. w.halt = "InstructionCap" => Capped(w, start, a)
    <2>1. w.budget = 0 => a - start >= w.budget BY <1>3, <1>4
    <2> QED BY <2>1 DEF Capped
<1> DEFINE cut == [end |-> a, successors |-> {}, term |-> "Unresolved"]
<1>9. RunInv(c, cut, start)
    <2>1. \A b \in start .. a - 2 : b \in start .. a - 1 BY <1>4
    <2> QED BY <1>3, <1>5, <2>1 DEF RunInv
<1>10. CASE Capped(w, start, a)
    <2>1. r = [run |-> cut, halt |-> "InstructionCap"] BY <1>1, <1>2, <1>10 DEF Run
    <2>2. w.budget - (a - start) = 0
        <3>1. a - start >= w.budget BY <1>10 DEF Capped
        <3>2. a = start \/ a > start BY <1>3, <1>4
        <3> QED BY <1>4, <1>6, <3>1, <3>2
    <2>3. r.run = cut /\ r.halt = "InstructionCap" /\ r.run.end = a BY <2>1
    <2> HIDE DEF cut
    <2> QED BY <1>2, <1>9, <2>2, <2>3 DEF RunIsFound
<1>11. ASSUME ~Capped(w, start, a)
       PROVE  w.budget - (a - start) \in Nat /\ w.budget - ((a + 1) - start) \in Nat
    <2>1. a - start < w.budget BY <1>4, <1>11 DEF Capped
    <2> QED BY <1>3, <1>4, <2>1
<1>12. CASE ~Capped(w, start, a) /\ Joins(w, start, a)
    <2>1. r = [run |-> [cut EXCEPT !.successors = {a}, !.term = "Flow"], halt |-> w.halt]
        BY <1>1, <1>2, <1>12 DEF Run
    <2>2. r.run.end = a /\ r.run.successors = {a} /\ r.run.term = "Flow" /\ r.halt = w.halt BY <2>1
    <2>3. a > start /\ a \in DOMAIN w.ends BY <1>3, <1>4, <1>12 DEF Joins
    <2>4. RunInv(c, r.run, start)
        <3>1. /\ a \in start .. LastAddr + 1
              /\ \A b \in start .. a - 1 : Runs(c, b)
              /\ \A b \in start .. a - 2 : ~EndsBlock(c, b)
            BY <1>9 DEF RunInv
        <3> HIDE DEF cut
        <3> QED BY <1>7, <2>2, <2>3, <3>1 DEF RunInv
    <2>5. Finishes(c, r.run, start, DOMAIN w.ends \cup (r.run.successors \cap Addrs))
        BY <1>7, <2>2, <2>3 DEF Finishes
    <2> QED BY <1>2, <1>8, <1>11, <1>12, <2>2, <2>4, <2>5 DEF RunIsFound
<1>13. CASE ~Capped(w, start, a) /\ ~Joins(w, start, a) /\ Stuck(c, a)
    <2>1. r = [run |-> cut, halt |-> "Undecodable"] BY <1>1, <1>2, <1>13 DEF Run
    <2>2. r.run = cut /\ r.run.end = a /\ r.halt = "Undecodable" BY <2>1
    <2>3. ~Runs(c, a) BY <1>13 DEF Stuck, Runs
    <2>4. Finishes(c, r.run, start, DOMAIN w.ends \cup (r.run.successors \cap Addrs))
        BY <1>7, <2>2, <2>3 DEF Finishes
    <2> HIDE DEF cut
    <2> QED BY <1>2, <1>8, <1>9, <1>11, <1>13, <2>2, <2>4 DEF RunIsFound
<1>14. CASE ~Capped(w, start, a) /\ ~Joins(w, start, a) /\ ~Stuck(c, a)
    <2>1. r = [run |-> [end |-> a + 1, successors |-> Successors(c, a), term |-> Terminator(c, a)],
               halt |-> w.halt]
        BY <1>1, <1>2, <1>14 DEF Run
    <2>2. /\ r.run.end = a + 1 /\ r.run.successors = Successors(c, a)
          /\ r.run.term = Terminator(c, a) /\ r.halt = w.halt
        BY <2>1
    <2>3. EndsBlock(c, a) /\ Runs(c, a) BY <1>3, <1>14 DEF StopsHere, Stuck, Runs
    <2>4. a <= LastAddr BY <2>3, AddrsAreNumbers DEF Runs, Decodes, IsExecutable
    <2>5. a + 1 \in start .. LastAddr + 1 /\ a + 1 > start /\ (a + 1) - 1 = a /\ (a + 1) - 2 = a - 1
        BY <1>3, <1>4, <2>4
    <2>6. \A b \in start .. a : Runs(c, b)
        <3>1. \A b \in start .. a : b = a \/ b \in start .. a - 1 BY <1>4
        <3> QED BY <1>5, <2>3, <3>1
    <2>7. RunInv(c, r.run, start)
        <3>1. \A b \in start .. a - 1 : ~EndsBlock(c, b) BY <1>5
        <3> QED BY <2>2, <2>3, <2>5, <2>6, <3>1, NoWayOn DEF RunInv
    <2>8. Finishes(c, r.run, start, DOMAIN w.ends \cup (r.run.successors \cap Addrs))
        BY <2>2, <2>3, <2>5 DEF Finishes
    <2> QED BY <1>2, <1>8, <1>11, <1>14, <2>2, <2>7, <2>8 DEF RunIsFound
<1> QED BY <1>10, <1>12, <1>13, <1>14

-----------------------------------------------------------------------------
(* The instructions that can be reached: a set that control does not leave,    *)
(* and the least one with the entry.                                           *)
EntryOnly(c) == {c.entry}

LEMMA SpreadIs ==
    ASSUME NEW c, NEW N \in Nat
    PROVE  LET r[n \in 0 .. N] == IF n = 0 THEN EntryOnly(c) ELSE Spread(c, r[n - 1])
           IN  r = [n \in 0 .. N |-> IF n = 0 THEN EntryOnly(c) ELSE Spread(c, r[n - 1])]
<1> DEFINE Is(r, m) == r = [n \in 0 .. m |-> IF n = 0 THEN EntryOnly(c) ELSE Spread(c, r[n - 1])]
           Good == {m \in Nat : \E r : Is(r, m)}
<1>1. Is([n \in 0 .. 0 |-> EntryOnly(c)], 0) OBVIOUS
<1>2. ASSUME NEW m \in Nat, NEW r, Is(r, m) PROVE \E v : Is(v, m + 1)
    <2> DEFINE v == [n \in 0 .. m + 1 |-> IF n = m + 1 THEN Spread(c, r[m]) ELSE r[n]]
    <2>1. \A n \in 0 .. m : r[n] = IF n = 0 THEN EntryOnly(c) ELSE Spread(c, r[n - 1]) BY <1>2
    <2>2. \A n \in 0 .. m : v[n] = r[n] OBVIOUS
    <2>3. v[m + 1] = Spread(c, v[m]) BY <2>2
    <2>4. \A n \in 0 .. m : v[n] = IF n = 0 THEN EntryOnly(c) ELSE Spread(c, v[n - 1])
        <3> TAKE n \in 0 .. m
        <3>1. n # 0 => n - 1 \in 0 .. m OBVIOUS
        <3> QED BY <2>1, <2>2, <3>1
    <2>5. \A n \in 0 .. m + 1 : v[n] = IF n = 0 THEN EntryOnly(c) ELSE Spread(c, v[n - 1])
        <3> TAKE n \in 0 .. m + 1
        <3>1. n \in 0 .. m \/ n = m + 1 OBVIOUS
        <3>2. m + 1 # 0 /\ (m + 1) - 1 = m OBVIOUS
        <3> HIDE DEF v
        <3> QED BY <2>3, <2>4, <3>1, <3>2
    <2>6. v = [n \in 0 .. m + 1 |-> v[n]] OBVIOUS
    <2> HIDE DEF v
    <2>7. Is(v, m + 1) BY <2>5, <2>6
    <2> QED BY <2>7
<1>3. Nat \subseteq Good
    <2>1. 0 \in Good BY <1>1
    <2>2. \A n \in Nat : n \in Good => n + 1 \in Good BY <1>2
    <2> HIDE DEF Good
    <2> QED BY <2>1, <2>2, AllNumbers
<1> QED BY <1>3

(* The addresses of p where instructions run. *)
Executed(c, p) == {a \in p : Runs(c, a)}
IsClosed(c, s) == \A a \in s : Executed(c, Successors(c, a)) \subseteq s

LEMMA ReachableSteps ==
    ASSUME NEW c
    PROVE  \E r : /\ r[0] = {c.entry} /\ Reachable(c) = Executed(c, r[LastAddr])
                  /\ \A n \in Nat : n + 1 <= LastAddr => r[n + 1] = Spread(c, r[n])
<1>1. LastAddr \in Nat BY CapsAssumption
<1>2. PICK r : /\ r = [n \in 0 .. LastAddr |-> IF n = 0 THEN EntryOnly(c) ELSE Spread(c, r[n - 1])]
               /\ Reachable(c) = {a \in r[LastAddr] : Runs(c, a)}
    <2> DEFINE f[n \in 0 .. LastAddr] == IF n = 0 THEN EntryOnly(c) ELSE Spread(c, f[n - 1])
    <2>1. f = [n \in 0 .. LastAddr |-> IF n = 0 THEN EntryOnly(c) ELSE Spread(c, f[n - 1])] BY <1>1, SpreadIs
    <2>2. Reachable(c) = {a \in f[LastAddr] : Runs(c, a)} BY DEF Reachable, EntryOnly
    <2> HIDE DEF f
    <2> QED BY <2>1, <2>2
<1>3. \A n \in 0 .. LastAddr : r[n] = IF n = 0 THEN EntryOnly(c) ELSE Spread(c, r[n - 1]) BY <1>2
<1>4. ASSUME NEW n \in Nat, n + 1 <= LastAddr PROVE r[n + 1] = Spread(c, r[n])
    <2>1. n + 1 \in 0 .. LastAddr /\ n + 1 # 0 /\ (n + 1) - 1 = n BY <1>1, <1>4
    <2> QED BY <1>3, <2>1
<1> QED BY <1>1, <1>2, <1>3, <1>4 DEF Executed, EntryOnly

LEMMA SpreadLive ==
    ASSUME NEW c, NEW p
    PROVE  /\ Executed(c, p) \subseteq Executed(c, Spread(c, p))
           /\ Executed(c, Spread(c, p)) = Executed(c, p) \cup UNION {Executed(c, Successors(c, a)) : a \in Executed(c, p)}
           /\ Executed(c, p) \subseteq Addrs /\ IsFiniteSet(Executed(c, p))
<1>1. Executed(c, p) \subseteq Addrs BY DEF Executed, Runs, Decodes, IsExecutable
<1>2. IsFiniteSet(Executed(c, p)) BY <1>1, AddrsAreNumbers, FS_Subset
<1> QED BY <1>1, <1>2 DEF Executed, Spread

LEMMA ReachableIsLeast ==
    ASSUME NEW c, NEW s, Runs(c, c.entry) => c.entry \in s, IsClosed(c, s)
    PROVE  Reachable(c) \subseteq s
<1>1. PICK r : /\ r[0] = {c.entry} /\ Reachable(c) = Executed(c, r[LastAddr])
               /\ \A n \in Nat : n + 1 <= LastAddr => r[n + 1] = Spread(c, r[n])
    BY ReachableSteps
<1> DEFINE Good == {n \in Nat : n <= LastAddr => Executed(c, r[n]) \subseteq s}
<1>2. LastAddr \in Nat BY CapsAssumption
<1>3. 0 \in Good BY <1>1 DEF Executed
<1>4. ASSUME NEW n \in Nat, n \in Good PROVE n + 1 \in Good
    <2>1. SUFFICES ASSUME n + 1 <= LastAddr PROVE Executed(c, r[n + 1]) \subseteq s OBVIOUS
    <2>2. Executed(c, r[n]) \subseteq s BY <1>2, <1>4, <2>1
    <2>3. Executed(c, r[n + 1]) = Executed(c, r[n]) \cup UNION {Executed(c, Successors(c, a)) : a \in Executed(c, r[n])}
        BY <1>1, <2>1, SpreadLive
    <2> QED BY <2>2, <2>3 DEF IsClosed
<1> HIDE DEF Good
<1>5. LastAddr \in Good BY <1>2, <1>3, <1>4, AllNumbers
<1> QED BY <1>1, <1>2, <1>5 DEF Good

LEMMA ReachableIsClosed ==
    ASSUME NEW c
    PROVE  (Runs(c, c.entry) => c.entry \in Reachable(c)) /\ IsClosed(c, Reachable(c))
<1>1. PICK r : /\ r[0] = {c.entry} /\ Reachable(c) = Executed(c, r[LastAddr])
               /\ \A n \in Nat : n + 1 <= LastAddr => r[n + 1] = Spread(c, r[n])
    BY ReachableSteps
<1>2. LastAddr \in Nat BY CapsAssumption
<1> DEFINE q(n) == Executed(c, r[n])
<1>3. ASSUME NEW n \in Nat, n + 1 <= LastAddr
      PROVE  /\ q(n) \subseteq q(n + 1)
             /\ q(n + 1) = q(n) \cup UNION {Executed(c, Successors(c, a)) : a \in q(n)}
    BY <1>1, <1>3, SpreadLive
<1>4. \A n : q(n) \subseteq Addrs /\ IsFiniteSet(q(n)) BY SpreadLive
<1>5. q(0) = {a \in {c.entry} : Runs(c, a)} BY <1>1 DEF Executed
<1>6. Reachable(c) = q(LastAddr) BY <1>1
<1> HIDE DEF q
<1>7. Runs(c, c.entry) => c.entry \in Reachable(c)
    <2>1. SUFFICES ASSUME Runs(c, c.entry) PROVE c.entry \in q(LastAddr) BY <1>6
    <2> DEFINE Good == {n \in Nat : n <= LastAddr => c.entry \in q(n)}
    <2>2. 0 \in Good BY <1>5, <2>1
    <2>3. ASSUME NEW n \in Nat, n \in Good PROVE n + 1 \in Good
        <3>1. SUFFICES ASSUME n + 1 <= LastAddr PROVE c.entry \in q(n + 1) OBVIOUS
        <3>2. c.entry \in q(n) BY <1>2, <2>3, <3>1
        <3> QED BY <1>3, <3>1, <3>2
    <2> HIDE DEF Good
    <2>4. LastAddr \in Good BY <1>2, <2>2, <2>3, AllNumbers
    <2> QED BY <1>2, <2>4 DEF Good
<1>8. ASSUME NEW n \in Nat, n + 1 <= LastAddr, IsClosed(c, q(n)) PROVE IsClosed(c, q(n + 1))
    <2>2. \A a \in q(n) : Executed(c, Successors(c, a)) \subseteq q(n) BY <1>8 DEF IsClosed
    <2>3. UNION {Executed(c, Successors(c, a)) : a \in q(n)} \subseteq q(n) BY <2>2
    <2>1. q(n + 1) = q(n) BY <1>3, <1>8, <2>3
    <2> QED BY <1>8, <2>1
<1>9. ASSUME NEW n \in Nat, n <= LastAddr, IsClosed(c, q(n)) PROVE IsClosed(c, q(LastAddr))
    <2> DEFINE Good == {m \in Nat : n + m <= LastAddr => IsClosed(c, q(n + m))}
    <2>1. 0 \in Good
        <3>1. n + 0 = n OBVIOUS
        <3> QED BY <1>9, <3>1
    <2>2. ASSUME NEW m \in Nat, m \in Good PROVE m + 1 \in Good
        <3>1. SUFFICES ASSUME n + (m + 1) <= LastAddr PROVE IsClosed(c, q(n + (m + 1))) OBVIOUS
        <3>2. n + m \in Nat /\ n + m <= LastAddr /\ n + (m + 1) = (n + m) + 1 BY <1>2, <3>1
        <3>3. IsClosed(c, q(n + m)) BY <2>2, <3>2
        <3>4. IsClosed(c, q((n + m) + 1)) BY <1>8, <3>1, <3>2, <3>3
        <3> QED BY <3>2, <3>4
    <2> HIDE DEF Good
    <2>3. LastAddr - n \in Nat BY <1>2, <1>9
    <2>4. LastAddr - n \in Good BY <2>1, <2>2, <2>3, AllNumbers
    <2>5. n + (LastAddr - n) = LastAddr BY <1>2
    <2> QED BY <2>4, <2>5 DEF Good
<1>10. IsClosed(c, q(LastAddr))
    <2>1. SUFFICES ASSUME ~IsClosed(c, q(LastAddr)) PROVE FALSE OBVIOUS
    <2>2. \A n \in Nat : n <= LastAddr => ~IsClosed(c, q(n)) BY <1>9, <2>1
    <2> DEFINE Good == {n \in Nat : n <= LastAddr => Cardinality(q(n)) >= n + 1}
    <2>3. 0 \in Good
        <3>1. q(0) # {}
            <4>1. ~IsClosed(c, q(0)) BY <1>2, <2>2
            <4> QED BY <4>1 DEF IsClosed
        <3>2. Cardinality(q(0)) # 0 /\ Cardinality(q(0)) \in Nat BY <1>4, <3>1, FS_EmptySet, FS_CardinalityType
        <3> QED BY <3>2
    <2>4. ASSUME NEW n \in Nat, n \in Good PROVE n + 1 \in Good
        <3>1. SUFFICES ASSUME n + 1 <= LastAddr PROVE Cardinality(q(n + 1)) >= (n + 1) + 1 OBVIOUS
        <3>2. n <= LastAddr /\ n + 1 \in Nat BY <1>2, <3>1
        <3>3. Cardinality(q(n)) >= n + 1 BY <2>4, <3>2
        <3>4. ~IsClosed(c, q(n)) BY <2>2, <3>2
        <3>5. q(n) \in SUBSET q(n + 1) /\ q(n) # q(n + 1) BY <1>3, <3>1, <3>4 DEF IsClosed
        <3>6. IsFiniteSet(q(n)) /\ IsFiniteSet(q(n + 1)) BY <1>4
        <3>7. /\ Cardinality(q(n)) <= Cardinality(q(n + 1))
              /\ Cardinality(q(n + 1)) = Cardinality(q(n)) => q(n + 1) = q(n)
            BY <3>5, <3>6, FS_Subset
        <3>8. Cardinality(q(n)) \in Nat /\ Cardinality(q(n + 1)) \in Nat BY <3>6, FS_CardinalityType
        <3> QED BY <3>3, <3>5, <3>7, <3>8
    <2> HIDE DEF Good
    <2>5. LastAddr \in Good BY <1>2, <2>3, <2>4, AllNumbers
    <2>6. Cardinality(q(LastAddr)) >= LastAddr + 1 BY <1>2, <2>5 DEF Good
    <2>7. q(LastAddr) \in SUBSET Addrs BY <1>4
    <2>8. Cardinality(q(LastAddr)) <= LastAddr BY <2>7, AddrsAreNumbers, FS_Subset
    <2>9. Cardinality(q(LastAddr)) \in Nat BY <1>4, FS_CardinalityType
    <2> QED BY <1>2, <2>6, <2>8, <2>9
<1> QED BY <1>6, <1>7, <1>10

-----------------------------------------------------------------------------
(* What the walk stays. *)
Items(s) == {s[i] : i \in 1 .. Len(s)}

LEMMA ItemsOfFront ==
    ASSUME NEW S, NEW s \in Seq(S), s # <<>>
    PROVE  /\ Front(s) \in Seq(S) /\ Len(Front(s)) = Len(s) - 1 /\ Len(s) \in Nat \ {0}
           /\ s[Len(s)] \in S /\ s[Len(s)] \in Items(s)
           /\ Items(s) = Items(Front(s)) \cup {s[Len(s)]}
<1>1. Len(s) \in Nat \ {0} BY EmptySeq
<1>2. /\ Front(s) \in Seq(S) /\ Len(Front(s)) = Len(s) - 1
      /\ \A i \in 1 .. Len(s) - 1 : Front(s)[i] = s[i]
    <2>1. PICK n \in Nat : n = Len(s) - 1 BY <1>1
    <2>2. \A i \in 1 .. n : s[i] \in S BY <1>1, <2>1
    <2>3. /\ SubSeq(s, 1, n) \in Seq(S) /\ Len(SubSeq(s, 1, n)) = IF 1 <= n THEN n - 1 + 1 ELSE 0
          /\ \A i \in 1 .. n - 1 + 1 : SubSeq(s, 1, n)[i] = s[1 + i - 1]
        <3>1. 1 \in Int /\ n \in Int OBVIOUS
        <3> QED BY <2>2, <3>1, SubSeqProperties
    <2>4. Front(s) = SubSeq(s, 1, n) BY <2>1 DEF Front
    <2> QED BY <2>1, <2>3, <2>4
<1>3. \A i \in 1 .. Len(s) : i \in 1 .. Len(s) - 1 \/ i = Len(s) BY <1>1
<1>4. \A i \in 1 .. Len(s) - 1 : i \in 1 .. Len(s) BY <1>1
<1>5. Len(s) \in 1 .. Len(s) BY <1>1
<1>6. Items(s) = {s[i] : i \in 1 .. Len(s) - 1} \cup {s[Len(s)]} BY <1>3, <1>4, <1>5 DEF Items
<1>7. Items(Front(s)) = {s[i] : i \in 1 .. Len(s) - 1} BY <1>2 DEF Items
<1>8. s[Len(s)] \in S BY <1>5
<1> QED BY <1>1, <1>2, <1>6, <1>7, <1>8

LEMMA ItemsOfConcat ==
    ASSUME NEW S, NEW s \in Seq(S), NEW t \in Seq(S)
    PROVE  /\ s \o t \in Seq(S) /\ Len(s \o t) = Len(s) + Len(t)
           /\ Items(s \o t) = Items(s) \cup Items(t)
<1>1. /\ s \o t \in Seq(S) /\ Len(s \o t) = Len(s) + Len(t) /\ Len(s) \in Nat /\ Len(t) \in Nat
      /\ \A i \in 1 .. Len(s) + Len(t) : (s \o t)[i] = IF i <= Len(s) THEN s[i] ELSE t[i - Len(s)]
    BY ConcatProperties, LenProperties
<1>2. \A i \in 1 .. Len(s) + Len(t) : (s \o t)[i] \in Items(s) \cup Items(t)
    <2> TAKE i \in 1 .. Len(s) + Len(t)
    <2>1. CASE i <= Len(s)
        <3>1. i \in 1 .. Len(s) /\ (s \o t)[i] = s[i] BY <1>1, <2>1
        <3> QED BY <3>1 DEF Items
    <2>2. CASE ~(i <= Len(s))
        <3>1. i - Len(s) \in 1 .. Len(t) /\ (s \o t)[i] = t[i - Len(s)] BY <1>1, <2>2
        <3> QED BY <3>1 DEF Items
    <2> QED BY <2>1, <2>2
<1>3. ASSUME NEW i \in 1 .. Len(s) PROVE s[i] \in Items(s \o t)
    <2>1. i \in 1 .. Len(s) + Len(t) /\ i <= Len(s) BY <1>1
    <2>2. (s \o t)[i] = s[i] BY <1>1, <2>1
    <2> QED BY <1>1, <2>1, <2>2 DEF Items
<1>4. ASSUME NEW i \in 1 .. Len(t) PROVE t[i] \in Items(s \o t)
    <2>1. Len(s) + i \in 1 .. Len(s) + Len(t) /\ ~(Len(s) + i <= Len(s)) /\ (Len(s) + i) - Len(s) = i BY <1>1
    <2>2. (s \o t)[Len(s) + i] = t[i] BY <1>1, <2>1
    <2> QED BY <1>1, <2>1, <2>2 DEF Items
<1>5. Items(s \o t) \subseteq Items(s) \cup Items(t) BY <1>1, <1>2 DEF Items
<1>6. Items(s) \subseteq Items(s \o t) BY <1>3 DEF Items
<1>7. Items(t) \subseteq Items(s \o t) BY <1>4 DEF Items
<1> QED BY <1>1, <1>5, <1>6, <1>7

(* All of a run can be reached if its start can. *)
LEMMA RunReaches ==
    ASSUME NEW c, NEW r, NEW s \in Addrs, RunInv(c, r, s), Runs(c, s) => s \in Reachable(c)
    PROVE  /\ \A a \in s .. r.end - 1 : a \in Reachable(c)
           /\ \A t \in r.successors : Runs(c, t) => t \in Reachable(c)
<1>1. s \in Nat /\ LastAddr \in Nat /\ r.end \in Nat /\ s <= r.end BY AddrsAreNumbers DEF RunInv
<1>2. \A a \in Reachable(c) : Executed(c, Successors(c, a)) \subseteq Reachable(c)
    BY ReachableIsClosed DEF IsClosed
<1>3. \A a \in s .. r.end - 1 : a \in Reachable(c)
    <2> DEFINE Bad == {a \in s .. r.end - 1 : a \notin Reachable(c)}
    <2>1. SUFFICES ASSUME Bad # {} PROVE FALSE OBVIOUS
    <2>2. Bad \in SUBSET Nat BY <1>1
    <2>3. PICK a \in Bad : \A b \in Bad : a <= b
        <3> HIDE DEF Bad
        <3> QED BY <2>1, <2>2, LeastOf
    <2>4. a \in s .. r.end - 1 /\ Runs(c, a) /\ a \notin Reachable(c) BY DEF RunInv
    <2>5. a # s BY <2>4
    <2>6. a - 1 \in s .. r.end - 1 /\ a - 1 \in s .. r.end - 2 /\ ~(a <= a - 1) /\ (a - 1) + 1 = a
        BY <1>1, <2>4, <2>5
    <2>7. a - 1 \in Reachable(c) BY <2>3, <2>6
    <2>8. ~EndsBlock(c, a - 1) BY <2>6 DEF RunInv
    <2>9. Successors(c, a - 1) = {a} BY <2>6, <2>8, GoesOn
    <2> QED BY <1>2, <2>4, <2>7, <2>9 DEF Executed
<1>4. ASSUME NEW t \in r.successors, Runs(c, t) PROVE t \in Reachable(c)
    <2>1. r.end > s /\ r.successors = Successors(c, r.end - 1) BY DEF RunInv
    <2>2. r.end - 1 \in s .. r.end - 1 BY <1>1, <2>1
    <2> QED BY <1>2, <1>3, <1>4, <2>1, <2>2 DEF Executed
<1> QED BY <1>3, <1>4

(* The starts that were seen: of a run, or on the stack. *)
Seen(w) == DOMAIN w.ends \cup Items(w.work)

WalkShape(w) ==
    /\ w = [work |-> w.work, ends |-> w.ends, calls |-> w.calls, has_indirect |-> w.has_indirect,
            budget |-> w.budget, halt |-> w.halt]
    /\ w.work \in Seq(Addrs) /\ w.budget \in Nat /\ DOMAIN w.ends \subseteq Addrs
    /\ w.halt = "InstructionCap" => w.budget = 0
    /\ w.halt = "BlockCap" => w.work = <<>>

WalkInv(c, w) ==
    /\ WalkShape(w)
    /\ \A s \in DOMAIN w.ends : RunInv(c, w.ends[s], s)
    /\ \A s \in Seen(w) : Runs(c, s) => s \in Reachable(c)
    /\ ~IsCapped(w) => /\ c.entry \in Seen(w)
                       /\ \A s \in DOMAIN w.ends : Finishes(c, w.ends[s], s, Seen(w))

(* The starts on the stack, and a turn for each that a new run could add.      *)
Left(w) == Len(w.work) + (LastAddr - Cardinality(DOMAIN w.ends)) * LastAddr

LEMMA FinishesStill ==
    ASSUME NEW c, NEW r, NEW s, NEW seen, NEW more, seen \subseteq more, Finishes(c, r, s, seen)
    PROVE  Finishes(c, r, s, more)
BY DEF Finishes

LEMMA WalkStarts ==
    ASSUME NEW c, c.entry \in Addrs
    PROVE  WalkInv(c, Start(c)) /\ Left(Start(c)) = Turns
<1> DEFINE w == Start(c)
<1>1. /\ w = [work |-> <<c.entry>>, ends |-> <<>>, calls |-> {}, has_indirect |-> FALSE,
              budget |-> InsnCap, halt |-> "Complete"]
    BY DEF Start
<1>2. /\ w.work = <<c.entry>> /\ w.ends = <<>> /\ w.calls = {} /\ w.has_indirect = FALSE
      /\ w.budget = InsnCap /\ w.halt = "Complete"
    BY <1>1
<1> HIDE DEF w
<1>3. DOMAIN w.ends = {} /\ Len(w.work) = 1 /\ w.work \in Seq(Addrs) /\ w.work[1] = c.entry BY <1>2
<1>4. Items(w.work) = {c.entry} BY <1>3 DEF Items
<1>5. Seen(w) = {c.entry} BY <1>3, <1>4 DEF Seen
<1>6. WalkShape(w) BY <1>1, <1>2, <1>3, CapsAssumption DEF WalkShape
<1>7. WalkInv(c, w) BY <1>3, <1>5, <1>6, ReachableIsClosed DEF WalkInv
<1>8. Left(w) = 1 + (LastAddr - 0) * LastAddr BY <1>3, FS_EmptySet DEF Left
<1>9. Left(w) = Turns BY <1>8, CapsAssumption DEF Turns
<1> QED BY <1>7, <1>9 DEF w

LEMMA PoppedKeeps ==
    ASSUME NEW c, NEW w, WalkInv(c, w), w.work # <<>>, w.work[Len(w.work)] \in DOMAIN w.ends
    PROVE  LET v == [w EXCEPT !.work = Front(@)]
           IN  WalkInv(c, v) /\ Left(v) = Left(w) - 1
<1> DEFINE v == [w EXCEPT !.work = Front(@)]
<1>1. WalkShape(w) BY DEF WalkInv
<1>2. /\ v = [work |-> v.work, ends |-> v.ends, calls |-> v.calls, has_indirect |-> v.has_indirect,
              budget |-> v.budget, halt |-> v.halt]
      /\ v.work = Front(w.work) /\ v.ends = w.ends /\ v.budget = w.budget /\ v.halt = w.halt
    BY <1>1 DEF WalkShape
<1> HIDE DEF v
<1>3. /\ v.work \in Seq(Addrs) /\ Len(v.work) = Len(w.work) - 1 /\ Len(w.work) \in Nat
      /\ Items(w.work) = Items(v.work) \cup {w.work[Len(w.work)]}
    BY <1>1, <1>2, ItemsOfFront DEF WalkShape
<1>4. Seen(v) = Seen(w) BY <1>2, <1>3 DEF Seen
<1>5. WalkShape(v) BY <1>1, <1>2, <1>3 DEF WalkShape
<1>6. WalkInv(c, v) BY <1>2, <1>4, <1>5 DEF WalkInv, IsCapped
<1>7. Left(v) = Left(w) - 1
    <2>1. PICK m : m = (LastAddr - Cardinality(DOMAIN w.ends)) * LastAddr OBVIOUS
    <2>2. m \in Int
        <3>1. IsFiniteSet(DOMAIN w.ends) BY <1>1, AddrsAreNumbers, FS_Subset DEF WalkShape
        <3>2. Cardinality(DOMAIN w.ends) \in Int BY <3>1, FS_CardinalityType
        <3> QED BY <2>1, <3>2, AddrsAreNumbers
    <2>3. Left(w) = Len(w.work) + m /\ Left(v) = Len(v.work) + m BY <1>2, <2>1 DEF Left
    <2> QED BY <1>3, <2>2, <2>3
<1> QED BY <1>6, <1>7 DEF v

LEMMA FullKeeps ==
    ASSUME NEW c, NEW w, WalkInv(c, w)
    PROVE  LET v == [w EXCEPT !.work = <<>>, !.halt = "BlockCap"]
           IN  WalkInv(c, v) /\ v.work = <<>>
<1> DEFINE v == [w EXCEPT !.work = <<>>, !.halt = "BlockCap"]
<1>1. WalkShape(w) BY DEF WalkInv
<1>2. /\ v = [work |-> v.work, ends |-> v.ends, calls |-> v.calls, has_indirect |-> v.has_indirect,
              budget |-> v.budget, halt |-> v.halt]
      /\ v.work = <<>> /\ v.ends = w.ends /\ v.budget = w.budget /\ v.halt = "BlockCap"
    <2>1. PICK work, ends, calls, ind, budget, halt :
              w = [work |-> work, ends |-> ends, calls |-> calls, has_indirect |-> ind,
                   budget |-> budget, halt |-> halt]
        BY <1>1 DEF WalkShape
    <2>2. v = [work |-> <<>>, ends |-> ends, calls |-> calls, has_indirect |-> ind,
               budget |-> budget, halt |-> "BlockCap"]
        <3>1. PICK u : u = [w EXCEPT !.work = <<>>] OBVIOUS
        <3>2. u = [work |-> <<>>, ends |-> ends, calls |-> calls, has_indirect |-> ind,
                   budget |-> budget, halt |-> halt]
            BY <2>1, <3>1
        <3>3. v = [u EXCEPT !.halt = "BlockCap"] BY <3>1
        <3> HIDE DEF v
        <3> QED BY <3>2, <3>3
    <2>3. w.ends = ends /\ w.budget = budget BY <2>1
    <2> HIDE DEF v
    <2> QED BY <2>2, <2>3
<1> HIDE DEF v
<1>3. Items(v.work) = {} BY <1>2 DEF Items
<1>4. Seen(v) \subseteq Seen(w) BY <1>2, <1>3 DEF Seen
<1>5. WalkShape(v) BY <1>1, <1>2 DEF WalkShape
<1>6. WalkInv(c, v) BY <1>2, <1>4, <1>5 DEF WalkInv, IsCapped
<1> QED BY <1>2, <1>6 DEF v

LEMMA TakenKeeps ==
    ASSUME NEW c, NEW w, WalkInv(c, w), w.work # <<>>, w.work[Len(w.work)] \notin DOMAIN w.ends
    PROVE  LET start == w.work[Len(w.work)]
               v == Taken(c, w, start, Run(c, w, start))
           IN  WalkInv(c, v) /\ Left(v) <= Left(w) - 1
<1>1. WalkShape(w) BY DEF WalkInv
<1>2. PICK start : start = w.work[Len(w.work)] OBVIOUS
<1>3. PICK r : r = Run(c, w, start) OBVIOUS
<1>4. PICK front : front = Front(w.work) OBVIOUS
<1>5. /\ front \in Seq(Addrs) /\ Len(front) = Len(w.work) - 1 /\ Len(w.work) \in Nat
      /\ start \in Addrs /\ start \in Items(w.work) /\ Items(w.work) = Items(front) \cup {start}
    BY <1>1, <1>2, <1>4, ItemsOfFront DEF WalkShape
<1>6. start \notin DOMAIN w.ends /\ w.halt # "BlockCap" BY <1>1, <1>2 DEF WalkShape
<1>7. RunIsFound(c, w, start, r) BY <1>1, <1>3, <1>5, RunFound DEF WalkShape
<1>8. PICK new : new = {t \in r.run.successors \ DOMAIN w.ends : t # start /\ IsExecutable(t)} OBVIOUS
<1>9. new \subseteq Addrs \ {start} BY <1>8 DEF IsExecutable
<1>10. new \in SUBSET Nat /\ IsFiniteSet(new) /\ Cardinality(new) <= LastAddr - 1 /\ Cardinality(new) \in Nat
    <2>1. IsFiniteSet(Addrs \ {start}) /\ Cardinality(Addrs \ {start}) = LastAddr - 1
        BY <1>5, AddrsAreNumbers, FS_RemoveElement
    <2>2. IsFiniteSet(new) /\ Cardinality(new) <= LastAddr - 1 BY <1>9, <2>1, FS_Subset
    <2> QED BY <1>9, <2>2, AddrsAreNumbers, FS_CardinalityType
<1>11. PICK order : order = InOrder(new) OBVIOUS
<1>12. order \in Seq(Addrs) /\ Len(order) = Cardinality(new) /\ Items(order) = new
    <2>1. /\ order \in Seq(new) /\ Len(order) = Cardinality(new)
          /\ \A a \in new : \E i \in 1 .. Len(order) : order[i] = a
        BY <1>10, <1>11, InOrderLists
    <2>2. \A i \in 1 .. Len(order) : order[i] \in new BY <2>1
    <2>3. Items(order) = new BY <2>1, <2>2 DEF Items
    <2>4. new \subseteq Addrs BY <1>9
    <2> QED BY <2>1, <2>3, <2>4, SeqMonotonic
<1>13. PICK v : v = Taken(c, w, start, r) OBVIOUS
<1>14. /\ v = [work |-> v.work, ends |-> v.ends, calls |-> v.calls, has_indirect |-> v.has_indirect,
               budget |-> v.budget, halt |-> v.halt]
       /\ v.work = front \o order
       /\ v.ends = [s \in DOMAIN w.ends \cup {start} |-> IF s = start THEN r.run ELSE w.ends[s]]
       /\ v.budget = w.budget - (r.run.end - start) /\ v.halt = r.halt
    BY <1>4, <1>8, <1>11, <1>13 DEF Taken, Extend
<1>15. /\ DOMAIN v.ends = DOMAIN w.ends \cup {start} /\ v.ends[start] = r.run
       /\ \A s \in DOMAIN w.ends : v.ends[s] = w.ends[s]
    BY <1>6, <1>14
<1>16. /\ v.work \in Seq(Addrs) /\ Len(v.work) = Len(front) + Len(order)
       /\ Items(v.work) = Items(front) \cup new
    <2>1. /\ front \o order \in Seq(Addrs) /\ Len(front \o order) = Len(front) + Len(order)
          /\ Items(front \o order) = Items(front) \cup Items(order)
        BY <1>5, <1>12, ItemsOfConcat
    <2>2. v.work = front \o order BY <1>14
    <2> QED BY <1>12, <2>1, <2>2
<1>17. Seen(v) = Seen(w) \cup new BY <1>5, <1>15, <1>16 DEF Seen
<1>18. DOMAIN w.ends \cup (r.run.successors \cap Addrs) \subseteq Seen(v)
    <2>1. r.run.successors \cap Addrs \subseteq DOMAIN w.ends \cup {start} \cup new BY <1>8 DEF IsExecutable
    <2>2. {start} \subseteq Seen(v) BY <1>15 DEF Seen
    <2> QED BY <1>17, <2>1, <2>2 DEF Seen
<1>19. WalkShape(v) BY <1>1, <1>5, <1>6, <1>7, <1>14, <1>15, <1>16 DEF WalkShape, RunIsFound
<1>20. \A s \in DOMAIN v.ends : RunInv(c, v.ends[s], s)
    <2>1. RunInv(c, r.run, start) BY <1>7 DEF RunIsFound
    <2>2. \A s \in DOMAIN w.ends : RunInv(c, w.ends[s], s) BY DEF WalkInv
    <2> QED BY <1>15, <2>1, <2>2
<1>21. \A s \in Seen(v) : Runs(c, s) => s \in Reachable(c)
    <2>1. \A s \in Seen(w) : Runs(c, s) => s \in Reachable(c) BY DEF WalkInv
    <2>2. Runs(c, start) => start \in Reachable(c) BY <1>5, <2>1 DEF Seen
    <2>3. PICK ran : ran = r.run OBVIOUS
    <2>4. \A t \in ran.successors : Runs(c, t) => t \in Reachable(c)
        <3>1. RunInv(c, ran, start) BY <1>7, <2>3 DEF RunIsFound
        <3> QED BY <1>5, <2>2, <3>1, RunReaches
    <2>5. new \subseteq ran.successors BY <1>8, <2>3
    <2> QED BY <1>17, <2>1, <2>4, <2>5
<1>22. ASSUME ~IsCapped(v)
       PROVE  c.entry \in Seen(v) /\ \A s \in DOMAIN v.ends : Finishes(c, v.ends[s], s, Seen(v))
    <2>1. r.halt # "InstructionCap" BY <1>14, <1>22 DEF IsCapped
    <2>2. ~IsCapped(w) BY <1>6, <1>7, <2>1 DEF RunIsFound, IsCapped
    <2>3. c.entry \in Seen(w) /\ \A s \in DOMAIN w.ends : Finishes(c, w.ends[s], s, Seen(w))
        BY <2>2 DEF WalkInv
    <2>4. Seen(w) \subseteq Seen(v) BY <1>17
    <2>5. \A s \in DOMAIN w.ends : Finishes(c, w.ends[s], s, Seen(v)) BY <2>3, <2>4, FinishesStill
    <2>6. Finishes(c, r.run, start, DOMAIN w.ends \cup (r.run.successors \cap Addrs))
        BY <1>7, <2>1 DEF RunIsFound
    <2>7. Finishes(c, r.run, start, Seen(v)) BY <1>18, <2>6, FinishesStill
    <2> QED BY <1>15, <2>3, <2>4, <2>5, <2>7
<1>23. WalkInv(c, v) BY <1>19, <1>20, <1>21, <1>22 DEF WalkInv
<1>24. Left(v) <= Left(w) - 1
    <2>1. IsFiniteSet(DOMAIN w.ends) /\ Cardinality(DOMAIN w.ends) \in Nat
        BY <1>1, AddrsAreNumbers, FS_Subset, FS_CardinalityType DEF WalkShape
    <2>2. PICK k \in Nat : k = Cardinality(DOMAIN w.ends) BY <2>1
    <2>3. Cardinality(DOMAIN v.ends) = k + 1 BY <1>6, <1>15, <2>1, <2>2, FS_AddElement
    <2>4. PICK L \in Nat : L = LastAddr BY AddrsAreNumbers
    <2>5. Left(w) = Len(w.work) + (L - k) * L BY <2>2, <2>4 DEF Left
    <2>6. Left(v) = Len(v.work) + (L - (k + 1)) * L BY <2>3, <2>4 DEF Left
    <2>7. PICK m \in Int : m = (L - k) * L OBVIOUS
    <2>8. (L - (k + 1)) * L = m - L BY <2>7
    <2>9. Len(v.work) <= (Len(w.work) - 1) + (L - 1) /\ Len(v.work) \in Nat
        BY <1>5, <1>10, <1>12, <1>16, <2>4
    <2>10. Left(w) = Len(w.work) + m BY <2>5, <2>7
    <2>11. Left(v) = Len(v.work) + (m - L) BY <2>6, <2>8
    <2> QED BY <1>5, <2>9, <2>10, <2>11
<1> QED BY <1>2, <1>3, <1>13, <1>23, <1>24

(* A finished walk: what it stays, and nothing left on the stack. *)
LEMMA WalkFinishes ==
    ASSUME NEW c, c.entry \in Addrs
    PROVE  WalkInv(c, Walked(c)) /\ Walked(c).work = <<>>
<1>1. Turns \in Nat BY CapsAssumption DEF Turns
<1>2. PICK w : w = [n \in 0 .. Turns |-> IF n = 0 THEN Start(c) ELSE WalkTurn(c, w[n - 1])] /\ Walked(c) = w[Turns]
    BY <1>1, WalkedIs DEF Walked, WalkTurn
<1> DEFINE Good == {n \in Nat : n <= Turns => WalkInv(c, w[n]) /\ (w[n].work = <<>> \/ Left(w[n]) <= Turns - n)}
<1>3. 0 \in Good
    <2>1. w[0] = Start(c) BY <1>1, <1>2
    <2>2. Turns - 0 = Turns BY <1>1
    <2> QED BY <1>1, <2>1, <2>2, WalkStarts
<1>4. ASSUME NEW n \in Nat, n \in Good PROVE n + 1 \in Good
    <2>1. SUFFICES ASSUME n + 1 <= Turns
                   PROVE  WalkInv(c, w[n + 1]) /\ (w[n + 1].work = <<>> \/ Left(w[n + 1]) <= Turns - (n + 1))
        OBVIOUS
    <2>2. PICK u : u = w[n] OBVIOUS
    <2>3. PICK v : v = w[n + 1] OBVIOUS
    <2>4. n + 1 \in 0 .. Turns /\ n + 1 # 0 /\ (n + 1) - 1 = n /\ n <= Turns BY <1>1, <2>1
    <2>5. v = WalkTurn(c, u) BY <1>2, <2>2, <2>3, <2>4
    <2>9. WalkInv(c, w[n]) /\ (w[n].work = <<>> \/ Left(w[n]) <= Turns - n) BY <1>4, <2>4
    <2>6. WalkInv(c, u) /\ (u.work = <<>> \/ Left(u) <= Turns - n) BY <2>2, <2>9
    <2>7. CASE u.work = <<>> BY <2>3, <2>5, <2>6, <2>7 DEF WalkTurn
    <2>8. CASE u.work # <<>>
        <3>1. v = WalkOne(c, u) BY <2>5, <2>8 DEF WalkTurn
        <3>2. Left(u) <= Turns - n /\ Left(u) \in Int
            <4>1. u.work \in Seq(Addrs) /\ DOMAIN u.ends \subseteq Addrs BY <2>6 DEF WalkInv, WalkShape
            <4>2. IsFiniteSet(DOMAIN u.ends) BY <4>1, AddrsAreNumbers, FS_Subset
            <4>3. Cardinality(DOMAIN u.ends) \in Int /\ Len(u.work) \in Int BY <4>1, <4>2, FS_CardinalityType
            <4>4. (LastAddr - Cardinality(DOMAIN u.ends)) * LastAddr \in Int BY <4>3, AddrsAreNumbers
            <4>5. Left(u) \in Int BY <4>3, <4>4 DEF Left
            <4> QED BY <2>6, <2>8, <4>5
        <3>3. PICK start : start = u.work[Len(u.work)] OBVIOUS
        <3>4. CASE start \in DOMAIN u.ends
            <4>1. v = [u EXCEPT !.work = Front(@)] BY <3>1, <3>3, <3>4 DEF WalkOne
            <4>2. WalkInv(c, v) /\ Left(v) = Left(u) - 1 BY <2>6, <2>8, <3>3, <3>4, <4>1, PoppedKeeps
            <4> QED BY <1>1, <2>3, <3>2, <4>2
        <3>5. CASE start \notin DOMAIN u.ends /\ Cardinality(DOMAIN u.ends) >= BlockCap
            <4>1. v = [u EXCEPT !.work = <<>>, !.halt = "BlockCap"] BY <3>1, <3>3, <3>5 DEF WalkOne
            <4>2. WalkInv(c, v) /\ v.work = <<>> BY <2>6, <4>1, FullKeeps
            <4> QED BY <2>3, <4>2
        <3>6. CASE start \notin DOMAIN u.ends /\ ~(Cardinality(DOMAIN u.ends) >= BlockCap)
            <4>1. v = Taken(c, u, start, Run(c, u, start)) BY <3>1, <3>3, <3>6 DEF WalkOne
            <4>2. WalkInv(c, v) /\ Left(v) <= Left(u) - 1 BY <2>6, <2>8, <3>3, <3>6, <4>1, TakenKeeps
            <4>3. Left(v) \in Int
                <5>1. v.work \in Seq(Addrs) /\ DOMAIN v.ends \subseteq Addrs BY <4>2 DEF WalkInv, WalkShape
                <5>2. IsFiniteSet(DOMAIN v.ends) BY <5>1, AddrsAreNumbers, FS_Subset
                <5>3. Cardinality(DOMAIN v.ends) \in Int /\ Len(v.work) \in Int BY <5>1, <5>2, FS_CardinalityType
                <5>4. (LastAddr - Cardinality(DOMAIN v.ends)) * LastAddr \in Int BY <5>3, AddrsAreNumbers
                <5> QED BY <5>3, <5>4 DEF Left
            <4> QED BY <1>1, <2>3, <3>2, <4>2, <4>3
        <3> QED BY <3>4, <3>5, <3>6
    <2> QED BY <2>7, <2>8
<1> HIDE DEF Good
<1>5. Turns \in Good BY <1>1, <1>3, <1>4, AllNumbers
<1>6. PICK v : v = Walked(c) OBVIOUS
<1>7. WalkInv(c, v) /\ (v.work = <<>> \/ Left(v) <= Turns - Turns)
    <2>1. WalkInv(c, w[Turns]) /\ (w[Turns].work = <<>> \/ Left(w[Turns]) <= Turns - Turns)
        BY <1>1, <1>5 DEF Good
    <2>2. v = w[Turns] BY <1>2, <1>6
    <2> QED BY <2>1, <2>2
<1>8. v.work = <<>>
    <2>1. SUFFICES ASSUME Left(v) <= 0 PROVE v.work = <<>> BY <1>1, <1>7
    <2>2. v.work \in Seq(Addrs) /\ DOMAIN v.ends \subseteq Addrs BY <1>7 DEF WalkInv, WalkShape
    <2>3. Len(v.work) \in Nat BY <2>2
    <2>4. PICK k \in Nat : k = LastAddr - Cardinality(DOMAIN v.ends)
        <3>1. IsFiniteSet(DOMAIN v.ends) /\ Cardinality(DOMAIN v.ends) <= LastAddr
            BY <2>2, AddrsAreNumbers, FS_Subset
        <3>2. Cardinality(DOMAIN v.ends) \in Nat BY <3>1, FS_CardinalityType
        <3> QED BY <3>1, <3>2, AddrsAreNumbers
    <2>5. k * LastAddr \in Nat BY AddrsAreNumbers
    <2>6. Left(v) = Len(v.work) + k * LastAddr BY <2>4 DEF Left
    <2>7. Len(v.work) = 0 BY <2>1, <2>3, <2>5, <2>6
    <2> QED BY <2>2, <2>7, EmptySeq
<1> QED BY <1>6, <1>7, <1>8

-----------------------------------------------------------------------------
(* The blocks of a finished walk. *)
Starts(w) == {s \in DOMAIN w.ends : w.ends[s].end > s}

LEMMA BlocksOfStarts ==
    ASSUME NEW c, NEW w, w = Walked(c), WalkInv(c, w)
    PROVE  ToSet(RawCfg(c).blocks) = {BlockAt(w, s) : s \in Starts(w)}
<1>1. DOMAIN w.ends \subseteq Addrs BY DEF WalkInv, WalkShape
<1>2. Starts(w) \subseteq Addrs BY <1>1 DEF Starts
<1>3. Starts(w) \in SUBSET Nat /\ IsFiniteSet(Starts(w)) BY <1>2, AddrsAreNumbers, FS_Subset
<1>4. PICK o : o = InOrder(Starts(w)) OBVIOUS
<1>5. RawCfg(c).blocks = [i \in DOMAIN o |-> BlockAt(w, o[i])] BY <1>4 DEF RawCfg, Found, BlocksAt, Starts
<1>6. /\ o \in Seq(Starts(w)) /\ DOMAIN o = 1 .. Len(o)
      /\ \A s \in Starts(w) : \E i \in 1 .. Len(o) : o[i] = s
    BY <1>3, <1>4, InOrderLists
<1>7. \A i \in DOMAIN o : o[i] \in Starts(w) BY <1>6
<1>8. ToSet(RawCfg(c).blocks) = {BlockAt(w, o[i]) : i \in DOMAIN o} BY <1>5 DEF ToSet
<1> QED BY <1>6, <1>7, <1>8

(* A run cut where the next start is. *)
CutInv(c, w, s) ==
    LET e == Cut(w, s).end
    IN  /\ e \in Nat /\ e <= w.ends[s].end /\ (w.ends[s].end > s => e > s)
        /\ \A t \in DOMAIN w.ends : s < t => e <= t
        /\ e < w.ends[s].end => e \in DOMAIN w.ends
        /\ Cut(w, s).term # "Unresolved" => Cut(w, s).successors = Successors(c, e - 1)

LEMMA CutIs ==
    ASSUME NEW c, NEW w, WalkInv(c, w), NEW s \in DOMAIN w.ends
    PROVE  CutInv(c, w, s)
<1>1. PICK D : D = DOMAIN w.ends OBVIOUS
<1>2. PICK ran : ran = w.ends[s] OBVIOUS
<1>3. D \subseteq Addrs BY <1>1 DEF WalkInv, WalkShape
<1>4. D \subseteq Nat /\ s \in Nat /\ LastAddr \in Nat BY <1>1, <1>3, AddrsAreNumbers
<1>5. RunInv(c, ran, s) BY <1>2 DEF WalkInv
<1>6. ran.end \in Nat /\ s <= ran.end BY <1>4, <1>5 DEF RunInv
<1>7. PICK inside : inside = {t \in D : s < t /\ t < ran.end} OBVIOUS
<1>8. CASE inside = {}
    <2>1. Cut(w, s) = ran BY <1>1, <1>2, <1>7, <1>8 DEF Cut
    <2>2. \A t \in D : s < t => ran.end <= t
        <3> TAKE t \in D
        <3>1. ~(s < t /\ t < ran.end) BY <1>7, <1>8
        <3> QED BY <1>4, <1>6, <3>1
    <2>3. ran.term # "Unresolved" => ran.successors = Successors(c, ran.end - 1) BY <1>5 DEF RunInv
    <2> QED BY <1>1, <1>2, <1>6, <2>1, <2>2, <2>3 DEF CutInv
<1>9. CASE inside # {}
    <2>1. PICK e : e = Min(inside) OBVIOUS
    <2>2. e \in inside /\ \A t \in inside : e <= t BY <1>4, <1>7, <1>9, <2>1, LeastIs
    <2>3. e \in D /\ e \in Nat /\ s < e /\ e < ran.end BY <1>4, <1>7, <2>2
    <2>4. Cut(w, s) = [end |-> e, successors |-> {e}, term |-> "Flow"] BY <1>1, <1>2, <1>7, <1>9, <2>1 DEF Cut
    <2>5. \A t \in D : s < t => e <= t
        <3> TAKE t \in D
        <3>1. CASE t < ran.end BY <1>7, <2>2, <3>1
        <3>2. CASE ~(t < ran.end) BY <1>4, <1>6, <2>3, <3>2
        <3> QED BY <3>1, <3>2
    <2>6. Successors(c, e - 1) = {e}
        <3>1. e - 1 \in s .. ran.end - 2 /\ (e - 1) + 1 = e BY <1>4, <1>6, <2>3
        <3>2. ~EndsBlock(c, e - 1) BY <1>5, <3>1 DEF RunInv
        <3> QED BY <3>1, <3>2, GoesOn
    <2>7. Cut(w, s).end = e /\ Cut(w, s).successors = {e} BY <2>4
    <2>8. e <= ran.end BY <1>6, <2>3
    <2> QED BY <1>1, <1>2, <2>3, <2>5, <2>6, <2>7, <2>8 DEF CutInv
<1> QED BY <1>8, <1>9

(* In a finished walk that no cap ended, a start where an instruction runs has *)
(* a run, and control goes from the runs to their starts only.                 *)
Finished(c, w) ==
    /\ c.entry \in DOMAIN w.ends
    /\ \A s \in DOMAIN w.ends : Finishes(c, w.ends[s], s, DOMAIN w.ends)

LEMMA RunNotEmpty ==
    ASSUME NEW c, NEW w, WalkInv(c, w), Finished(c, w), NEW s \in DOMAIN w.ends, Runs(c, s)
    PROVE  w.ends[s].end > s
<1>1. s \in Nat BY AddrsAreNumbers DEF WalkInv, WalkShape
<1>2. PICK ran : ran = w.ends[s] OBVIOUS
<1>3. RunInv(c, ran, s) /\ Finishes(c, ran, s, DOMAIN w.ends) BY <1>2 DEF WalkInv, Finished
<1>4. ran.end \in Nat /\ s <= ran.end BY <1>1, <1>3, AddrsAreNumbers DEF RunInv
<1>5. ran.end = s => ran.end > s BY <1>3 DEF Finishes
<1> QED BY <1>1, <1>2, <1>4, <1>5

(* The instructions of the runs. *)
Walkways(w) == UNION {s .. w.ends[s].end - 1 : s \in DOMAIN w.ends}

LEMMA WalkwaysAreClosed ==
    ASSUME NEW c, NEW w, WalkInv(c, w), Finished(c, w)
    PROVE  (Runs(c, c.entry) => c.entry \in Walkways(w)) /\ IsClosed(c, Walkways(w))
<1>1. ASSUME NEW s \in DOMAIN w.ends, Runs(c, s) PROVE s \in Walkways(w)
    <2>1. w.ends[s].end > s BY <1>1, RunNotEmpty
    <2>2. s \in Nat BY AddrsAreNumbers DEF WalkInv, WalkShape
    <2>3. RunInv(c, w.ends[s], s) BY DEF WalkInv
    <2>4. w.ends[s].end \in Nat BY <2>2, <2>3, AddrsAreNumbers DEF RunInv
    <2>5. s \in s .. w.ends[s].end - 1 BY <2>1, <2>2, <2>4
    <2> QED BY <2>5 DEF Walkways
<1>2. Runs(c, c.entry) => c.entry \in Walkways(w) BY <1>1 DEF Finished
<1>3. ASSUME NEW a \in Walkways(w), NEW t \in Successors(c, a), Runs(c, t) PROVE t \in Walkways(w)
    <2>1. PICK s \in DOMAIN w.ends : a \in s .. w.ends[s].end - 1 BY DEF Walkways
    <2>2. PICK ran : ran = w.ends[s] OBVIOUS
    <2>3. RunInv(c, ran, s) /\ Finishes(c, ran, s, DOMAIN w.ends) BY <2>2 DEF WalkInv, Finished
    <2>4. s \in Nat BY AddrsAreNumbers DEF WalkInv, WalkShape
    <2>5. ran.end \in Nat /\ a \in s .. ran.end - 1 BY <2>1, <2>2, <2>3, <2>4, AddrsAreNumbers DEF RunInv
    <2>6. t \in Addrs BY <1>3 DEF Runs, Decodes, IsExecutable
    <2>7. CASE a < ran.end - 1
        <3>1. a \in s .. ran.end - 2 /\ a + 1 \in s .. ran.end - 1 BY <2>4, <2>5, <2>7
        <3>2. Successors(c, a) = {a + 1} BY <2>3, <3>1, GoesOn DEF RunInv
        <3>3. t \in s .. w.ends[s].end - 1 BY <1>3, <2>2, <3>1, <3>2
        <3> QED BY <3>3 DEF Walkways
    <2>8. CASE a = ran.end - 1
        <3>1. CASE EndsBlock(c, a)
            <4>1. t \in DOMAIN w.ends
                <5>1. ran.end > s /\ EndsBlock(c, ran.end - 1) /\ t \in Successors(c, ran.end - 1)
                    BY <1>3, <2>4, <2>5, <2>8, <3>1
                <5> QED BY <2>3, <2>6, <5>1 DEF Finishes
            <4> QED BY <1>1, <1>3, <4>1
        <3>2. CASE ~EndsBlock(c, a)
            <4>1. t = ran.end
                <5>1. Successors(c, a) = {a + 1} /\ a + 1 = ran.end BY <2>5, <2>8, <3>2, GoesOn
                <5> QED BY <1>3, <5>1
            <4>2. ran.end \in DOMAIN w.ends BY <1>3, <2>3, <2>8, <3>2, <4>1 DEF Finishes
            <4> QED BY <1>1, <1>3, <4>1, <4>2
        <3> QED BY <3>1, <3>2
    <2> QED BY <2>4, <2>5, <2>7, <2>8
<1>4. IsClosed(c, Walkways(w)) BY <1>3 DEF IsClosed, Executed
<1> QED BY <1>2, <1>4

(* Cutting loses nothing: an instruction of a run is in the block of the last  *)
(* start before it.                                                            *)
LEMMA CutsCover ==
    ASSUME NEW c, NEW w, WalkInv(c, w), Finished(c, w), NEW a \in Walkways(w)
    PROVE  \E t \in Starts(w) : a \in t .. Cut(w, t).end - 1
<1>1. PICK D : D = DOMAIN w.ends OBVIOUS
<1>2. D \subseteq Nat BY <1>1, AddrsAreNumbers DEF WalkInv, WalkShape
<1>3. \A s \in D : RunInv(c, w.ends[s], s) /\ Finishes(c, w.ends[s], s, D) BY <1>1 DEF WalkInv, Finished
<1>4. \A s \in D : w.ends[s].end \in Nat /\ s <= w.ends[s].end
    BY <1>2, <1>3, AddrsAreNumbers DEF RunInv
<1>5. PICK s \in D : a \in s .. w.ends[s].end - 1 BY <1>1 DEF Walkways
<1>6. a \in Nat /\ s \in Nat /\ s <= a /\ a < w.ends[s].end BY <1>2, <1>4, <1>5
<1> DEFINE near == {a - t : t \in {x \in D : x <= a}}
<1>7. PICK t \in D : t <= a /\ \A u \in D : u <= a => u <= t
    <2>1. near \in SUBSET Nat
        <3>1. \A x \in D : x <= a => a - x \in Nat BY <1>2, <1>6
        <3> QED BY <3>1
    <2>2. near # {} BY <1>6
    <2>3. PICK n \in near : \A m \in near : n <= m
        <3> HIDE DEF near
        <3> QED BY <2>1, <2>2, LeastOf
    <2>4. PICK t \in D : t <= a /\ n = a - t OBVIOUS
    <2>5. ASSUME NEW u \in D, u <= a PROVE u <= t
        <3>1. a - u \in near BY <2>5
        <3>2. n <= a - u BY <2>3, <3>1
        <3> QED BY <1>2, <1>6, <2>4, <3>2
    <2> QED BY <2>4, <2>5
<1>8. t \in Nat /\ s <= t BY <1>2, <1>6, <1>7
<1>9. a < w.ends[t].end
    <2>1. SUFFICES ASSUME w.ends[t].end <= a PROVE FALSE BY <1>4, <1>6
    <2>2. PICK e : e = w.ends[t].end OBVIOUS
    <2>3. e \in Nat /\ t <= e /\ e <= a BY <1>4, <2>1, <2>2
    <2>4. PICK ran : ran = w.ends[s] OBVIOUS
    <2>5. ran.end \in Nat /\ RunInv(c, ran, s) BY <1>3, <1>4, <2>4
    <2>6. e \in s .. ran.end - 1 BY <1>6, <1>8, <2>3, <2>4, <2>5
    <2>7. Runs(c, e) BY <2>5, <2>6 DEF RunInv
    <2>8. e > t => ~EndsBlock(c, e - 1)
        <3>1. SUFFICES ASSUME e > t PROVE ~EndsBlock(c, e - 1) OBVIOUS
        <3>2. e - 1 \in s .. ran.end - 2 BY <1>6, <1>8, <2>3, <2>5, <2>6, <3>1
        <3> QED BY <2>5, <3>2 DEF RunInv
    <2>9. e > t /\ e \in D
        <3>1. Finishes(c, w.ends[t], t, D) BY <1>3
        <3> QED BY <2>2, <2>7, <2>8, <3>1 DEF Finishes
    <2>10. e <= t BY <1>7, <2>3, <2>9
    <2> QED BY <1>8, <2>3, <2>9, <2>10
<1>10. w.ends[t].end > t BY <1>4, <1>6, <1>7, <1>8, <1>9
<1>11. t \in Starts(w) BY <1>1, <1>10 DEF Starts
<1>12. a < Cut(w, t).end
    <2>1. PICK e : e = Cut(w, t).end OBVIOUS
    <2>2. e \in Nat /\ e <= w.ends[t].end /\ e > t /\ (e < w.ends[t].end => e \in D)
        BY <1>1, <1>10, <2>1, CutIs DEF CutInv
    <2>3. CASE e = w.ends[t].end BY <1>9, <2>1, <2>3
    <2>4. CASE e < w.ends[t].end
        <3>1. ~(e <= a) BY <1>7, <1>8, <2>2, <2>4
        <3> QED BY <1>6, <2>1, <2>2, <3>1
    <2> QED BY <1>4, <2>2, <2>3, <2>4
<1>13. Cut(w, t).end \in Nat BY <1>1, CutIs DEF CutInv
<1> QED BY <1>6, <1>7, <1>8, <1>11, <1>12, <1>13

(* The walk of any image from any entry, with any entries to stop at, finds    *)
(* the blocks that it should.                                                  *)
LEMMA WalkFindsBlocks ==
    ASSUME NEW c, c.entry \in Addrs
    PROVE  ExactBlocks(c, RawCfg(c))
<1>1. PICK w : w = Walked(c) OBVIOUS
<1>2. WalkInv(c, w) /\ w.work = <<>> BY <1>1, WalkFinishes
<1>3. PICK cfg : cfg = RawCfg(c) OBVIOUS
<1>4. PICK bs : bs = ToSet(cfg.blocks) OBVIOUS
<1>5. bs = {BlockAt(w, s) : s \in Starts(w)} BY <1>1, <1>2, <1>3, <1>4, BlocksOfStarts
<1>6. ~IsCapped(cfg) => Finished(c, w)
    <2>1. cfg.halt = w.halt BY <1>1, <1>3 DEF RawCfg, Found
    <2>2. Seen(w) = DOMAIN w.ends
        <3>1. Items(w.work) = {} BY <1>2 DEF Items
        <3> QED BY <3>1 DEF Seen
    <2> QED BY <1>2, <2>1, <2>2 DEF WalkInv, IsCapped, Finished
<1>7. ASSUME NEW b \in bs
      PROVE  \E s \in Starts(w) : /\ b = BlockAt(w, s) /\ b.at = s /\ b.end = Cut(w, s).end
                                  /\ b.successors = Cut(w, s).successors /\ b.term = Cut(w, s).term
                                  /\ s \in DOMAIN w.ends /\ CutInv(c, w, s)
    <2>1. PICK s \in Starts(w) : b = BlockAt(w, s) BY <1>5
    <2>2. s \in DOMAIN w.ends BY DEF Starts
    <2> QED BY <1>2, <2>1, <2>2, CutIs DEF BlockAt
<1>8. DOMAIN w.ends \subseteq Nat BY <1>2, AddrsAreNumbers DEF WalkInv, WalkShape
<1>9. \A b \in bs : b.at \in Nat /\ b.end \in Nat /\ b.at \in DOMAIN w.ends
    <2> TAKE b \in bs
    <2>1. PICK s \in Starts(w) : b.at = s /\ b.end = Cut(w, s).end /\ s \in DOMAIN w.ends /\ CutInv(c, w, s) BY <1>7
    <2> QED BY <1>8, <2>1 DEF CutInv
<1>10. ASSUME NEW b \in bs, NEW t \in DOMAIN w.ends, b.at < t PROVE b.end <= t
    <2>1. PICK s \in Starts(w) : b.at = s /\ b.end = Cut(w, s).end /\ CutInv(c, w, s) BY <1>7
    <2> QED BY <1>10, <2>1 DEF CutInv
<1>11. \A b, d \in bs : b # d => (b.at .. b.end - 1) \cap (d.at .. d.end - 1) = {}
    <2>1. ASSUME NEW b \in bs, NEW d \in bs, b.at < d.at
          PROVE  (b.at .. b.end - 1) \cap (d.at .. d.end - 1) = {}
        <3>1. b.end <= d.at BY <1>9, <1>10, <2>1
        <3>2. b.at \in Nat /\ b.end \in Nat /\ d.at \in Nat /\ d.end \in Nat BY <1>9
        <3>3. \A a \in b.at .. b.end - 1 : a \notin d.at .. d.end - 1 BY <3>1, <3>2
        <3> QED BY <3>3
    <2>2. ASSUME NEW b \in bs, NEW d \in bs, b.at = d.at PROVE b = d
        <3>1. PICK s \in Starts(w) : b = BlockAt(w, s) /\ b.at = s BY <1>7
        <3>2. PICK t \in Starts(w) : d = BlockAt(w, t) /\ d.at = t BY <1>7
        <3> QED BY <2>2, <3>1, <3>2
    <2> SUFFICES ASSUME NEW b \in bs, NEW d \in bs, b # d
                 PROVE  (b.at .. b.end - 1) \cap (d.at .. d.end - 1) = {}
        OBVIOUS
    <2>3. b.at < d.at \/ d.at < b.at BY <1>9, <2>2
    <2>4. CASE b.at < d.at BY <2>1, <2>4
    <2>5. CASE d.at < b.at
        <3>1. (d.at .. d.end - 1) \cap (b.at .. b.end - 1) = {} BY <2>1, <2>5
        <3> QED BY <3>1
    <2> QED BY <2>3, <2>4, <2>5
<1>12. Covers(bs) \subseteq Reachable(c)
    <2>1. SUFFICES ASSUME NEW b \in bs, NEW a \in b.at .. b.end - 1 PROVE a \in Reachable(c)
        BY DEF Covers
    <2>2. PICK s \in Starts(w) : b.at = s /\ b.end = Cut(w, s).end /\ s \in DOMAIN w.ends /\ CutInv(c, w, s) BY <1>7
    <2>3. PICK ran : ran = w.ends[s] OBVIOUS
    <2>4. RunInv(c, ran, s) /\ s \in Addrs /\ (Runs(c, s) => s \in Reachable(c))
        BY <1>2, <2>2, <2>3 DEF WalkInv, WalkShape, Seen
    <2>5. a \in s .. ran.end - 1
        <3>1. ran.end \in Nat BY <1>8, <2>2, <2>4, AddrsAreNumbers DEF RunInv
        <3>2. b.end <= ran.end BY <2>2, <2>3 DEF CutInv
        <3> QED BY <1>9, <2>2, <3>1, <3>2
    <2> QED BY <2>4, <2>5, RunReaches
<1>13. ASSUME ~IsCapped(cfg) PROVE Covers(bs) = Reachable(c)
    <2>1. Finished(c, w) BY <1>6, <1>13
    <2>2. Reachable(c) \subseteq Walkways(w) BY <1>2, <2>1, WalkwaysAreClosed, ReachableIsLeast
    <2>3. ASSUME NEW a \in Walkways(w) PROVE a \in Covers(bs)
        <3>1. PICK t \in Starts(w) : a \in t .. Cut(w, t).end - 1 BY <1>2, <2>1, CutsCover
        <3>2. BlockAt(w, t) \in bs BY <1>5
        <3>3. BlockAt(w, t).at = t /\ BlockAt(w, t).end = Cut(w, t).end BY DEF BlockAt
        <3> QED BY <3>1, <3>2, <3>3 DEF Covers
    <2> QED BY <1>12, <2>2, <2>3
<1>14. ASSUME NEW b \in bs, NEW a \in Reachable(c), ~IsCapped(cfg), NEW t \in Successors(c, a),
              t \in b.at + 1 .. b.end - 1
       PROVE  a \in b.at .. b.end - 2 /\ t = a + 1
    <2>1. Finished(c, w) BY <1>6, <1>14
    <2>2. b.at \in Nat /\ b.end \in Nat BY <1>9
    <2>3. a \in Walkways(w) BY <1>2, <2>1, WalkwaysAreClosed, ReachableIsLeast
    <2>4. PICK s \in DOMAIN w.ends : a \in s .. w.ends[s].end - 1 BY <2>3 DEF Walkways
    <2>5. PICK ran : ran = w.ends[s] OBVIOUS
    <2>6. RunInv(c, ran, s) /\ Finishes(c, ran, s, DOMAIN w.ends) BY <1>2, <2>1, <2>5 DEF WalkInv, Finished
    <2>7. s \in Nat /\ ran.end \in Nat /\ a \in s .. ran.end - 1
        BY <1>8, <2>4, <2>5, <2>6, AddrsAreNumbers DEF RunInv
    <2>8. ~EndsBlock(c, a)
        <3>1. SUFFICES ASSUME EndsBlock(c, a) PROVE FALSE OBVIOUS
        <3>2. a = ran.end - 1
            <4>1. a \notin s .. ran.end - 2 BY <2>6, <3>1 DEF RunInv
            <4> QED BY <2>7, <4>1
        <3>3. t \in Addrs
            <4>1. PICK u \in Starts(w) : b.end = Cut(w, u).end /\ u \in DOMAIN w.ends /\ CutInv(c, w, u) BY <1>7
            <4>2. RunInv(c, w.ends[u], u) BY <1>2, <4>1 DEF WalkInv
            <4>3. u \in Nat /\ w.ends[u].end \in Nat /\ w.ends[u].end <= LastAddr + 1
                BY <1>8, <4>1, <4>2, AddrsAreNumbers DEF RunInv
            <4>4. b.end <= w.ends[u].end BY <4>1 DEF CutInv
            <4> QED BY <1>14, <2>2, <4>3, <4>4, AddrsAreNumbers DEF Addrs
        <3>4. t \in DOMAIN w.ends
            <4>1. ran.end > s /\ EndsBlock(c, ran.end - 1) /\ t \in Successors(c, ran.end - 1)
                BY <1>14, <2>7, <3>1, <3>2
            <4> QED BY <2>6, <3>3, <4>1 DEF Finishes
        <3>5. b.at < t /\ ~(b.end <= t) BY <1>14, <2>2
        <3> QED BY <1>10, <3>4, <3>5
    <2>9. t = a + 1 BY <1>14, <2>8, GoesOn
    <2> QED BY <1>14, <2>2, <2>7, <2>9
<1>15. ASSUME NEW b \in bs, b.term # "Unresolved" PROVE b.successors = Successors(c, b.end - 1)
    <2>1. PICK s \in Starts(w) : /\ b.end = Cut(w, s).end /\ b.term = Cut(w, s).term
                                 /\ b.successors = Cut(w, s).successors /\ CutInv(c, w, s)
        BY <1>7
    <2> QED BY <1>15, <2>1 DEF CutInv
<1>16. \A b \in bs :
           /\ \A a \in Reachable(c) :
                ~IsCapped(cfg) => Successors(c, a) \cap (b.at + 1 .. b.end - 1)
                              \subseteq (IF a \in b.at .. b.end - 2 THEN {a + 1} ELSE {})
           /\ b.term # "Unresolved" => b.successors = Successors(c, b.end - 1)
    <2> TAKE b \in bs
    <2>1. ASSUME NEW a \in Reachable(c), ~IsCapped(cfg)
          PROVE  Successors(c, a) \cap (b.at + 1 .. b.end - 1)
                     \subseteq (IF a \in b.at .. b.end - 2 THEN {a + 1} ELSE {})
        <3>1. \A t \in Successors(c, a) :
                  t \in b.at + 1 .. b.end - 1 => a \in b.at .. b.end - 2 /\ t = a + 1
            BY <1>14, <2>1
        <3> QED BY <3>1
    <2> QED BY <1>15, <2>1
<1> QED BY <1>3, <1>4, <1>11, <1>12, <1>13, <1>16 DEF ExactBlocks

-----------------------------------------------------------------------------
(* Probing. *)

(* From any hash, every slot comes. *)
LEMMA Cycle ==
    ASSUME NEW N \in Nat \ {0}, NEW h \in Nat, NEW g \in 0 .. N - 1
    PROVE  \E i \in 0 .. N - 1 : (h + i) % N = g
<1>1. \A q \in Nat : (q * N + g) % N = g OBVIOUS
<1>2. PICK q \in Nat, r \in 0 .. N - 1 : h = q * N + r
    <2>1. h = (h \div N) * N + (h % N) /\ h \div N \in Nat /\ h % N \in 0 .. N - 1 OBVIOUS
    <2> QED BY <2>1
<1>3. q * N \in Nat /\ (q + 1) * N = q * N + N /\ q + 1 \in Nat OBVIOUS
<1>4. CASE g >= r
    <2>1. g - r \in 0 .. N - 1 /\ h + (g - r) = q * N + g BY <1>2, <1>3, <1>4
    <2> QED BY <1>1, <2>1
<1>5. CASE g < r
    <2>1. g - r + N \in 0 .. N - 1 BY <1>2, <1>5
    <2>2. h + (g - r + N) = (q + 1) * N + g BY <1>2, <1>3, <1>5
    <2> QED BY <1>1, <1>3, <2>1, <2>2
<1> QED BY <1>4, <1>5

(* The k-th slot from that of h is the first good one, and Probe finds it. *)
FirstGood(index, N, h, good, k) ==
    /\ Probe(index, h, good) = (h + k) % N /\ (h + k) % N \in good
    /\ \A j \in 0 .. k - 1 : (h + j) % N \notin good

LEMMA Probed ==
    ASSUME NEW N \in Nat \ {0}, NEW index, DOMAIN index = 0 .. N - 1, NEW h \in Nat,
           NEW good \in SUBSET (0 .. N - 1), good # {}
    PROVE  \E k \in 0 .. N - 1 : FirstGood(index, N, h, good, k)
<1>1. Size(index) = N BY IntervalSize DEF Size
<1> DEFINE K == {i \in 0 .. N - 1 : (h + i) % N \in good}
<1>2. K # {} /\ K \in SUBSET Nat
    <2>1. PICK g \in good : TRUE OBVIOUS
    <2>2. g \in 0 .. N - 1 OBVIOUS
    <2>3. PICK i \in 0 .. N - 1 : (h + i) % N = g BY <2>2, Cycle
    <2>4. i \in K BY <2>1, <2>3
    <2>5. 0 .. N - 1 \subseteq Nat OBVIOUS
    <2> QED BY <2>4, <2>5
<1>3. PICK k \in K : \A i \in K : k <= i
    <2> HIDE DEF K
    <2> QED BY <1>2, LeastOf
<1>4. \A j \in 0 .. k - 1 : (h + j) % N \notin good BY <1>3
<1> DEFINE P(i) == (h + i) % N \in good /\ \A j \in 0 .. i - 1 : (h + j) % N \notin good
           first == CHOOSE i \in 0 .. N - 1 : P(i)
<1>5. first \in 0 .. N - 1 /\ P(first)
    <2>1. k \in 0 .. N - 1 /\ P(k) BY <1>3, <1>4
    <2> HIDE DEF P
    <2> QED BY <2>1
<1>6. Probe(index, h, good) = (h + first) % N BY <1>1 DEF Probe
<1> HIDE DEF first
<1> QED BY <1>5, <1>6 DEF FirstGood

-----------------------------------------------------------------------------
(* The index holds ids, each in one slot, and from the slot of its block's     *)
(* hash no free slot comes before it. held is what the ids stand for.          *)
Chained(index, N, held, ids) ==
    /\ index \in [0 .. N - 1 -> ids \cup {NoId}]
    /\ \A i, j \in 0 .. N - 1 : index[i] = index[j] /\ index[i] # NoId => i = j
    /\ \A id \in ids : \E k \in 0 .. N - 1 :
           /\ index[(Hash(held[id]) + k) % N] = id
           /\ \A j \in 0 .. k - 1 : index[(Hash(held[id]) + j) % N] # NoId

HashIsNumber == \A b : Hash(b) \in Nat

(* With fewer ids than slots there is a free one. *)
LEMMA HasFree ==
    ASSUME NEW N \in Nat, NEW n \in Nat, n < N, NEW ids \in SUBSET (0 .. n - 1), NEW index, NEW held,
           Chained(index, N, held, ids)
    PROVE  \E i \in 0 .. N - 1 : index[i] = NoId
<1> SUFFICES ASSUME \A i \in 0 .. N - 1 : index[i] # NoId PROVE FALSE OBVIOUS
<1>1. index \in [0 .. N - 1 -> ids] BY DEF Chained
<1>2. index \in Injection(0 .. N - 1, ids) BY <1>1 DEF Injection, IsInjective, Chained
<1>3. IsFiniteSet(0 .. n - 1) /\ Cardinality(0 .. n - 1) = n /\ Cardinality(0 .. N - 1) = N BY IntervalSize
<1>6. IsFiniteSet(ids) /\ Cardinality(ids) <= Cardinality(0 .. n - 1) BY <1>3, FS_Subset
<1>4. IsFiniteSet(ids) /\ Cardinality(ids) <= n /\ Cardinality(ids) \in Nat BY <1>3, <1>6, FS_CardinalityType
<1>5. N <= Cardinality(ids) BY <1>2, <1>3, <1>4, FS_Injection
<1> QED BY <1>4, <1>5

(* A new id into the first free slot. *)
LEMMA Inserted ==
    ASSUME HashIsNumber, NEW N \in Nat \ {0}, NEW index, NEW held, NEW ids \in SUBSET Nat,
           Chained(index, N, held, ids), NEW x \in Nat, x \notin ids, NEW more,
           \A id \in ids : more[id] = held[id],
           NEW k \in 0 .. N - 1, index[(Hash(more[x]) + k) % N] = NoId,
           \A j \in 0 .. k - 1 : index[(Hash(more[x]) + j) % N] # NoId
    PROVE  Chained([index EXCEPT ![(Hash(more[x]) + k) % N] = x], N, more, ids \cup {x})
<1> DEFINE slot(h, i) == (h + i) % N
<1>1. PICK h \in Nat : h = Hash(more[x]) BY DEF HashIsNumber
<1>2. \A g \in Nat, i \in Nat : slot(g, i) \in 0 .. N - 1 OBVIOUS
<1>3. PICK s \in 0 .. N - 1 : s = slot(h, k) BY <1>2
<1>4. NoId \notin Nat /\ k \in Nat BY TableAssumption
<1>5. index[s] = NoId /\ \A j \in 0 .. k - 1 : index[slot(h, j)] # NoId BY <1>1, <1>3
<1> DEFINE new == [index EXCEPT ![s] = x]
<1>6. new = [index EXCEPT ![(Hash(more[x]) + k) % N] = x] BY <1>1, <1>3
<1>7. index \in [0 .. N - 1 -> ids \cup {NoId}] BY DEF Chained
<1>8. new[s] = x /\ \A i \in 0 .. N - 1 : i # s => new[i] = index[i] BY <1>7
<1>9. new \in [0 .. N - 1 -> ids \cup {x} \cup {NoId}] BY <1>7
<1> HIDE DEF new, slot
<1>10. \A i, j \in 0 .. N - 1 : new[i] = new[j] /\ new[i] # NoId => i = j
    <2> SUFFICES ASSUME NEW i \in 0 .. N - 1, NEW j \in 0 .. N - 1, new[i] = new[j], new[i] # NoId PROVE i = j
        OBVIOUS
    <2>1. \A m \in 0 .. N - 1 : m # s => new[m] # x BY <1>4, <1>7, <1>8
    <2>2. CASE i # s /\ j # s BY <2>2, <1>8 DEF Chained
    <2> QED BY <1>8, <2>1, <2>2
<1>11. \A i \in 0 .. N - 1 : index[i] # NoId => new[i] # NoId BY <1>4, <1>8
<1>12. ASSUME NEW id \in ids \cup {x}
       PROVE  \E m \in 0 .. N - 1 :
                  /\ new[(Hash(more[id]) + m) % N] = id
                  /\ \A j \in 0 .. m - 1 : new[(Hash(more[id]) + j) % N] # NoId
    <2>1. CASE id = x
        <3>4. k \in Nat /\ \A j \in 0 .. k - 1 : j \in Nat OBVIOUS
        <3>1. \A j \in 0 .. k - 1 : slot(h, j) \in 0 .. N - 1 BY <1>2, <3>4
        <3>2. \A j \in 0 .. k - 1 : new[slot(h, j)] # NoId BY <1>5, <1>11, <3>1
        <3>3. new[slot(h, k)] = x BY <1>3, <1>8
        <3> QED BY <1>1, <2>1, <3>2, <3>3 DEF slot
    <2>2. CASE id # x
        <3>1. id \in ids /\ more[id] = held[id] BY <2>2
        <3>2. PICK g \in Nat : g = Hash(held[id]) BY DEF HashIsNumber
        <3>9. PICK m \in 0 .. N - 1 : /\ index[(Hash(held[id]) + m) % N] = id
                                      /\ \A j \in 0 .. m - 1 : index[(Hash(held[id]) + j) % N] # NoId
            BY <3>1 DEF Chained
        <3>3. index[slot(g, m)] = id /\ \A j \in 0 .. m - 1 : index[slot(g, j)] # NoId
            BY <3>2, <3>9 DEF slot
        <3>10. m \in Nat /\ \A j \in 0 .. m - 1 : j \in Nat OBVIOUS
        <3>4. slot(g, m) \in 0 .. N - 1 /\ \A j \in 0 .. m - 1 : slot(g, j) \in 0 .. N - 1 BY <1>2, <3>10
        <3>5. id # NoId BY <1>4, <3>1
        <3>6. slot(g, m) # s BY <1>5, <3>3, <3>5
        <3>7. new[slot(g, m)] = id BY <1>8, <3>3, <3>4, <3>6
        <3>8. \A j \in 0 .. m - 1 : new[slot(g, j)] # NoId BY <1>11, <3>3, <3>4
        <3> QED BY <3>1, <3>2, <3>7, <3>8 DEF slot
    <2> QED BY <2>1, <2>2
<1>13. Chained(new, N, more, ids \cup {x}) BY <1>9, <1>10, <1>12 DEF Chained
<1> QED BY <1>6, <1>13

-----------------------------------------------------------------------------
(* The chunks: one after the other, none empty. *)
EndOf(cs, k) == IF k = 0 THEN 0 ELSE cs[k].start + Len(cs[k].entries)
Linked(cs) ==
    /\ IsSeq(cs)
    /\ \A k \in 1 .. Len(cs) :
         /\ cs[k].start = EndOf(cs, k - 1) /\ cs[k].start \in Nat
         /\ IsSeq(cs[k].entries) /\ Len(cs[k].entries) > 0

LEMMA EndsAreNumbers ==
    ASSUME NEW cs, Linked(cs), NEW k \in 0 .. Len(cs)
    PROVE  EndOf(cs, k) \in Nat
<1>1. k # 0 => k \in 1 .. Len(cs) BY SeqLen DEF Linked
<1>2. ASSUME k # 0 PROVE Len(cs[k].entries) \in Nat /\ cs[k].start \in Nat BY <1>1, <1>2, SeqLen DEF Linked
<1> QED BY <1>1, <1>2 DEF EndOf

LEMMA ChunksAscend ==
    ASSUME NEW cs, Linked(cs), NEW j \in 0 .. Len(cs), NEW k \in 1 .. Len(cs), j < k
    PROVE  EndOf(cs, j) <= cs[k].start
<1> DEFINE Good == {m \in Nat : j + 1 + m \in 1 .. Len(cs) => EndOf(cs, j) <= cs[j + 1 + m].start}
<1>1. Len(cs) \in Nat /\ j \in Nat BY SeqLen DEF Linked
<1>2. 0 \in Good
    <2>1. j + 1 + 0 = j + 1 /\ (j + 1) - 1 = j BY <1>1
    <2>2. ASSUME j + 1 \in 1 .. Len(cs) PROVE EndOf(cs, j) <= cs[j + 1].start
        <3>1. cs[j + 1].start = EndOf(cs, j) BY <2>1, <2>2 DEF Linked
        <3>2. EndOf(cs, j) \in Nat BY EndsAreNumbers
        <3> QED BY <3>1, <3>2
    <2> QED BY <2>1, <2>2
<1>3. ASSUME NEW m \in Good, j + 1 + (m + 1) \in 1 .. Len(cs) PROVE EndOf(cs, j) <= cs[j + 1 + (m + 1)].start
    <2>1. PICK x \in Nat : x = j + 1 + m BY <1>1
    <2>2. x \in 1 .. Len(cs) /\ j + 1 + (m + 1) = x + 1 /\ x + 1 \in 1 .. Len(cs) /\ (x + 1) - 1 = x /\ x # 0
        BY <1>1, <1>3, <2>1
    <2>3. EndOf(cs, j) <= cs[x].start BY <2>1, <2>2
    <2>4. cs[x + 1].start = EndOf(cs, x) BY <2>2 DEF Linked
    <2>5. EndOf(cs, x) = cs[x].start + Len(cs[x].entries) BY <2>2 DEF EndOf
    <2>6. cs[x].start \in Nat /\ Len(cs[x].entries) \in Nat BY <2>2, SeqLen DEF Linked
    <2>7. EndOf(cs, j) \in Nat BY EndsAreNumbers
    <2> QED BY <2>2, <2>3, <2>4, <2>5, <2>6, <2>7
<1>4. Nat \subseteq Good
    <2>1. \A n \in Nat : n \in Good => n + 1 \in Good BY <1>3
    <2> HIDE DEF Good
    <2> QED BY <1>2, <2>1, AllNumbers
<1>5. PICK m \in Nat : k = j + 1 + m
    <2>1. k - j - 1 \in Nat /\ k = j + 1 + (k - j - 1) BY <1>1
    <2> QED BY <2>1
<1> QED BY <1>4, <1>5

(* Where an id is. *)
IsAt(cs, k, id) == k \in 1 .. Len(cs) /\ cs[k].start <= id /\ id < EndOf(cs, k)

LEMMA OnePlace ==
    ASSUME NEW cs, Linked(cs), NEW id \in Nat, NEW j, NEW k, IsAt(cs, j, id), IsAt(cs, k, id)
    PROVE  j = k
<1>1. Len(cs) \in Nat BY SeqLen DEF Linked
<1>2. ASSUME NEW a, NEW b, IsAt(cs, a, id), IsAt(cs, b, id), a < b PROVE FALSE
    <2>1. a \in 0 .. Len(cs) /\ b \in 1 .. Len(cs) BY <1>1, <1>2 DEF IsAt
    <2>2. EndOf(cs, a) <= cs[b].start BY <1>2, <2>1, ChunksAscend
    <2>3. EndOf(cs, a) \in Nat /\ cs[b].start \in Nat BY <2>1, EndsAreNumbers DEF Linked
    <2> QED BY <1>2, <2>2, <2>3 DEF IsAt
<1>3. j \in Int /\ k \in Int BY <1>1 DEF IsAt
<1>4. j < k \/ k < j \/ j = k BY <1>3
<1> QED BY <1>2, <1>4

LEMMA HasPlace ==
    ASSUME NEW cs, Linked(cs), NEW n \in 0 .. Len(cs), NEW id \in Nat, id < EndOf(cs, n)
    PROVE  \E k \in 1 .. n : IsAt(cs, k, id)
<1> DEFINE Good == {m \in Nat : m \in 0 .. Len(cs) /\ id < EndOf(cs, m) => \E k \in 1 .. m : IsAt(cs, k, id)}
<1>1. Len(cs) \in Nat /\ n \in Nat BY SeqLen DEF Linked
<1>2. 0 \in Good BY DEF EndOf
<1>3. ASSUME NEW m \in Good, m + 1 \in 0 .. Len(cs), id < EndOf(cs, m + 1) PROVE \E k \in 1 .. m + 1 : IsAt(cs, k, id)
    <2>1. m \in 0 .. Len(cs) /\ m + 1 \in 1 .. Len(cs) /\ (m + 1) - 1 = m BY <1>1, <1>3
    <2>2. cs[m + 1].start = EndOf(cs, m) /\ EndOf(cs, m) \in Nat BY <2>1, EndsAreNumbers DEF Linked
    <2>3. CASE id < EndOf(cs, m)
        <3>1. PICK k \in 1 .. m : IsAt(cs, k, id) BY <2>1, <2>3
        <3> QED BY <3>1
    <2>4. CASE ~(id < EndOf(cs, m))
        <3>1. IsAt(cs, m + 1, id) BY <1>3, <2>1, <2>2, <2>4 DEF IsAt
        <3>2. m + 1 \in 1 .. m + 1 BY <2>1
        <3> QED BY <3>1, <3>2
    <2> QED BY <2>3, <2>4
<1>4. Nat \subseteq Good
    <2>1. \A m \in Nat : m \in Good => m + 1 \in Good BY <1>3
    <2> HIDE DEF Good
    <2> QED BY <1>2, <2>1, AllNumbers
<1> QED BY <1>1, <1>4

(* Among the first n chunks, an id of theirs is found where it is. *)
ChunkIn(cs, n, id) == CHOOSE k \in 1 .. n : cs[k].start <= id /\ (k < n => id < cs[k + 1].start)

LEMMA FoundInChunk ==
    ASSUME NEW cs, Linked(cs), NEW n \in 0 .. Len(cs), NEW id \in Nat, id < EndOf(cs, n)
    PROVE  ChunkIn(cs, n, id) \in 1 .. n /\ IsAt(cs, ChunkIn(cs, n, id), id)
<1>1. Len(cs) \in Nat /\ n \in Nat BY SeqLen DEF Linked
<1>2. PICK k \in 1 .. n : IsAt(cs, k, id) BY HasPlace
<1> DEFINE Right(i) == cs[i].start <= id /\ (i < n => id < cs[i + 1].start)
<1>3. \A i \in 1 .. n : i < n => i + 1 \in 1 .. Len(cs) /\ (i + 1) - 1 = i BY <1>1
<1>4. Right(k) BY <1>2, <1>3 DEF IsAt, Linked
<1>5. ASSUME NEW i \in 1 .. n, Right(i) PROVE IsAt(cs, i, id)
    <2>1. i \in 1 .. Len(cs) BY <1>1
    <2>2. CASE i < n BY <1>3, <1>5, <2>1, <2>2 DEF IsAt, Linked
    <2>3. CASE i = n BY <1>5, <2>1, <2>3 DEF IsAt
    <2>4. i < n \/ i = n BY <1>1
    <2> QED BY <2>2, <2>3, <2>4
<1> DEFINE c == CHOOSE i \in 1 .. n : Right(i)
<1>6. c \in 1 .. n /\ Right(c)
    <2> HIDE DEF Right
    <2> QED BY <1>4
<1>7. ChunkIn(cs, n, id) = c BY DEF ChunkIn
<1> HIDE DEF c
<1>8. IsAt(cs, c, id) BY <1>5, <1>6
<1> QED BY <1>6, <1>7, <1>8

(* What an id stands for, when the chunks are cs and op is open. *)
Total(cs, op) == EndOf(cs, Len(cs)) + Len(op)
HeldBy(cs, op, id) ==
    IF id >= EndOf(cs, Len(cs)) THEN op[id - EndOf(cs, Len(cs)) + 1]
    ELSE cs[ChunkIn(cs, Len(cs), id)].entries[id - cs[ChunkIn(cs, Len(cs), id)].start + 1]
HeldIn(cs, op) == [id \in 0 .. Total(cs, op) - 1 |-> HeldBy(cs, op, id)]

LEMMA TotalIsNumber ==
    ASSUME NEW cs, Linked(cs), NEW op, IsSeq(op)
    PROVE  /\ Total(cs, op) \in Nat /\ EndOf(cs, Len(cs)) \in Nat /\ Len(op) \in Nat
           /\ Total(cs, op) = EndOf(cs, Len(cs)) + Len(op)
<1>1. Len(cs) \in Nat /\ Len(op) \in Nat BY SeqLen DEF Linked
<1>2. EndOf(cs, Len(cs)) \in Nat BY <1>1, EndsAreNumbers
<1> QED BY <1>1, <1>2 DEF Total

(* An id among the first n chunks is found in the same place among all. *)
LEMMA SamePlace ==
    ASSUME NEW cs, Linked(cs), NEW n \in 0 .. Len(cs), NEW id \in Nat, id < EndOf(cs, n)
    PROVE  /\ id < EndOf(cs, Len(cs))
           /\ ChunkIn(cs, n, id) = ChunkIn(cs, Len(cs), id)
           /\ ChunkIn(cs, n, id) \in 1 .. n /\ IsAt(cs, ChunkIn(cs, n, id), id)
<1>1. Len(cs) \in Nat /\ n \in Nat BY SeqLen DEF Linked
<1>2. ChunkIn(cs, n, id) \in 1 .. n /\ IsAt(cs, ChunkIn(cs, n, id), id) BY FoundInChunk
<1>3. EndOf(cs, n) <= EndOf(cs, Len(cs))
    <2>1. EndOf(cs, n) \in Nat /\ EndOf(cs, Len(cs)) \in Nat BY <1>1, EndsAreNumbers
    <2>2. CASE n = Len(cs) BY <2>1, <2>2
    <2>3. CASE n < Len(cs)
        <3>1. Len(cs) \in 1 .. Len(cs) BY <1>1, <2>3
        <3>2. EndOf(cs, n) <= cs[Len(cs)].start BY <2>3, <3>1, ChunksAscend
        <3>3. EndOf(cs, Len(cs)) = cs[Len(cs)].start + Len(cs[Len(cs)].entries) BY <3>1 DEF EndOf
        <3>4. cs[Len(cs)].start \in Nat /\ Len(cs[Len(cs)].entries) \in Nat BY <3>1, SeqLen DEF Linked
        <3> QED BY <2>1, <3>2, <3>3, <3>4
    <2> QED BY <1>1, <2>2, <2>3
<1>4. id < EndOf(cs, Len(cs))
    <2>1. EndOf(cs, n) \in Nat /\ EndOf(cs, Len(cs)) \in Nat BY <1>1, EndsAreNumbers
    <2> QED BY <1>3, <2>1
<1>5. IsAt(cs, ChunkIn(cs, Len(cs), id), id) BY <1>1, <1>4, FoundInChunk
<1>6. ChunkIn(cs, n, id) = ChunkIn(cs, Len(cs), id) BY <1>2, <1>5, OnePlace
<1> QED BY <1>2, <1>4, <1>6

(* A new entry keeps the others. *)
LEMMA HeldWithNew ==
    ASSUME NEW cs, Linked(cs), NEW op, IsSeq(op), NEW b
    PROVE  /\ IsSeq(Append(op, b)) /\ Total(cs, Append(op, b)) = Total(cs, op) + 1
           /\ \A id \in 0 .. Total(cs, op) - 1 : HeldIn(cs, Append(op, b))[id] = HeldIn(cs, op)[id]
           /\ HeldIn(cs, Append(op, b))[Total(cs, op)] = b
<1>1. PICK new : new = Append(op, b) OBVIOUS
<1>2. IsSeq(new) /\ Len(new) = Len(op) + 1 /\ (\A i \in 1 .. Len(op) : new[i] = op[i]) /\ new[Len(op) + 1] = b
    BY <1>1, SeqAppend
<1>3. PICK e \in Nat, l \in Nat : e = EndOf(cs, Len(cs)) /\ l = Len(op) /\ Total(cs, op) = e + l
    BY TotalIsNumber
<1>4. Total(cs, new) = e + l + 1 BY <1>2, <1>3 DEF Total
<1>5. ASSUME NEW id \in 0 .. e + l - 1 PROVE HeldBy(cs, new, id) = HeldBy(cs, op, id)
    <2>1. CASE id >= e
        <3>1. id - e + 1 \in 1 .. l BY <2>1
        <3>2. new[id - e + 1] = op[id - e + 1] BY <1>2, <1>3, <3>1
        <3> QED BY <1>3, <2>1, <3>2 DEF HeldBy
    <2>2. CASE ~(id >= e) BY <1>3, <2>2 DEF HeldBy
    <2> QED BY <2>1, <2>2
<1>6. HeldBy(cs, new, e + l) = b
    <2>1. e + l >= e /\ (e + l) - e + 1 = l + 1 OBVIOUS
    <2>2. HeldBy(cs, new, e + l) = new[(e + l) - e + 1] BY <1>3, <2>1 DEF HeldBy
    <2> QED BY <1>2, <1>3, <2>1, <2>2
<1>7. \A id \in 0 .. e + l : HeldIn(cs, new)[id] = HeldBy(cs, new, id) BY <1>4 DEF HeldIn
<1>8. \A id \in 0 .. e + l - 1 : HeldIn(cs, op)[id] = HeldBy(cs, op, id) BY <1>3 DEF HeldIn
<1>9. e + l \in 0 .. e + l /\ \A id \in 0 .. e + l - 1 : id \in 0 .. e + l OBVIOUS
<1>10. HeldIn(cs, new)[e + l] = b BY <1>6, <1>7, <1>9
<1>11. \A id \in 0 .. e + l - 1 : HeldIn(cs, new)[id] = HeldIn(cs, op)[id] BY <1>5, <1>7, <1>8, <1>9
<1> QED BY <1>1, <1>2, <1>3, <1>4, <1>10, <1>11

(* Sealing keeps what every id stands for. *)
LEMMA HeldSealed ==
    ASSUME NEW cs, Linked(cs), NEW op, IsSeq(op), op # <<>>,
           NEW new, new = Append(cs, [start |-> EndOf(cs, Len(cs)), entries |-> op])
    PROVE  /\ Linked(new) /\ Len(new) = Len(cs) + 1
           /\ \A k \in 0 .. Len(cs) : EndOf(new, k) = EndOf(cs, k)
           /\ EndOf(new, Len(new)) = Total(cs, op)
           /\ Total(new, <<>>) = Total(cs, op)
           /\ HeldIn(new, <<>>) = HeldIn(cs, op)
<1>1. PICK e \in Nat, l \in Nat, n \in Nat :
          e = EndOf(cs, Len(cs)) /\ l = Len(op) /\ Total(cs, op) = e + l /\ n = Len(cs)
    BY TotalIsNumber, SeqLen DEF Linked
<1>2. PICK c : c = [start |-> e, entries |-> op] /\ c = [start |-> EndOf(cs, Len(cs)), entries |-> op]
    BY <1>1
<1>3. c.start = e /\ c.entries = op BY <1>2
<1>4. IsSeq(new) /\ Len(new) = n + 1 /\ (\A k \in 1 .. n : new[k] = cs[k]) /\ new[n + 1] = c
    <2>1. IsSeq(cs) BY DEF Linked
    <2>2. PICK x : x = Append(cs, c) OBVIOUS
    <2>3. /\ IsSeq(x) /\ Len(x) = Len(cs) + 1
          /\ (\A k \in 1 .. Len(cs) : x[k] = cs[k]) /\ x[Len(cs) + 1] = c
        BY <2>1, <2>2, SeqAppend
    <2>4. new = x BY <1>2, <2>2
    <2> QED BY <1>1, <2>3, <2>4
<1>5. \A k \in 0 .. n : EndOf(new, k) = EndOf(cs, k) BY <1>4 DEF EndOf
<1>6. l > 0
    <2>1. l # 0 BY <1>1, SeqEmpty
    <2> QED BY <2>1
<1>7. EndOf(new, n + 1) = e + l BY <1>1, <1>3, <1>4 DEF EndOf
<1>8. Linked(new)
    <2>1. ASSUME NEW k \in 1 .. n + 1
          PROVE  /\ new[k].start = EndOf(new, k - 1) /\ new[k].start \in Nat
                 /\ IsSeq(new[k].entries) /\ Len(new[k].entries) > 0
        <3>1. CASE k = n + 1
            <4>1. k - 1 = n /\ n \in 0 .. n BY <3>1
            <4>2. EndOf(new, n) = e BY <1>1, <1>5, <4>1
            <4> QED BY <1>1, <1>3, <1>4, <1>6, <3>1, <4>1, <4>2
        <3>2. CASE k # n + 1
            <4>1. k \in 1 .. n /\ k - 1 \in 0 .. n BY <3>2
            <4>2. new[k] = cs[k] /\ EndOf(new, k - 1) = EndOf(cs, k - 1) BY <1>4, <1>5, <4>1
            <4> QED BY <1>1, <4>1, <4>2 DEF Linked
        <3> QED BY <3>1, <3>2
    <2> QED BY <1>4, <2>1 DEF Linked
<1>9. Total(new, <<>>) = e + l BY <1>4, <1>7, SeqEmpty DEF Total
<1>10. ASSUME NEW id \in 0 .. e + l - 1 PROVE HeldBy(new, <<>>, id) = HeldBy(cs, op, id)
    <2>1. id \in Nat /\ n + 1 \in 0 .. Len(new) /\ id < EndOf(new, n + 1) BY <1>4, <1>7
    <2>2. PICK k : k = ChunkIn(new, n + 1, id) OBVIOUS
    <2>3. k \in 1 .. n + 1 /\ IsAt(new, k, id)
        <3>1. PICK m \in 0 .. Len(new) : m = n + 1 BY <2>1
        <3>2. ChunkIn(new, m, id) \in 1 .. m /\ IsAt(new, ChunkIn(new, m, id), id)
            BY <1>8, <2>1, <3>1, FoundInChunk
        <3> QED BY <2>2, <3>1, <3>2
    <2>4. HeldBy(new, <<>>, id) = new[k].entries[id - new[k].start + 1]
        <3>1. EndOf(new, Len(new)) = e + l /\ ChunkIn(new, Len(new), id) = k BY <1>4, <1>7, <2>2
        <3>2. ~(id >= EndOf(new, Len(new))) BY <3>1
        <3> QED BY <3>1, <3>2 DEF HeldBy
    <2>5. CASE id >= e
        <3>1. IsAt(new, n + 1, id)
            <4>1. n + 1 \in 1 .. Len(new) BY <1>4
            <4> QED BY <1>3, <1>4, <1>7, <2>5, <4>1 DEF IsAt
        <3>2. k = n + 1 BY <1>8, <2>1, <2>3, <3>1, OnePlace
        <3> QED BY <1>1, <1>3, <1>4, <2>4, <2>5, <3>2 DEF HeldBy
    <2>6. CASE ~(id >= e)
        <3>1. id < EndOf(cs, n) /\ n \in 0 .. Len(cs) BY <1>1, <2>6
        <3>2. PICK j : j = ChunkIn(cs, n, id) OBVIOUS
        <3>3. j \in 1 .. n /\ IsAt(cs, j, id) BY <2>1, <3>1, <3>2, FoundInChunk
        <3>4. j \in 1 .. Len(new) /\ j \in 0 .. n BY <1>4, <3>3
        <3>5. IsAt(new, j, id) BY <1>4, <1>5, <3>3, <3>4 DEF IsAt
        <3>6. j = k BY <1>8, <2>1, <2>3, <3>5, OnePlace
        <3>7. new[k] = cs[j] BY <1>4, <3>3, <3>6
        <3>8. HeldBy(cs, op, id) = cs[j].entries[id - cs[j].start + 1] BY <1>1, <2>6, <3>2 DEF HeldBy
        <3> QED BY <2>4, <3>7, <3>8
    <2> QED BY <2>5, <2>6
<1>11. HeldIn(new, <<>>) = HeldIn(cs, op)
    <2>1. HeldIn(new, <<>>) = [id \in 0 .. e + l - 1 |-> HeldBy(new, <<>>, id)] BY <1>9 DEF HeldIn
    <2>2. HeldIn(cs, op) = [id \in 0 .. e + l - 1 |-> HeldBy(cs, op, id)] BY <1>1 DEF HeldIn
    <2> QED BY <1>10, <2>1, <2>2
<1> QED BY <1>1, <1>4, <1>5, <1>7, <1>8, <1>9, <1>11

-----------------------------------------------------------------------------
(* The index of the table. *)
LEMMA TableIs ==
    ASSUME Linked(chunks), IsSeq(open)
    PROVE  /\ Sealed = EndOf(chunks, Len(chunks)) /\ NextId = Total(chunks, open)
           /\ \A id \in 0 .. NextId - 1 : Interned(id) = HeldIn(chunks, open)[id]
<1>1. Sealed = EndOf(chunks, Len(chunks))
    <2>1. IsSeq(chunks) BY DEF Linked
    <2>2. chunks = <<>> <=> Len(chunks) = 0 BY <2>1, SeqEmpty
    <2> QED BY <2>2 DEF Sealed, EndOf
<1>2. NextId = Total(chunks, open) BY <1>1 DEF NextId, Total
<1>3. ASSUME NEW id \in 0 .. NextId - 1 PROVE Interned(id) = HeldBy(chunks, open, id)
    BY <1>1 DEF Interned, HeldBy, Entry, ChunkOf, ChunkIn
<1>4. \A id \in 0 .. NextId - 1 : HeldIn(chunks, open)[id] = HeldBy(chunks, open, id) BY <1>2 DEF HeldIn
<1> QED BY <1>1, <1>2, <1>3, <1>4

Empty(n) == [i \in 0 .. n - 1 |-> NoId]
Moves(m, index, n, N) ==
    m = [k \in 0 .. n |-> IF k = 0 THEN Empty(2 * N) ELSE Moved(m[k - 1], index[k - 1])]

(* Growing is one move after the other. *)
LEMMA GrowIs ==
    ASSUME NEW N \in Nat, NEW index, Size(index) = N
    PROVE  \E m : Moves(m, index, N, N) /\ Grow(index) = m[N]
<1> DEFINE Good == {n \in Nat : \E m : Moves(m, index, n, N)}
<1>1. Moves([k \in 0 .. 0 |-> Empty(2 * N)], index, 0, N) BY DEF Moves
<1>2. ASSUME NEW n \in Nat, NEW m, Moves(m, index, n, N) PROVE \E v : Moves(v, index, n + 1, N)
    <2> DEFINE v == [k \in 0 .. n + 1 |-> IF k = n + 1 THEN Moved(m[n], index[n]) ELSE m[k]]
    <2>1. \A k \in 0 .. n : m[k] = IF k = 0 THEN Empty(2 * N) ELSE Moved(m[k - 1], index[k - 1])
        BY <1>2 DEF Moves
    <2>2. \A k \in 0 .. n : v[k] = m[k] OBVIOUS
    <2>3. v[n + 1] = Moved(v[n], index[n]) BY <2>2
    <2>4. \A k \in 0 .. n : v[k] = IF k = 0 THEN Empty(2 * N) ELSE Moved(v[k - 1], index[k - 1])
        <3> TAKE k \in 0 .. n
        <3>1. k # 0 => k - 1 \in 0 .. n OBVIOUS
        <3> QED BY <2>1, <2>2, <3>1
    <2>5. \A k \in 0 .. n + 1 : v[k] = IF k = 0 THEN Empty(2 * N) ELSE Moved(v[k - 1], index[k - 1])
        <3> TAKE k \in 0 .. n + 1
        <3>1. k \in 0 .. n \/ k = n + 1 OBVIOUS
        <3>2. n + 1 # 0 /\ (n + 1) - 1 = n OBVIOUS
        <3> HIDE DEF v
        <3> QED BY <2>3, <2>4, <3>1, <3>2
    <2>6. v = [k \in 0 .. n + 1 |-> v[k]] OBVIOUS
    <2> HIDE DEF v
    <2>7. Moves(v, index, n + 1, N) BY <2>5, <2>6 DEF Moves
    <2> QED BY <2>7
<1>3. N \in Good
    <2>1. 0 \in Good BY <1>1
    <2>2. \A n \in Nat : n \in Good => n + 1 \in Good BY <1>2
    <2> HIDE DEF Good
    <2> QED BY <2>1, <2>2, AllNumbers
<1> DEFINE Is(m) == m = [k \in 0 .. N |-> IF k = 0 THEN [i \in 0 .. 2 * N - 1 |-> NoId]
                                          ELSE Moved(m[k - 1], index[k - 1])]
           moved == CHOOSE m : Is(m)
<1>4. \E m : Is(m) BY <1>3 DEF Moves, Empty
<1>13. Is(moved)
    <2> HIDE DEF Is
    <2> QED BY <1>4
<1>6. Grow(index) = moved[N] BY DEF Grow
<1> HIDE DEF moved
<1>7. Moves(moved, index, N, N) BY <1>13 DEF Moves, Empty
<1> QED BY <1>6, <1>7

(* What the ids below T stand for is what held says. *)
Stand(held, T) == \A id \in 0 .. T - 1 : Interned(id) = held[id]

(* An index of twice the size, with the same ids. *)
LEMMA GrownIsChained ==
    ASSUME HashIsNumber, NEW N \in Nat \ {0}, NEW T \in Nat, T < N, NEW index, NEW held,
           Chained(index, N, held, 0 .. T - 1), Stand(held, T)
    PROVE  Chained(Grow(index), 2 * N, held, 0 .. T - 1)
<1> DEFINE sofar(n) == {index[i] : i \in 0 .. n - 1} \ {NoId}
<1>1. index \in [0 .. N - 1 -> (0 .. T - 1) \cup {NoId}] BY DEF Chained
<1>2. Size(index) = N BY <1>1, IntervalSize DEF Size
<1>3. PICK m : Moves(m, index, N, N) /\ Grow(index) = m[N] BY <1>2, GrowIs
<1>4. m[0] = Empty(2 * N) /\ \A k \in 1 .. N : m[k] = Moved(m[k - 1], index[k - 1]) BY <1>3 DEF Moves
<1>5. PICK M \in Nat \ {0} : M = 2 * N /\ T < M OBVIOUS
<1>13. ASSUME NEW now, NEW some \in SUBSET (0 .. T - 1), Chained(now, M, held, some)
      PROVE  \E i \in 0 .. M - 1 : now[i] = NoId
    <2>1. M \in Nat /\ T < M BY <1>5
    <2> QED BY <1>13, <2>1, HasFree
<1>6. \A n \in 0 .. N : sofar(n) \in SUBSET (0 .. T - 1) BY <1>1
<1> DEFINE Good == {n \in Nat : n \in 0 .. N => Chained(m[n], M, held, sofar(n))}
<1>7. 0 \in Good
    <2>1. sofar(0) = {} OBVIOUS
    <2>2. m[0] = [i \in 0 .. M - 1 |-> NoId] BY <1>4, <1>5 DEF Empty
    <2> HIDE DEF sofar
    <2>3. m[0] \in [0 .. M - 1 -> sofar(0) \cup {NoId}] BY <2>2
    <2>4. \A i \in 0 .. M - 1 : m[0][i] = NoId BY <2>2
    <2> QED BY <2>1, <2>3, <2>4 DEF Chained
<1>8. ASSUME NEW n \in Nat, n \in Good, n + 1 \in 0 .. N PROVE Chained(m[n + 1], M, held, sofar(n + 1))
    <2>1. n \in 0 .. N /\ n \in 0 .. N - 1 /\ n + 1 \in 1 .. N /\ (n + 1) - 1 = n BY <1>8
    <2>2. Chained(m[n], M, held, sofar(n)) BY <1>8, <2>1
    <2>3. m[n + 1] = Moved(m[n], index[n]) BY <1>4, <2>1
    <2>4. sofar(n + 1) = sofar(n) \cup ({index[n]} \ {NoId})
        <3>1. 0 .. (n + 1) - 1 = (0 .. n - 1) \cup {n} BY <2>1
        <3> QED BY <3>1
    <2>5. CASE index[n] = NoId
        <3>1. sofar(n + 1) = sofar(n) BY <2>4, <2>5
        <3>2. m[n + 1] = m[n] BY <2>3, <2>5 DEF Moved
        <3> HIDE DEF sofar
        <3> QED BY <2>2, <3>1, <3>2
    <2>6. CASE index[n] # NoId
        <3>1. PICK x \in 0 .. T - 1 : x = index[n] BY <1>1, <2>1, <2>6
        <3>2. x \notin sofar(n)
            <4>1. \A i \in 0 .. n - 1 : i \in 0 .. N - 1 /\ i # n BY <2>1
            <4>2. \A i \in 0 .. n - 1 : index[i] # x BY <2>1, <2>6, <3>1, <4>1 DEF Chained
            <4> QED BY <4>2
        <3>3. sofar(n + 1) = sofar(n) \cup {x} BY <2>4, <2>6, <3>1
        <3>4. sofar(n) \in SUBSET (0 .. T - 1) BY <1>6, <2>1
        <3> HIDE DEF sofar
        <3>5. PICK now : now = m[n] OBVIOUS
        <3>6. Chained(now, M, held, sofar(n)) BY <2>2, <3>5
        <3>7. \E i \in 0 .. M - 1 : now[i] = NoId BY <1>13, <3>4, <3>6
        <3>8. DOMAIN now = 0 .. M - 1 BY <3>6 DEF Chained
        <3>9. Free(now) \in SUBSET (0 .. M - 1) /\ Free(now) # {} BY <3>7, <3>8 DEF Free
        <3>10. PICK h \in Nat : h = Hash(held[x]) BY DEF HashIsNumber
        <3>11. PICK k \in 0 .. M - 1 : FirstGood(now, M, h, Free(now), k)
            <4> HIDE DEF Good
            <4>1. M \in Nat \ {0} /\ h \in Nat BY <1>5, <3>10
            <4> QED BY <3>8, <3>9, <4>1, Probed
        <3>12. /\ now[(h + k) % M] = NoId /\ \A j \in 0 .. k - 1 : now[(h + j) % M] # NoId
            <4>1. k \in Nat /\ \A j \in 0 .. k - 1 : j \in Nat OBVIOUS
            <4>2. \A j \in 0 .. k - 1 : (h + j) % M \in 0 .. M - 1 BY <4>1
            <4> QED BY <3>8, <3>11, <4>2 DEF Free, FirstGood
        <3>13. m[n + 1] = [now EXCEPT ![(h + k) % M] = x]
            <4>1. Interned(x) = held[x] BY <3>1 DEF Stand
            <4>2. m[n + 1] = Moved(now, x) BY <2>3, <3>1, <3>5
            <4>3. x # NoId BY <2>6, <3>1
            <4>4. Hash(Interned(x)) = h BY <3>10, <4>1
            <4> QED BY <3>11, <4>2, <4>3, <4>4 DEF Moved, FirstGood
        <3>14. now[(Hash(held[x]) + k) % M] = NoId /\ \A j \in 0 .. k - 1 : now[(Hash(held[x]) + j) % M] # NoId
            BY <3>10, <3>12
        <3>15. sofar(n) \in SUBSET Nat /\ x \in Nat BY <3>4
        <3>16. Chained([now EXCEPT ![(Hash(held[x]) + k) % M] = x], M, held, sofar(n) \cup {x})
            BY <3>2, <3>6, <3>14, <3>15, Inserted
        <3> QED BY <3>3, <3>10, <3>13, <3>16
    <2> QED BY <2>5, <2>6
<1>9. Nat \subseteq Good
    <2> HIDE DEF sofar
    <2>1. \A n \in Nat : n \in Good => n + 1 \in Good BY <1>8
    <2> HIDE DEF Good
    <2> QED BY <1>7, <2>1, AllNumbers
<1>10. sofar(N) = 0 .. T - 1
    <2>1. sofar(N) \subseteq 0 .. T - 1
        <3>1. N \in 0 .. N OBVIOUS
        <3> HIDE DEF sofar
        <3> QED BY <1>6, <3>1
    <2>2. ASSUME NEW x \in 0 .. T - 1 PROVE x \in sofar(N)
        <3>1. PICK h \in Nat : h = Hash(held[x]) BY DEF HashIsNumber
        <3>2. PICK k \in 0 .. N - 1 : index[(Hash(held[x]) + k) % N] = x BY DEF Chained
        <3>3. (h + k) % N \in 0 .. N - 1 /\ index[(h + k) % N] = x BY <3>1, <3>2
        <3>4. x # NoId BY TableAssumption
        <3> QED BY <3>3, <3>4
    <2> QED BY <2>1, <2>2
<1>11. Chained(m[N], M, held, sofar(N))
    <2> HIDE DEF sofar
    <2>1. N \in Nat /\ N \in 0 .. N OBVIOUS
    <2>2. N \in Good
        <3> HIDE DEF Good
        <3> QED BY <1>9, <2>1
    <2> QED BY <2>1, <2>2
<1> QED BY <1>3, <1>5, <1>10, <1>11

-----------------------------------------------------------------------------
(* What the table keeps true of its entries and of the index. *)
Once(held, T) == \A i, j \in 0 .. T - 1 : held[i] = held[j] => i = j
StoreInv(cs, op, index) ==
    /\ Linked(cs) /\ IsSeq(op)
    /\ Once(HeldIn(cs, op), Total(cs, op))
    /\ \E N \in Nat \ {0} : Total(cs, op) < N /\ Chained(index, N, HeldIn(cs, op), 0 .. Total(cs, op) - 1)

(* The entries of one table are those of another, and perhaps more. *)
Extends(cs, op, cs2, op2) ==
    /\ Total(cs, op) <= Total(cs2, op2) /\ Len(cs) <= Len(cs2)
    /\ \A id \in 0 .. Total(cs, op) - 1 : HeldIn(cs2, op2)[id] = HeldIn(cs, op)[id]
    /\ \A k \in 0 .. Len(cs) : EndOf(cs2, k) = EndOf(cs, k)

(* The index that a block is looked up in. *)
Roomy == IF IsFull THEN Grow(slots) ELSE slots
GoodFor(b, index) == Free(index) \cup {i \in DOMAIN index \ Free(index) : Interned(index[i]) = b}
SlotFor(b) == Probe(Roomy, Hash(b), GoodFor(b, Roomy))

LEMMA RoomyIsChained ==
    ASSUME HashIsNumber, StoreInv(chunks, open, slots)
    PROVE  \E N \in Nat \ {0} : /\ NextId + 1 < N
                                /\ Chained(Roomy, N, HeldIn(chunks, open), 0 .. NextId - 1)
<1> DEFINE held == HeldIn(chunks, open)
<1>1. PICK T \in Nat : T = NextId /\ T = Total(chunks, open) BY TableIs, TotalIsNumber DEF StoreInv
<1>2. PICK N \in Nat \ {0} : T < N /\ Chained(slots, N, held, 0 .. T - 1) BY <1>1 DEF StoreInv
<1>3. Stand(held, T) BY <1>1, TableIs DEF Stand, StoreInv
<1>4. Size(slots) = N
    <2>1. DOMAIN slots = 0 .. N - 1 BY <1>2 DEF Chained
    <2> QED BY <2>1, IntervalSize DEF Size
<1> HIDE DEF held
<1>5. CASE IsFull
    <2>1. Roomy = Grow(slots) BY <1>5 DEF Roomy
    <2>2. Chained(Grow(slots), 2 * N, held, 0 .. T - 1) BY <1>2, <1>3, GrownIsChained
    <2>3. 2 * N \in Nat \ {0} /\ T + 1 < 2 * N BY <1>2
    <2> QED BY <1>1, <2>1, <2>2, <2>3 DEF held
<1>6. CASE ~IsFull
    <2>1. Roomy = slots BY <1>6 DEF Roomy
    <2>2. ~((T + 1) * 4 >= N * 3) BY <1>1, <1>4, <1>6 DEF IsFull
    <2>3. T + 1 < N BY <2>2
    <2> QED BY <1>1, <1>2, <2>1, <2>3 DEF held
<1> QED BY <1>5, <1>6

(* The slot that is found holds the id of the block, or it has none yet and    *)
(* the slot is free. *)
LEMMA Looked ==
    ASSUME HashIsNumber, Linked(chunks), IsSeq(open), NEW T \in Nat, T = NextId, NEW held, held = HeldIn(chunks, open),
           NEW index, NEW N \in Nat \ {0}, T < N, Chained(index, N, held, 0 .. T - 1),
           NEW b
    PROVE  \E k \in 0 .. N - 1 :
               /\ Probe(index, Hash(b), GoodFor(b, index)) = (Hash(b) + k) % N
               /\ (Hash(b) + k) % N \in 0 .. N - 1
               /\ \A j \in 0 .. k - 1 : index[(Hash(b) + j) % N] # NoId
               /\ \/ /\ index[(Hash(b) + k) % N] = NoId
                     /\ \A id \in 0 .. T - 1 : held[id] # b
                  \/ /\ index[(Hash(b) + k) % N] \in 0 .. T - 1
                     /\ held[index[(Hash(b) + k) % N]] = b
<1> DEFINE good == GoodFor(b, index)
<1>1. PICK h \in Nat : h = Hash(b) BY DEF HashIsNumber
<1>2. index \in [0 .. N - 1 -> (0 .. T - 1) \cup {NoId}] BY DEF Chained
<1>3. \A i \in 0 .. N - 1 : i \in good <=> (index[i] = NoId \/ (index[i] # NoId /\ held[index[i]] = b))
    <2>1. \A id \in 0 .. T - 1 : Interned(id) = held[id] BY TableIs
    <2>2. \A i \in 0 .. N - 1 : index[i] # NoId => Interned(index[i]) = held[index[i]] BY <1>2, <2>1
    <2>3. DOMAIN index = 0 .. N - 1 BY <1>2
    <2> QED BY <2>2, <2>3 DEF GoodFor, Free
<1>4. good \in SUBSET (0 .. N - 1) /\ good # {}
    <2>1. good \subseteq 0 .. N - 1 BY <1>2 DEF GoodFor, Free
    <2>2. 0 .. T - 1 \in SUBSET (0 .. T - 1) OBVIOUS
    <2>3. PICK i \in 0 .. N - 1 : index[i] = NoId BY <2>2, HasFree
    <2> HIDE DEF good
    <2> QED BY <1>3, <2>1, <2>3
<1> HIDE DEF good
<1>5. PICK k \in 0 .. N - 1 : FirstGood(index, N, h, good, k)
    <2>1. DOMAIN index = 0 .. N - 1 BY <1>2
    <2> QED BY <1>4, <2>1, Probed
<1> DEFINE s(j) == (h + j) % N
<1>6. \A j \in Nat : s(j) \in 0 .. N - 1 OBVIOUS
<1>7. k \in Nat /\ \A j \in 0 .. k - 1 : j \in Nat OBVIOUS
<1>8. /\ Probe(index, h, good) = s(k) /\ s(k) \in good /\ \A j \in 0 .. k - 1 : s(j) \notin good
    BY <1>5 DEF FirstGood
<1> HIDE DEF s
<1>9. \A j \in 0 .. k - 1 : index[s(j)] # NoId /\ held[index[s(j)]] # b BY <1>3, <1>6, <1>7, <1>8
<1>10. ASSUME index[s(k)] = NoId, NEW id \in 0 .. T - 1, held[id] = b PROVE FALSE
    <2>1. PICK m \in 0 .. N - 1 : /\ index[(Hash(held[id]) + m) % N] = id
                                  /\ \A j \in 0 .. m - 1 : index[(Hash(held[id]) + j) % N] # NoId
        BY DEF Chained
    <2>2. index[s(m)] = id /\ \A j \in 0 .. m - 1 : index[s(j)] # NoId BY <1>1, <1>10, <2>1 DEF s
    <2>3. id # NoId BY TableAssumption
    <2>4. CASE m < k
        <3>1. m \in 0 .. k - 1 BY <2>4
        <3> QED BY <1>9, <1>10, <2>2, <3>1
    <2>5. CASE m = k BY <1>10, <2>2, <2>3, <2>5
    <2>6. CASE k < m
        <3>1. k \in 0 .. m - 1 BY <2>6
        <3> QED BY <1>10, <2>2, <3>1
    <2> QED BY <2>4, <2>5, <2>6
<1>11. /\ Probe(index, h, good) = s(k) /\ s(k) \in 0 .. N - 1
       /\ \A j \in 0 .. k - 1 : index[s(j)] # NoId
       /\ \/ index[s(k)] = NoId /\ \A id \in 0 .. T - 1 : held[id] # b
          \/ index[s(k)] \in 0 .. T - 1 /\ held[index[s(k)]] = b
    <2>1. s(k) \in 0 .. N - 1 BY <1>6, <1>7
    <2>2. index[s(k)] \in (0 .. T - 1) \cup {NoId} BY <1>2, <2>1
    <2>3. index[s(k)] = NoId \/ held[index[s(k)]] = b BY <1>3, <1>8, <2>1
    <2> QED BY <1>8, <1>9, <1>10, <2>1, <2>2, <2>3
<1> QED BY <1>1, <1>11 DEF s, good

LEMMA ExtendsSelf ==
    ASSUME NEW cs, Linked(cs), NEW op, IsSeq(op)
    PROVE  Extends(cs, op, cs, op)
<1>1. Total(cs, op) \in Nat /\ Len(cs) \in Nat BY TotalIsNumber, SeqLen DEF Linked
<1> QED BY <1>1 DEF Extends

(* What interning a block does. *)
Interns(b, slot, op, id) ==
    /\ slot = SlotFor(b)
    /\ op = IF Roomy[slot] = NoId THEN Append(open, b) ELSE open
    /\ id = IF Roomy[slot] = NoId THEN NextId ELSE Roomy[slot]

Kept(b, index, op, id) ==
    /\ StoreInv(chunks, op, index) /\ Extends(chunks, open, chunks, op)
    /\ id \in 0 .. Total(chunks, op) - 1 /\ HeldIn(chunks, op)[id] = b

(* Interning a block adds it, if it is not there, and nothing else. *)
LEMMA InternKeeps ==
    ASSUME HashIsNumber, StoreInv(chunks, open, slots), NEW b, NEW slot, NEW op, NEW id, Interns(b, slot, op, id)
    PROVE  Kept(b, [Roomy EXCEPT ![slot] = id], op, id)
<1>1. Linked(chunks) /\ IsSeq(open) BY DEF StoreInv
<1>2. PICK T \in Nat : T = NextId /\ T = Total(chunks, open) BY <1>1, TableIs, TotalIsNumber
<1>3. PICK held : held = HeldIn(chunks, open) OBVIOUS
<1>4. PICK index : index = Roomy OBVIOUS
<1>5. PICK N \in Nat \ {0} : T + 1 < N /\ Chained(index, N, held, 0 .. T - 1)
    BY <1>2, <1>3, <1>4, RoomyIsChained
<1>6. T < N BY <1>5
<1>7. PICK k \in 0 .. N - 1 :
          /\ Probe(index, Hash(b), GoodFor(b, index)) = (Hash(b) + k) % N
          /\ (Hash(b) + k) % N \in 0 .. N - 1
          /\ \A j \in 0 .. k - 1 : index[(Hash(b) + j) % N] # NoId
          /\ \/ /\ index[(Hash(b) + k) % N] = NoId
                /\ \A i \in 0 .. T - 1 : held[i] # b
             \/ /\ index[(Hash(b) + k) % N] \in 0 .. T - 1
                /\ held[index[(Hash(b) + k) % N]] = b
    BY <1>1, <1>2, <1>3, <1>5, <1>6, Looked
<1>8. slot = (Hash(b) + k) % N BY <1>4, <1>7 DEF SlotFor, Interns
<1>9. Once(held, T) BY <1>2, <1>3 DEF StoreInv
<1>10. CASE index[slot] = NoId
    <2>1. op = Append(open, b) /\ id = T BY <1>2, <1>4, <1>10 DEF Interns
    <2>2. PICK more : more = HeldIn(chunks, op) OBVIOUS
    <2>3. IsSeq(op) /\ Total(chunks, op) = T + 1 /\ (\A i \in 0 .. T - 1 : more[i] = held[i]) /\ more[T] = b
        BY <1>1, <1>2, <1>3, <2>1, <2>2, HeldWithNew
    <2>4. \A i \in 0 .. T - 1 : held[i] # b
        <3>1. NoId \notin 0 .. T - 1 BY TableAssumption
        <3> QED BY <1>7, <1>8, <1>10, <3>1
    <2>5. Chained([index EXCEPT ![slot] = T], N, more, (0 .. T - 1) \cup {T})
        <3>1. 0 .. T - 1 \in SUBSET Nat /\ T \notin 0 .. T - 1 OBVIOUS
        <3>2. index[(Hash(more[T]) + k) % N] = NoId /\ \A j \in 0 .. k - 1 : index[(Hash(more[T]) + j) % N] # NoId
            BY <1>7, <1>8, <1>10, <2>3
        <3>3. Chained([index EXCEPT ![(Hash(more[T]) + k) % N] = T], N, more, (0 .. T - 1) \cup {T})
            BY <1>5, <2>3, <3>1, <3>2, Inserted
        <3> QED BY <1>8, <2>3, <3>3
    <2>6. (0 .. T - 1) \cup {T} = 0 .. (T + 1) - 1 OBVIOUS
    <2>7. Once(more, T + 1)
        <3> SUFFICES ASSUME NEW i \in 0 .. T, NEW j \in 0 .. T, more[i] = more[j] PROVE i = j BY DEF Once
        <3>1. i \in 0 .. T - 1 \/ i = T OBVIOUS
        <3>2. j \in 0 .. T - 1 \/ j = T OBVIOUS
        <3>3. CASE i \in 0 .. T - 1 /\ j \in 0 .. T - 1 BY <1>9, <2>3, <3>3 DEF Once
        <3> QED BY <2>3, <2>4, <3>1, <3>2, <3>3
    <2>8. StoreInv(chunks, op, [Roomy EXCEPT ![slot] = id])
        <3>1. Chained([index EXCEPT ![slot] = T], N, more, 0 .. (T + 1) - 1) BY <2>5, <2>6
        <3> QED BY <1>1, <1>4, <1>5, <2>1, <2>2, <2>3, <2>7, <3>1 DEF StoreInv
    <2>9. Extends(chunks, open, chunks, op)
        <3>1. Len(chunks) \in Nat BY <1>1, SeqLen DEF Linked
        <3> QED BY <1>2, <1>3, <2>2, <2>3, <3>1 DEF Extends
    <2> QED BY <2>1, <2>2, <2>3, <2>8, <2>9 DEF Kept
<1>11. CASE index[slot] # NoId
    <2>1. op = open /\ id = index[slot] BY <1>4, <1>11 DEF Interns
    <2>2. id \in 0 .. T - 1 /\ held[id] = b BY <1>7, <1>8, <1>11, <2>1
    <2>3. [index EXCEPT ![slot] = id] = index
        <3>1. index = [i \in 0 .. N - 1 |-> index[i]] BY <1>5 DEF Chained
        <3> QED BY <1>7, <1>8, <2>1, <3>1
    <2>4. StoreInv(chunks, op, [Roomy EXCEPT ![slot] = id])
        BY <1>1, <1>2, <1>3, <1>4, <1>5, <1>6, <1>9, <2>1, <2>3 DEF StoreInv
    <2>5. Extends(chunks, open, chunks, op) BY <1>1, <2>1, ExtendsSelf
    <2> QED BY <1>2, <1>3, <2>1, <2>2, <2>4, <2>5 DEF Kept
<1> QED BY <1>10, <1>11

(* Sealing the open entries changes none. *)
LEMMA SealKeeps ==
    ASSUME StoreInv(chunks, open, slots)
    PROVE  /\ StoreInv(SealedChunks, <<>>, slots)
           /\ Extends(chunks, open, SealedChunks, <<>>)
           /\ EndOf(SealedChunks, Len(SealedChunks)) = Total(SealedChunks, <<>>)
<1>1. Linked(chunks) /\ IsSeq(open) BY DEF StoreInv
<1>2. PICK T \in Nat, c \in Nat : T = Total(chunks, open) /\ c = Len(chunks)
    BY <1>1, TotalIsNumber, SeqLen DEF Linked
<1>3. CASE open = <<>>
    <2>1. SealedChunks = chunks BY <1>3 DEF SealedChunks
    <2>2. Extends(chunks, open, chunks, open) BY <1>1, ExtendsSelf
    <2>3. Total(chunks, open) = EndOf(chunks, Len(chunks)) BY <1>1, <1>3, SeqEmpty, TotalIsNumber
    <2> QED BY <1>3, <2>1, <2>2, <2>3
<1>4. CASE open # <<>>
    <2>1. PICK new : new = SealedChunks OBVIOUS
    <2>2. new = Append(chunks, [start |-> EndOf(chunks, Len(chunks)), entries |-> open])
        BY <1>1, <1>4, <2>1, TableIs DEF SealedChunks
    <2>3. /\ Linked(new) /\ Len(new) = Len(chunks) + 1
          /\ \A k \in 0 .. Len(chunks) : EndOf(new, k) = EndOf(chunks, k)
          /\ EndOf(new, Len(new)) = T
          /\ Total(new, <<>>) = T
          /\ HeldIn(new, <<>>) = HeldIn(chunks, open)
        BY <1>1, <1>2, <1>4, <2>2, HeldSealed
    <2>4. StoreInv(new, <<>>, slots) BY <1>2, <2>3, SeqEmpty DEF StoreInv
    <2>5. Extends(chunks, open, new, <<>>) BY <1>2, <2>3 DEF Extends
    <2> QED BY <2>1, <2>3, <2>4, <2>5
<1> QED BY <1>3, <1>4

-----------------------------------------------------------------------------
(* What the table keeps true of the functions. *)
InRange(ids, T) == IsSeq(ids) /\ \A i \in 1 .. Len(ids) : ids[i] \in 0 .. T - 1

(* The ids of a function stand for the blocks bs. *)
Spells(ids, bs, held) == \A i \in 1 .. Len(ids) : held[ids[i]] = bs[i]

FunctionInv(f, cs, op, td, bl, fr, rw) ==
    /\ bl[f] = [ids |-> bl[f].ids, upto |-> bl[f].upto]
    /\ InRange(bl[f].ids, Total(cs, op))
    /\ (td # Nothing => td.of # f) =>
           f \in DOMAIN rw /\ IsSeq(rw[f]) /\ Len(rw[f]) = Len(bl[f].ids) /\ Spells(bl[f].ids, rw[f], HeldIn(cs, op))
    /\ f \notin fr =>
           /\ bl[f].upto \in 0 .. Len(cs)
           /\ \A i \in 1 .. Len(bl[f].ids) : bl[f].ids[i] < EndOf(cs, bl[f].upto)

TodoInv(cs, op, td, rw) ==
    td # Nothing =>
        /\ td = [of |-> td.of, rest |-> td.rest, ids |-> td.ids]
        /\ InRange(td.ids, Total(cs, op)) /\ IsSeq(td.rest)
        /\ td.of \in DOMAIN rw /\ IsSeq(rw[td.of]) /\ Len(rw[td.of]) = Len(td.ids) + Len(td.rest)
        /\ Spells(td.ids, rw[td.of], HeldIn(cs, op))
        /\ \A i \in 1 .. Len(td.rest) : rw[td.of][Len(td.ids) + i] = td.rest[i]

TableInv ==
    /\ StoreInv(chunks, open, slots)
    /\ \A f \in DOMAIN blocks : FunctionInv(f, chunks, open, todo, blocks, fresh, raw)
    /\ TodoInv(chunks, open, todo, raw)

(* More entries change nothing for a function or for the one at hand. *)
LEMMA RangeKept ==
    ASSUME NEW cs, NEW op, NEW cs2, NEW op2, Extends(cs, op, cs2, op2),
           Linked(cs), IsSeq(op), Linked(cs2), IsSeq(op2),
           NEW ids, InRange(ids, Total(cs, op))
    PROVE  /\ InRange(ids, Total(cs2, op2))
           /\ \A bs : Spells(ids, bs, HeldIn(cs, op)) => Spells(ids, bs, HeldIn(cs2, op2))
<1>1. PICK T \in Nat, U \in Nat : T = Total(cs, op) /\ U = Total(cs2, op2) BY TotalIsNumber
<1>2. T <= U /\ \A id \in 0 .. T - 1 : HeldIn(cs2, op2)[id] = HeldIn(cs, op)[id] BY <1>1 DEF Extends
<1>3. IsSeq(ids) /\ \A i \in 1 .. Len(ids) : ids[i] \in 0 .. T - 1 BY <1>1 DEF InRange
<1>4. 0 .. T - 1 \subseteq 0 .. U - 1 BY <1>2
<1>5. InRange(ids, U) BY <1>3, <1>4 DEF InRange
<1>6. ASSUME NEW bs, Spells(ids, bs, HeldIn(cs, op)) PROVE Spells(ids, bs, HeldIn(cs2, op2))
    BY <1>2, <1>3, <1>6 DEF Spells
<1> QED BY <1>1, <1>5, <1>6

LEMMA FunctionKept ==
    ASSUME NEW cs, NEW op, NEW cs2, NEW op2, Extends(cs, op, cs2, op2),
           Linked(cs), IsSeq(op), Linked(cs2), IsSeq(op2),
           NEW f, NEW td, NEW bl, NEW fr, NEW rw, FunctionInv(f, cs, op, td, bl, fr, rw)
    PROVE  FunctionInv(f, cs2, op2, td, bl, fr, rw)
<1>1. PICK ids, upto : ids = bl[f].ids /\ upto = bl[f].upto OBVIOUS
<1>2. InRange(ids, Total(cs, op)) BY <1>1 DEF FunctionInv
<1>3. /\ InRange(ids, Total(cs2, op2))
      /\ \A bs : Spells(ids, bs, HeldIn(cs, op)) => Spells(ids, bs, HeldIn(cs2, op2))
    BY <1>2, RangeKept
<1>4. (td # Nothing => td.of # f) =>
          f \in DOMAIN rw /\ IsSeq(rw[f]) /\ Len(rw[f]) = Len(ids) /\ Spells(ids, rw[f], HeldIn(cs2, op2))
    BY <1>1, <1>3 DEF FunctionInv
<1>5. ASSUME f \notin fr PROVE upto \in 0 .. Len(cs2) /\ \A i \in 1 .. Len(ids) : ids[i] < EndOf(cs2, upto)
    <2>1. upto \in 0 .. Len(cs) /\ \A i \in 1 .. Len(ids) : ids[i] < EndOf(cs, upto)
        BY <1>1, <1>5 DEF FunctionInv
    <2>2. EndOf(cs2, upto) = EndOf(cs, upto) /\ Len(cs) <= Len(cs2) BY <2>1 DEF Extends
    <2>3. Len(cs) \in Nat /\ Len(cs2) \in Nat BY SeqLen DEF Linked
    <2> QED BY <2>1, <2>2, <2>3
<1> QED BY <1>1, <1>3, <1>4, <1>5 DEF FunctionInv

LEMMA TodoKept ==
    ASSUME NEW cs, NEW op, NEW cs2, NEW op2, Extends(cs, op, cs2, op2),
           Linked(cs), IsSeq(op), Linked(cs2), IsSeq(op2),
           NEW td, NEW rw, TodoInv(cs, op, td, rw)
    PROVE  TodoInv(cs2, op2, td, rw)
<1> SUFFICES ASSUME td # Nothing
             PROVE  /\ td = [of |-> td.of, rest |-> td.rest, ids |-> td.ids]
                    /\ InRange(td.ids, Total(cs2, op2)) /\ IsSeq(td.rest)
                    /\ td.of \in DOMAIN rw /\ IsSeq(rw[td.of]) /\ Len(rw[td.of]) = Len(td.ids) + Len(td.rest)
                    /\ Spells(td.ids, rw[td.of], HeldIn(cs2, op2))
                    /\ \A i \in 1 .. Len(td.rest) : rw[td.of][Len(td.ids) + i] = td.rest[i]
    BY DEF TodoInv
<1>1. PICK ids : ids = td.ids /\ InRange(ids, Total(cs, op)) BY DEF TodoInv
<1>2. /\ InRange(ids, Total(cs2, op2))
      /\ \A bs : Spells(ids, bs, HeldIn(cs, op)) => Spells(ids, bs, HeldIn(cs2, op2))
    BY <1>1, RangeKept
<1> QED BY <1>1, <1>2 DEF TodoInv

-----------------------------------------------------------------------------
(* The steps of the table. *)
LEMMA TableStarts ==
    ASSUME TableInit
    PROVE  TableInv
<1>1. chunks = <<>> /\ open = <<>> /\ todo = Nothing /\ slots = [i \in 0 .. Slots - 1 |-> NoId] BY DEF TableInit
<1>2. DOMAIN blocks = {}
    <2>1. blocks = <<>> BY DEF TableInit
    <2> QED BY <2>1
<1>3. Linked(<<>>) BY SeqEmpty DEF Linked
<1>4. Total(<<>>, <<>>) = 0 BY SeqEmpty DEF Total, EndOf
<1>5. Slots \in Nat \ {0} /\ 0 < Slots BY TableAssumption
<1>6. Chained(slots, Slots, HeldIn(<<>>, <<>>), {})
    <2>1. slots \in [0 .. Slots - 1 -> {} \cup {NoId}] /\ \A i \in 0 .. Slots - 1 : slots[i] = NoId BY <1>1
    <2> QED BY <2>1 DEF Chained
<1>7. 0 .. 0 - 1 = {} OBVIOUS
<1>8. Once(HeldIn(<<>>, <<>>), 0) BY <1>7 DEF Once
<1>9. StoreInv(chunks, open, slots) BY <1>1, <1>3, <1>4, <1>5, <1>6, <1>7, <1>8, SeqEmpty DEF StoreInv
<1> QED BY <1>1, <1>2, <1>9 DEF TableInv, TodoInv

LEMMA NotNothing ==
    ASSUME NEW f, NEW r, NEW i
    PROVE  [of |-> f, rest |-> r, ids |-> i] # Nothing
<1>1. "rest" \in DOMAIN [of |-> f, rest |-> r, ids |-> i] OBVIOUS
<1>2. "rest" \notin DOMAIN [of |-> NoId] OBVIOUS
<1> QED BY <1>1, <1>2 DEF Nothing

LEMMA InstallKeeps ==
    ASSUME TableInv, NEW f, NEW bs, IsSeq(bs), Install(f, bs)
    PROVE  TableInv'
<1>1. /\ todo = Nothing /\ todo' = [of |-> f, rest |-> bs, ids |-> <<>>]
      /\ raw' = [g \in DOMAIN raw \cup {f} |-> IF g = f THEN bs ELSE raw[g]]
      /\ chunks' = chunks /\ open' = open /\ slots' = slots /\ blocks' = blocks /\ fresh' = fresh
    BY DEF Install
<1>2. todo' # Nothing /\ todo'.of = f /\ todo'.rest = bs /\ todo'.ids = <<>> BY <1>1, NotNothing
<1>3. StoreInv(chunks', open', slots') BY <1>1 DEF TableInv
<1>4. ASSUME NEW g \in DOMAIN blocks PROVE FunctionInv(g, chunks, open, todo', blocks, fresh, raw')
    <2>1. FunctionInv(g, chunks, open, todo, blocks, fresh, raw) BY DEF TableInv
    <2>2. g # f /\ g \in DOMAIN raw => g \in DOMAIN raw' /\ raw'[g] = raw[g] BY <1>1
    <2>3. ASSUME todo'.of # g
          PROVE  /\ g \in DOMAIN raw' /\ IsSeq(raw'[g]) /\ Len(raw'[g]) = Len(blocks[g].ids)
                 /\ Spells(blocks[g].ids, raw'[g], HeldIn(chunks, open))
        <3>1. g # f BY <1>2, <2>3
        <3>2. /\ g \in DOMAIN raw /\ IsSeq(raw[g]) /\ Len(raw[g]) = Len(blocks[g].ids)
              /\ Spells(blocks[g].ids, raw[g], HeldIn(chunks, open))
            BY <1>1, <2>1 DEF FunctionInv
        <3> QED BY <2>2, <3>1, <3>2
    <2> QED BY <1>2, <2>1, <2>3 DEF FunctionInv
<1>5. TodoInv(chunks, open, todo', raw')
    <2>1. f \in DOMAIN raw' /\ raw'[f] = bs BY <1>1
    <2>2. Len(<<>>) = 0 /\ InRange(<<>>, Total(chunks, open)) /\ Spells(<<>>, bs, HeldIn(chunks, open))
        BY SeqEmpty DEF InRange, Spells
    <2>3. Len(bs) \in Nat /\ \A i \in 1 .. Len(bs) : 0 + i = i BY SeqLen
    <2>4. todo' = [of |-> todo'.of, rest |-> todo'.rest, ids |-> todo'.ids] BY <1>1, <1>2
    <2>5. Len(raw'[f]) = Len(<<>>) + Len(bs) BY <2>1, <2>2, <2>3
    <2>6. \A i \in 1 .. Len(bs) : raw'[f][Len(<<>>) + i] = bs[i] BY <2>1, <2>2, <2>3
    <2> QED BY <1>2, <2>1, <2>2, <2>4, <2>5, <2>6 DEF TodoInv
<1> QED BY <1>1, <1>3, <1>4, <1>5 DEF TableInv

LEMMA InternStepKeeps ==
    ASSUME HashIsNumber, TableInv, Intern
    PROVE  TableInv'
<1>1. todo # Nothing /\ todo.rest # <<>> BY DEF Intern
<1>2. /\ todo = [of |-> todo.of, rest |-> todo.rest, ids |-> todo.ids]
      /\ InRange(todo.ids, Total(chunks, open)) /\ IsSeq(todo.rest)
      /\ todo.of \in DOMAIN raw /\ IsSeq(raw[todo.of]) /\ Len(raw[todo.of]) = Len(todo.ids) + Len(todo.rest)
      /\ Spells(todo.ids, raw[todo.of], HeldIn(chunks, open))
      /\ \A i \in 1 .. Len(todo.rest) : raw[todo.of][Len(todo.ids) + i] = todo.rest[i]
    BY <1>1 DEF TableInv, TodoInv
<1>3. PICK f, rest, ids : f = todo.of /\ rest = todo.rest /\ ids = todo.ids OBVIOUS
<1>4. PICK b : b = Head(rest) OBVIOUS
<1>5. PICK slot, op, id : Interns(b, slot, op, id) BY DEF Interns
<1>7. /\ slots' = [Roomy EXCEPT ![slot] = id] /\ open' = op
      /\ todo' = [todo EXCEPT !.rest = Tail(rest), !.ids = Append(ids, id)]
      /\ chunks' = chunks /\ blocks' = blocks /\ fresh' = fresh /\ raw' = raw
    BY <1>3, <1>4, <1>5 DEF Intern, Interns, Roomy, SlotFor, GoodFor
<1>8. todo' = [of |-> f, rest |-> Tail(rest), ids |-> Append(ids, id)] BY <1>2, <1>3, <1>7
<1>9. todo' # Nothing /\ todo'.of = f /\ todo'.rest = Tail(rest) /\ todo'.ids = Append(ids, id)
    BY <1>8, NotNothing
<1>10. StoreInv(chunks, open, slots) BY DEF TableInv
<1>11. /\ StoreInv(chunks, op, [Roomy EXCEPT ![slot] = id])
       /\ Extends(chunks, open, chunks, op)
       /\ id \in 0 .. Total(chunks, op) - 1 /\ HeldIn(chunks, op)[id] = b
    <2>1. Kept(b, [Roomy EXCEPT ![slot] = id], op, id) BY <1>5, <1>10, InternKeeps
    <2> QED BY <2>1 DEF Kept
<1>12. Linked(chunks) /\ IsSeq(open) /\ IsSeq(op) BY <1>10, <1>11 DEF StoreInv
<1>13. ASSUME NEW g \in DOMAIN blocks PROVE FunctionInv(g, chunks, op, todo', blocks, fresh, raw)
    <2>1. FunctionInv(g, chunks, open, todo, blocks, fresh, raw) BY DEF TableInv
    <2>2. FunctionInv(g, chunks, op, todo, blocks, fresh, raw) BY <1>11, <1>12, <2>1, FunctionKept
    <2> QED BY <1>1, <1>3, <1>9, <2>2 DEF FunctionInv
<1>14. TodoInv(chunks, op, todo', raw)
    <2>1. PICK l \in Nat, r \in Nat : l = Len(ids) /\ r = Len(rest) /\ r # 0
        BY <1>1, <1>2, <1>3, SeqLen, SeqTail DEF InRange
    <2>2. /\ IsSeq(Tail(rest)) /\ Len(Tail(rest)) = r - 1 /\ (\A i \in 1 .. r - 1 : Tail(rest)[i] = rest[i + 1])
          /\ b = rest[1]
        BY <1>1, <1>2, <1>3, <1>4, <2>1, SeqTail
    <2>3. /\ InRange(ids, Total(chunks, op)) /\ Spells(ids, raw[f], HeldIn(chunks, op))
        BY <1>2, <1>3, <1>11, <1>12, RangeKept
    <2>4. PICK more : more = Append(ids, id) OBVIOUS
    <2>5. IsSeq(more) /\ Len(more) = l + 1 /\ (\A i \in 1 .. l : more[i] = ids[i]) /\ more[l + 1] = id
        BY <2>1, <2>3, <2>4, SeqAppend DEF InRange
    <2>6. \A i \in 1 .. l + 1 : i \in 1 .. l \/ i = l + 1 OBVIOUS
    <2>7. InRange(more, Total(chunks, op)) BY <1>11, <2>1, <2>3, <2>5, <2>6 DEF InRange
    <2>8. raw[f][l + 1] = b BY <1>2, <1>3, <2>1, <2>2
    <2>9. Spells(more, raw[f], HeldIn(chunks, op)) BY <1>11, <2>1, <2>3, <2>5, <2>6, <2>8 DEF Spells
    <2>10. ASSUME NEW i \in 1 .. r - 1 PROVE raw[f][(l + 1) + i] = Tail(rest)[i]
        <3>1. i + 1 \in 1 .. r /\ l + (i + 1) = (l + 1) + i BY <2>1
        <3>2. raw[f][l + (i + 1)] = rest[i + 1] BY <1>2, <1>3, <2>1, <3>1
        <3> QED BY <2>2, <3>1, <3>2
    <2>11. Len(raw[f]) = (l + 1) + (r - 1)
        <3>1. Len(raw[f]) = l + r BY <1>2, <1>3, <2>1
        <3>2. l + r = (l + 1) + (r - 1) BY <2>1
        <3> QED BY <3>1, <3>2
    <2>12. f \in DOMAIN raw /\ IsSeq(raw[f]) BY <1>2, <1>3
    <2> QED BY <1>8, <1>9, <2>2, <2>4, <2>5, <2>7, <2>9, <2>10, <2>11, <2>12 DEF TodoInv
<1> QED BY <1>7, <1>11, <1>13, <1>14 DEF TableInv

LEMMA InstalledKeeps ==
    ASSUME TableInv, Installed
    PROVE  TableInv'
<1>1. /\ todo # Nothing /\ todo.rest = <<>> /\ todo' = Nothing
      /\ chunks' = chunks /\ open' = open /\ slots' = slots /\ raw' = raw
      /\ fresh' = fresh \cup {todo.of}
      /\ blocks' = [g \in DOMAIN blocks \cup {todo.of} |->
                       IF g = todo.of THEN [ids |-> todo.ids, upto |-> 0] ELSE blocks[g]]
    BY DEF Installed
<1>2. PICK f, ids : f = todo.of /\ ids = todo.ids OBVIOUS
<1>3. /\ InRange(ids, Total(chunks, open))
      /\ f \in DOMAIN raw /\ IsSeq(raw[f]) /\ Len(raw[f]) = Len(ids) + 0
      /\ Spells(ids, raw[f], HeldIn(chunks, open))
    BY <1>1, <1>2, SeqEmpty DEF TableInv, TodoInv
<1>4. Len(raw[f]) = Len(ids)
    <2>1. Len(ids) \in Nat BY <1>3, SeqLen DEF InRange
    <2> QED BY <1>3, <2>1
<1>5. ASSUME NEW g \in DOMAIN blocks' PROVE FunctionInv(g, chunks, open, todo', blocks', fresh', raw)
    <2>1. CASE g = f
        <3>1. blocks'[g] = [ids |-> ids, upto |-> 0] /\ g \in fresh' BY <1>1, <1>2, <2>1
        <3> QED BY <1>3, <1>4, <2>1, <3>1 DEF FunctionInv
    <2>2. CASE g # f
        <3>1. g \in DOMAIN blocks /\ blocks'[g] = blocks[g] BY <1>1, <1>2, <2>2
        <3>2. FunctionInv(g, chunks, open, todo, blocks, fresh, raw) BY <3>1 DEF TableInv
        <3>3. todo.of # g /\ (g \notin fresh' => g \notin fresh) BY <1>1, <1>2, <2>2
        <3> QED BY <1>1, <3>1, <3>2, <3>3 DEF FunctionInv
    <2> QED BY <2>1, <2>2
<1>6. TodoInv(chunks, open, todo', raw) BY <1>1 DEF TodoInv
<1> QED BY <1>1, <1>5, <1>6 DEF TableInv

LEMMA PublishKeeps ==
    ASSUME TableInv, NEW fs, Publish(fs)
    PROVE  TableInv'
<1>1. /\ todo = Nothing /\ fresh \subseteq fs /\ todo' = todo /\ slots' = slots /\ raw' = raw
      /\ chunks' = SealedChunks /\ open' = <<>> /\ fresh' = {}
      /\ blocks' = [g \in DOMAIN blocks |->
                       IF g \in fs THEN [blocks[g] EXCEPT !.upto = Len(SealedChunks)] ELSE blocks[g]]
    BY DEF Publish
<1>2. PICK new : new = SealedChunks OBVIOUS
<1>3. /\ StoreInv(new, <<>>, slots) /\ Extends(chunks, open, new, <<>>)
      /\ EndOf(new, Len(new)) = Total(new, <<>>)
    BY <1>2, SealKeeps DEF TableInv
<1>4. Linked(chunks) /\ IsSeq(open) /\ Linked(new) /\ IsSeq(<<>>) BY <1>3 DEF TableInv, StoreInv
<1>5. ASSUME NEW g \in DOMAIN blocks PROVE FunctionInv(g, new, <<>>, todo', blocks', fresh', raw)
    <2>1. FunctionInv(g, chunks, open, todo, blocks, fresh, raw) BY DEF TableInv
    <2>2. FunctionInv(g, new, <<>>, todo, blocks, fresh, raw) BY <1>3, <1>4, <2>1, FunctionKept
    <2>3. CASE g \in fs
        <3>1. PICK ids : ids = blocks[g].ids OBVIOUS
        <3>2. blocks'[g] = [blocks[g] EXCEPT !.upto = Len(new)] BY <1>1, <1>2, <2>3
        <3>3. blocks'[g] = [ids |-> ids, upto |-> Len(new)]
            <4>1. blocks[g] = [ids |-> blocks[g].ids, upto |-> blocks[g].upto] BY <2>1 DEF FunctionInv
            <4> QED BY <3>1, <3>2, <4>1
        <3>4. \A i \in 1 .. Len(ids) : ids[i] < EndOf(new, Len(new))
            <4>1. PICK T \in Nat : T = Total(new, <<>>) BY <1>4, TotalIsNumber
            <4>2. \A i \in 1 .. Len(ids) : ids[i] \in 0 .. T - 1 BY <2>2, <3>1, <4>1 DEF FunctionInv, InRange
            <4>3. \A x \in 0 .. T - 1 : x < T OBVIOUS
            <4> QED BY <1>3, <4>1, <4>2, <4>3
        <3>5. Len(new) \in 0 .. Len(new)
            <4>1. Len(new) \in Nat BY <1>4, SeqLen DEF Linked
            <4> QED BY <4>1
        <3> QED BY <1>1, <2>2, <3>1, <3>3, <3>4, <3>5 DEF FunctionInv
    <2>4. CASE g \notin fs
        <3>1. blocks'[g] = blocks[g] /\ g \notin fresh BY <1>1, <2>4
        <3> QED BY <1>1, <2>2, <3>1 DEF FunctionInv
    <2> QED BY <2>3, <2>4
<1>6. TodoInv(new, <<>>, todo', raw) BY <1>1 DEF TodoInv
<1>7. DOMAIN blocks' = DOMAIN blocks BY <1>1
<1> QED BY <1>1, <1>2, <1>3, <1>5, <1>6, <1>7 DEF TableInv

-----------------------------------------------------------------------------
(* What follows. *)
LEMMA TableReadsBack ==
    ASSUME TableInv
    PROVE  ReadsBack
<1> SUFFICES ASSUME NEW f \in DOMAIN blocks \ fresh
             PROVE  /\ \A i \in DOMAIN blocks[f].ids : IsEntry(blocks[f].upto, blocks[f].ids[i])
                    /\ (todo # Nothing => todo.of # f) => Read(f) = raw[f]
    BY DEF ReadsBack
<1>1. PICK ids, n : ids = blocks[f].ids /\ n = blocks[f].upto OBVIOUS
<1>2. /\ InRange(ids, Total(chunks, open)) /\ n \in 0 .. Len(chunks)
      /\ \A i \in 1 .. Len(ids) : ids[i] < EndOf(chunks, n)
      /\ (todo # Nothing => todo.of # f) =>
             IsSeq(raw[f]) /\ Len(raw[f]) = Len(ids) /\ Spells(ids, raw[f], HeldIn(chunks, open))
    BY <1>1 DEF TableInv, FunctionInv
<1>3. Linked(chunks) /\ IsSeq(open) BY DEF TableInv, StoreInv
<1>4. DOMAIN ids = 1 .. Len(ids) BY <1>2, SeqLen DEF InRange
<1>5. ASSUME NEW i \in 1 .. Len(ids)
      PROVE  IsEntry(n, ids[i]) /\ Entry(n, ids[i]) = HeldIn(chunks, open)[ids[i]]
    <2>1. PICK T \in Nat : T = Total(chunks, open) BY <1>3, TotalIsNumber
    <2>2. PICK id \in 0 .. T - 1 : id = ids[i] /\ id < EndOf(chunks, n) BY <1>2, <2>1 DEF InRange
    <2>3. id \in Nat OBVIOUS
    <2>4. PICK k : k = ChunkIn(chunks, n, id) OBVIOUS
    <2>5. /\ id < EndOf(chunks, Len(chunks)) /\ k = ChunkIn(chunks, Len(chunks), id)
          /\ k \in 1 .. n /\ IsAt(chunks, k, id)
        BY <1>2, <1>3, <2>2, <2>3, <2>4, SamePlace
    <2>6. ChunkOf(n, id) = k BY <2>4 DEF ChunkOf, ChunkIn
    <2>7. /\ k \in 1 .. Len(chunks) /\ chunks[k].start <= id /\ id < chunks[k].start + Len(chunks[k].entries)
        BY <2>5 DEF IsAt, EndOf
    <2>8. chunks[k].start \in Nat /\ Len(chunks[k].entries) \in Nat BY <1>3, <2>7, SeqLen DEF Linked
    <2>9. id - chunks[k].start < Len(chunks[k].entries) BY <2>3, <2>7, <2>8
    <2>10. IsEntry(n, id) BY <2>5, <2>6, <2>7, <2>9 DEF IsEntry
    <2>11. EndOf(chunks, Len(chunks)) \in Nat BY <1>3, TotalIsNumber
    <2>12. ~(id >= EndOf(chunks, Len(chunks))) BY <2>3, <2>5, <2>11
    <2>13. Entry(n, id) = HeldBy(chunks, open, id) BY <2>5, <2>6, <2>12 DEF Entry, HeldBy
    <2>14. HeldIn(chunks, open)[id] = HeldBy(chunks, open, id) BY <2>1 DEF HeldIn
    <2> QED BY <2>2, <2>10, <2>13, <2>14
<1>6. ASSUME todo # Nothing => todo.of # f PROVE Read(f) = raw[f]
    <2>1. IsSeq(raw[f]) /\ Len(raw[f]) = Len(ids) /\ Spells(ids, raw[f], HeldIn(chunks, open)) BY <1>2, <1>6
    <2>2. raw[f] = [i \in 1 .. Len(ids) |-> raw[f][i]]
        <3>1. PICK S : raw[f] \in Seq(S) BY <2>1 DEF IsSeq
        <3>2. raw[f] \in [1 .. Len(raw[f]) -> S] BY <3>1, LenProperties
        <3> QED BY <2>1, <3>2
    <2>3. Read(f) = [i \in 1 .. Len(ids) |-> Entry(n, ids[i])] BY <1>1, <1>4 DEF Read
    <2>4. \A i \in 1 .. Len(ids) : Entry(n, ids[i]) = raw[f][i] BY <1>5, <2>1 DEF Spells
    <2> QED BY <2>2, <2>3, <2>4
<1> QED BY <1>1, <1>4, <1>5, <1>6

LEMMA TableHoldsOnce ==
    ASSUME TableInv
    PROVE  HeldOnce
<1>1. Linked(chunks) /\ IsSeq(open) BY DEF TableInv, StoreInv
<1>2. PICK T \in Nat : T = NextId /\ T = Total(chunks, open) BY <1>1, TableIs, TotalIsNumber
<1>3. Once(HeldIn(chunks, open), T) BY <1>2 DEF TableInv, StoreInv
<1>4. \A i \in 0 .. T - 1 : Interned(i) = HeldIn(chunks, open)[i] BY <1>1, <1>2, TableIs
<1>5. PICK N \in Nat \ {0} : T < N /\ Chained(slots, N, HeldIn(chunks, open), 0 .. T - 1)
    BY <1>2 DEF TableInv, StoreInv
<1>6. \E i \in 0 .. N - 1 : slots[i] = NoId
    <2>1. PICK s \in SUBSET (0 .. T - 1) : s = 0 .. T - 1 OBVIOUS
    <2>2. N \in Nat /\ Chained(slots, N, HeldIn(chunks, open), s) BY <1>5, <2>1
    <2> QED BY <1>5, <2>2, HasFree
<1>7. DOMAIN slots = 0 .. N - 1 BY <1>5 DEF Chained
<1> QED BY <1>2, <1>3, <1>4, <1>6, <1>7 DEF HeldOnce, Once

-----------------------------------------------------------------------------
(* What recovery gives the table: of each walk of the slice a sequence of      *)
(* blocks, and each function of the slice once.                                *)
SliceInv ==
    /\ \E n \in Nat : DOMAIN slice = 1 .. n
    /\ \A i \in DOMAIN slice : IsSeq(slice[i].cfg.blocks)
    /\ fresh \subseteq InSlice
    /\ todo # Nothing => todo.of \in InSlice

RecoveryInv == TableInv /\ SliceInv

LEMMA SliceStarts ==
    ASSUME Init
    PROVE  RecoveryInv
<1>1. slice = <<>> /\ TableInit BY DEF Init
<1>2. fresh = {} /\ todo = Nothing BY <1>1 DEF TableInit
<1>3. DOMAIN slice = 1 .. 0 /\ 0 \in Nat BY <1>1
<1>4. \A i \in DOMAIN slice : FALSE BY <1>3
<1>5. SliceInv BY <1>2, <1>3, <1>4 DEF SliceInv
<1> QED BY <1>1, <1>5, TableStarts DEF RecoveryInv

LEMMA WalkSliceKeeps ==
    ASSUME RecoveryInv, WalkSlice
    PROVE  RecoveryInv'
<1>1. slice = <<>> /\ chunks' = chunks /\ open' = open /\ slots' = slots /\ todo' = todo /\ blocks' = blocks
      /\ fresh' = fresh /\ raw' = raw
    BY DEF WalkSlice, table
<1>2. TableInv' BY <1>1 DEF RecoveryInv, TableInv
<1>3. InSlice = {} BY <1>1 DEF InSlice
<1>4. fresh' = {} /\ todo' = Nothing BY <1>1, <1>3 DEF RecoveryInv, SliceInv
<1>5. PICK n \in 1 .. Len(batch) :
          slice' = [i \in 1 .. n |-> [at |-> batch[i], cfg |-> RawCfg(Walking(batch[i]))]]
    BY DEF WalkSlice
<1>6. n \in Nat OBVIOUS
<1>7. DOMAIN slice' = 1 .. n BY <1>5
<1>8. ASSUME NEW i \in DOMAIN slice' PROVE IsSeq(slice'[i].cfg.blocks)
    <2>1. PICK c : c = Walking(batch[i]) OBVIOUS
    <2>2. slice'[i].cfg = RawCfg(c) BY <1>5, <1>7, <2>1
    <2> QED BY <2>2, BlocksAreListed
<1>9. SliceInv' BY <1>4, <1>6, <1>7, <1>8 DEF SliceInv
<1> QED BY <1>2, <1>9 DEF RecoveryInv

(* There is a function left to install. *)
LEMMA NextInSlice ==
    ASSUME SliceInv, fresh # InSlice
    PROVE  Cardinality(fresh) + 1 \in DOMAIN slice
<1>1. PICK n \in Nat : DOMAIN slice = 1 .. n BY DEF SliceInv
<1> DEFINE f == [i \in 1 .. n |-> slice[i].at]
<1>2. InSlice = {f[i] : i \in 1 .. n} BY <1>1 DEF InSlice
<1>3. f \in Surjection(1 .. n, InSlice) BY <1>2 DEF Surjection
<1>4. IsFiniteSet(1 .. n) /\ Cardinality(1 .. n) = n
    <2>1. IsFiniteSet(1 .. n) /\ Cardinality(1 .. n) = IF 1 > n THEN 0 ELSE n - 1 + 1 BY FS_Interval
    <2> QED BY <2>1
<1> HIDE DEF f
<1>5. IsFiniteSet(InSlice) /\ Cardinality(InSlice) <= n BY <1>3, <1>4, FS_Surjection
<1>6. PICK s : s = InSlice OBVIOUS
<1>7. fresh \in SUBSET s /\ IsFiniteSet(s) BY <1>5, <1>6 DEF SliceInv
<1>8. /\ IsFiniteSet(fresh) /\ Cardinality(fresh) <= Cardinality(s)
      /\ Cardinality(s) = Cardinality(fresh) => s = fresh
    BY <1>7, FS_Subset
<1>9. Cardinality(fresh) \in Nat /\ Cardinality(s) \in Nat BY <1>7, <1>8, FS_CardinalityType
<1> QED BY <1>1, <1>5, <1>6, <1>8, <1>9

LEMMA InternSliceKeeps ==
    ASSUME HashIsNumber, RecoveryInv, InternSlice
    PROVE  RecoveryInv'
<1>1. slice' = slice BY DEF InternSlice, discovery
<1>2. InSlice' = InSlice BY <1>1 DEF InSlice
<1>3. TableInv /\ SliceInv BY DEF RecoveryInv
<1>4. CASE fresh # InSlice /\ Install(slice[Cardinality(fresh) + 1].at, slice[Cardinality(fresh) + 1].cfg.blocks)
    <2>1. PICK i : i = Cardinality(fresh) + 1 OBVIOUS
    <2>2. i \in DOMAIN slice BY <1>3, <1>4, <2>1, NextInSlice
    <2>3. PICK f, bs : f = slice[i].at /\ bs = slice[i].cfg.blocks OBVIOUS
    <2>4. IsSeq(bs) /\ f \in InSlice BY <1>3, <2>2, <2>3 DEF SliceInv, InSlice
    <2>5. Install(f, bs) BY <1>4, <2>1, <2>3
    <2>6. TableInv' BY <1>3, <2>4, <2>5, InstallKeeps
    <2>7. fresh' = fresh /\ todo'.of = f BY <2>5 DEF Install
    <2>8. SliceInv' BY <1>1, <1>2, <1>3, <2>4, <2>7 DEF SliceInv
    <2> QED BY <2>6, <2>8 DEF RecoveryInv
<1>5. CASE Intern
    <2>1. TableInv' BY <1>3, <1>5, InternStepKeeps
    <2>2. todo # Nothing /\ fresh' = fresh BY <1>5 DEF Intern
    <2>3. todo'.of = todo.of
        <3>1. todo = [of |-> todo.of, rest |-> todo.rest, ids |-> todo.ids] BY <1>3, <2>2 DEF TableInv, TodoInv
        <3>2. PICK r, s : todo' = [todo EXCEPT !.rest = r, !.ids = s] BY <1>5 DEF Intern
        <3> QED BY <3>1, <3>2
    <2>4. SliceInv' BY <1>1, <1>2, <1>3, <2>2, <2>3 DEF SliceInv
    <2> QED BY <2>1, <2>4 DEF RecoveryInv
<1>6. CASE Installed
    <2>1. TableInv' BY <1>3, <1>6, InstalledKeeps
    <2>2. todo # Nothing /\ todo' = Nothing /\ fresh' = fresh \cup {todo.of} BY <1>6 DEF Installed
    <2>3. SliceInv' BY <1>1, <1>2, <1>3, <2>2 DEF SliceInv
    <2> QED BY <2>1, <2>3 DEF RecoveryInv
<1> QED BY <1>4, <1>5, <1>6 DEF InternSlice

LEMMA MergeSliceKeeps ==
    ASSUME RecoveryInv, MergeSlice
    PROVE  RecoveryInv'
<1>1. Publish(fresh) /\ slice' = <<>> /\ todo = Nothing BY DEF MergeSlice
<1>2. TableInv' BY <1>1, PublishKeeps DEF RecoveryInv
<1>3. fresh' = {} /\ todo' = Nothing BY <1>1 DEF Publish
<1>4. DOMAIN slice' = 1 .. 0 /\ 0 \in Nat BY <1>1
<1>5. \A i \in DOMAIN slice' : FALSE BY <1>4
<1>6. SliceInv' BY <1>3, <1>4, <1>5 DEF SliceInv
<1> QED BY <1>2, <1>6 DEF RecoveryInv

LEMMA FinishKeeps ==
    ASSUME RecoveryInv, Finish
    PROVE  RecoveryInv'
<1>1. Publish(DOMAIN blocks) /\ slice' = slice BY DEF Finish, discovery
<1>2. TableInv' BY <1>1, PublishKeeps DEF RecoveryInv
<1>3. fresh' = {} /\ todo' = Nothing BY <1>1 DEF Publish
<1>4. SliceInv' BY <1>1, <1>3 DEF RecoveryInv, SliceInv
<1> QED BY <1>2, <1>4 DEF RecoveryInv

LEMMA RecoveryStepKeeps ==
    ASSUME HashIsNumber, RecoveryInv, [LiftingNext]_<<vars, dataflow>>
    PROVE  RecoveryInv'
<1>1. ASSUME UNCHANGED <<slice, table>> PROVE RecoveryInv'
    <2>1. /\ slice' = slice /\ chunks' = chunks /\ open' = open /\ slots' = slots /\ todo' = todo
          /\ blocks' = blocks /\ fresh' = fresh /\ raw' = raw
        BY <1>1 DEF table
    <2>2. InSlice' = InSlice BY <2>1 DEF InSlice
    <2> QED BY <2>1, <2>2 DEF RecoveryInv, TableInv, SliceInv
<1>2. CASE StartRound BY <1>1, <1>2 DEF StartRound
<1>3. CASE WalkSlice BY <1>3, WalkSliceKeeps
<1>4. CASE InternSlice BY <1>4, InternSliceKeeps
<1>5. CASE MergeSlice BY <1>5, MergeSliceKeeps
<1>6. CASE ScanGaps BY <1>1, <1>6 DEF ScanGaps
<1>7. CASE EndLeftovers BY <1>1, <1>7 DEF EndLeftovers, discovery
<1>8. CASE Refine BY <1>1, <1>8 DEF Refine
<1>9. CASE Finish BY <1>9, FinishKeeps
<1>10. CASE UNCHANGED vars BY <1>1, <1>10 DEF vars, discovery
<1>11. CASE LiftFunction
    <2>1. UNCHANGED vars BY <1>11 DEF LiftFunction
    <2> QED BY <1>10, <2>1
<1>12. CASE UNCHANGED <<vars, dataflow>>
    <2>1. UNCHANGED vars BY <1>12
    <2> QED BY <1>10, <2>1
<1> QED BY <1>2, <1>3, <1>4, <1>5, <1>6, <1>7, <1>8, <1>9, <1>10, <1>11, <1>12 DEF LiftingNext, Next

-----------------------------------------------------------------------------
(* Recovery walks from executable addresses only, and while the functions of a *)
(* slice are interned nothing changes of what their walks were given.          *)
DiscoveryInv ==
    /\ pending \subseteq Addrs /\ batch \in Seq(Addrs) /\ DOMAIN known \subseteq Addrs
    /\ IsSeq(slice)
    /\ \A i \in DOMAIN slice : \E a \in Addrs : slice[i].at = a /\ slice[i].cfg = RawCfg(Walking(a))
    /\ phase = "refine" => Idle

LEMMA DiscoveryStarts ==
    ASSUME Init
    PROVE  DiscoveryInv
<1>1. /\ hints \in Hints /\ phase = "rounds" /\ pending = DOMAIN hints /\ batch = <<>> /\ slice = <<>>
      /\ known = <<>>
    BY DEF Init
<1>2. pending \subseteq Addrs BY <1>1, HintsAssumption
<1>3. DOMAIN known = {} /\ DOMAIN slice = {} /\ batch \in Seq(Addrs) BY <1>1
<1> QED BY <1>1, <1>2, <1>3, SeqEmpty DEF DiscoveryInv

LEMMA InOrderOfAddrs ==
    ASSUME NEW S \in SUBSET Addrs
    PROVE  InOrder(S) \in Seq(Addrs)
<1>1. S \in SUBSET Nat /\ IsFiniteSet(S) BY AddrsAreNumbers, FS_Subset
<1>2. InOrder(S) \in Seq(S) BY <1>1, InOrderLists
<1> QED BY <1>2, SeqMonotonic

(* A step between two slices: whatever it makes of them, a new batch.          *)
LEMMA NewBatchKeeps ==
    ASSUME DiscoveryInv, slice = <<>>, slice' = slice, known' = known, pending' \subseteq Addrs,
           batch' \in Seq(Addrs), phase' = "refine" => batch' = <<>>
    PROVE  DiscoveryInv'
<1>1. DOMAIN slice' = {} OBVIOUS
<1> QED BY <1>1 DEF DiscoveryInv, Idle

LEMMA WalkBatchKeeps ==
    ASSUME DiscoveryInv, WalkSlice
    PROVE  DiscoveryInv'
<1>1. PICK n \in 1 .. Len(batch) :
          /\ slice' = [i \in 1 .. n |-> [at |-> batch[i], cfg |-> RawCfg(Walking(batch[i]))]]
          /\ batch' = SubSeq(batch, n + 1, Len(batch))
    BY DEF WalkSlice
<1>2. /\ batch # <<>> /\ image' = image /\ phase' = phase /\ pending' = pending /\ stop_at' = stop_at
      /\ known' = known /\ data' = data /\ noreturn' = noreturn
    BY DEF WalkSlice
<1>3. batch \in Seq(Addrs) /\ Len(batch) \in Nat /\ n \in Nat BY DEF DiscoveryInv
<1>4. batch' \in Seq(Addrs)
    <2>1. \A i \in n + 1 .. Len(batch) : batch[i] \in Addrs BY <1>3
    <2> QED BY <1>1, <1>3, <2>1, SubSeqProperties
<1>5. \A a : Walking(a)' = Walking(a) BY <1>2 DEF Walking
<1>6. DOMAIN slice' = 1 .. n BY <1>1
<1>7. ASSUME NEW i \in DOMAIN slice'
      PROVE  \E a \in Addrs : slice'[i].at = a /\ slice'[i].cfg = RawCfg(Walking(a)')
    <2>1. PICK a : a = batch[i] OBVIOUS
    <2>2. slice'[i].at = a /\ slice'[i].cfg = RawCfg(Walking(a)) BY <1>1, <1>6, <2>1
    <2>3. a \in Addrs BY <1>3, <1>6, <2>1
    <2>4. RawCfg(Walking(a)') = RawCfg(Walking(a)) BY <1>5
    <2> QED BY <2>2, <2>3, <2>4
<1>8. IsSeq(slice')
    <2>1. slice' = [i \in 1 .. n |-> slice'[i]] BY <1>1
    <2>2. PICK s : s = slice' OBVIOUS
    <2>3. s = [i \in 1 .. n |-> s[i]] BY <2>1, <2>2
    <2>4. IsSeq(s) BY <1>3, <2>3, ListedSeq
    <2> QED BY <2>2, <2>4
<1>9. phase' # "refine" BY <1>2 DEF DiscoveryInv, Idle
<1> QED BY <1>2, <1>4, <1>7, <1>8, <1>9 DEF DiscoveryInv

(* Merging keeps the entries executable. *)
Merging(acc) ==
    /\ acc = [evidence |-> acc.evidence, pending |-> acc.pending, known |-> acc.known]
    /\ acc.pending \subseteq Addrs /\ DOMAIN acc.known \subseteq Addrs

LEMMA MergeWalkKeeps ==
    ASSUME NEW acc, Merging(acc), NEW w, w.at \in Addrs
    PROVE  Merging(MergeWalk(acc, w))
<1>1. PICK e, p, k : acc = [evidence |-> e, pending |-> p, known |-> k] BY DEF Merging
<1>2. acc.evidence = e /\ acc.pending = p /\ acc.known = k BY <1>1
<1>3. p \subseteq Addrs /\ DOMAIN k \subseteq Addrs BY <1>2 DEF Merging
<1>4. \A x : DOMAIN With(k, w.at, x) = DOMAIN k \cup {w.at} BY DEF With
<1>5. Merging(MergeRound(acc, w))
    <2>1. CASE w.cfg.blocks = <<>> BY <2>1 DEF MergeRound
    <2>2. CASE w.cfg.blocks # <<>>
        <3>1. PICK new, x, f :
                  /\ MergeRound(acc, w) = [evidence |-> f, pending |-> p \cup new, known |-> With(k, w.at, x)]
                  /\ new \subseteq Addrs
            BY <1>2, <2>2 DEF MergeRound, IsExecutable
        <3> QED BY <1>3, <1>4, <3>1 DEF Merging
    <2> QED BY <2>1, <2>2
<1>6. Merging(MergeLeftover(acc, w))
    <2>1. CASE w.cfg.blocks = <<>> BY <2>1 DEF MergeLeftover
    <2>2. CASE w.cfg.blocks # <<>>
        <3>1. PICK x, f : MergeLeftover(acc, w) = [acc EXCEPT !.evidence = f, !.known = With(@, w.at, x)]
            BY <2>2 DEF MergeLeftover
        <3>2. PICK u : u = [acc EXCEPT !.evidence = f] OBVIOUS
        <3>3. u = [evidence |-> f, pending |-> p, known |-> k] BY <1>1, <3>2
        <3>4. MergeLeftover(acc, w) = [u EXCEPT !.known = With(k, w.at, x)] BY <1>2, <3>1, <3>2, <3>3
        <3>5. MergeLeftover(acc, w) = [evidence |-> f, pending |-> p, known |-> With(k, w.at, x)] BY <3>3, <3>4
        <3> QED BY <1>3, <1>4, <3>5 DEF Merging
    <2> QED BY <2>1, <2>2
<1>7. Merging(MergeRewalk(acc, w))
    <2>1. CASE w.cfg.blocks = <<>> BY <2>1 DEF MergeRewalk
    <2>2. CASE w.cfg.blocks # <<>>
        <3>1. PICK y : MergeRewalk(acc, w) = [acc EXCEPT !.known[w.at] = y] BY <2>2 DEF MergeRewalk
        <3>2. MergeRewalk(acc, w) = [evidence |-> e, pending |-> p, known |-> [k EXCEPT ![w.at] = y]]
            BY <1>1, <3>1
        <3> QED BY <1>3, <3>2 DEF Merging
    <2> QED BY <2>1, <2>2
<1> QED BY <1>5, <1>6, <1>7 DEF MergeWalk

LEMMA MergedIs ==
    ASSUME NEW N \in Nat, NEW first
    PROVE  LET m[n \in 0 .. N] == IF n = 0 THEN first ELSE MergeWalk(m[n - 1], slice[n])
           IN  m = [n \in 0 .. N |-> IF n = 0 THEN first ELSE MergeWalk(m[n - 1], slice[n])]
<1> DEFINE Is(m, k) == m = [n \in 0 .. k |-> IF n = 0 THEN first ELSE MergeWalk(m[n - 1], slice[n])]
           Good == {k \in Nat : \E m : Is(m, k)}
<1>1. Is([n \in 0 .. 0 |-> first], 0) OBVIOUS
<1>2. ASSUME NEW k \in Nat, NEW m, Is(m, k) PROVE \E v : Is(v, k + 1)
    <2> DEFINE v == [n \in 0 .. k + 1 |-> IF n = k + 1 THEN MergeWalk(m[k], slice[k + 1]) ELSE m[n]]
    <2>1. \A n \in 0 .. k : m[n] = IF n = 0 THEN first ELSE MergeWalk(m[n - 1], slice[n]) BY <1>2
    <2>2. \A n \in 0 .. k : v[n] = m[n] OBVIOUS
    <2>3. v[k + 1] = MergeWalk(v[k], slice[k + 1]) BY <2>2
    <2>4. \A n \in 0 .. k : v[n] = IF n = 0 THEN first ELSE MergeWalk(v[n - 1], slice[n])
        <3> TAKE n \in 0 .. k
        <3>1. n # 0 => n - 1 \in 0 .. k OBVIOUS
        <3> QED BY <2>1, <2>2, <3>1
    <2>5. \A n \in 0 .. k + 1 : v[n] = IF n = 0 THEN first ELSE MergeWalk(v[n - 1], slice[n])
        <3> TAKE n \in 0 .. k + 1
        <3>1. n \in 0 .. k \/ n = k + 1 OBVIOUS
        <3>2. k + 1 # 0 /\ (k + 1) - 1 = k OBVIOUS
        <3> HIDE DEF v
        <3> QED BY <2>3, <2>4, <3>1, <3>2
    <2>6. v = [n \in 0 .. k + 1 |-> v[n]] OBVIOUS
    <2> HIDE DEF v
    <2>7. Is(v, k + 1) BY <2>5, <2>6
    <2> QED BY <2>7
<1>3. Nat \subseteq Good
    <2>1. 0 \in Good BY <1>1
    <2>2. \A n \in Nat : n \in Good => n + 1 \in Good BY <1>2
    <2> HIDE DEF Good
    <2> QED BY <2>1, <2>2, AllNumbers
<1> QED BY <1>3

LEMMA MergeSliceFinds ==
    ASSUME DiscoveryInv, MergeSlice
    PROVE  DiscoveryInv'
<1> DEFINE first == [evidence |-> evidence, pending |-> pending, known |-> known]
           merged[n \in 0 .. Len(slice)] == IF n = 0 THEN first ELSE MergeWalk(merged[n - 1], slice[n])
<1>1. Len(slice) \in Nat /\ DOMAIN slice = 1 .. Len(slice) BY SeqLen DEF DiscoveryInv
<1>2. pending' = merged[Len(slice)].pending /\ known' = merged[Len(slice)].known BY DEF MergeSlice
<1>6. Merging(first) BY DEF Merging, DiscoveryInv
<1> HIDE DEF first
<1>3. merged = [n \in 0 .. Len(slice) |-> IF n = 0 THEN first ELSE MergeWalk(merged[n - 1], slice[n])]
    BY <1>1, MergedIs
<1>4. PICK m : m = merged OBVIOUS
<1> HIDE DEF merged
<1>5. \A n \in 0 .. Len(slice) : m[n] = IF n = 0 THEN first ELSE MergeWalk(m[n - 1], slice[n]) BY <1>3, <1>4
<1> DEFINE Good == {n \in Nat : n <= Len(slice) => Merging(m[n])}
<1>7. 0 \in Good BY <1>1, <1>5, <1>6
<1>8. ASSUME NEW n \in Nat, n \in Good PROVE n + 1 \in Good
    <2>1. SUFFICES ASSUME n + 1 <= Len(slice) PROVE Merging(m[n + 1]) OBVIOUS
    <2>2. n <= Len(slice) /\ n + 1 \in 0 .. Len(slice) /\ n + 1 # 0 /\ (n + 1) - 1 = n /\ n + 1 \in DOMAIN slice
        BY <1>1, <2>1
    <2>3. Merging(m[n]) BY <1>8, <2>2
    <2>4. slice[n + 1].at \in Addrs BY <2>2 DEF DiscoveryInv
    <2>5. m[n + 1] = MergeWalk(m[n], slice[n + 1]) BY <1>5, <2>2
    <2> QED BY <2>3, <2>4, <2>5, MergeWalkKeeps
<1> HIDE DEF Good
<1>9. Len(slice) \in Good BY <1>1, <1>7, <1>8, AllNumbers
<1>10. Merging(m[Len(slice)]) BY <1>1, <1>9 DEF Good
<1>11. pending' \subseteq Addrs /\ DOMAIN known' \subseteq Addrs BY <1>2, <1>4, <1>10 DEF Merging
<1>12. slice' = <<>> /\ batch' = batch /\ phase' = phase BY DEF MergeSlice
<1>13. phase' # "refine"
    <2>1. slice # <<>> BY DEF MergeSlice
    <2> QED BY <1>12, <2>1 DEF DiscoveryInv, Idle
<1>14. DOMAIN slice' = {} BY <1>12
<1> QED BY <1>11, <1>12, <1>13, <1>14, SeqEmpty DEF DiscoveryInv

LEMMA DiscoveryStepKeeps ==
    ASSUME DiscoveryInv, [LiftingNext]_<<vars, dataflow>>
    PROVE  DiscoveryInv'
<1>1. /\ pending \subseteq Addrs /\ batch \in Seq(Addrs) /\ DOMAIN known \subseteq Addrs
    BY DEF DiscoveryInv
<1>2. CASE StartRound
    <2>1. /\ slice = <<>> /\ slice' = slice /\ known' = known /\ pending' = {} /\ phase' = "rounds"
          /\ batch' = InOrder(pending \ DOMAIN known)
        BY <1>2 DEF StartRound, Idle
    <2>2. batch' \in Seq(Addrs) BY <1>1, <2>1, InOrderOfAddrs
    <2> QED BY <2>1, <2>2, NewBatchKeeps
<1>3. CASE WalkSlice BY <1>3, WalkBatchKeeps
<1>4. ASSUME UNCHANGED <<image, phase, discovery>> PROVE DiscoveryInv'
    <2>1. /\ image' = image /\ phase' = phase /\ pending' = pending /\ batch' = batch /\ slice' = slice
          /\ stop_at' = stop_at /\ known' = known /\ data' = data /\ noreturn' = noreturn
        BY <1>4 DEF discovery
    <2>2. \A a : Walking(a)' = Walking(a) BY <2>1 DEF Walking
    <2>3. ASSUME NEW i \in DOMAIN slice
          PROVE  \E a \in Addrs : slice[i].at = a /\ slice[i].cfg = RawCfg(Walking(a)')
        <3>1. PICK a \in Addrs : slice[i].at = a /\ slice[i].cfg = RawCfg(Walking(a)) BY DEF DiscoveryInv
        <3>2. Walking(a)' = Walking(a) BY <2>2
        <3> QED BY <3>1, <3>2
    <2> QED BY <2>1, <2>3 DEF DiscoveryInv, Idle
<1>5. CASE InternSlice BY <1>4, <1>5 DEF InternSlice
<1>6. CASE MergeSlice BY <1>6, MergeSliceFinds
<1>7. CASE ScanGaps
    <2>1. /\ slice = <<>> /\ slice' = slice /\ known' = known /\ pending' = pending
          /\ batch' = InOrder(Prologues(Data))
          /\ phase' = IF Prologues(Data) = {} THEN "refine" ELSE "leftovers"
        BY <1>7 DEF ScanGaps, Idle
    <2>2. Prologues(Data) \subseteq Addrs BY DEF Prologues
    <2>3. batch' \in Seq(Addrs) BY <2>1, <2>2, InOrderOfAddrs
    <2>4. phase' = "refine" => batch' = <<>>
        <3>1. SUFFICES ASSUME Prologues(Data) = {} PROVE batch' = <<>> BY <2>1
        <3>2. InOrder({}) \in Seq({}) /\ Len(InOrder({})) = 0 BY InOrderLists, FS_EmptySet
        <3>3. InOrder({}) = <<>> BY <3>2, EmptySeq
        <3> QED BY <2>1, <3>1, <3>3
    <2> QED BY <1>1, <2>1, <2>3, <2>4, NewBatchKeeps
<1>8. CASE EndLeftovers
    <2>1. /\ slice = <<>> /\ batch = <<>> /\ slice' = slice /\ batch' = batch /\ known' = known
          /\ pending' = pending
        BY <1>8 DEF EndLeftovers, Idle, discovery
    <2> QED BY <1>1, <2>1, NewBatchKeeps
<1>9. CASE Refine
    <2>1. /\ slice = <<>> /\ slice' = slice /\ known' = known /\ pending' = pending /\ phase' = "rewalk"
        BY <1>9 DEF Refine, DiscoveryInv, Idle
    <2>2. PICK S : batch' = InOrder(S) /\ S \subseteq DOMAIN known BY <1>9 DEF Refine
    <2>3. batch' \in Seq(Addrs) BY <1>1, <2>2, InOrderOfAddrs
    <2> QED BY <1>1, <2>1, <2>3, NewBatchKeeps
<1>10. CASE Finish
    <2>1. /\ slice = <<>> /\ phase' = "done" /\ slice' = slice /\ batch' = batch /\ known' = known
          /\ pending' = pending
        BY <1>10 DEF Finish, Idle, discovery
    <2> QED BY <1>1, <2>1, NewBatchKeeps
<1>11. CASE UNCHANGED vars BY <1>4, <1>11 DEF vars
<1>12. CASE LiftFunction
    <2>1. UNCHANGED vars BY <1>12 DEF LiftFunction
    <2> QED BY <1>11, <2>1
<1>13. CASE UNCHANGED <<vars, dataflow>>
    <2>1. UNCHANGED vars BY <1>13
    <2> QED BY <1>11, <2>1
<1> QED BY <1>2, <1>3, <1>5, <1>6, <1>7, <1>8, <1>9, <1>10, <1>11, <1>12, <1>13 DEF LiftingNext, Next


-----------------------------------------------------------------------------
(* A function that is published reads the blocks its walk found, for every     *)
(* program, every hash of blocks to numbers and every size of the index        *)
(* (cfg.rs:71-74, 192).                                                        *)
THEOREM AlwaysReadsBack ==
    ASSUME HashIsNumber
    PROVE  LiftingSpec => []ReadsBack
<1>1. LiftingInit => RecoveryInv BY SliceStarts DEF LiftingInit
<1>2. RecoveryInv /\ [LiftingNext]_<<vars, dataflow>> => RecoveryInv' BY RecoveryStepKeeps
<1>3. RecoveryInv => ReadsBack BY TableReadsBack DEF RecoveryInv
<1> QED BY <1>1, <1>2, <1>3, PTL DEF LiftingSpec

(* No block has two entries, and the index always has a free slot, where the   *)
(* search for a block ends (cfg.rs:209, 262).                                  *)
THEOREM AlwaysHeldOnce ==
    ASSUME HashIsNumber
    PROVE  LiftingSpec => []HeldOnce
<1>1. LiftingInit => RecoveryInv BY SliceStarts DEF LiftingInit
<1>2. RecoveryInv /\ [LiftingNext]_<<vars, dataflow>> => RecoveryInv' BY RecoveryStepKeeps
<1>3. RecoveryInv => HeldOnce BY TableHoldsOnce DEF RecoveryInv
<1> QED BY <1>1, <1>2, <1>3, PTL DEF LiftingSpec

(* The walks of every slice find what they should: the instructions that       *)
(* control reaches, each in one block, with every edge from a last instruction *)
(* to a first, for every image, and every cap (cfg.rs:532-716).                *)
THEOREM WalkIsAlwaysExact == LiftingSpec => []WalkIsExact
<1>1. LiftingInit => DiscoveryInv BY DiscoveryStarts DEF LiftingInit
<1>2. DiscoveryInv /\ [LiftingNext]_<<vars, dataflow>> => DiscoveryInv' BY DiscoveryStepKeeps
<1>3. ASSUME DiscoveryInv PROVE WalkIsExact
    <2>1. SUFFICES ASSUME NEW i \in DOMAIN slice
                   PROVE  ExactBlocks(Walking(slice[i].at), slice[i].cfg)
        BY DEF WalkIsExact
    <2>2. PICK c : c = Walking(slice[i].at) OBVIOUS
    <2>3. slice[i].at \in Addrs /\ slice[i].cfg = RawCfg(c) BY <1>3, <2>2 DEF DiscoveryInv
    <2>4. c.entry \in Addrs BY <2>2, <2>3 DEF Walking
    <2> QED BY <2>2, <2>3, <2>4, WalkFindsBlocks
<1> QED BY <1>1, <1>2, <1>3, PTL DEF LiftingSpec

-----------------------------------------------------------------------------
(* The run of the entry, once it is there, is not empty. *)
EntryRuns(c, w) == "ends" \in DOMAIN w /\ c.entry \in DOMAIN w.ends /\ w.ends[c.entry].end > c.entry

LEMMA EntryTaken ==
    ASSUME NEW c, c.entry \in Addrs, Runs(c, c.entry)
    PROVE  EntryRuns(c, WalkOne(c, Start(c)))
<1>1. PICK w : w = Start(c) OBVIOUS
<1>2. /\ w.work = <<c.entry>> /\ DOMAIN w.ends = {} /\ w.budget = InsnCap
    <2>1. w.ends = <<>> BY <1>1 DEF Start
    <2> QED BY <1>1, <2>1 DEF Start
<1>3. PICK e : e = c.entry OBVIOUS
<1>4. e \in Nat /\ e \in Addrs BY <1>3, AddrsAreNumbers
<1>5. w.work[Len(w.work)] = e BY <1>2, <1>3
<1>6. PICK a : a = StopsAt(c, w, e) OBVIOUS
<1>7. a \in e .. LastAddr + 1 /\ StopsHere(c, w, e, a) BY <1>4, <1>6, StopsFirst
<1>8. ~Capped(w, e, e) /\ ~Joins(w, e, e) /\ ~Stuck(c, e)
    <2>1. ~(e - e >= InsnCap) BY <1>4, CapsAssumption
    <2> QED BY <1>2, <1>3, <2>1 DEF Capped, Joins, Stuck, Runs
<1>9. a \in Nat /\ e <= a BY <1>4, <1>7, AddrsAreNumbers
<1>10. PICK r : r = Run(c, w, e) OBVIOUS
<1>11. r.run.end > e
    <2>1. CASE a = e
        <3>1. r.run = [end |-> a + 1, successors |-> Successors(c, a), term |-> Terminator(c, a)]
            BY <1>6, <1>8, <1>10, <2>1 DEF Run
        <3>2. r.run.end = a + 1 BY <3>1
        <3> QED BY <1>9, <2>1, <3>2
    <2>2. CASE a # e
        <3>1. r.run.end = a \/ r.run.end = a + 1 BY <1>6, <1>10 DEF Run
        <3> QED BY <1>4, <1>9, <2>2, <3>1
    <2> QED BY <2>1, <2>2
<1>12. ~(Cardinality(DOMAIN w.ends) >= BlockCap)
    <2>1. Cardinality(DOMAIN w.ends) = 0 BY <1>2, FS_EmptySet
    <2> QED BY <2>1, CapsAssumption
<1>13. WalkOne(c, w) = Taken(c, w, e, r) BY <1>2, <1>5, <1>10, <1>12 DEF WalkOne
<1>14. PICK v : v = Taken(c, w, e, r) OBVIOUS
<1>15. v.ends = [s \in {} \cup {e} |-> IF s = e THEN r.run ELSE w.ends[s]] /\ "ends" \in DOMAIN v
    BY <1>2, <1>14 DEF Taken, Extend
<1>16. DOMAIN v.ends = {e} /\ v.ends[e] = r.run BY <1>15
<1> QED BY <1>1, <1>3, <1>11, <1>13, <1>14, <1>15, <1>16 DEF EntryRuns

LEMMA EntryKept ==
    ASSUME NEW c, NEW w, EntryRuns(c, w)
    PROVE  EntryRuns(c, WalkTurn(c, w))
<1> DEFINE start == w.work[Len(w.work)]
           r == Run(c, w, start)
           taken == Extend(c, w, start, r.run, r.halt)
           popped == [w EXCEPT !.work = Front(@)]
           full == [w EXCEPT !.work = <<>>, !.halt = "BlockCap"]
<1>1. WalkTurn(c, w) = w \/ WalkTurn(c, w) = popped \/ WalkTurn(c, w) = full
      \/ (start \notin DOMAIN w.ends /\ WalkTurn(c, w) = taken)
    <2>1. CASE w.work = <<>> BY <2>1 DEF WalkTurn
    <2>2. CASE w.work # <<>> /\ start \in DOMAIN w.ends BY <2>2 DEF WalkTurn, WalkOne
    <2>3. CASE w.work # <<>> /\ start \notin DOMAIN w.ends
        <3>1. WalkTurn(c, w) = WalkOne(c, w) BY <2>3 DEF WalkTurn
        <3>2. WalkOne(c, w) = full \/ WalkOne(c, w) = taken BY <2>3 DEF WalkOne, Taken
        <3> QED BY <2>3, <3>1, <3>2
    <2> QED BY <2>1, <2>2, <2>3
<1>2. EntryRuns(c, popped) /\ EntryRuns(c, full) BY DEF EntryRuns
<1>3. ASSUME start \notin DOMAIN w.ends PROVE EntryRuns(c, taken)
    <2>1. /\ taken.ends = [s \in DOMAIN w.ends \cup {start} |-> IF s = start THEN r.run ELSE w.ends[s]]
          /\ "ends" \in DOMAIN taken
        BY DEF Extend
    <2> HIDE DEF taken, start
    <2>2. c.entry # start BY <1>3 DEF EntryRuns
    <2> QED BY <2>1, <2>2 DEF EntryRuns
<1> HIDE DEF taken, start, popped, full
<1> QED BY <1>1, <1>2, <1>3

(* A walk finds blocks if an instruction runs at its entry, and only then; and *)
(* the entry is in one of them.                                                *)
LEMMA EntryIsWalked ==
    ASSUME NEW c, c.entry \in Addrs
    PROVE  /\ Runs(c, c.entry) => c.entry \in Covers(ToSet(RawCfg(c).blocks)) /\ RawCfg(c).blocks # <<>>
           /\ ~Runs(c, c.entry) => RawCfg(c).blocks = <<>>
<1>1. PICK w : w = Walked(c) OBVIOUS
<1>2. WalkInv(c, w) BY <1>1, WalkFinishes
<1>3. PICK bs : bs = RawCfg(c).blocks OBVIOUS
<1>4. ToSet(bs) = {BlockAt(w, s) : s \in Starts(w)} BY <1>1, <1>2, <1>3, BlocksOfStarts
<1>5. DOMAIN w.ends \subseteq Nat BY <1>2, AddrsAreNumbers DEF WalkInv, WalkShape
<1>6. ASSUME NEW s \in Starts(w) PROVE s \in Covers(ToSet(bs))
    <2>1. s \in DOMAIN w.ends /\ s \in Nat BY <1>5 DEF Starts
    <2>2. CutInv(c, w, s) BY <1>2, <2>1, CutIs
    <2>3. Cut(w, s).end \in Nat /\ Cut(w, s).end > s BY <2>2 DEF CutInv, Starts
    <2>4. PICK b : b = BlockAt(w, s) OBVIOUS
    <2>5. b.at = s /\ b.end = Cut(w, s).end BY <2>4 DEF BlockAt
    <2>6. s \in b.at .. b.end - 1 BY <2>1, <2>3, <2>5
    <2>7. b \in ToSet(bs) BY <1>4, <2>4
    <2> QED BY <2>6, <2>7 DEF Covers
<1>7. ASSUME Runs(c, c.entry) PROVE c.entry \in Covers(ToSet(bs)) /\ bs # <<>>
    <2>1. Turns \in Nat /\ 1 <= Turns
        <3>1. LastAddr * LastAddr \in Nat BY CapsAssumption
        <3> QED BY <3>1 DEF Turns
    <2>2. PICK t : t = [n \in 0 .. Turns |-> IF n = 0 THEN Start(c) ELSE WalkTurn(c, t[n - 1])] /\ Walked(c) = t[Turns]
        BY <2>1, WalkedIs DEF Walked, WalkTurn
    <2> DEFINE Good == {n \in Nat : n + 1 <= Turns => EntryRuns(c, t[n + 1])}
    <2>3. 0 \in Good
        <3>1. 0 \in 0 .. Turns /\ 1 \in 0 .. Turns /\ 0 + 1 = 1 /\ 1 - 1 = 0 BY <2>1
        <3>2. t[0] = Start(c) /\ t[1] = WalkTurn(c, t[0]) BY <2>2, <3>1
        <3>3. Start(c).work # <<>> BY DEF Start
        <3>4. t[1] = WalkOne(c, Start(c)) BY <3>2, <3>3 DEF WalkTurn
        <3> QED BY <1>7, <3>1, <3>4, EntryTaken
    <2>4. ASSUME NEW n \in Nat, n \in Good PROVE n + 1 \in Good
        <3>1. SUFFICES ASSUME (n + 1) + 1 <= Turns PROVE EntryRuns(c, t[(n + 1) + 1]) OBVIOUS
        <3>2. (n + 1) + 1 \in 0 .. Turns /\ (n + 1) + 1 # 0 /\ ((n + 1) + 1) - 1 = n + 1 /\ n + 1 <= Turns
            BY <2>1, <3>1
        <3>3. t[(n + 1) + 1] = WalkTurn(c, t[n + 1]) BY <2>2, <3>2
        <3> QED BY <2>4, <3>2, <3>3, EntryKept
    <2> HIDE DEF Good
    <2>5. Turns - 1 \in Nat /\ (Turns - 1) + 1 = Turns BY <2>1
    <2>6. Turns - 1 \in Good BY <2>3, <2>4, <2>5, AllNumbers
    <2>7. EntryRuns(c, w) BY <1>1, <2>2, <2>5, <2>6 DEF Good
    <2>8. c.entry \in Starts(w) BY <2>7 DEF EntryRuns, Starts
    <2>9. c.entry \in Covers(ToSet(bs)) BY <1>6, <2>8
    <2>10. bs # <<>>
        <3>1. ToSet(<<>>) = {} BY DEF ToSet
        <3> QED BY <2>9, <3>1 DEF Covers
    <2> QED BY <2>9, <2>10
<1>8. ASSUME ~Runs(c, c.entry) PROVE bs = <<>>
    <2>1. IsClosed(c, {}) BY DEF IsClosed
    <2>2. Reachable(c) = {} BY <1>8, <2>1, ReachableIsLeast
    <2>3. Covers(ToSet(bs)) = {}
        <3>1. ExactBlocks(c, RawCfg(c)) BY WalkFindsBlocks
        <3> QED BY <1>3, <2>2, <3>1 DEF ExactBlocks
    <2>4. Starts(w) = {} BY <1>6, <2>3
    <2>5. ToSet(bs) = {} BY <1>4, <2>4
    <2>6. IsSeq(bs) BY <1>3, BlocksAreListed
    <2>7. Len(bs) \in Nat /\ DOMAIN bs = 1 .. Len(bs) BY <2>6, SeqLen
    <2>8. Len(bs) = 0
        <3>1. ASSUME Len(bs) # 0 PROVE FALSE
            <4>1. 1 \in DOMAIN bs BY <2>7, <3>1
            <4>2. bs[1] \in ToSet(bs) BY <4>1 DEF ToSet
            <4> QED BY <2>5, <4>2
        <3> QED BY <3>1
    <2> QED BY <2>6, <2>8, SeqEmpty
<1> QED BY <1>3, <1>7, <1>8

(* When fewer entries stop a walk, but where nothing runs, and more functions  *)
(* never return, it reaches no instruction that it did not.                    *)
Rewalk(i, a, stop, never) == [image |-> i, entry |-> a, stop_at |-> stop, noreturn |-> never, data |-> {}]

LEMMA WalkShrinks ==
    ASSUME NEW i, NEW a \in Addrs, NEW seen, NEW stop, NEW never,
           \A t \in (seen \ stop) \cap Addrs : Round(i, t, {}).blocks = <<>>,
           ~IsCapped(Round(i, a, seen))
    PROVE  Covers(ToSet(RawCfg(Rewalk(i, a, stop, never)).blocks)) \subseteq Covers(ToSet(Round(i, a, seen).blocks))
<1>1. PICK c : c = Rewalk(i, a, seen, {}) OBVIOUS
<1>2. PICK d : d = Rewalk(i, a, stop, never) OBVIOUS
<1>3. Round(i, a, seen) = RawCfg(c) BY <1>1 DEF Round, Rewalk
<1>4. /\ c.image = i /\ c.entry = a /\ c.stop_at = seen /\ c.noreturn = {} /\ c.data = {}
      /\ d.image = i /\ d.entry = a /\ d.stop_at = stop /\ d.noreturn = never /\ d.data = {}
    BY <1>1, <1>2 DEF Rewalk
<1>5. \A x : Runs(d, x) <=> Runs(c, x) BY <1>4 DEF Runs, Decodes
<1>6. ASSUME NEW t \in seen \ stop PROVE ~Runs(c, t)
    <2>1. SUFFICES ASSUME Runs(c, t) PROVE FALSE OBVIOUS
    <2>2. t \in Addrs BY <2>1 DEF Runs, Decodes, IsExecutable
    <2>3. PICK e : e = Rewalk(i, t, {}, {}) OBVIOUS
    <2>4. e.image = i /\ e.entry = t /\ e.data = {} BY <2>3 DEF Rewalk
    <2>5. Runs(e, e.entry) BY <1>4, <2>1, <2>4 DEF Runs, Decodes
    <2>6. RawCfg(e).blocks # <<>> BY <2>2, <2>4, <2>5, EntryIsWalked
    <2>7. Round(i, t, {}) = RawCfg(e) BY <2>3 DEF Round, Rewalk
    <2> QED BY <2>2, <2>6, <2>7
<1>7. \A x : TailTargets(c, x) \subseteq TailTargets(d, x) \cup (seen \ stop) BY <1>4 DEF TailTargets
<1>8. ASSUME NEW x PROVE Executed(d, Successors(d, x)) \subseteq Successors(c, x)
    <2>1. PICK f : f = i[x].flow OBVIOUS
    <2>2. PICK to : to = i[x].to OBVIOUS
    <2>3. CASE f = "call"
        <3>1. to \subseteq c.noreturn => to \subseteq d.noreturn BY <1>4
        <3>2. Successors(d, x) = {} \/ (Successors(d, x) = {x + 1} /\ ~(to \subseteq d.noreturn))
            BY <1>4, <2>1, <2>2, <2>3 DEF Successors, EndsBlock
        <3>3. ~(to \subseteq c.noreturn) => Successors(c, x) = {x + 1}
            BY <1>4, <2>1, <2>2, <2>3 DEF Successors, EndsBlock
        <3> QED BY <3>1, <3>2, <3>3 DEF Executed
    <2>4. CASE f \in {"ret", "trap", "switch"}
        <3>1. Successors(d, x) = Successors(c, x) BY <1>4, <2>1, <2>4 DEF Successors, EndsBlock
        <3> QED BY <3>1 DEF Executed
    <2>5. CASE f = "jump"
        <3>1. Successors(d, x) = to \ TailTargets(d, x) BY <1>4, <2>1, <2>2, <2>5 DEF Successors, EndsBlock
        <3>2. Successors(c, x) = to \ TailTargets(c, x) BY <1>4, <2>1, <2>2, <2>5 DEF Successors, EndsBlock
        <3> QED BY <1>5, <1>6, <1>7, <3>1, <3>2 DEF Executed
    <2>6. CASE f = "cond"
        <3>1. Successors(d, x) = (to \ TailTargets(d, x)) \cup {x + 1}
            BY <1>4, <2>1, <2>2, <2>6 DEF Successors, EndsBlock
        <3>2. Successors(c, x) = (to \ TailTargets(c, x)) \cup {x + 1}
            BY <1>4, <2>1, <2>2, <2>6 DEF Successors, EndsBlock
        <3> QED BY <1>5, <1>6, <1>7, <3>1, <3>2 DEF Executed
    <2>7. CASE f \notin {"call", "ret", "trap", "switch", "jump", "cond"}
        <3>1. Successors(d, x) = {x + 1} BY <1>4, <2>1, <2>7 DEF Successors, EndsBlock
        <3>2. Successors(c, x) = {x + 1} BY <1>4, <2>1, <2>7 DEF Successors, EndsBlock
        <3> QED BY <3>1, <3>2 DEF Executed
    <2> QED BY <2>3, <2>4, <2>5, <2>6, <2>7
<1>9. (Runs(c, a) => a \in Reachable(c)) /\ IsClosed(c, Reachable(c)) BY <1>4, ReachableIsClosed
<1>10. IsClosed(d, Reachable(c))
    <2>1. SUFFICES ASSUME NEW x \in Reachable(c), NEW t \in Executed(d, Successors(d, x)) PROVE t \in Reachable(c)
        BY DEF IsClosed
    <2>2. t \in Executed(c, Successors(c, x)) BY <1>5, <1>8 DEF Executed
    <2> QED BY <1>9, <2>2 DEF IsClosed
<1>11. Reachable(d) \subseteq Reachable(c) BY <1>4, <1>5, <1>9, <1>10, ReachableIsLeast
<1>12. ExactBlocks(c, RawCfg(c)) /\ ExactBlocks(d, RawCfg(d)) BY <1>4, WalkFindsBlocks
<1>13. Covers(ToSet(RawCfg(c).blocks)) = Reachable(c) BY <1>3, <1>12 DEF ExactBlocks
<1>14. Covers(ToSet(RawCfg(d).blocks)) \subseteq Reachable(d) BY <1>12 DEF ExactBlocks
<1> QED BY <1>2, <1>3, <1>11, <1>13, <1>14

-----------------------------------------------------------------------------
(* The rounds, one from the other. *)
LEMMA RoundsFollow ==
    ASSUME NEW i, NEW h, NEW N \in Nat
    PROVE  LET r[n \in 0 .. N] == IF n = 0 THEN FirstRound(h) ELSE NextRound(i, r[n - 1])
           IN  r = [n \in 0 .. N |-> IF n = 0 THEN FirstRound(h) ELSE NextRound(i, r[n - 1])]
<1> DEFINE Is(r, m) == r = [n \in 0 .. m |-> IF n = 0 THEN FirstRound(h) ELSE NextRound(i, r[n - 1])]
           Good == {m \in Nat : \E r : Is(r, m)}
<1>1. Is([n \in 0 .. 0 |-> FirstRound(h)], 0) OBVIOUS
<1>2. ASSUME NEW m \in Nat, NEW r, Is(r, m) PROVE \E v : Is(v, m + 1)
    <2> DEFINE v == [n \in 0 .. m + 1 |-> IF n = m + 1 THEN NextRound(i, r[m]) ELSE r[n]]
    <2>1. \A n \in 0 .. m : r[n] = IF n = 0 THEN FirstRound(h) ELSE NextRound(i, r[n - 1]) BY <1>2
    <2>2. \A n \in 0 .. m : v[n] = r[n] OBVIOUS
    <2>3. v[m + 1] = NextRound(i, v[m]) BY <2>2
    <2>4. \A n \in 0 .. m : v[n] = IF n = 0 THEN FirstRound(h) ELSE NextRound(i, v[n - 1])
        <3> TAKE n \in 0 .. m
        <3>1. n # 0 => n - 1 \in 0 .. m OBVIOUS
        <3> QED BY <2>1, <2>2, <3>1
    <2>5. \A n \in 0 .. m + 1 : v[n] = IF n = 0 THEN FirstRound(h) ELSE NextRound(i, v[n - 1])
        <3> TAKE n \in 0 .. m + 1
        <3>1. n \in 0 .. m \/ n = m + 1 OBVIOUS
        <3>2. m + 1 # 0 /\ (m + 1) - 1 = m OBVIOUS
        <3> HIDE DEF v
        <3> QED BY <2>3, <2>4, <3>1, <3>2
    <2>6. v = [n \in 0 .. m + 1 |-> v[n]] OBVIOUS
    <2> HIDE DEF v
    <2>7. Is(v, m + 1) BY <2>5, <2>6
    <2> QED BY <2>7
<1>3. Nat \subseteq Good
    <2>1. 0 \in Good BY <1>1
    <2>2. \A n \in Nat : n \in Good => n + 1 \in Good BY <1>2
    <2> HIDE DEF Good
    <2> QED BY <2>1, <2>2, AllNumbers
<1> QED BY <1>3

LEMMA RoundsAre ==
    ASSUME NEW i, NEW h
    PROVE  /\ RoundsOf(i, h)[0] = FirstRound(h)
           /\ \A n \in Nat : n + 1 <= LastAddr => RoundsOf(i, h)[n + 1] = NextRound(i, RoundsOf(i, h)[n])
<1>1. LastAddr \in Nat BY CapsAssumption
<1>2. PICK r : /\ r = [n \in 0 .. LastAddr |-> IF n = 0 THEN FirstRound(h) ELSE NextRound(i, r[n - 1])]
               /\ RoundsOf(i, h) = r
    <2> DEFINE f[n \in 0 .. LastAddr] == IF n = 0 THEN FirstRound(h) ELSE NextRound(i, f[n - 1])
    <2>1. f = [n \in 0 .. LastAddr |-> IF n = 0 THEN FirstRound(h) ELSE NextRound(i, f[n - 1])]
        BY <1>1, RoundsFollow
    <2>2. RoundsOf(i, h) = f BY DEF RoundsOf
    <2> HIDE DEF f
    <2> QED BY <2>1, <2>2
<1>3. r[0] = FirstRound(h) BY <1>1, <1>2
<1>4. ASSUME NEW n \in Nat, n + 1 <= LastAddr PROVE r[n + 1] = NextRound(i, r[n])
    <2>1. n + 1 \in 0 .. LastAddr /\ n + 1 # 0 /\ (n + 1) - 1 = n BY <1>1, <1>4
    <2> QED BY <1>2, <2>1
<1> QED BY <1>2, <1>3, <1>4

(* What a round knows: the entries it has seen, of which the last wait, and of *)
(* the others the walks.                                                       *)
RoundShape(i, r) ==
    /\ r.seen \subseteq Addrs /\ r.last \subseteq r.seen /\ DOMAIN r.cfgs = r.seen \ r.last
    /\ \A a \in DOMAIN r.cfgs : \E s \in SUBSET r.seen : r.cfgs[a] = Round(i, a, s)

(* The round r when the entries W are walked. *)
SoFar(i, r, W) == WithRound(r, [a \in W |-> Round(i, a, r.seen)])
Leads(cfg) == IF cfg.blocks = <<>> THEN {} ELSE {t \in cfg.calls : IsExecutable(t)}

LEMMA SoFarIs ==
    ASSUME NEW i, NEW r, RoundShape(i, r), NEW W \in SUBSET r.last
    PROVE  /\ SoFar(i, r, W).seen = r.seen \cup UNION {Leads(Round(i, a, r.seen)) : a \in W}
           /\ SoFar(i, r, W).last = (UNION {Leads(Round(i, a, r.seen)) : a \in W}) \ r.seen
           /\ DOMAIN SoFar(i, r, W).cfgs = DOMAIN r.cfgs \cup W
           /\ \A a \in DOMAIN r.cfgs : SoFar(i, r, W).cfgs[a] = r.cfgs[a]
           /\ \A a \in W : SoFar(i, r, W).cfgs[a] = Round(i, a, r.seen) /\ a \notin DOMAIN r.cfgs
<1>1. PICK f : f = [a \in W |-> Round(i, a, r.seen)] OBVIOUS
<1>2. DOMAIN f = W /\ \A a \in W : f[a] = Round(i, a, r.seen) BY <1>1
<1>3. SoFar(i, r, W) = [seen |-> r.seen \cup CalledFrom(f), last |-> CalledFrom(f) \ r.seen, cfgs |-> Combined(r.cfgs, f)]
    <2>1. SoFar(i, r, W) = WithRound(r, f) BY <1>1 DEF SoFar
    <2> QED BY <2>1 DEF WithRound
<1>4. CalledFrom(f) = UNION {Leads(Round(i, a, r.seen)) : a \in W}
    <2>1. \A a \in W : f[a].blocks # <<>> => {t \in f[a].calls : IsExecutable(t)} = Leads(Round(i, a, r.seen))
        BY <1>2 DEF Leads
    <2>2. \A a \in W : f[a].blocks = <<>> => Leads(Round(i, a, r.seen)) = {} BY <1>2 DEF Leads
    <2> QED BY <1>2, <2>1, <2>2 DEF CalledFrom
<1>5. \A a \in W : a \notin DOMAIN r.cfgs BY DEF RoundShape
<1>6. /\ DOMAIN Combined(r.cfgs, f) = DOMAIN r.cfgs \cup W
      /\ \A a \in DOMAIN r.cfgs : Combined(r.cfgs, f)[a] = r.cfgs[a]
      /\ \A a \in W : Combined(r.cfgs, f)[a] = Round(i, a, r.seen)
    BY <1>2, <1>5 DEF Combined
<1> QED BY <1>3, <1>4, <1>5, <1>6

LEMMA RoundShaped ==
    ASSUME NEW i, NEW r, RoundShape(i, r)
    PROVE  RoundShape(i, NextRound(i, r))
<1>1. NextRound(i, r) = SoFar(i, r, r.last) BY DEF NextRound, SoFar
<1>2. PICK v : v = SoFar(i, r, r.last) OBVIOUS
<1>3. PICK more : more = UNION {Leads(Round(i, a, r.seen)) : a \in r.last} OBVIOUS
<1>4. /\ v.seen = r.seen \cup more /\ v.last = more \ r.seen /\ DOMAIN v.cfgs = DOMAIN r.cfgs \cup r.last
      /\ \A a \in DOMAIN r.cfgs : v.cfgs[a] = r.cfgs[a]
      /\ \A a \in r.last : v.cfgs[a] = Round(i, a, r.seen)
    BY <1>2, <1>3, SoFarIs
<1>5. more \subseteq Addrs
    <2>1. \A cfg : Leads(cfg) \subseteq Addrs BY DEF Leads, IsExecutable
    <2> QED BY <1>3, <2>1
<1>6. ASSUME NEW a \in DOMAIN v.cfgs PROVE \E s \in SUBSET v.seen : v.cfgs[a] = Round(i, a, s)
    <2>1. CASE a \in DOMAIN r.cfgs
        <3>1. PICK s \in SUBSET r.seen : r.cfgs[a] = Round(i, a, s) BY <2>1 DEF RoundShape
        <3> QED BY <1>4, <2>1, <3>1
    <2>2. CASE a \in r.last BY <1>4, <2>2
    <2> QED BY <1>4, <2>1, <2>2
<1> QED BY <1>1, <1>2, <1>4, <1>5, <1>6 DEF RoundShape

LEMMA RoundsShaped ==
    ASSUME NEW i, NEW h, DOMAIN h \subseteq Addrs, NEW n \in 0 .. LastAddr
    PROVE  RoundShape(i, RoundsOf(i, h)[n])
<1> DEFINE Good == {m \in Nat : m <= LastAddr => RoundShape(i, RoundsOf(i, h)[m])}
<1>1. LastAddr \in Nat BY CapsAssumption
<1>2. 0 \in Good
    <2>1. PICK r : r = FirstRound(h) OBVIOUS
    <2>2. r.seen = DOMAIN h /\ r.last = DOMAIN h /\ r.cfgs = <<>> BY <2>1 DEF FirstRound
    <2>3. RoundShape(i, r) BY <2>2 DEF RoundShape
    <2> QED BY <2>1, <2>3, RoundsAre
<1>3. ASSUME NEW m \in Nat, m \in Good PROVE m + 1 \in Good
    <2>1. SUFFICES ASSUME m + 1 <= LastAddr PROVE RoundShape(i, RoundsOf(i, h)[m + 1]) OBVIOUS
    <2>2. RoundShape(i, RoundsOf(i, h)[m]) BY <1>1, <1>3, <2>1
    <2> QED BY <2>1, <2>2, RoundsAre, RoundShaped
<1> HIDE DEF Good
<1>4. n \in Good BY <1>2, <1>3, AllNumbers
<1> QED BY <1>4 DEF Good

(* Rounds see more entries each time until none waits, and then no more come.  *)
LEMMA RoundsEnd ==
    ASSUME NEW i, NEW h, DOMAIN h \subseteq Addrs, NEW n \in 0 .. LastAddr
    PROVE  /\ RoundsOf(i, h)[n].last # {} => n + 1 <= LastAddr
           /\ RoundsOf(i, h)[LastAddr].last = {}
           /\ RoundsOf(i, h)[n].last = {} =>
                  /\ DOMAIN RoundsOf(i, h)[LastAddr].cfgs = DOMAIN RoundsOf(i, h)[n].cfgs
                  /\ \A a \in DOMAIN RoundsOf(i, h)[n].cfgs :
                         RoundsOf(i, h)[LastAddr].cfgs[a] = RoundsOf(i, h)[n].cfgs[a]
<1>1. LastAddr \in Nat BY CapsAssumption
<1>2. PICK r : r = RoundsOf(i, h) OBVIOUS
<1>3. \A m \in 0 .. LastAddr : RoundShape(i, r[m]) BY <1>2, RoundsShaped
<1> DEFINE more(m) == UNION {Leads(Round(i, a, r[m].seen)) : a \in r[m].last}
<1>4. ASSUME NEW m \in Nat, m + 1 <= LastAddr
      PROVE  /\ r[m + 1].seen = r[m].seen \cup more(m) /\ r[m + 1].last = more(m) \ r[m].seen
             /\ DOMAIN r[m + 1].cfgs = DOMAIN r[m].cfgs \cup r[m].last
             /\ \A a \in DOMAIN r[m].cfgs : r[m + 1].cfgs[a] = r[m].cfgs[a]
    <2>1. m \in 0 .. LastAddr BY <1>1, <1>4
    <2>2. PICK v : v = r[m] OBVIOUS
    <2>3. RoundShape(i, v) BY <1>3, <2>1, <2>2
    <2>4. r[m + 1] = SoFar(i, v, v.last) BY <1>2, <1>4, <2>2, RoundsAre DEF NextRound, SoFar
    <2> QED BY <2>2, <2>3, <2>4, SoFarIs
<1>5. \A m : r[m].last = {} => more(m) = {} OBVIOUS
<1> HIDE DEF more
<1> DEFINE Grown == {m \in Nat : m <= LastAddr /\ r[m].last # {} => Cardinality(r[m].seen) >= m + 1}
<1>6. \A m \in 0 .. LastAddr : IsFiniteSet(r[m].seen) /\ Cardinality(r[m].seen) \in Nat /\ Cardinality(r[m].seen) <= LastAddr
    BY <1>3, AddrsAreNumbers, FS_Subset, FS_CardinalityType DEF RoundShape
<1>7. 0 \in Grown
    <2>1. SUFFICES ASSUME r[0].last # {} PROVE Cardinality(r[0].seen) >= 0 + 1 OBVIOUS
    <2>2. 0 \in 0 .. LastAddr BY <1>1
    <2>3. r[0].seen # {} BY <1>3, <2>1, <2>2 DEF RoundShape
    <2>4. Cardinality(r[0].seen) # 0 BY <1>6, <2>2, <2>3, FS_EmptySet
    <2> QED BY <1>6, <2>2, <2>4
<1>8. ASSUME NEW m \in Nat, m \in Grown PROVE m + 1 \in Grown
    <2>1. SUFFICES ASSUME m + 1 <= LastAddr, r[m + 1].last # {} PROVE Cardinality(r[m + 1].seen) >= (m + 1) + 1
        OBVIOUS
    <2>2. m <= LastAddr /\ m \in 0 .. LastAddr /\ m + 1 \in 0 .. LastAddr BY <1>1, <2>1
    <2>3. r[m].last # {} BY <1>4, <1>5, <2>1
    <2>4. Cardinality(r[m].seen) >= m + 1 BY <1>8, <2>2, <2>3
    <2>5. r[m].seen \in SUBSET r[m + 1].seen /\ r[m].seen # r[m + 1].seen BY <1>4, <2>1
    <2>6. /\ Cardinality(r[m].seen) <= Cardinality(r[m + 1].seen)
          /\ Cardinality(r[m + 1].seen) = Cardinality(r[m].seen) => r[m + 1].seen = r[m].seen
        BY <1>6, <2>2, <2>5, FS_Subset
    <2>7. Cardinality(r[m].seen) \in Nat /\ Cardinality(r[m + 1].seen) \in Nat BY <1>6, <2>2
    <2> QED BY <2>4, <2>5, <2>6, <2>7
<1> HIDE DEF Grown
<1>9. ASSUME NEW m \in 0 .. LastAddr, r[m].last # {} PROVE m + 1 <= LastAddr
    <2>1. m \in Nat /\ m <= LastAddr BY <1>1
    <2>2. m \in Grown BY <1>7, <1>8, <2>1, AllNumbers
    <2>3. Cardinality(r[m].seen) >= m + 1 BY <1>9, <2>1, <2>2 DEF Grown
    <2> QED BY <1>1, <1>6, <2>1, <2>3
<1>10. r[LastAddr].last = {}
    <2>1. LastAddr \in 0 .. LastAddr /\ ~(LastAddr + 1 <= LastAddr) BY <1>1
    <2> QED BY <1>9, <2>1
<1>11. ASSUME r[n].last = {}
       PROVE  /\ DOMAIN r[LastAddr].cfgs = DOMAIN r[n].cfgs
              /\ \A a \in DOMAIN r[n].cfgs : r[LastAddr].cfgs[a] = r[n].cfgs[a]
    <2> DEFINE Same(k) == /\ r[k].last = {} /\ DOMAIN r[k].cfgs = DOMAIN r[n].cfgs
                          /\ \A a \in DOMAIN r[n].cfgs : r[k].cfgs[a] = r[n].cfgs[a]
               Good == {m \in Nat : n + m <= LastAddr => Same(n + m)}
    <2>1. 0 \in Good
        <3>1. n + 0 = n OBVIOUS
        <3>2. Same(n) BY <1>11
        <3> HIDE DEF Same
        <3> QED BY <3>1, <3>2
    <2>2. ASSUME NEW m \in Nat, m \in Good PROVE m + 1 \in Good
        <3>1. SUFFICES ASSUME n + (m + 1) <= LastAddr PROVE Same(n + (m + 1)) OBVIOUS
        <3>2. PICK k \in Nat : k = n + m /\ k <= LastAddr /\ n + (m + 1) = k + 1 BY <1>1, <3>1
        <3>3. Same(k) BY <2>2, <3>2
        <3>4. Same(k + 1) BY <1>4, <1>5, <3>1, <3>2, <3>3
        <3> QED BY <3>2, <3>4
    <2> HIDE DEF Good, Same
    <2>3. LastAddr - n \in Nat /\ n + (LastAddr - n) = LastAddr BY <1>1
    <2>4. LastAddr - n \in Good BY <2>1, <2>2, <2>3, AllNumbers
    <2>5. Same(LastAddr) BY <1>1, <2>3, <2>4 DEF Good
    <2> QED BY <2>5 DEF Same
<1> QED BY <1>2, <1>9, <1>10, <1>11

-----------------------------------------------------------------------------
(* What the table was handed is what the walks of this slice found, and every  *)
(* function that is known was handed over.                                     *)
Underway == IF todo = Nothing THEN {} ELSE {todo.of}
HandedOver ==
    /\ \A f \in fresh \cup Underway : f \in DOMAIN raw /\ raw[f] = RawCfg(Walking(f)).blocks
    /\ DOMAIN known \subseteq DOMAIN blocks

RecoveryIs == RecoveryInv /\ DiscoveryInv /\ HandedOver /\ hints \in Hints

LEMMA BetweenSlices ==
    ASSUME RecoveryInv, slice = <<>>
    PROVE  InSlice = {} /\ fresh = {} /\ todo = Nothing /\ Underway = {}
<1>1. DOMAIN slice = {} OBVIOUS
<1>2. InSlice = {} BY <1>1 DEF InSlice
<1> QED BY <1>2 DEF RecoveryInv, SliceInv, Underway

(* What a function reads between two slices. *)
LEMMA ReadsRaw ==
    ASSUME RecoveryInv, HandedOver, slice = <<>>, NEW f \in DOMAIN known
    PROVE  Read(f) = raw[f]
<1>1. fresh = {} /\ todo = Nothing BY BetweenSlices
<1>2. f \in DOMAIN blocks \ fresh BY <1>1 DEF HandedOver
<1>3. ReadsBack BY TableReadsBack DEF RecoveryInv
<1> QED BY <1>1, <1>2, <1>3 DEF ReadsBack

LEMMA WalkOfSlice ==
    ASSUME DiscoveryInv, NEW f \in InSlice
    PROVE  f \in Addrs /\ \A i \in DOMAIN slice : slice[i].at = f => slice[i].cfg = RawCfg(Walking(f))
BY DEF DiscoveryInv, InSlice

(* A step of interning leaves what was handed over as it is, but for a         *)
(* function of the slice, of which it takes the walk.                          *)
RawGrows(f) ==
    raw' = [g \in DOMAIN raw \cup {f} |-> IF g = f THEN RawCfg(Walking(f)).blocks ELSE raw[g]]

LEMMA InternIs ==
    ASSUME RecoveryInv, DiscoveryInv, InternSlice
    PROVE  /\ raw' = raw \/ \E f \in InSlice : RawGrows(f)
           /\ DOMAIN blocks \subseteq DOMAIN blocks'
           /\ \A f \in (fresh \cup Underway)' :
                  (f \in fresh \cup Underway /\ raw' = raw) \/ (f \in InSlice /\ RawGrows(f))
                  \/ (f \in fresh /\ \E g \in InSlice : RawGrows(g))
<1>1. TableInv /\ SliceInv BY DEF RecoveryInv
<1>2. CASE fresh # InSlice /\ Install(slice[Cardinality(fresh) + 1].at, slice[Cardinality(fresh) + 1].cfg.blocks)
    <2>1. PICK i : i = Cardinality(fresh) + 1 OBVIOUS
    <2>2. i \in DOMAIN slice BY <1>1, <1>2, <2>1, NextInSlice
    <2>3. PICK f, bs : f = slice[i].at /\ bs = slice[i].cfg.blocks OBVIOUS
    <2>4. f \in InSlice BY <2>2, <2>3 DEF InSlice
    <2>5. bs = RawCfg(Walking(f)).blocks BY <2>2, <2>3, <2>4, WalkOfSlice
    <2>6. Install(f, bs) BY <1>2, <2>1, <2>3
    <2>7. /\ raw' = [g \in DOMAIN raw \cup {f} |-> IF g = f THEN bs ELSE raw[g]]
          /\ fresh' = fresh /\ todo' = [of |-> f, rest |-> bs, ids |-> <<>>] /\ blocks' = blocks
        BY <2>6 DEF Install
    <2>8. RawGrows(f) BY <2>5, <2>7 DEF RawGrows
    <2>9. Underway' = {f} BY <2>7, NotNothing DEF Underway
    <2> QED BY <2>4, <2>7, <2>8, <2>9
<1>3. CASE Intern
    <2>1. todo # Nothing /\ fresh' = fresh /\ raw' = raw /\ blocks' = blocks BY <1>3 DEF Intern
    <2>2. todo'.of = todo.of
        <3>1. todo = [of |-> todo.of, rest |-> todo.rest, ids |-> todo.ids] BY <1>1, <2>1 DEF TableInv, TodoInv
        <3>2. PICK r, s : todo' = [todo EXCEPT !.rest = r, !.ids = s] BY <1>3 DEF Intern
        <3> QED BY <3>1, <3>2
    <2>3. Underway' \subseteq Underway BY <2>1, <2>2 DEF Underway
    <2> QED BY <2>1, <2>3
<1>4. CASE Installed
    <2>1. /\ todo # Nothing /\ todo' = Nothing /\ fresh' = fresh \cup {todo.of} /\ raw' = raw
          /\ DOMAIN blocks' = DOMAIN blocks \cup {todo.of}
        BY <1>4 DEF Installed
    <2>2. (fresh \cup Underway)' \subseteq fresh \cup Underway BY <2>1 DEF Underway
    <2> QED BY <2>1, <2>2
<1> QED BY <1>2, <1>3, <1>4 DEF InternSlice

(* The walks of the slice, merged one after the other. *)
Now == [evidence |-> evidence, pending |-> pending, known |-> known]
Merges(m) ==
    /\ m[0] = Now
    /\ \A n \in Nat : n + 1 <= Len(slice) => m[n + 1] = MergeWalk(m[n], slice[n + 1])
    /\ Len(slice) \in Nat /\ DOMAIN slice = 1 .. Len(slice)
    /\ evidence' = m[Len(slice)].evidence /\ pending' = m[Len(slice)].pending /\ known' = m[Len(slice)].known
    /\ \A n \in Nat : n <= Len(slice) => Merging(m[n])

LEMMA MergesOneByOne ==
    ASSUME DiscoveryInv, MergeSlice
    PROVE  \E m : Merges(m)
<1> DEFINE first == [evidence |-> evidence, pending |-> pending, known |-> known]
           merged[n \in 0 .. Len(slice)] == IF n = 0 THEN first ELSE MergeWalk(merged[n - 1], slice[n])
<1>1. Len(slice) \in Nat /\ DOMAIN slice = 1 .. Len(slice) BY SeqLen DEF DiscoveryInv
<1>2. /\ evidence' = merged[Len(slice)].evidence /\ pending' = merged[Len(slice)].pending
      /\ known' = merged[Len(slice)].known
    BY DEF MergeSlice
<1>3. Merging(first) /\ first = Now BY DEF Merging, DiscoveryInv, Now
<1> HIDE DEF first
<1>4. merged = [n \in 0 .. Len(slice) |-> IF n = 0 THEN first ELSE MergeWalk(merged[n - 1], slice[n])]
    BY <1>1, MergedIs
<1>5. PICK m : m = merged OBVIOUS
<1> HIDE DEF merged
<1>6. \A n \in 0 .. Len(slice) : m[n] = IF n = 0 THEN first ELSE MergeWalk(m[n - 1], slice[n]) BY <1>4, <1>5
<1>7. m[0] = Now BY <1>1, <1>3, <1>6
<1>8. ASSUME NEW n \in Nat, n + 1 <= Len(slice) PROVE m[n + 1] = MergeWalk(m[n], slice[n + 1])
    <2>1. n + 1 \in 0 .. Len(slice) /\ n + 1 # 0 /\ (n + 1) - 1 = n BY <1>1, <1>8
    <2> QED BY <1>6, <2>1
<1> DEFINE Good == {n \in Nat : n <= Len(slice) => Merging(m[n])}
<1>9. 0 \in Good BY <1>3, <1>7
<1>10. ASSUME NEW n \in Nat, n \in Good PROVE n + 1 \in Good
    <2>1. SUFFICES ASSUME n + 1 <= Len(slice) PROVE Merging(m[n + 1]) OBVIOUS
    <2>2. n <= Len(slice) /\ n + 1 \in DOMAIN slice BY <1>1, <2>1
    <2>3. Merging(m[n]) BY <1>10, <2>2
    <2>4. slice[n + 1].at \in Addrs BY <2>2 DEF DiscoveryInv
    <2> QED BY <1>8, <2>1, <2>3, <2>4, MergeWalkKeeps
<1> HIDE DEF Good
<1>11. Nat \subseteq Good BY <1>9, <1>10, AllNumbers
<1>12. \A n \in Nat : n <= Len(slice) => Merging(m[n]) BY <1>11 DEF Good
<1> QED BY <1>1, <1>2, <1>5, <1>7, <1>8, <1>12 DEF Merges

LEMMA MergeWalkKnows ==
    ASSUME NEW acc, Merging(acc), NEW w
    PROVE  DOMAIN MergeWalk(acc, w).known \subseteq DOMAIN acc.known \cup {w.at}
<1>1. PICK e, p, k : acc = [evidence |-> e, pending |-> p, known |-> k] BY DEF Merging
<1>2. acc.evidence = e /\ acc.pending = p /\ acc.known = k BY <1>1
<1>4. \A x : DOMAIN With(k, w.at, x) = DOMAIN k \cup {w.at} BY DEF With
<1>5. DOMAIN MergeRound(acc, w).known \subseteq DOMAIN k \cup {w.at}
    <2>1. CASE w.cfg.blocks = <<>> BY <1>2, <2>1 DEF MergeRound
    <2>2. CASE w.cfg.blocks # <<>>
        <3>1. PICK q, x, f : MergeRound(acc, w) = [evidence |-> f, pending |-> q, known |-> With(k, w.at, x)]
            BY <1>2, <2>2 DEF MergeRound
        <3> QED BY <1>4, <3>1
    <2> QED BY <2>1, <2>2
<1>6. DOMAIN MergeLeftover(acc, w).known \subseteq DOMAIN k \cup {w.at}
    <2>1. CASE w.cfg.blocks = <<>> BY <1>2, <2>1 DEF MergeLeftover
    <2>2. CASE w.cfg.blocks # <<>>
        <3>1. PICK x, f : MergeLeftover(acc, w) = [acc EXCEPT !.evidence = f, !.known = With(@, w.at, x)]
            BY <2>2 DEF MergeLeftover
        <3>2. PICK u : u = [acc EXCEPT !.evidence = f] OBVIOUS
        <3>3. u = [evidence |-> f, pending |-> p, known |-> k] BY <1>1, <3>2
        <3>4. MergeLeftover(acc, w) = [u EXCEPT !.known = With(k, w.at, x)] BY <1>2, <3>1, <3>2, <3>3
        <3>5. MergeLeftover(acc, w) = [evidence |-> f, pending |-> p, known |-> With(k, w.at, x)] BY <3>3, <3>4
        <3> QED BY <1>4, <3>5
    <2> QED BY <2>1, <2>2
<1>7. DOMAIN MergeRewalk(acc, w).known \subseteq DOMAIN k
    <2>1. CASE w.cfg.blocks = <<>> BY <1>2, <2>1 DEF MergeRewalk
    <2>2. CASE w.cfg.blocks # <<>>
        <3>1. PICK y : MergeRewalk(acc, w) = [acc EXCEPT !.known[w.at] = y] BY <2>2 DEF MergeRewalk
        <3>2. MergeRewalk(acc, w) = [evidence |-> e, pending |-> p, known |-> [k EXCEPT ![w.at] = y]]
            BY <1>1, <3>1
        <3> QED BY <3>2
    <2> QED BY <2>1, <2>2
<1> QED BY <1>2, <1>5, <1>6, <1>7 DEF MergeWalk

LEMMA MergeKnows ==
    ASSUME RecoveryIs, MergeSlice
    PROVE  DOMAIN known' \subseteq DOMAIN known \cup InSlice
<1>1. PICK m : Merges(m) BY MergesOneByOne DEF RecoveryIs
<1> DEFINE Good == {n \in Nat : n <= Len(slice) => DOMAIN m[n].known \subseteq DOMAIN known \cup InSlice}
<1>2. Len(slice) \in Nat /\ DOMAIN slice = 1 .. Len(slice) BY <1>1 DEF Merges
<1>3. 0 \in Good BY <1>1 DEF Merges, Now
<1>4. ASSUME NEW n \in Nat, n \in Good PROVE n + 1 \in Good
    <2>1. SUFFICES ASSUME n + 1 <= Len(slice) PROVE DOMAIN m[n + 1].known \subseteq DOMAIN known \cup InSlice
        OBVIOUS
    <2>2. n <= Len(slice) /\ n + 1 \in DOMAIN slice BY <1>2, <2>1
    <2>3. PICK w : w = slice[n + 1] OBVIOUS
    <2>4. w.at \in InSlice BY <2>2, <2>3 DEF InSlice
    <2>5. Merging(m[n]) /\ m[n + 1] = MergeWalk(m[n], w) BY <1>1, <2>1, <2>2, <2>3 DEF Merges
    <2>6. DOMAIN m[n].known \subseteq DOMAIN known \cup InSlice BY <1>4, <2>2
    <2> QED BY <2>4, <2>5, <2>6, MergeWalkKnows
<1> HIDE DEF Good
<1>5. Len(slice) \in Good BY <1>2, <1>3, <1>4, AllNumbers
<1> QED BY <1>1, <1>2, <1>5 DEF Good, Merges

LEMMA HandedOverKeeps ==
    ASSUME RecoveryIs, [LiftingNext]_<<vars, dataflow>>
    PROVE  HandedOver'
<1>1. RecoveryInv /\ DiscoveryInv /\ HandedOver BY DEF RecoveryIs
<1>2. ASSUME slice = <<>>, fresh' = fresh, todo' = todo, blocks' = blocks, known' = known PROVE HandedOver'
    <2>1. (fresh \cup Underway)' = {} BY <1>1, <1>2, BetweenSlices DEF Underway
    <2> QED BY <1>1, <1>2, <2>1 DEF HandedOver
<1>3. CASE InternSlice
    <2>1. /\ image' = image /\ phase' = phase /\ stop_at' = stop_at /\ known' = known /\ data' = data
          /\ noreturn' = noreturn
        BY <1>3 DEF InternSlice, discovery
    <2>2. \A f : RawCfg(Walking(f)') = RawCfg(Walking(f))
        <3>1. \A f : Walking(f)' = Walking(f) BY <2>1 DEF Walking
        <3> QED BY <3>1
    <2>3. DOMAIN known' \subseteq DOMAIN blocks' BY <1>1, <1>3, <2>1, InternIs DEF HandedOver
    <2>4. ASSUME NEW f \in (fresh \cup Underway)'
          PROVE  f \in DOMAIN raw' /\ raw'[f] = RawCfg(Walking(f)).blocks
        <3>1. CASE f \in fresh \cup Underway /\ raw' = raw BY <1>1, <3>1 DEF HandedOver
        <3>2. CASE RawGrows(f) BY <3>2 DEF RawGrows
        <3>3. CASE f \in fresh /\ \E g \in InSlice : RawGrows(g)
            <4>1. f \in DOMAIN raw /\ raw[f] = RawCfg(Walking(f)).blocks BY <1>1, <3>3 DEF HandedOver
            <4>2. PICK g \in InSlice : RawGrows(g) BY <3>3
            <4> QED BY <4>1, <4>2 DEF RawGrows
        <3> QED BY <1>1, <1>3, <3>1, <3>2, <3>3, InternIs
    <2> QED BY <2>2, <2>3, <2>4 DEF HandedOver
<1>4. CASE MergeSlice
    <2>1. Publish(fresh) /\ fresh = InSlice BY <1>4 DEF MergeSlice
    <2>2. fresh \subseteq DOMAIN blocks /\ DOMAIN blocks' = DOMAIN blocks /\ fresh' = {} /\ todo' = Nothing
        BY <2>1 DEF Publish
    <2>3. (fresh \cup Underway)' = {} BY <2>2 DEF Underway
    <2>4. DOMAIN known' \subseteq DOMAIN known \cup InSlice BY <1>4, MergeKnows
    <2> QED BY <1>1, <2>1, <2>2, <2>3, <2>4 DEF HandedOver
<1>5. CASE Finish
    <2>1. Publish(DOMAIN blocks) /\ known' = known BY <1>5 DEF Finish, discovery
    <2>2. DOMAIN blocks' = DOMAIN blocks /\ fresh' = {} /\ todo' = Nothing BY <2>1 DEF Publish
    <2>3. (fresh \cup Underway)' = {} BY <2>2 DEF Underway
    <2> QED BY <1>1, <2>1, <2>2, <2>3 DEF HandedOver
<1>6. CASE StartRound BY <1>2, <1>6 DEF StartRound, Idle, table
<1>7. CASE WalkSlice BY <1>2, <1>7 DEF WalkSlice, table
<1>8. CASE ScanGaps BY <1>2, <1>8 DEF ScanGaps, Idle, table
<1>9. CASE EndLeftovers BY <1>2, <1>9 DEF EndLeftovers, Idle, table, discovery
<1>10. CASE Refine
    <2>1. slice = <<>> BY <1>1, <1>10 DEF Refine, DiscoveryInv, Idle
    <2> QED BY <1>2, <1>10, <2>1 DEF Refine, table
<1>11. CASE UNCHANGED vars
    <2>1. /\ image' = image /\ phase' = phase /\ stop_at' = stop_at /\ known' = known /\ data' = data
          /\ noreturn' = noreturn /\ fresh' = fresh /\ todo' = todo /\ raw' = raw /\ blocks' = blocks
        BY <1>11 DEF vars, discovery, table
    <2>2. \A f : RawCfg(Walking(f)') = RawCfg(Walking(f))
        <3>1. \A f : Walking(f)' = Walking(f) BY <2>1 DEF Walking
        <3> QED BY <3>1
    <2> QED BY <1>1, <2>1, <2>2 DEF HandedOver, Underway
<1>12. CASE LiftFunction
    <2>1. UNCHANGED vars BY <1>12 DEF LiftFunction
    <2> QED BY <1>11, <2>1
<1>13. CASE UNCHANGED <<vars, dataflow>>
    <2>1. UNCHANGED vars BY <1>13
    <2> QED BY <1>11, <2>1
<1> QED BY <1>3, <1>4, <1>5, <1>6, <1>7, <1>8, <1>9, <1>10, <1>11, <1>12, <1>13 DEF LiftingNext, Next

-----------------------------------------------------------------------------
LEMMA RecoveryIsStarts ==
    ASSUME Init
    PROVE  RecoveryIs
<1>1. RecoveryInv /\ DiscoveryInv BY SliceStarts, DiscoveryStarts
<1>2. fresh = {} /\ todo = Nothing /\ known = <<>> /\ hints \in Hints BY DEF Init, TableInit
<1>3. fresh \cup Underway = {} /\ DOMAIN known = {} BY <1>2 DEF Underway
<1> QED BY <1>1, <1>2, <1>3 DEF RecoveryIs, HandedOver

LEMMA SameProgram ==
    ASSUME [LiftingNext]_<<vars, dataflow>>
    PROVE  image' = image /\ hints' = hints
<1>1. ASSUME Next PROVE image' = image /\ hints' = hints
    BY <1>1 DEF Next, StartRound, WalkSlice, InternSlice, MergeSlice, ScanGaps, EndLeftovers, Refine, Finish
<1>2. ASSUME UNCHANGED vars PROVE image' = image /\ hints' = hints BY <1>2 DEF vars
<1>3. ASSUME UNCHANGED <<vars, dataflow>> PROVE UNCHANGED vars BY <1>3
<1>4. ASSUME LiftFunction PROVE UNCHANGED vars BY <1>4 DEF LiftFunction
<1> QED BY <1>1, <1>2, <1>3, <1>4 DEF LiftingNext

LEMMA RecoveryIsKept ==
    ASSUME HashIsNumber, RecoveryIs, [LiftingNext]_<<vars, dataflow>>
    PROVE  RecoveryIs'
<1>1. RecoveryInv' BY RecoveryStepKeeps DEF RecoveryIs
<1>2. DiscoveryInv' BY DiscoveryStepKeeps DEF RecoveryIs
<1>3. HandedOver' BY HandedOverKeeps
<1>4. (hints \in Hints)' BY SameProgram DEF RecoveryIs
<1> QED BY <1>1, <1>2, <1>3, <1>4 DEF RecoveryIs

-----------------------------------------------------------------------------
(* What is merged is what the rounds so far know.                              *)
WithBlocks(cfgs) == {a \in DOMAIN cfgs : cfgs[a].blocks # <<>>}
Proven(x) == "ProloguePattern" \notin x.by
HoldsFor(acc, v) ==
    /\ DOMAIN acc.evidence = v.seen /\ acc.pending = v.last /\ DOMAIN acc.known = WithBlocks(v.cfgs)
    /\ \A a \in DOMAIN acc.known : acc.known[a].calls = v.cfgs[a].calls /\ Proven(acc.known[a])
    /\ \A a \in DOMAIN acc.evidence : Proven(acc.evidence[a])

Merged(ev, e, as, by) ==
    /\ DOMAIN ev = DOMAIN e \cup as
    /\ \A a \in DOMAIN e \ as : ev[a] = e[a]
    /\ \A a \in DOMAIN e \cap as : ev[a].by = e[a].by \cup {by}
    /\ \A a \in as \ DOMAIN e : ev[a].by = {by}

LEMMA MergeAllIs ==
    ASSUME NEW ev, NEW as, NEW by
    PROVE  Merged(MergeAll(ev, as, by), ev, as, by)
<1>1. ASSUME NEW a \in DOMAIN ev PROVE Merge(ev, a, by, NoName)[a].by = ev[a].by \cup {by}
    <2>1. PICK n : Merge(ev, a, by, NoName) = [ev EXCEPT ![a] = [by |-> ev[a].by \cup {by}, name |-> n]]
        BY DEF Merge
    <2> QED BY <2>1
<1>2. ASSUME NEW a, a \notin DOMAIN ev PROVE Merge(ev, a, by, NoName)[a].by = {by}
    <2>1. Merge(ev, a, by, NoName) = With(ev, a, [by |-> {by}, name |-> NoName]) BY <1>2 DEF Merge
    <2> QED BY <2>1 DEF With
<1>3. ASSUME NEW a \in DOMAIN ev \cup as
      PROVE  MergeAll(ev, as, by)[a] = IF a \in as THEN Merge(ev, a, by, NoName)[a] ELSE ev[a]
    BY DEF MergeAll
<1>4. DOMAIN MergeAll(ev, as, by) = DOMAIN ev \cup as BY DEF MergeAll
<1>5. PICK m : m = MergeAll(ev, as, by) OBVIOUS
<1>6. Merged(m, ev, as, by) BY <1>1, <1>2, <1>3, <1>4, <1>5 DEF Merged
<1> QED BY <1>5, <1>6

LEMMA MergeRoundHolds ==
    ASSUME NEW i, NEW r, RoundShape(i, r), NEW W \in SUBSET r.last, NEW acc, HoldsFor(acc, SoFar(i, r, W)),
           NEW w, w.at \in r.last, w.cfg = Round(i, w.at, r.seen)
    PROVE  HoldsFor(MergeRound(acc, w), SoFar(i, r, W \cup {w.at}))
<1>1. PICK a, cfg : a = w.at /\ cfg = w.cfg OBVIOUS
<1>2. a \in r.last /\ cfg = Round(i, a, r.seen) /\ W \cup {a} \in SUBSET r.last /\ r.last \subseteq r.seen
    BY <1>1 DEF RoundShape
<1>3. PICK v : v = SoFar(i, r, W) OBVIOUS
<1>4. PICK u : u = SoFar(i, r, W \cup {a}) OBVIOUS
<1>5. /\ v.seen = r.seen \cup UNION {Leads(Round(i, b, r.seen)) : b \in W}
      /\ v.last = (UNION {Leads(Round(i, b, r.seen)) : b \in W}) \ r.seen
      /\ DOMAIN v.cfgs = DOMAIN r.cfgs \cup W
      /\ \A b \in DOMAIN r.cfgs : v.cfgs[b] = r.cfgs[b]
      /\ \A b \in W : v.cfgs[b] = Round(i, b, r.seen) /\ b \notin DOMAIN r.cfgs
    BY <1>3, SoFarIs
<1>6. /\ u.seen = r.seen \cup UNION {Leads(Round(i, b, r.seen)) : b \in W \cup {a}}
      /\ u.last = (UNION {Leads(Round(i, b, r.seen)) : b \in W \cup {a}}) \ r.seen
      /\ DOMAIN u.cfgs = DOMAIN r.cfgs \cup (W \cup {a})
      /\ \A b \in DOMAIN r.cfgs : u.cfgs[b] = r.cfgs[b]
      /\ \A b \in W \cup {a} : u.cfgs[b] = Round(i, b, r.seen) /\ b \notin DOMAIN r.cfgs
    BY <1>2, <1>4, SoFarIs
<1>7. UNION {Leads(Round(i, b, r.seen)) : b \in W \cup {a}}
      = (UNION {Leads(Round(i, b, r.seen)) : b \in W}) \cup Leads(cfg)
    BY <1>2
<1>8. u.seen = v.seen \cup Leads(cfg) /\ u.last = v.last \cup (Leads(cfg) \ v.seen) BY <1>5, <1>6, <1>7
<1>9. /\ DOMAIN u.cfgs = DOMAIN v.cfgs \cup {a} /\ u.cfgs[a] = cfg
      /\ \A b \in DOMAIN v.cfgs : u.cfgs[b] = v.cfgs[b]
    BY <1>2, <1>5, <1>6
<1>10. HoldsFor(acc, v) BY <1>3
<1>11. CASE cfg.blocks = <<>>
    <2>1. MergeRound(acc, w) = acc BY <1>1, <1>11 DEF MergeRound
    <2>2. Leads(cfg) = {} BY <1>11 DEF Leads
    <2>3. u.seen = v.seen /\ u.last = v.last BY <1>8, <2>2
    <2>4. WithBlocks(u.cfgs) = WithBlocks(v.cfgs) BY <1>9, <1>11 DEF WithBlocks
    <2>5. \A b \in WithBlocks(v.cfgs) : u.cfgs[b] = v.cfgs[b] BY <1>9 DEF WithBlocks
    <2>6. HoldsFor(acc, u) BY <1>10, <2>3, <2>4, <2>5 DEF HoldsFor
    <2> QED BY <1>1, <1>4, <2>1, <2>6
<1>12. CASE cfg.blocks # <<>>
    <2>1. PICK ev : ev = MergeAll(acc.evidence, Leads(cfg), "CallTarget") OBVIOUS
    <2>12. Merged(ev, acc.evidence, Leads(cfg), "CallTarget") BY <2>1, MergeAllIs
    <2>2. PICK x : /\ x.by = ev[a].by /\ x.calls = cfg.calls
                   /\ MergeRound(acc, w) = [evidence |-> ev, pending |-> acc.pending \cup (Leads(cfg) \ DOMAIN acc.evidence),
                                            known |-> With(acc.known, a, x)]
        <3>1. Leads(cfg) = {t \in cfg.calls : IsExecutable(t)} BY <1>12 DEF Leads
        <3>2. PICK x : x = [name |-> ev[a].name, by |-> ev[a].by, calls |-> cfg.calls,
                            has_indirect |-> cfg.has_indirect, halt |-> cfg.halt]
            OBVIOUS
        <3>3. x.by = ev[a].by /\ x.calls = cfg.calls BY <3>2
        <3> QED BY <1>1, <1>12, <2>1, <3>1, <3>2, <3>3 DEF MergeRound
    <2>3. PICK m : m = MergeRound(acc, w) OBVIOUS
    <2>4. /\ m.evidence = ev /\ m.pending = acc.pending \cup (Leads(cfg) \ DOMAIN acc.evidence)
          /\ m.known = With(acc.known, a, x)
        BY <2>2, <2>3
    <2>5. DOMAIN ev = u.seen BY <1>8, <1>10, <2>12 DEF HoldsFor, Merged
    <2>6. ASSUME NEW b \in DOMAIN ev PROVE Proven(ev[b])
        <3>1. \A c \in DOMAIN acc.evidence : Proven(acc.evidence[c]) BY <1>10 DEF HoldsFor
        <3>2. CASE b \in DOMAIN acc.evidence \ Leads(cfg)
            <4>1. ev[b] = acc.evidence[b] BY <2>12, <3>2 DEF Merged
            <4> QED BY <3>1, <3>2, <4>1
        <3>3. CASE b \in DOMAIN acc.evidence \cap Leads(cfg)
            <4>1. ev[b].by = acc.evidence[b].by \cup {"CallTarget"} BY <2>12, <3>3 DEF Merged
            <4> QED BY <3>1, <3>3, <4>1 DEF Proven
        <3>4. CASE b \in Leads(cfg) \ DOMAIN acc.evidence
            <4>1. ev[b].by = {"CallTarget"} BY <2>12, <3>4 DEF Merged
            <4> QED BY <4>1 DEF Proven
        <3>5. DOMAIN ev = DOMAIN acc.evidence \cup Leads(cfg) BY <2>12 DEF Merged
        <3> QED BY <3>2, <3>3, <3>4, <3>5
    <2>7. m.pending = u.last BY <1>8, <1>10, <2>4 DEF HoldsFor
    <2>8. /\ DOMAIN m.known = DOMAIN acc.known \cup {a} /\ m.known[a] = x
          /\ \A b \in DOMAIN acc.known : b # a => m.known[b] = acc.known[b]
        BY <2>4 DEF With
    <2>9. DOMAIN m.known = WithBlocks(u.cfgs)
        <3>1. WithBlocks(u.cfgs) = WithBlocks(v.cfgs) \cup {a} BY <1>9, <1>12 DEF WithBlocks
        <3> QED BY <1>10, <2>8, <3>1 DEF HoldsFor
    <2>10. ASSUME NEW b \in DOMAIN m.known PROVE m.known[b].calls = u.cfgs[b].calls /\ Proven(m.known[b])
        <3>1. CASE b = a
            <4>1. a \in DOMAIN ev BY <1>2, <1>5, <1>8, <2>5
            <4>2. Proven(ev[a]) BY <2>6, <4>1
            <4> QED BY <1>9, <2>2, <2>8, <3>1, <4>2 DEF Proven
        <3>2. CASE b # a
            <4>1. b \in DOMAIN acc.known /\ m.known[b] = acc.known[b] BY <2>8, <3>2
            <4>2. b \in DOMAIN v.cfgs BY <1>10, <4>1 DEF HoldsFor, WithBlocks
            <4> QED BY <1>9, <1>10, <4>1, <4>2 DEF HoldsFor
        <3> QED BY <3>1, <3>2
    <2>11. HoldsFor(m, u) BY <2>4, <2>5, <2>6, <2>7, <2>9, <2>10 DEF HoldsFor
    <2> QED BY <1>1, <1>4, <2>3, <2>11
<1> QED BY <1>11, <1>12

-----------------------------------------------------------------------------
(* In the rounds, r: between two of them, or with the entries W of r merged.   *)
RawIs(cfgs) == \A a \in DOMAIN cfgs : a \in DOMAIN raw /\ raw[a] = cfgs[a].blocks
Waiting == InSlice \cup Items(batch)
Between(r) == Idle /\ HoldsFor(Now, r) /\ RawIs(r.cfgs)
InRound(i, r, W) ==
    /\ stop_at = r.seen /\ W \subseteq r.last /\ W \cup Waiting = r.last
    /\ HoldsFor(Now, SoFar(i, r, W)) /\ RawIs(SoFar(i, r, W).cfgs)
AtRound(i, h, n) ==
    LET r == RoundsOf(i, h)[n]
    IN  Between(r) \/ (r.last # {} /\ \E W : InRound(i, r, W))
RoundsInv == phase = "rounds" => \E n \in 0 .. LastAddr : AtRound(image, hints, n)

LEMMA IdleWaits ==
    ASSUME Idle
    PROVE  Waiting = {} /\ Items(batch) = {} /\ InSlice = {}
<1>1. batch = <<>> /\ slice = <<>> BY DEF Idle
<1>2. Len(batch) = 0 /\ DOMAIN slice = {} BY <1>1
<1> QED BY <1>2 DEF Waiting, Items, InSlice

(* Whatever was merged, a round that is over was. *)
LEMMA RoundIsOver ==
    ASSUME RecoveryIs, RoundsInv, phase = "rounds", Idle
    PROVE  \E n \in 0 .. LastAddr : Between(RoundsOf(image, hints)[n])
<1>1. PICK n \in 0 .. LastAddr : AtRound(image, hints, n) BY DEF RoundsInv
<1>2. PICK r : r = RoundsOf(image, hints)[n] OBVIOUS
<1>3. DOMAIN hints \subseteq Addrs BY HintsAssumption DEF RecoveryIs
<1>4. CASE Between(r) BY <1>2, <1>4
<1>5. CASE ~Between(r)
    <2>1. r.last # {} /\ \E W : InRound(image, r, W) BY <1>1, <1>2, <1>5 DEF AtRound
    <2>2. PICK W : InRound(image, r, W) BY <2>1
    <2>3. W = r.last BY <2>2, IdleWaits DEF InRound
    <2>4. n + 1 <= LastAddr BY <1>2, <1>3, <2>1, RoundsEnd
    <2>5. n \in Nat /\ n + 1 \in 0 .. LastAddr BY <2>4, CapsAssumption
    <2>6. RoundsOf(image, hints)[n + 1] = SoFar(image, r, W) BY <1>2, <2>3, <2>4, <2>5, RoundsAre DEF NextRound, SoFar
    <2>7. Between(SoFar(image, r, W)) BY <2>2 DEF InRound, Between
    <2> QED BY <2>5, <2>6, <2>7
<1> QED BY <1>4, <1>5

(* While functions of the round are walked, interned or merged. *)
LEMMA RoundIsOn ==
    ASSUME RecoveryIs, RoundsInv, phase = "rounds", ~Idle
    PROVE  \E n \in 0 .. LastAddr : \E r, W :
               r = RoundsOf(image, hints)[n] /\ RoundShape(image, r) /\ r.last # {} /\ InRound(image, r, W)
<1>1. PICK n \in 0 .. LastAddr : AtRound(image, hints, n) BY DEF RoundsInv
<1>2. PICK r : r = RoundsOf(image, hints)[n] OBVIOUS
<1>3. DOMAIN hints \subseteq Addrs BY HintsAssumption DEF RecoveryIs
<1>4. r.last # {} /\ \E W : InRound(image, r, W) BY <1>1, <1>2 DEF AtRound, Between
<1> QED BY <1>2, <1>3, <1>4, RoundsShaped


LEMMA NothingMerged ==
    ASSUME NEW i, NEW r, RoundShape(i, r)
    PROVE  LET v == SoFar(i, r, {})
           IN  /\ v.seen = r.seen /\ v.last = {} /\ DOMAIN v.cfgs = DOMAIN r.cfgs
               /\ \A a \in DOMAIN r.cfgs : v.cfgs[a] = r.cfgs[a]
               /\ WithBlocks(v.cfgs) = WithBlocks(r.cfgs)
<1>1. PICK W : W = {} OBVIOUS
<1>2. PICK v : v = SoFar(i, r, W) OBVIOUS
<1>3. W \in SUBSET r.last /\ UNION {Leads(Round(i, a, r.seen)) : a \in W} = {} BY <1>1
<1>4. /\ v.seen = r.seen /\ v.last = {} /\ DOMAIN v.cfgs = DOMAIN r.cfgs
      /\ \A a \in DOMAIN r.cfgs : v.cfgs[a] = r.cfgs[a]
    <2>1. /\ v.seen = r.seen \cup UNION {Leads(Round(i, a, r.seen)) : a \in W}
          /\ v.last = (UNION {Leads(Round(i, a, r.seen)) : a \in W}) \ r.seen
          /\ DOMAIN v.cfgs = DOMAIN r.cfgs \cup W
          /\ \A a \in DOMAIN r.cfgs : v.cfgs[a] = r.cfgs[a]
        BY <1>2, <1>3, SoFarIs
    <2> QED BY <1>1, <1>3, <2>1
<1>5. WithBlocks(v.cfgs) = WithBlocks(r.cfgs) BY <1>4 DEF WithBlocks
<1> QED BY <1>1, <1>2, <1>4, <1>5

LEMMA StartRoundKeeps ==
    ASSUME RecoveryIs, RoundsInv, StartRound
    PROVE  RoundsInv'
<1>1. /\ phase = "rounds" /\ Idle /\ pending # {} /\ batch' = InOrder(pending \ DOMAIN known)
      /\ stop_at' = DOMAIN evidence /\ pending' = {} /\ image' = image /\ hints' = hints /\ phase' = phase
      /\ slice' = slice /\ evidence' = evidence /\ known' = known /\ raw' = raw
    BY DEF StartRound, table
<1>2. PICK n \in 0 .. LastAddr : Between(RoundsOf(image, hints)[n]) BY <1>1, RoundIsOver
<1>3. PICK r : r = RoundsOf(image, hints)[n] OBVIOUS
<1>4. DOMAIN hints \subseteq Addrs BY HintsAssumption DEF RecoveryIs
<1>5. RoundShape(image, r) BY <1>3, <1>4, RoundsShaped
<1>6. HoldsFor(Now, r) /\ RawIs(r.cfgs) BY <1>2, <1>3 DEF Between
<1>7. /\ DOMAIN evidence = r.seen /\ pending = r.last /\ DOMAIN known = WithBlocks(r.cfgs)
      /\ \A a \in DOMAIN known : known[a].calls = r.cfgs[a].calls /\ Proven(known[a])
      /\ \A a \in DOMAIN evidence : Proven(evidence[a])
    BY <1>6 DEF HoldsFor, Now
<1>8. pending \ DOMAIN known = r.last BY <1>5, <1>7 DEF RoundShape, WithBlocks
<1>9. Items(batch') = r.last
    <2>1. r.last \in SUBSET Nat /\ IsFiniteSet(r.last)
        BY <1>5, AddrsAreNumbers, FS_Subset DEF RoundShape
    <2>2. PICK S : S = r.last OBVIOUS
    <2>3. PICK o : o = InOrder(S) OBVIOUS
    <2>4. o \in Seq(S) /\ Len(o) = Cardinality(S) /\ \A a \in S : \E i \in 1 .. Cardinality(S) : o[i] = a
        BY <2>1, <2>2, <2>3, InOrderLists
    <2>5. Items(o) = S BY <2>4 DEF Items
    <2> QED BY <1>1, <1>8, <2>2, <2>3, <2>5
<1>10. InSlice' = {} BY <1>1, IdleWaits DEF InSlice
<1>11. PICK v : v = SoFar(image, r, {}) OBVIOUS
<1>12. /\ v.seen = r.seen /\ v.last = {} /\ DOMAIN v.cfgs = DOMAIN r.cfgs
       /\ \A a \in DOMAIN r.cfgs : v.cfgs[a] = r.cfgs[a]
       /\ WithBlocks(v.cfgs) = WithBlocks(r.cfgs)
    BY <1>5, <1>11, NothingMerged
<1>13. \A a \in WithBlocks(r.cfgs) : v.cfgs[a] = r.cfgs[a] BY <1>12 DEF WithBlocks
<1>14. HoldsFor(Now', v) BY <1>1, <1>7, <1>12, <1>13 DEF HoldsFor, Now
<1>15. RawIs(v.cfgs)' BY <1>1, <1>6, <1>12 DEF RawIs
<1>16. Waiting' = r.last BY <1>9, <1>10 DEF Waiting
<1>17. r.last # {} BY <1>1, <1>7
<1>18. InRound(image, r, {})' BY <1>1, <1>7, <1>11, <1>14, <1>15, <1>16 DEF InRound
<1>19. AtRound(image, hints, n)' BY <1>1, <1>3, <1>17, <1>18 DEF AtRound
<1> QED BY <1>19 DEF RoundsInv

LEMMA RestOfBatch ==
    ASSUME NEW s \in Seq(Addrs), NEW n \in 1 .. Len(s)
    PROVE  /\ Len(SubSeq(s, n + 1, Len(s))) = Len(s) - n
           /\ \A i \in 1 .. Len(s) - n : SubSeq(s, n + 1, Len(s))[i] = s[n + i]
<1>1. Len(s) \in Nat /\ n \in Nat /\ 1 <= n /\ n <= Len(s) OBVIOUS
<1>2. PICK m, l : m = n + 1 /\ l = Len(s) OBVIOUS
<1>3. m \in Int /\ l \in Int /\ \A i \in m .. l : s[i] \in Addrs BY <1>1, <1>2
<1>4. /\ Len(SubSeq(s, m, l)) = IF m <= l THEN l - m + 1 ELSE 0
      /\ \A i \in 1 .. l - m + 1 : SubSeq(s, m, l)[i] = s[m + i - 1]
    BY <1>3, SubSeqProperties
<1>5. \A i \in 1 .. Len(s) - n : i \in 1 .. l - m + 1 /\ m + i - 1 = n + i BY <1>1, <1>2
<1> QED BY <1>1, <1>2, <1>4, <1>5

(* Those taken off the batch wait in the slice. *)
LEMMA TakenWait ==
    ASSUME DiscoveryInv, WalkSlice
    PROVE  Waiting' = Waiting
<1>1. PICK n \in 1 .. Len(batch) :
          /\ slice' = [i \in 1 .. n |-> [at |-> batch[i], cfg |-> RawCfg(Walking(batch[i]))]]
          /\ batch' = SubSeq(batch, n + 1, Len(batch))
    BY DEF WalkSlice
<1>2. slice = <<>> BY DEF WalkSlice
<1>3. batch \in Seq(Addrs) /\ Len(batch) \in Nat /\ n \in Nat /\ 1 <= n /\ n <= Len(batch) BY DEF DiscoveryInv
<1>4. Len(batch') = Len(batch) - n /\ \A i \in 1 .. Len(batch) - n : batch'[i] = batch[n + i]
    BY <1>1, <1>3, RestOfBatch
<1>5. InSlice = {} BY <1>2 DEF InSlice
<1>6. InSlice' = {batch[i] : i \in 1 .. n} BY <1>1 DEF InSlice
<1>7. Items(batch') = {batch[n + i] : i \in 1 .. Len(batch) - n} BY <1>4 DEF Items
<1>8. \A i \in 1 .. Len(batch) : i \in 1 .. n \/ (i - n \in 1 .. Len(batch) - n /\ n + (i - n) = i) BY <1>3
<1>9. \A i \in 1 .. n : i \in 1 .. Len(batch) BY <1>3
<1>10. \A i \in 1 .. Len(batch) - n : n + i \in 1 .. Len(batch) BY <1>3
<1>11. \A x : x \in Items(batch) => x \in InSlice' \cup Items(batch')
    <2> TAKE x
    <2> HAVE x \in Items(batch)
    <2>1. PICK i \in 1 .. Len(batch) : x = batch[i] BY DEF Items
    <2>2. CASE i \in 1 .. n BY <1>6, <2>1, <2>2
    <2>3. CASE i - n \in 1 .. Len(batch) - n /\ n + (i - n) = i BY <1>7, <2>1, <2>3
    <2> QED BY <1>8, <2>2, <2>3
<1>12. InSlice' \subseteq Items(batch) BY <1>6, <1>9 DEF Items
<1>13. Items(batch') \subseteq Items(batch) BY <1>7, <1>10 DEF Items
<1> QED BY <1>5, <1>11, <1>12, <1>13 DEF Waiting

LEMMA WalkSliceInRound ==
    ASSUME RecoveryIs, RoundsInv, WalkSlice
    PROVE  RoundsInv'
<1>1. SUFFICES ASSUME phase = "rounds" PROVE RoundsInv' BY DEF RoundsInv, WalkSlice
<1>2. ~Idle BY DEF WalkSlice, Idle
<1>3. PICK n \in 0 .. LastAddr : \E r, W :
          r = RoundsOf(image, hints)[n] /\ RoundShape(image, r) /\ r.last # {} /\ InRound(image, r, W)
    BY <1>1, <1>2, RoundIsOn
<1>4. PICK r, W : r = RoundsOf(image, hints)[n] /\ r.last # {} /\ InRound(image, r, W) BY <1>3
<1>5. /\ image' = image /\ hints' = hints /\ stop_at' = stop_at /\ evidence' = evidence /\ pending' = pending
      /\ known' = known /\ raw' = raw
    BY DEF WalkSlice, table
<1>6. Waiting' = Waiting BY TakenWait DEF RecoveryIs
<1>7. Now' = Now BY <1>5 DEF Now
<1>8. InRound(image, r, W)' BY <1>4, <1>5, <1>6, <1>7 DEF InRound, RawIs
<1> QED BY <1>4, <1>5, <1>8 DEF RoundsInv, AtRound

LEMMA InternInRound ==
    ASSUME RecoveryIs, RoundsInv, InternSlice
    PROVE  RoundsInv'
<1>1. SUFFICES ASSUME phase = "rounds" PROVE RoundsInv' BY DEF RoundsInv, InternSlice
<1>2. ~Idle BY DEF InternSlice, Idle
<1>3. PICK n \in 0 .. LastAddr : \E r, W :
          r = RoundsOf(image, hints)[n] /\ RoundShape(image, r) /\ r.last # {} /\ InRound(image, r, W)
    BY <1>1, <1>2, RoundIsOn
<1>4. PICK r, W : /\ r = RoundsOf(image, hints)[n] /\ RoundShape(image, r) /\ r.last # {}
                  /\ InRound(image, r, W)
    BY <1>3
<1>5. /\ image' = image /\ hints' = hints /\ stop_at' = stop_at /\ evidence' = evidence /\ pending' = pending
      /\ known' = known /\ batch' = batch /\ slice' = slice
    BY DEF InternSlice, discovery
<1>6. Waiting' = Waiting BY <1>5 DEF Waiting, InSlice
<1>7. Now' = Now BY <1>5 DEF Now
<1>8. PICK v : v = SoFar(image, r, W) OBVIOUS
<1>9. RawIs(v.cfgs) /\ W \subseteq r.last /\ stop_at = r.seen /\ Waiting \subseteq r.last BY <1>4, <1>8 DEF InRound
<1>10. RawIs(v.cfgs)'
    <2>1. CASE raw' = raw BY <1>9, <2>1 DEF RawIs
    <2>2. CASE \E f \in InSlice : RawGrows(f)
        <3>1. PICK f \in InSlice : RawGrows(f) BY <2>2
        <3>2. f \in r.last BY <1>9 DEF Waiting
        <3>3. /\ DOMAIN v.cfgs = DOMAIN r.cfgs \cup W
              /\ \A a \in W : v.cfgs[a] = Round(image, a, r.seen)
            BY <1>4, <1>8, <1>9, SoFarIs
        <3>4. f \notin DOMAIN r.cfgs BY <1>4, <3>2 DEF RoundShape
        <3>5. RawCfg(Walking(f)) = Round(image, f, r.seen) BY <1>1, <1>9 DEF Walking, Round
        <3>6. ASSUME NEW a \in DOMAIN v.cfgs PROVE a \in DOMAIN raw' /\ raw'[a] = v.cfgs[a].blocks
            <4>1. a \in DOMAIN raw /\ raw[a] = v.cfgs[a].blocks BY <1>9 DEF RawIs
            <4>2. CASE a # f BY <3>1, <4>1, <4>2 DEF RawGrows
            <4>3. CASE a = f
                <5>1. v.cfgs[a] = Round(image, f, r.seen) BY <3>3, <3>4, <4>3
                <5>2. raw'[a] = RawCfg(Walking(f)).blocks /\ a \in DOMAIN raw' BY <3>1, <4>3 DEF RawGrows
                <5> QED BY <3>5, <5>1, <5>2
            <4> QED BY <4>2, <4>3
        <3> QED BY <3>6 DEF RawIs
    <2>3. RecoveryInv /\ DiscoveryInv BY DEF RecoveryIs
    <2> QED BY <2>1, <2>2, <2>3, InternIs
<1>11. InRound(image, r, W)' BY <1>4, <1>5, <1>6, <1>7, <1>8, <1>10 DEF InRound
<1> QED BY <1>4, <1>5, <1>11 DEF RoundsInv, AtRound

LEMMA MergedNow ==
    ASSUME NEW m, Merges(m)
    PROVE  Now' = m[Len(slice)]
<1>1. PICK x : x = m[Len(slice)] OBVIOUS
<1>2. evidence' = x.evidence /\ pending' = x.pending /\ known' = x.known BY <1>1 DEF Merges
<1>3. Len(slice) \in Nat /\ Len(slice) <= Len(slice) BY DEF Merges
<1>4. Merging(x) BY <1>1, <1>3 DEF Merges
<1>5. Now' = x BY <1>2, <1>4 DEF Now, Merging
<1> QED BY <1>1, <1>5

(* The functions of a slice, merged into a round. *)
FirstOfSlice(n) == {slice[j].at : j \in 1 .. n}

LEMMA MergeInRound ==
    ASSUME RecoveryIs, RoundsInv, MergeSlice
    PROVE  RoundsInv'
<1>1. SUFFICES ASSUME phase = "rounds" PROVE RoundsInv' BY DEF RoundsInv, MergeSlice
<1>2. ~Idle BY DEF MergeSlice, Idle
<1>3. PICK n \in 0 .. LastAddr : \E r, W :
          r = RoundsOf(image, hints)[n] /\ RoundShape(image, r) /\ r.last # {} /\ InRound(image, r, W)
    BY <1>1, <1>2, RoundIsOn
<1>4. PICK r, W : /\ r = RoundsOf(image, hints)[n] /\ RoundShape(image, r) /\ r.last # {}
                  /\ InRound(image, r, W)
    BY <1>3
<1>5. /\ image' = image /\ hints' = hints /\ stop_at' = stop_at /\ batch' = batch /\ slice' = <<>> /\ raw' = raw
      /\ fresh = InSlice
    BY DEF MergeSlice, Publish
<1>6. PICK m : Merges(m) BY MergesOneByOne DEF RecoveryIs
<1>7. Len(slice) \in Nat /\ DOMAIN slice = 1 .. Len(slice) BY <1>6 DEF Merges
<1>8. /\ W \subseteq r.last /\ W \cup Waiting = r.last /\ stop_at = r.seen /\ HoldsFor(Now, SoFar(image, r, W))
      /\ RawIs(SoFar(image, r, W).cfgs)
    BY <1>4 DEF InRound
<1> DEFINE Good == {k \in Nat : k <= Len(slice) => HoldsFor(m[k], SoFar(image, r, W \cup FirstOfSlice(k)))}
<1>9. 0 \in Good
    <2>1. FirstOfSlice(0) = {} BY DEF FirstOfSlice
    <2>2. W \cup FirstOfSlice(0) = W BY <2>1
    <2> QED BY <1>6, <1>8, <2>2 DEF Merges
<1>10. ASSUME NEW k \in Nat, k \in Good PROVE k + 1 \in Good
    <2>1. SUFFICES ASSUME k + 1 <= Len(slice) PROVE HoldsFor(m[k + 1], SoFar(image, r, W \cup FirstOfSlice(k + 1)))
        OBVIOUS
    <2>2. k <= Len(slice) /\ k + 1 \in DOMAIN slice BY <1>7, <2>1
    <2>3. PICK w : w = slice[k + 1] OBVIOUS
    <2>4. PICK V : V = W \cup FirstOfSlice(k) OBVIOUS
    <2>5. FirstOfSlice(k) \subseteq InSlice BY <1>7, <2>2 DEF FirstOfSlice, InSlice
    <2>6. V \in SUBSET r.last BY <1>8, <2>4, <2>5 DEF Waiting
    <2>7. w.at \in InSlice BY <2>2, <2>3 DEF InSlice
    <2>8. w.at \in r.last BY <1>8, <2>7 DEF Waiting
    <2>9. w.cfg = RawCfg(Walking(w.at)) BY <2>2, <2>3, <2>7, WalkOfSlice DEF RecoveryIs
    <2>10. w.cfg = Round(image, w.at, r.seen) BY <1>1, <1>8, <2>9 DEF Walking, Round
    <2>11. m[k + 1] = MergeRound(m[k], w) BY <1>1, <1>6, <2>1, <2>3 DEF Merges, MergeWalk
    <2>12. HoldsFor(m[k], SoFar(image, r, V)) BY <1>10, <2>2, <2>4
    <2>13. HoldsFor(MergeRound(m[k], w), SoFar(image, r, V \cup {w.at}))
        BY <1>4, <2>6, <2>8, <2>10, <2>12, MergeRoundHolds
    <2>14. V \cup {w.at} = W \cup FirstOfSlice(k + 1)
        <3>1. \A j \in 1 .. k + 1 : j \in 1 .. k \/ j = k + 1 OBVIOUS
        <3>2. \A j \in 1 .. k : j \in 1 .. k + 1 OBVIOUS
        <3>3. k + 1 \in 1 .. k + 1 OBVIOUS
        <3>4. FirstOfSlice(k + 1) = FirstOfSlice(k) \cup {w.at} BY <2>3, <3>1, <3>2, <3>3 DEF FirstOfSlice
        <3> QED BY <2>4, <3>4
    <2> QED BY <2>11, <2>13, <2>14
<1> HIDE DEF Good
<1>11. Len(slice) \in Good BY <1>7, <1>9, <1>10, AllNumbers
<1>12. PICK V : V = W \cup InSlice OBVIOUS
<1>13. FirstOfSlice(Len(slice)) = InSlice BY <1>7 DEF FirstOfSlice, InSlice
<1>14. HoldsFor(m[Len(slice)], SoFar(image, r, V)) BY <1>7, <1>11, <1>12, <1>13 DEF Good
<1>15. HoldsFor(Now', SoFar(image, r, V))
    <2>1. Now' = m[Len(slice)] BY <1>6, MergedNow
    <2> QED BY <1>14, <2>1
<1>16. InSlice' = {} /\ Items(batch') = Items(batch)
    <2>1. DOMAIN slice' = {} BY <1>5
    <2> QED BY <1>5, <2>1 DEF InSlice
<1>17. V \subseteq r.last /\ V \cup Waiting' = r.last BY <1>8, <1>12, <1>16 DEF Waiting
<1>18. RawIs(SoFar(image, r, V).cfgs)'
    <2>1. PICK v : v = SoFar(image, r, V) OBVIOUS
    <2>2. PICK u : u = SoFar(image, r, W) OBVIOUS
    <2>3. /\ DOMAIN v.cfgs = DOMAIN r.cfgs \cup V /\ \A a \in DOMAIN r.cfgs : v.cfgs[a] = r.cfgs[a]
          /\ \A a \in V : v.cfgs[a] = Round(image, a, r.seen)
        BY <1>4, <1>17, <2>1, SoFarIs
    <2>4. /\ DOMAIN u.cfgs = DOMAIN r.cfgs \cup W /\ \A a \in DOMAIN r.cfgs : u.cfgs[a] = r.cfgs[a]
          /\ \A a \in W : u.cfgs[a] = Round(image, a, r.seen)
        BY <1>4, <1>8, <2>2, SoFarIs
    <2>5. RawIs(u.cfgs) BY <1>8, <2>2
    <2>6. ASSUME NEW a \in DOMAIN u.cfgs PROVE u.cfgs[a] = v.cfgs[a] BY <1>12, <2>3, <2>4
    <2>7. ASSUME NEW a \in InSlice PROVE a \in DOMAIN raw /\ raw[a] = v.cfgs[a].blocks
        <3>1. a \in DOMAIN raw /\ raw[a] = RawCfg(Walking(a)).blocks BY <1>5 DEF RecoveryIs, HandedOver
        <3>2. RawCfg(Walking(a)) = Round(image, a, r.seen) BY <1>1, <1>8 DEF Walking, Round
        <3> QED BY <1>12, <2>3, <3>1, <3>2
    <2>8. DOMAIN v.cfgs = DOMAIN u.cfgs \cup InSlice BY <1>12, <2>3, <2>4
    <2>9. RawIs(v.cfgs) BY <2>5, <2>6, <2>7, <2>8 DEF RawIs
    <2>10. RawIs(v.cfgs)' BY <1>5, <2>9 DEF RawIs
    <2> QED BY <1>5, <2>1, <2>10
<1>19. InRound(image, r, V)' BY <1>5, <1>8, <1>15, <1>17, <1>18 DEF InRound
<1>20. AtRound(image, hints, n)' BY <1>4, <1>5, <1>19 DEF AtRound
<1> QED BY <1>20 DEF RoundsInv

-----------------------------------------------------------------------------
(* After the rounds: their functions stay known as they were, and what a scan  *)
(* of the gaps adds is told apart by its evidence.                             *)
Knows(cfgs, acc) ==
    /\ \A a \in WithBlocks(cfgs) :
           a \in DOMAIN acc.known /\ acc.known[a].calls = cfgs[a].calls /\ Proven(acc.known[a])
    /\ \A a \in DOMAIN acc.known \ WithBlocks(cfgs) : ~Proven(acc.known[a])
Guessed(acc, as) == \A a \in as : a \in DOMAIN acc.evidence /\ ~Proven(acc.evidence[a])
WaitOnce ==
    /\ \A i, j \in DOMAIN slice : slice[i].at = slice[j].at => i = j
    /\ \A i, j \in 1 .. Len(batch) : batch[i] = batch[j] => i = j
    /\ InSlice \cap Items(batch) = {}
AfterRounds(cfgs) ==
    /\ RawIs(cfgs) /\ Knows(cfgs, Now)
    /\ phase = "leftovers" => Waiting \cap DOMAIN cfgs = {} /\ Guessed(Now, Waiting) /\ WaitOnce
LeftoversInv == phase \in {"leftovers", "refine"} => AfterRounds(Rounds)

LEMMA InOrderOnce ==
    ASSUME NEW S \in SUBSET Nat, IsFiniteSet(S)
    PROVE  \A i, j \in 1 .. Len(InOrder(S)) : InOrder(S)[i] = InOrder(S)[j] => i = j
<1>1. PICK n, o : n = Cardinality(S) /\ o = InOrder(S) OBVIOUS
<1>2. n \in Nat /\ o \in Seq(S) /\ Len(o) = n /\ \A a \in S : \E i \in 1 .. n : o[i] = a BY <1>1, InOrderLists
<1>3. o \in Surjection(1 .. n, S)
    <2>1. o \in [1 .. n -> S] BY <1>2
    <2> QED BY <1>2, <2>1 DEF Surjection
<1>4. IsFiniteSet(1 .. n) /\ Cardinality(1 .. n) = n
    <2>1. IsFiniteSet(1 .. n) /\ Cardinality(1 .. n) = IF 1 > n THEN 0 ELSE n - 1 + 1 BY <1>2, FS_Interval
    <2> QED BY <1>2, <2>1
<1>5. o \in Injection(1 .. n, S) BY <1>1, <1>3, <1>4, FS_Surjection
<1> QED BY <1>1, <1>2, <1>5 DEF Injection, IsInjective

(* A function of the rounds is not in a gap. *)
LEMMA GapsAreNew ==
    ASSUME RecoveryIs, slice = <<>>, NEW r, RoundShape(image, r), HoldsFor(Now, r), RawIs(r.cfgs),
           NEW a \in Addrs \ Covered, image[a].flow = "open"
    PROVE  a \notin DOMAIN r.cfgs
<1>1. SUFFICES ASSUME a \in DOMAIN r.cfgs PROVE FALSE OBVIOUS
<1>2. PICK s : r.cfgs[a] = Round(image, a, s) BY <1>1 DEF RoundShape
<1>3. PICK c : c = Rewalk(image, a, s, {}) OBVIOUS
<1>4. c.image = image /\ c.entry = a /\ c.data = {} BY <1>3 DEF Rewalk
<1>5. r.cfgs[a] = RawCfg(c) BY <1>2, <1>3 DEF Round, Rewalk
<1>6. Runs(c, c.entry) BY <1>4 DEF Runs, Decodes, IsExecutable
<1>7. a \in Covers(ToSet(RawCfg(c).blocks)) /\ RawCfg(c).blocks # <<>> BY <1>4, <1>6, EntryIsWalked
<1>8. a \in DOMAIN known BY <1>1, <1>5, <1>7 DEF HoldsFor, Now, WithBlocks
<1>9. Read(a) = raw[a] BY <1>8, ReadsRaw DEF RecoveryIs
<1>10. raw[a] = RawCfg(c).blocks BY <1>1, <1>5 DEF RawIs
<1>11. a \in Covers(BlocksOf(a)) BY <1>7, <1>9, <1>10 DEF BlocksOf
<1> QED BY <1>8, <1>11 DEF Covered

LEMMA ScanGapsKeeps ==
    ASSUME RecoveryIs, RoundsInv, ScanGaps
    PROVE  LeftoversInv'
<1>1. /\ phase = "rounds" /\ Idle /\ pending = {} /\ image' = image /\ hints' = hints /\ slice' = slice
      /\ known' = known /\ raw' = raw
      /\ evidence' = MergeAll(evidence, Prologues(Data), "ProloguePattern")
      /\ batch' = InOrder(Prologues(Data))
    BY DEF ScanGaps, table
<1>2. PICK n \in 0 .. LastAddr : Between(RoundsOf(image, hints)[n]) BY <1>1, RoundIsOver
<1>3. PICK r : r = RoundsOf(image, hints)[n] OBVIOUS
<1>4. DOMAIN hints \subseteq Addrs BY HintsAssumption DEF RecoveryIs
<1>5. RoundShape(image, r) BY <1>3, <1>4, RoundsShaped
<1>6. HoldsFor(Now, r) /\ RawIs(r.cfgs) BY <1>2, <1>3 DEF Between
<1>7. r.last = {} BY <1>1, <1>6 DEF HoldsFor, Now
<1>8. PICK cfgs : cfgs = Rounds OBVIOUS
<1>9. DOMAIN cfgs = DOMAIN r.cfgs /\ \A a \in DOMAIN r.cfgs : cfgs[a] = r.cfgs[a]
    BY <1>3, <1>4, <1>7, <1>8, RoundsEnd DEF Rounds
<1>10. PICK found : found = Prologues(Data) OBVIOUS
<1>11. found \subseteq Addrs /\ \A a \in found : a \notin DOMAIN cfgs
    <2>1. \A a \in found : a \in Addrs \ Covered /\ image[a].flow = "open" BY <1>10 DEF Prologues
    <2>2. slice = <<>> BY <1>1 DEF Idle
    <2> QED BY <1>5, <1>6, <1>9, <2>1, <2>2, GapsAreNew
<1>12. RawIs(cfgs)' BY <1>1, <1>6, <1>9 DEF RawIs
<1>13. WithBlocks(cfgs) = WithBlocks(r.cfgs) /\ \A a \in WithBlocks(cfgs) : cfgs[a] = r.cfgs[a]
    BY <1>9 DEF WithBlocks
<1>14. Knows(cfgs, Now)'
    <2>1. DOMAIN known = WithBlocks(r.cfgs) BY <1>6 DEF HoldsFor, Now
    <2>2. \A a \in DOMAIN known : known[a].calls = r.cfgs[a].calls /\ Proven(known[a]) BY <1>6 DEF HoldsFor, Now
    <2>3. Now'.known = known BY <1>1 DEF Now
    <2> QED BY <1>13, <2>1, <2>2, <2>3 DEF Knows
<1>15. IsFiniteSet(found) /\ found \in SUBSET Nat BY <1>11, AddrsAreNumbers, FS_Subset
<1>16. Waiting' = found
    <2>1. InSlice' = {} BY <1>1, IdleWaits DEF InSlice
    <2>2. PICK o : o = InOrder(found) OBVIOUS
    <2>3. o \in Seq(found) /\ Len(o) = Cardinality(found) /\ \A a \in found : \E i \in 1 .. Cardinality(found) : o[i] = a
        BY <1>15, <2>2, InOrderLists
    <2>4. Items(o) = found BY <2>3 DEF Items
    <2> QED BY <1>1, <1>10, <2>1, <2>2, <2>4 DEF Waiting
<1>17. Guessed(Now, found)'
    <2>1. Merged(evidence', evidence, found, "ProloguePattern") BY <1>1, <1>10, MergeAllIs
    <2>2. Now'.evidence = evidence' BY DEF Now
    <2>3. ASSUME NEW a \in found PROVE a \in DOMAIN evidence' /\ ~Proven(evidence'[a])
        <3>1. a \in DOMAIN evidence' BY <2>1 DEF Merged
        <3>2. "ProloguePattern" \in evidence'[a].by BY <2>1 DEF Merged
        <3> QED BY <3>1, <3>2 DEF Proven
    <2> QED BY <2>2, <2>3 DEF Guessed
<1>18. WaitOnce'
    <2>1. InSlice' = {} /\ slice' = <<>> BY <1>1, IdleWaits DEF InSlice, Idle
    <2>2. DOMAIN slice' = {} BY <2>1
    <2>3. batch' = InOrder(found) BY <1>1, <1>10
    <2>4. \A i, j \in 1 .. Len(batch') : batch'[i] = batch'[j] => i = j BY <1>15, <2>3, InOrderOnce
    <2> QED BY <2>1, <2>2, <2>4 DEF WaitOnce
<1>19. Waiting' \cap DOMAIN cfgs = {} BY <1>11, <1>16
<1>20. Rounds' = cfgs BY <1>1, <1>8 DEF Rounds
<1>21. AfterRounds(cfgs)' BY <1>12, <1>14, <1>16, <1>17, <1>18, <1>19 DEF AfterRounds
<1> QED BY <1>20, <1>21 DEF LeftoversInv

LEMMA MergeLeftoverKnows ==
    ASSUME NEW cfgs, NEW acc, Merging(acc), Knows(cfgs, acc), NEW w, w.at \notin DOMAIN cfgs,
           w.at \in DOMAIN acc.evidence, ~Proven(acc.evidence[w.at]),
           NEW as, Guessed(acc, as), w.at \notin as
    PROVE  Knows(cfgs, MergeLeftover(acc, w)) /\ Guessed(MergeLeftover(acc, w), as)
<1>1. CASE w.cfg.blocks = <<>> BY <1>1 DEF MergeLeftover
<1>2. CASE w.cfg.blocks # <<>>
    <2>1. PICK e, p, k : acc = [evidence |-> e, pending |-> p, known |-> k] BY DEF Merging
    <2>2. acc.evidence = e /\ acc.pending = p /\ acc.known = k BY <2>1
    <2>3. PICK x : x = [name |-> e[w.at].name, by |-> e[w.at].by, calls |-> w.cfg.calls,
                        has_indirect |-> w.cfg.has_indirect, halt |-> w.cfg.halt]
        OBVIOUS
    <2>4. PICK f : f = Restrict(e, DOMAIN e \ {w.at}) OBVIOUS
    <2>5. MergeLeftover(acc, w) = [acc EXCEPT !.evidence = f, !.known = With(k, w.at, x)]
        BY <1>2, <2>2, <2>3, <2>4 DEF MergeLeftover
    <2>6. PICK u : u = [acc EXCEPT !.evidence = f] OBVIOUS
    <2>7. u = [evidence |-> f, pending |-> p, known |-> k] BY <2>1, <2>6
    <2>8. MergeLeftover(acc, w) = [u EXCEPT !.known = With(k, w.at, x)] BY <2>5, <2>6
    <2>9. PICK m : m = MergeLeftover(acc, w) OBVIOUS
    <2>10. m.evidence = f /\ m.known = With(k, w.at, x) BY <2>7, <2>8, <2>9
    <2>11. DOMAIN f = DOMAIN e \ {w.at} /\ \A a \in DOMAIN f : f[a] = e[a] BY <2>4 DEF Restrict
    <2>12. Guessed(m, as) BY <2>2, <2>10, <2>11 DEF Guessed
    <2>13. /\ DOMAIN m.known = DOMAIN k \cup {w.at} /\ m.known[w.at] = x
           /\ \A a \in DOMAIN k : a # w.at => m.known[a] = k[a]
        BY <2>10 DEF With
    <2>14. ~Proven(x) BY <2>2, <2>3 DEF Proven
    <2>15. w.at \notin WithBlocks(cfgs) BY DEF WithBlocks
    <2>16. Knows(cfgs, m) BY <2>2, <2>13, <2>14, <2>15 DEF Knows
    <2> QED BY <2>9, <2>12, <2>16
<1> QED BY <1>1, <1>2

LEMMA TakenOnce ==
    ASSUME DiscoveryInv, WaitOnce, WalkSlice
    PROVE  WaitOnce'
<1>1. PICK n \in 1 .. Len(batch) :
          /\ slice' = [i \in 1 .. n |-> [at |-> batch[i], cfg |-> RawCfg(Walking(batch[i]))]]
          /\ batch' = SubSeq(batch, n + 1, Len(batch))
    BY DEF WalkSlice
<1>2. batch \in Seq(Addrs) /\ Len(batch) \in Nat /\ n \in Nat /\ 1 <= n /\ n <= Len(batch)
    BY DEF DiscoveryInv
<1>3. Len(batch') = Len(batch) - n /\ \A i \in 1 .. Len(batch) - n : batch'[i] = batch[n + i]
    BY <1>1, <1>2, RestOfBatch
<1>4. \A i, j \in 1 .. Len(batch) : batch[i] = batch[j] => i = j BY DEF WaitOnce
<1>5. \A i \in 1 .. n : i \in 1 .. Len(batch) BY <1>2
<1>6. \A i \in 1 .. Len(batch) - n : n + i \in 1 .. Len(batch) /\ n + i \notin 1 .. n BY <1>2
<1>7. \A i, j \in DOMAIN slice' : slice'[i].at = slice'[j].at => i = j BY <1>1, <1>4, <1>5
<1>8. \A i, j \in 1 .. Len(batch') : batch'[i] = batch'[j] => i = j
    <2> TAKE i, j \in 1 .. Len(batch')
    <2> HAVE batch'[i] = batch'[j]
    <2>1. n + i = n + j BY <1>2, <1>3, <1>4, <1>6
    <2> QED BY <1>2, <2>1
<1>9. InSlice' \cap Items(batch') = {}
    <2>1. InSlice' = {batch[i] : i \in 1 .. n} BY <1>1 DEF InSlice
    <2>2. Items(batch') = {batch[n + i] : i \in 1 .. Len(batch) - n} BY <1>3 DEF Items
    <2>3. \A i \in 1 .. n, j \in 1 .. Len(batch) - n : batch[i] # batch[n + j] BY <1>4, <1>5, <1>6
    <2> QED BY <2>1, <2>2, <2>3
<1> QED BY <1>7, <1>8, <1>9 DEF WaitOnce

LEMMA WalkSliceLeftover ==
    ASSUME RecoveryIs, LeftoversInv, WalkSlice
    PROVE  LeftoversInv'
<1>1. SUFFICES ASSUME phase \in {"leftovers", "refine"} PROVE LeftoversInv' BY DEF LeftoversInv, WalkSlice
<1>2. phase = "leftovers" BY <1>1 DEF WalkSlice, RecoveryIs, DiscoveryInv, Idle
<1>3. /\ image' = image /\ hints' = hints /\ evidence' = evidence /\ pending' = pending /\ known' = known
      /\ raw' = raw /\ phase' = phase
    BY DEF WalkSlice, table
<1>4. PICK cfgs : cfgs = Rounds OBVIOUS
<1>5. Rounds' = cfgs BY <1>3, <1>4 DEF Rounds
<1>6. AfterRounds(cfgs) BY <1>1, <1>4 DEF LeftoversInv
<1>7. Waiting' = Waiting BY TakenWait DEF RecoveryIs
<1>8. Now' = Now BY <1>3 DEF Now
<1>9. WaitOnce' BY <1>2, <1>6, TakenOnce DEF AfterRounds, RecoveryIs
<1>10. AfterRounds(cfgs)' BY <1>2, <1>3, <1>6, <1>7, <1>8, <1>9 DEF AfterRounds, RawIs
<1> QED BY <1>5, <1>10 DEF LeftoversInv

LEMMA InternLeftover ==
    ASSUME RecoveryIs, LeftoversInv, InternSlice
    PROVE  LeftoversInv'
<1>1. SUFFICES ASSUME phase \in {"leftovers", "refine"} PROVE LeftoversInv' BY DEF LeftoversInv, InternSlice
<1>2. phase = "leftovers" BY <1>1 DEF InternSlice, RecoveryIs, DiscoveryInv, Idle
<1>3. /\ image' = image /\ hints' = hints /\ evidence' = evidence /\ pending' = pending /\ known' = known
      /\ phase' = phase /\ batch' = batch /\ slice' = slice
    BY DEF InternSlice, discovery
<1>4. PICK cfgs : cfgs = Rounds OBVIOUS
<1>5. Rounds' = cfgs BY <1>3, <1>4 DEF Rounds
<1>6. AfterRounds(cfgs) BY <1>1, <1>4 DEF LeftoversInv
<1>7. Waiting' = Waiting /\ InSlice' = InSlice BY <1>3 DEF Waiting, InSlice
<1>8. Now' = Now BY <1>3 DEF Now
<1>9. WaitOnce' BY <1>2, <1>3, <1>6, <1>7 DEF AfterRounds, WaitOnce
<1>10. RawIs(cfgs)'
    <2>1. RawIs(cfgs) BY <1>6 DEF AfterRounds
    <2>2. CASE raw' = raw BY <2>1, <2>2 DEF RawIs
    <2>3. CASE \E f \in InSlice : RawGrows(f)
        <3>1. PICK f \in InSlice : RawGrows(f) BY <2>3
        <3>2. f \notin DOMAIN cfgs BY <1>2, <1>6 DEF AfterRounds, Waiting
        <3> QED BY <2>1, <3>1, <3>2 DEF RawIs, RawGrows
    <2>4. RecoveryInv /\ DiscoveryInv BY DEF RecoveryIs
    <2> QED BY <2>2, <2>3, <2>4, InternIs
<1>11. AfterRounds(cfgs)' BY <1>2, <1>3, <1>6, <1>7, <1>8, <1>9, <1>10 DEF AfterRounds
<1> QED BY <1>5, <1>11 DEF LeftoversInv

LEMMA MergeLeftoversKeeps ==
    ASSUME RecoveryIs, LeftoversInv, MergeSlice
    PROVE  LeftoversInv'
<1>1. SUFFICES ASSUME phase \in {"leftovers", "refine"} PROVE LeftoversInv' BY DEF LeftoversInv, MergeSlice
<1>2. phase = "leftovers" BY <1>1 DEF MergeSlice, RecoveryIs, DiscoveryInv, Idle
<1>3. /\ image' = image /\ hints' = hints /\ batch' = batch /\ slice' = <<>> /\ raw' = raw /\ phase' = phase
    BY DEF MergeSlice, Publish
<1>4. PICK cfgs : cfgs = Rounds OBVIOUS
<1>5. Rounds' = cfgs BY <1>3, <1>4 DEF Rounds
<1>6. AfterRounds(cfgs) BY <1>1, <1>4 DEF LeftoversInv
<1>7. RawIs(cfgs) /\ Knows(cfgs, Now) /\ Waiting \cap DOMAIN cfgs = {} /\ Guessed(Now, Waiting) /\ WaitOnce
    BY <1>2, <1>6 DEF AfterRounds
<1>8. PICK m : Merges(m) BY MergesOneByOne DEF RecoveryIs
<1>9. Len(slice) \in Nat /\ DOMAIN slice = 1 .. Len(slice) BY <1>8 DEF Merges
<1> DEFINE Rest(k) == {slice[j].at : j \in k + 1 .. Len(slice)} \cup Items(batch)
           Good == {k \in Nat : k <= Len(slice) => Knows(cfgs, m[k]) /\ Guessed(m[k], Rest(k))}
<1>10. 0 \in Good
    <2>1. \A j \in 0 + 1 .. Len(slice) : j \in DOMAIN slice BY <1>9
    <2>2. Rest(0) \subseteq Waiting BY <2>1 DEF Waiting, InSlice
    <2>3. m[0] = Now BY <1>8 DEF Merges
    <2> HIDE DEF Rest
    <2> QED BY <1>7, <2>2, <2>3 DEF Guessed
<1>11. ASSUME NEW k \in Nat, k \in Good PROVE k + 1 \in Good
    <2>1. SUFFICES ASSUME k + 1 <= Len(slice) PROVE Knows(cfgs, m[k + 1]) /\ Guessed(m[k + 1], Rest(k + 1))
        OBVIOUS
    <2>2. k <= Len(slice) /\ k + 1 \in DOMAIN slice BY <1>9, <2>1
    <2>3. PICK w : w = slice[k + 1] OBVIOUS
    <2>4. PICK as : as = Rest(k + 1) OBVIOUS
    <2>5. as \subseteq Rest(k) /\ w.at \in Rest(k)
        <3>1. \A j \in (k + 1) + 1 .. Len(slice) : j \in k + 1 .. Len(slice) BY <1>9
        <3>2. k + 1 \in k + 1 .. Len(slice) BY <1>9, <2>1
        <3> QED BY <2>3, <2>4, <3>1, <3>2
    <2>6. w.at \notin as
        <3>1. \A j \in (k + 1) + 1 .. Len(slice) : j \in DOMAIN slice /\ j # k + 1 BY <1>9
        <3>2. \A j \in (k + 1) + 1 .. Len(slice) : slice[j].at # w.at BY <1>7, <2>2, <2>3, <3>1 DEF WaitOnce
        <3>3. w.at \in InSlice BY <2>2, <2>3 DEF InSlice
        <3>4. w.at \notin Items(batch) BY <1>7, <3>3 DEF WaitOnce
        <3> QED BY <2>4, <3>2, <3>4
    <2>7. w.at \notin DOMAIN cfgs
        <3>1. w.at \in InSlice BY <2>2, <2>3 DEF InSlice
        <3> QED BY <1>7, <3>1 DEF Waiting
    <2>8. m[k + 1] = MergeLeftover(m[k], w) BY <1>2, <1>8, <2>1, <2>3 DEF Merges, MergeWalk
    <2>9. Merging(m[k]) BY <1>8, <2>2 DEF Merges
    <2>10. Knows(cfgs, m[k]) /\ Guessed(m[k], Rest(k)) BY <1>11, <2>2
    <2> HIDE DEF Rest
    <2>11. Guessed(m[k], as) BY <2>5, <2>10 DEF Guessed
    <2>12. w.at \in DOMAIN m[k].evidence /\ ~Proven(m[k].evidence[w.at]) BY <2>5, <2>10 DEF Guessed
    <2>13. Knows(cfgs, MergeLeftover(m[k], w)) /\ Guessed(MergeLeftover(m[k], w), as)
        BY <2>6, <2>7, <2>9, <2>10, <2>11, <2>12, MergeLeftoverKnows
    <2> QED BY <2>4, <2>8, <2>13
<1>12. Items(batch) \subseteq Rest(Len(slice)) OBVIOUS
<1> HIDE DEF Good, Rest
<1>13. Len(slice) \in Good BY <1>9, <1>10, <1>11, AllNumbers
<1>14. Knows(cfgs, m[Len(slice)]) /\ Guessed(m[Len(slice)], Items(batch)) BY <1>9, <1>12, <1>13 DEF Good, Guessed
<1>15. Now' = m[Len(slice)] BY <1>8, MergedNow
<1>16. InSlice' = {} /\ Items(batch') = Items(batch) /\ DOMAIN slice' = {}
    <2>1. DOMAIN slice' = {} BY <1>3
    <2> QED BY <1>3, <2>1 DEF InSlice
<1>17. Waiting' = Items(batch) BY <1>16 DEF Waiting
<1>18. WaitOnce' BY <1>3, <1>7, <1>16 DEF WaitOnce
<1>19. Guessed(Now, Waiting)' BY <1>14, <1>15, <1>17
<1>20. Items(batch) \cap DOMAIN cfgs = {} BY <1>7 DEF Waiting
<1>21. Knows(cfgs, Now)' BY <1>14, <1>15
<1>22. RawIs(cfgs)' BY <1>3, <1>7 DEF RawIs
<1>23. AfterRounds(cfgs)' BY <1>17, <1>18, <1>19, <1>20, <1>21, <1>22 DEF AfterRounds
<1> QED BY <1>5, <1>23 DEF LeftoversInv

-----------------------------------------------------------------------------
(* When functions that never return are known: the entries that no longer stop *)
(* a walk are of functions without blocks, so the walks of calls only shrink.  *)
ShrunkFrom(cfgs) ==
    /\ \A t \in DOMAIN cfgs \ stop_at : cfgs[t].blocks = <<>>
    /\ DOMAIN cfgs \subseteq DOMAIN raw
    /\ \A f \in DOMAIN cfgs :
           ~IsCapped(cfgs[f]) => Covers(ToSet(raw[f])) \subseteq Covers(ToSet(cfgs[f].blocks))
RewalkInv == phase = "rewalk" => ShrunkFrom(Rounds)

LEMMA RefineKeeps ==
    ASSUME LeftoversInv, Refine
    PROVE  RewalkInv'
<1>1. /\ phase = "refine" /\ image' = image /\ hints' = hints /\ stop_at' = DOMAIN known /\ raw' = raw
    BY DEF Refine, table
<1>2. PICK cfgs : cfgs = Rounds OBVIOUS
<1>3. Rounds' = cfgs BY <1>1, <1>2 DEF Rounds
<1>4. RawIs(cfgs) /\ Knows(cfgs, Now) BY <1>1, <1>2 DEF LeftoversInv, AfterRounds
<1>5. WithBlocks(cfgs) \subseteq DOMAIN known BY <1>4 DEF Knows, Now
<1>6. ShrunkFrom(cfgs)' BY <1>1, <1>4, <1>5 DEF ShrunkFrom, RawIs, WithBlocks
<1> QED BY <1>3, <1>6 DEF RewalkInv

(* The walk that is installed is no longer than that of its round. *)
LEMMA RewalkShrinks ==
    ASSUME RecoveryIs, RewalkInv, phase = "rewalk", NEW f \in DOMAIN Rounds, ~IsCapped(Rounds[f])
    PROVE  Covers(ToSet(RawCfg(Walking(f)).blocks)) \subseteq Covers(ToSet(Rounds[f].blocks))
<1>1. PICK r : r = RoundsOf(image, hints)[LastAddr] OBVIOUS
<1>2. DOMAIN hints \subseteq Addrs BY HintsAssumption DEF RecoveryIs
<1>3. LastAddr \in 0 .. LastAddr BY CapsAssumption
<1>4. RoundShape(image, r) /\ r.last = {} /\ Rounds = r.cfgs
    BY <1>1, <1>2, <1>3, RoundsShaped, RoundsEnd DEF Rounds
<1>5. DOMAIN r.cfgs = r.seen /\ r.seen \subseteq Addrs BY <1>4 DEF RoundShape
<1>6. PICK s \in SUBSET r.seen : Rounds[f] = Round(image, f, s) BY <1>4 DEF RoundShape
<1>7. Walking(f) = Rewalk(image, f, stop_at, noreturn) BY DEF Walking, Rewalk
<1>8. f \in Addrs BY <1>4, <1>5
<1>9. ASSUME NEW t \in (s \ stop_at) \cap Addrs PROVE Round(image, t, {}).blocks = <<>>
    <2>1. t \in DOMAIN r.cfgs BY <1>5
    <2>2. r.cfgs[t].blocks = <<>> BY <1>4, <2>1 DEF RewalkInv, ShrunkFrom
    <2>3. PICK q : r.cfgs[t] = Round(image, t, q) BY <1>4, <2>1 DEF RoundShape
    <2>4. PICK c, d : c = Rewalk(image, t, q, {}) /\ d = Rewalk(image, t, {}, {}) OBVIOUS
    <2>5. c.entry = t /\ d.entry = t /\ c.image = image /\ d.image = image /\ c.data = {} /\ d.data = {}
        BY <2>4 DEF Rewalk
    <2>6. Round(image, t, q) = RawCfg(c) /\ Round(image, t, {}) = RawCfg(d) BY <2>4 DEF Round, Rewalk
    <2>7. ~Runs(c, t) BY <2>2, <2>3, <2>5, <2>6, EntryIsWalked
    <2>8. ~Runs(d, t) BY <2>5, <2>7 DEF Runs, Decodes
    <2> QED BY <2>5, <2>6, <2>8, EntryIsWalked
<1> QED BY <1>6, <1>7, <1>8, <1>9, WalkShrinks

LEMMA RewalkKeeps ==
    ASSUME RecoveryIs, RewalkInv, phase = "rewalk", InternSlice
    PROVE  RewalkInv'
<1>1. image' = image /\ hints' = hints /\ stop_at' = stop_at BY DEF InternSlice, discovery
<1>2. PICK cfgs : cfgs = Rounds OBVIOUS
<1>3. Rounds' = cfgs BY <1>1, <1>2 DEF Rounds
<1>4. ShrunkFrom(cfgs) BY <1>2 DEF RewalkInv
<1>5. CASE raw' = raw BY <1>1, <1>3, <1>4, <1>5 DEF RewalkInv, ShrunkFrom
<1>6. CASE \E f \in InSlice : RawGrows(f)
    <2>1. PICK f \in InSlice : RawGrows(f) BY <1>6
    <2>2. /\ f \in DOMAIN raw' /\ raw'[f] = RawCfg(Walking(f)).blocks
          /\ \A g \in DOMAIN raw : g \in DOMAIN raw' /\ (g # f => raw'[g] = raw[g])
        BY <2>1 DEF RawGrows
    <2>3. ASSUME NEW g \in DOMAIN cfgs
          PROVE  /\ g \in DOMAIN raw'
                 /\ ~IsCapped(cfgs[g]) => Covers(ToSet(raw'[g])) \subseteq Covers(ToSet(cfgs[g].blocks))
        <3>1. CASE g # f BY <1>4, <2>2, <3>1 DEF ShrunkFrom
        <3>2. CASE g = f BY <1>2, <2>2, <3>2, RewalkShrinks
        <3> QED BY <3>1, <3>2
    <2>4. ShrunkFrom(cfgs)' BY <1>1, <1>4, <2>3 DEF ShrunkFrom
    <2> QED BY <1>3, <2>4 DEF RewalkInv
<1>7. RecoveryInv /\ DiscoveryInv BY DEF RecoveryIs
<1> QED BY <1>5, <1>6, <1>7, InternIs

-----------------------------------------------------------------------------
Phases == RoundsInv /\ LeftoversInv /\ RewalkInv

LEMMA PhasesStart ==
    ASSUME Init
    PROVE  Phases
<1>1. /\ image \in Images /\ hints \in Hints /\ phase = "rounds" /\ pending = DOMAIN hints /\ batch = <<>>
      /\ slice = <<>> /\ known = <<>>
      /\ evidence = [a \in DOMAIN hints |-> [by |-> {"Symbol"}, name |-> hints[a]]]
    BY DEF Init
<1>2. PICK r : r = RoundsOf(image, hints)[0] OBVIOUS
<1>3. r = FirstRound(hints) BY <1>2, RoundsAre
<1>4. r.seen = DOMAIN hints /\ r.last = DOMAIN hints /\ r.cfgs = <<>> BY <1>3 DEF FirstRound
<1>5. DOMAIN r.cfgs = {} /\ DOMAIN known = {} BY <1>1, <1>4
<1>6. \A a \in DOMAIN evidence : evidence[a].by = {"Symbol"} BY <1>1
<1>7. \A a \in DOMAIN evidence : Proven(evidence[a]) BY <1>6 DEF Proven
<1>8. HoldsFor(Now, r) BY <1>1, <1>4, <1>5, <1>7 DEF HoldsFor, Now, WithBlocks
<1>9. Between(r) BY <1>1, <1>5, <1>8 DEF Between, Idle, RawIs
<1>10. 0 \in 0 .. LastAddr BY CapsAssumption
<1>11. RoundsInv BY <1>2, <1>9, <1>10 DEF RoundsInv, AtRound
<1> QED BY <1>1, <1>11 DEF Phases, LeftoversInv, RewalkInv

LEMMA PhasesKept ==
    ASSUME RecoveryIs, Phases, [LiftingNext]_<<vars, dataflow>>
    PROVE  Phases'
<1>1. RoundsInv /\ LeftoversInv /\ RewalkInv BY DEF Phases
<1>2. image' = image /\ hints' = hints BY SameProgram
<1>3. Rounds' = Rounds BY <1>2 DEF Rounds
<1>4. CASE StartRound
    <2>1. phase' = "rounds" BY <1>4 DEF StartRound
    <2> QED BY <1>1, <1>4, <2>1, StartRoundKeeps DEF Phases, LeftoversInv, RewalkInv
<1>5. CASE WalkSlice
    <2>1. phase' = phase /\ stop_at' = stop_at /\ raw' = raw BY <1>5 DEF WalkSlice, table
    <2>2. RewalkInv' BY <1>1, <1>3, <2>1 DEF RewalkInv, ShrunkFrom
    <2> QED BY <1>1, <1>5, <2>2, WalkSliceInRound, WalkSliceLeftover DEF Phases
<1>6. CASE InternSlice
    <2>1. phase' = phase BY <1>6 DEF InternSlice
    <2>2. RewalkInv' BY <1>1, <1>6, <2>1, RewalkKeeps DEF RewalkInv
    <2> QED BY <1>1, <1>6, <2>2, InternInRound, InternLeftover DEF Phases
<1>7. CASE MergeSlice
    <2>1. phase' = phase /\ stop_at' = stop_at /\ raw' = raw BY <1>7 DEF MergeSlice, Publish
    <2>2. RewalkInv' BY <1>1, <1>3, <2>1 DEF RewalkInv, ShrunkFrom
    <2> QED BY <1>1, <1>7, <2>2, MergeInRound, MergeLeftoversKeeps DEF Phases
<1>8. CASE ScanGaps
    <2>1. phase' \in {"leftovers", "refine"} BY <1>8 DEF ScanGaps
    <2> QED BY <1>1, <1>8, <2>1, ScanGapsKeeps DEF Phases, RoundsInv, RewalkInv
<1>9. CASE EndLeftovers
    <2>1. /\ phase = "leftovers" /\ phase' = "refine" /\ raw' = raw /\ evidence' = evidence
          /\ pending' = pending /\ known' = known
        BY <1>9 DEF EndLeftovers, discovery, table
    <2>2. Now' = Now BY <2>1 DEF Now
    <2>3. LeftoversInv' BY <1>1, <1>3, <2>1, <2>2 DEF LeftoversInv, AfterRounds, RawIs
    <2> QED BY <2>1, <2>3 DEF Phases, RoundsInv, RewalkInv
<1>10. CASE Refine
    <2>1. phase' = "rewalk" BY <1>10 DEF Refine
    <2> QED BY <1>1, <1>10, <2>1, RefineKeeps DEF Phases, RoundsInv, LeftoversInv
<1>11. CASE Finish
    <2>1. phase' = "done" BY <1>11 DEF Finish
    <2> QED BY <2>1 DEF Phases, RoundsInv, LeftoversInv, RewalkInv
<1>12. CASE UNCHANGED vars
    <2>1. /\ phase' = phase /\ raw' = raw /\ evidence' = evidence /\ pending' = pending /\ known' = known
          /\ stop_at' = stop_at /\ batch' = batch /\ slice' = slice
        BY <1>12 DEF vars, discovery, table
    <2>2. Now' = Now BY <2>1 DEF Now
    <2>3. InSlice' = InSlice BY <2>1 DEF InSlice
    <2>4. Waiting' = Waiting BY <2>1, <2>3 DEF Waiting
    <2>5. RewalkInv' BY <1>1, <1>3, <2>1 DEF RewalkInv, ShrunkFrom
    <2>6. WaitOnce' = WaitOnce BY <2>1, <2>3 DEF WaitOnce
    <2>7. LeftoversInv' BY <1>1, <1>3, <2>1, <2>2, <2>4, <2>6 DEF LeftoversInv, AfterRounds, RawIs
    <2>8. ASSUME NEW n \in 0 .. LastAddr, AtRound(image, hints, n) PROVE AtRound(image, hints, n)'
        BY <1>2, <2>1, <2>2, <2>4, <2>8 DEF AtRound, Between, InRound, RawIs, Idle
    <2>9. RoundsInv' BY <1>1, <2>1, <2>8 DEF RoundsInv
    <2> QED BY <2>5, <2>7, <2>9 DEF Phases
<1>13. CASE LiftFunction
    <2>1. UNCHANGED vars BY <1>13 DEF LiftFunction
    <2> QED BY <1>12, <2>1
<1>14. CASE UNCHANGED <<vars, dataflow>>
    <2>1. UNCHANGED vars BY <1>14
    <2> QED BY <1>12, <2>1
<1> QED BY <1>4, <1>5, <1>6, <1>7, <1>8, <1>9, <1>10, <1>11, <1>12, <1>13, <1>14 DEF LiftingNext, Next

LEMMA AlwaysInPhase ==
    ASSUME HashIsNumber
    PROVE  LiftingSpec => [](RecoveryIs /\ Phases)
<1>1. LiftingInit => RecoveryIs /\ Phases BY RecoveryIsStarts, PhasesStart DEF LiftingInit
<1>2. RecoveryIs /\ Phases /\ [LiftingNext]_<<vars, dataflow>> => (RecoveryIs /\ Phases)'
    BY RecoveryIsKept, PhasesKept
<1> QED BY <1>1, <1>2, PTL DEF LiftingSpec

(* However a round is cut into slices, and whatever order they are merged in,  *)
(* the functions that are known when the gaps are scanned, their blocks and    *)
(* their calls are those of the rounds: for every program and every hint, the  *)
(* answer is "independent of which thread finished first" (program.rs:3-6).    *)
THEOREM SlicesNeverMatter ==
    ASSUME HashIsNumber
    PROVE  LiftingSpec => []SlicesDoNotMatter
<1>1. ASSUME RecoveryIs, Phases PROVE SlicesDoNotMatter
    <2>1. SUFFICES ASSUME phase = "refine", NEW cfgs \in {Rounds}
                   PROVE  LET found == {a \in DOMAIN known : "ProloguePattern" \notin known[a].by}
                          IN  /\ found = {a \in DOMAIN cfgs : cfgs[a].blocks # <<>>}
                              /\ \A a \in found : Read(a) = cfgs[a].blocks /\ known[a].calls = cfgs[a].calls
        BY DEF SlicesDoNotMatter
    <2>2. PICK found : found = {a \in DOMAIN known : "ProloguePattern" \notin known[a].by} OBVIOUS
    <2>3. AfterRounds(cfgs) BY <1>1, <2>1 DEF Phases, LeftoversInv
    <2>4. RawIs(cfgs) /\ Knows(cfgs, Now) BY <2>3 DEF AfterRounds
    <2>5. found = WithBlocks(cfgs) BY <2>2, <2>4 DEF Knows, Now, Proven, WithBlocks
    <2>6. slice = <<>> BY <1>1, <2>1 DEF RecoveryIs, DiscoveryInv, Idle
    <2>7. ASSUME NEW a \in found PROVE Read(a) = cfgs[a].blocks /\ known[a].calls = cfgs[a].calls
        <3>1. a \in DOMAIN known /\ a \in DOMAIN cfgs BY <2>2, <2>5 DEF WithBlocks
        <3>2. Read(a) = raw[a] BY <1>1, <2>6, <3>1, ReadsRaw DEF RecoveryIs
        <3>3. raw[a] = cfgs[a].blocks BY <2>4, <3>1 DEF RawIs
        <3>4. known[a].calls = cfgs[a].calls BY <2>4, <2>5 DEF Knows, Now
        <3> QED BY <3>2, <3>3, <3>4
    <2> QED BY <2>2, <2>5, <2>7 DEF WithBlocks
<1> QED BY <1>1, AlwaysInPhase, PTL

(* A re-walk, with the entries of the known functions to stop it and the       *)
(* functions that never return, reaches no instruction that the round's walk   *)
(* did not, unless a cap cut that one short (program.rs:548).                  *)
THEOREM RewalkAlwaysShortens ==
    ASSUME HashIsNumber
    PROVE  LiftingSpec => []RewalkOnlyShortens
<1>1. ASSUME RecoveryIs, Phases PROVE RewalkOnlyShortens
    <2>1. SUFFICES ASSUME phase = "rewalk", Idle, NEW cfgs \in {Rounds},
                          NEW f \in DOMAIN known \cap DOMAIN cfgs, ~IsCapped(cfgs[f])
                   PROVE  Covers(BlocksOf(f)) \subseteq Covers(ToSet(cfgs[f].blocks))
        BY DEF RewalkOnlyShortens
    <2>2. ShrunkFrom(cfgs) BY <1>1, <2>1 DEF Phases, RewalkInv
    <2>3. Covers(ToSet(raw[f])) \subseteq Covers(ToSet(cfgs[f].blocks)) BY <2>1, <2>2 DEF ShrunkFrom
    <2>4. Read(f) = raw[f] BY <1>1, <2>1, ReadsRaw DEF RecoveryIs, Idle
    <2> QED BY <2>3, <2>4 DEF BlocksOf
<1> QED BY <1>1, AlwaysInPhase, PTL

-----------------------------------------------------------------------------
(* A walk that is complete: every run ends its block, or goes on to another    *)
(* start; and what the runs call is in its calls.                              *)
WholeRun(c, r, s, seen) ==
    r.end > s /\ IF EndsBlock(c, r.end - 1) THEN r.term = Terminator(c, r.end - 1) ELSE r.end \in seen
WalkWhole(c, w) ==
    /\ \A s \in DOMAIN w.ends : Called(c, s, w.ends[s].end) \subseteq w.calls
    /\ w.halt = "Complete" => \A s \in DOMAIN w.ends : WholeRun(c, w.ends[s], s, DOMAIN w.ends)

LEMMA RunIsWhole ==
    ASSUME NEW c, NEW w, NEW start \in Addrs, Run(c, w, start).halt = "Complete"
    PROVE  w.halt = "Complete" /\ WholeRun(c, Run(c, w, start).run, start, DOMAIN w.ends)
<1>1. PICK a : a = StopsAt(c, w, start) OBVIOUS
<1>2. PICK r : r = Run(c, w, start) OBVIOUS
<1>3. /\ a \in start .. LastAddr + 1 /\ StopsHere(c, w, start, a)
      /\ \A b \in start .. a - 1 : ~StopsHere(c, w, start, b)
    BY <1>1, StopsFirst
<1>4. start \in Nat /\ a \in Nat /\ start <= a BY <1>3, AddrsAreNumbers
<1> DEFINE cut == [end |-> a, successors |-> {}, term |-> "Unresolved"]
<1>5. CASE Capped(w, start, a)
    <2>1. r = [run |-> cut, halt |-> "InstructionCap"] BY <1>1, <1>2, <1>5 DEF Run
    <2>2. r.halt = "InstructionCap" BY <2>1
    <2> QED BY <1>2, <2>2
<1>6. CASE ~Capped(w, start, a) /\ Joins(w, start, a)
    <2>1. r = [run |-> [cut EXCEPT !.successors = {a}, !.term = "Flow"], halt |-> w.halt]
        BY <1>1, <1>2, <1>6 DEF Run
    <2>2. r.run.end = a /\ r.halt = w.halt BY <2>1
    <2>3. a > start /\ a \in DOMAIN w.ends BY <1>4, <1>6 DEF Joins
    <2>4. a - 1 \in start .. a - 1 BY <1>4, <2>3
    <2>5. ~EndsBlock(c, a - 1) BY <1>3, <2>4 DEF StopsHere
    <2> QED BY <1>2, <2>2, <2>3, <2>5 DEF WholeRun
<1>7. CASE ~Capped(w, start, a) /\ ~Joins(w, start, a) /\ Stuck(c, a)
    <2>1. r = [run |-> cut, halt |-> "Undecodable"] BY <1>1, <1>2, <1>7 DEF Run
    <2>2. r.halt = "Undecodable" BY <2>1
    <2> QED BY <1>2, <2>2
<1>8. CASE ~Capped(w, start, a) /\ ~Joins(w, start, a) /\ ~Stuck(c, a)
    <2>1. r = [run |-> [end |-> a + 1, successors |-> Successors(c, a), term |-> Terminator(c, a)],
               halt |-> w.halt]
        BY <1>1, <1>2, <1>8 DEF Run
    <2>2. r.run.end = a + 1 /\ r.run.term = Terminator(c, a) /\ r.halt = w.halt BY <2>1
    <2>3. a + 1 > start /\ (a + 1) - 1 = a BY <1>4
    <2>4. EndsBlock(c, a) BY <1>3, <1>8 DEF StopsHere
    <2>5. PICK ran : ran = r.run OBVIOUS
    <2>6. ran.end - 1 = a /\ ran.end > start /\ ran.term = Terminator(c, a) BY <2>2, <2>3, <2>5
    <2>7. WholeRun(c, ran, start, DOMAIN w.ends) BY <2>4, <2>6 DEF WholeRun
    <2> QED BY <1>2, <2>2, <2>5, <2>7
<1> QED BY <1>5, <1>6, <1>7, <1>8

LEMMA TurnKeeps ==
    ASSUME NEW c, NEW w, WalkInv(c, w)
    PROVE  WalkInv(c, WalkTurn(c, w))
<1>1. PICK v : v = WalkTurn(c, w) OBVIOUS
<1>2. PICK start : start = w.work[Len(w.work)] OBVIOUS
<1>3. CASE w.work = <<>> BY <1>3 DEF WalkTurn
<1>4. CASE w.work # <<>> /\ start \in DOMAIN w.ends
    <2>1. v = [w EXCEPT !.work = Front(@)] BY <1>1, <1>2, <1>4 DEF WalkTurn, WalkOne
    <2> QED BY <1>1, <1>2, <1>4, <2>1, PoppedKeeps
<1>5. CASE w.work # <<>> /\ start \notin DOMAIN w.ends /\ Cardinality(DOMAIN w.ends) >= BlockCap
    <2>1. v = [w EXCEPT !.work = <<>>, !.halt = "BlockCap"] BY <1>1, <1>2, <1>5 DEF WalkTurn, WalkOne
    <2>2. WalkInv(c, v) BY <2>1, FullKeeps
    <2> QED BY <1>1, <2>2
<1>6. CASE w.work # <<>> /\ start \notin DOMAIN w.ends /\ ~(Cardinality(DOMAIN w.ends) >= BlockCap)
    <2>1. v = Taken(c, w, start, Run(c, w, start)) BY <1>1, <1>2, <1>6 DEF WalkTurn, WalkOne
    <2> QED BY <1>1, <1>2, <1>6, <2>1, TakenKeeps
<1> QED BY <1>3, <1>4, <1>5, <1>6

LEMMA WholeTurn ==
    ASSUME NEW c, NEW w, WalkInv(c, w), WalkWhole(c, w)
    PROVE  WalkWhole(c, WalkTurn(c, w))
<1>1. PICK v : v = WalkTurn(c, w) OBVIOUS
<1>2. PICK start : start = w.work[Len(w.work)] OBVIOUS
<1>3. PICK work, ends, calls, ind, budget, halt :
          w = [work |-> work, ends |-> ends, calls |-> calls, has_indirect |-> ind,
               budget |-> budget, halt |-> halt]
    BY DEF WalkInv, WalkShape
<1>4. CASE w.work = <<>> BY <1>4 DEF WalkTurn
<1>5. CASE w.work # <<>> /\ start \in DOMAIN w.ends
    <2>1. v = [w EXCEPT !.work = Front(@)] BY <1>1, <1>2, <1>5 DEF WalkTurn, WalkOne
    <2>2. v.ends = w.ends /\ v.calls = w.calls /\ v.halt = w.halt BY <1>3, <2>1
    <2> QED BY <1>1, <2>2 DEF WalkWhole
<1>6. CASE w.work # <<>> /\ start \notin DOMAIN w.ends /\ Cardinality(DOMAIN w.ends) >= BlockCap
    <2>1. v = [w EXCEPT !.work = <<>>, !.halt = "BlockCap"] BY <1>1, <1>2, <1>6 DEF WalkTurn, WalkOne
    <2>2. PICK u : u = [w EXCEPT !.work = <<>>] OBVIOUS
    <2>3. u = [work |-> <<>>, ends |-> ends, calls |-> calls, has_indirect |-> ind,
               budget |-> budget, halt |-> halt]
        BY <1>3, <2>2
    <2>4. v = [u EXCEPT !.halt = "BlockCap"] BY <2>1, <2>2
    <2>5. v.ends = ends /\ v.calls = calls /\ v.halt = "BlockCap" BY <2>3, <2>4
    <2>6. w.ends = ends /\ w.calls = calls BY <1>3
    <2> QED BY <1>1, <2>5, <2>6 DEF WalkWhole
<1>7. CASE w.work # <<>> /\ start \notin DOMAIN w.ends /\ ~(Cardinality(DOMAIN w.ends) >= BlockCap)
    <2>1. PICK r : r = Run(c, w, start) OBVIOUS
    <2>2. v = Taken(c, w, start, r) BY <1>1, <1>2, <1>7, <2>1 DEF WalkTurn, WalkOne
    <2>3. /\ v.ends = [s \in DOMAIN w.ends \cup {start} |-> IF s = start THEN r.run ELSE w.ends[s]]
          /\ v.calls = w.calls \cup Called(c, start, r.run.end) /\ v.halt = r.halt
        BY <2>2 DEF Taken, Extend
    <2>4. /\ DOMAIN v.ends = DOMAIN w.ends \cup {start} /\ v.ends[start] = r.run
          /\ \A s \in DOMAIN w.ends : v.ends[s] = w.ends[s]
        BY <1>7, <2>3
    <2>5. start \in Addrs
        <3>1. w.work \in Seq(Addrs) BY DEF WalkInv, WalkShape
        <3> QED BY <1>2, <1>7, <3>1, ItemsOfFront
    <2>6. \A s \in DOMAIN v.ends : Called(c, s, v.ends[s].end) \subseteq v.calls
        <3>1. \A s \in DOMAIN w.ends : Called(c, s, w.ends[s].end) \subseteq w.calls BY DEF WalkWhole
        <3> QED BY <2>3, <2>4, <3>1
    <2>7. ASSUME v.halt = "Complete"
          PROVE  \A s \in DOMAIN v.ends : WholeRun(c, v.ends[s], s, DOMAIN v.ends)
        <3>1. r.halt = "Complete" BY <2>3, <2>7
        <3>2. w.halt = "Complete" /\ WholeRun(c, r.run, start, DOMAIN w.ends) BY <2>1, <2>5, <3>1, RunIsWhole
        <3>3. \A s \in DOMAIN w.ends : WholeRun(c, w.ends[s], s, DOMAIN w.ends) BY <3>2 DEF WalkWhole
        <3>4. \A s \in DOMAIN v.ends : WholeRun(c, v.ends[s], s, DOMAIN w.ends) BY <2>4, <3>2, <3>3
        <3>5. DOMAIN w.ends \subseteq DOMAIN v.ends BY <2>4
        <3> QED BY <3>4, <3>5 DEF WholeRun
    <2> QED BY <1>1, <2>6, <2>7 DEF WalkWhole
<1> QED BY <1>4, <1>5, <1>6, <1>7

LEMMA WalkedWhole ==
    ASSUME NEW c, c.entry \in Addrs
    PROVE  WalkWhole(c, Walked(c))
<1>1. Turns \in Nat BY CapsAssumption DEF Turns
<1>2. PICK w : w = [n \in 0 .. Turns |-> IF n = 0 THEN Start(c) ELSE WalkTurn(c, w[n - 1])] /\ Walked(c) = w[Turns]
    BY <1>1, WalkedIs DEF Walked, WalkTurn
<1> DEFINE Good == {n \in Nat : n <= Turns => WalkInv(c, w[n]) /\ WalkWhole(c, w[n])}
<1>3. 0 \in Good
    <2>1. w[0] = Start(c) BY <1>1, <1>2
    <2>2. PICK v : v = Start(c) OBVIOUS
    <2>3. v.ends = <<>> BY <2>2 DEF Start
    <2>4. DOMAIN v.ends = {} BY <2>3
    <2>5. WalkWhole(c, v) BY <2>4 DEF WalkWhole
    <2> QED BY <2>1, <2>2, <2>5, WalkStarts
<1>4. ASSUME NEW n \in Nat, n \in Good PROVE n + 1 \in Good
    <2>1. SUFFICES ASSUME n + 1 <= Turns PROVE WalkInv(c, w[n + 1]) /\ WalkWhole(c, w[n + 1]) OBVIOUS
    <2>2. n + 1 \in 0 .. Turns /\ n + 1 # 0 /\ (n + 1) - 1 = n /\ n <= Turns BY <1>1, <2>1
    <2>3. w[n + 1] = WalkTurn(c, w[n]) BY <1>2, <2>2
    <2>4. WalkInv(c, w[n]) /\ WalkWhole(c, w[n]) BY <1>4, <2>2
    <2> QED BY <2>3, <2>4, TurnKeeps, WholeTurn
<1> HIDE DEF Good
<1>5. Turns \in Good BY <1>1, <1>3, <1>4, AllNumbers
<1> QED BY <1>1, <1>2, <1>5 DEF Good

(* Then the blocks hold all that control can get to, and of what leads out of  *)
(* them, the calls and the ends.                                               *)
WholeFlow(c, cfg) ==
    \A a \in Covers(ToSet(cfg.blocks)) :
        /\ Runs(c, a)
        /\ Successors(c, a) \cap Addrs \subseteq Covers(ToSet(cfg.blocks))
        /\ c.image[a].flow \in {"jump", "cond"} => TailTargets(c, a) \subseteq cfg.calls
        /\ EndsBlock(c, a) =>
               \E b \in ToSet(cfg.blocks) : b.successors = Successors(c, a) /\ b.term = Terminator(c, a)

LEMMA CompleteWalk ==
    ASSUME NEW c, c.entry \in Addrs, RawCfg(c).halt = "Complete"
    PROVE  WholeFlow(c, RawCfg(c))
<1>1. PICK w : w = Walked(c) OBVIOUS
<1>2. PICK cfg : cfg = RawCfg(c) OBVIOUS
<1>3. WalkInv(c, w) /\ w.work = <<>> /\ WalkWhole(c, w) BY <1>1, WalkFinishes, WalkedWhole
<1>4. cfg.halt = w.halt /\ cfg.calls = w.calls BY <1>1, <1>2 DEF RawCfg, Found
<1>5. w.halt = "Complete" BY <1>2, <1>4
<1>6. Finished(c, w)
    <2>1. Items(w.work) = {} BY <1>3 DEF Items
    <2>2. Seen(w) = DOMAIN w.ends BY <2>1 DEF Seen
    <2>3. ~IsCapped(w) BY <1>5 DEF IsCapped
    <2> QED BY <1>3, <2>2, <2>3 DEF WalkInv, Finished
<1>7. PICK bs : bs = ToSet(cfg.blocks) OBVIOUS
<1>8. bs = {BlockAt(w, s) : s \in Starts(w)} BY <1>1, <1>2, <1>3, <1>7, BlocksOfStarts
<1>9. ASSUME NEW s \in DOMAIN w.ends
      PROVE  /\ s \in Nat /\ w.ends[s].end \in Nat /\ s < w.ends[s].end
             /\ RunInv(c, w.ends[s], s) /\ WholeRun(c, w.ends[s], s, DOMAIN w.ends)
             /\ Runs(c, s)
    <2>1. s \in Nat BY <1>3, AddrsAreNumbers DEF WalkInv, WalkShape
    <2>2. PICK ran : ran = w.ends[s] OBVIOUS
    <2>3. RunInv(c, ran, s) /\ WholeRun(c, ran, s, DOMAIN w.ends) BY <1>3, <1>5, <2>2 DEF WalkInv, WalkWhole
    <2>4. ran.end \in Nat /\ s < ran.end BY <2>1, <2>3, AddrsAreNumbers DEF RunInv, WholeRun
    <2>5. s \in s .. ran.end - 1 BY <2>1, <2>4
    <2>6. Runs(c, s) BY <2>3, <2>5 DEF RunInv
    <2> QED BY <2>1, <2>2, <2>3, <2>4, <2>6
<1>10. Covers(bs) = Reachable(c) /\ Runs(c, c.entry)
    <2>1. c.entry \in DOMAIN w.ends BY <1>6 DEF Finished
    <2>2. ~IsCapped(cfg) BY <1>4, <1>5 DEF IsCapped
    <2>3. ExactBlocks(c, cfg) BY <1>2, WalkFindsBlocks
    <2> QED BY <1>7, <1>9, <2>1, <2>2, <2>3 DEF ExactBlocks
<1>11. ASSUME NEW a \in Reachable(c) PROVE a \in Walkways(w)
    <2>1. PICK t \in Starts(w) : a \in BlockAt(w, t).at .. BlockAt(w, t).end - 1
        BY <1>8, <1>10 DEF Covers
    <2>2. t \in DOMAIN w.ends BY DEF Starts
    <2>3. CutInv(c, w, t) BY <1>3, <2>2, CutIs
    <2>4. Cut(w, t).end \in Nat /\ Cut(w, t).end <= w.ends[t].end BY <2>3 DEF CutInv
    <2>5. BlockAt(w, t).at = t /\ BlockAt(w, t).end = Cut(w, t).end BY DEF BlockAt
    <2>6. a \in t .. w.ends[t].end - 1 BY <1>9, <2>1, <2>2, <2>4, <2>5
    <2> QED BY <2>2, <2>6 DEF Walkways
<1>12. ASSUME NEW a \in Reachable(c)
       PROVE  /\ Runs(c, a)
              /\ Successors(c, a) \cap Addrs \subseteq Reachable(c)
              /\ c.image[a].flow \in {"jump", "cond"} => TailTargets(c, a) \subseteq cfg.calls
              /\ EndsBlock(c, a) => \E b \in bs : b.successors = Successors(c, a) /\ b.term = Terminator(c, a)
    <2>1. PICK s \in DOMAIN w.ends : a \in s .. w.ends[s].end - 1 BY <1>11 DEF Walkways
    <2>2. PICK ran : ran = w.ends[s] OBVIOUS
    <2>3. s \in Nat /\ ran.end \in Nat /\ RunInv(c, ran, s) /\ WholeRun(c, ran, s, DOMAIN w.ends)
        BY <1>9, <2>2
    <2>4. a \in s .. ran.end - 1 /\ a \in Nat BY <2>1, <2>2, <2>3
    <2>5. Runs(c, a) BY <2>3, <2>4 DEF RunInv
    <2>6. ASSUME NEW t \in Successors(c, a) \cap Addrs PROVE t \in Reachable(c)
        <3>1. Runs(c, t)
            <4>1. CASE a < ran.end - 1
                <5>1. a \in s .. ran.end - 2 /\ a + 1 \in s .. ran.end - 1 BY <2>3, <2>4, <4>1
                <5>2. Successors(c, a) = {a + 1} BY <2>3, <5>1, GoesOn DEF RunInv
                <5> QED BY <2>3, <2>6, <5>1, <5>2 DEF RunInv
            <4>2. CASE a = ran.end - 1 /\ EndsBlock(c, a)
                <5>1. t \in Successors(c, ran.end - 1) \cap Addrs BY <2>6, <4>2
                <5>2. Finishes(c, ran, s, DOMAIN w.ends) BY <1>6, <2>2 DEF Finished
                <5>3. ran.end > s BY <2>3 DEF WholeRun
                <5>4. t \in DOMAIN w.ends BY <4>2, <5>1, <5>2, <5>3 DEF Finishes
                <5> QED BY <1>9, <5>4
            <4>3. CASE a = ran.end - 1 /\ ~EndsBlock(c, a)
                <5>1. Successors(c, a) = {a + 1} /\ a + 1 = ran.end BY <2>3, <4>3, GoesOn
                <5>2. ran.end \in DOMAIN w.ends BY <2>3, <4>3 DEF WholeRun
                <5> QED BY <1>9, <2>6, <5>1, <5>2
            <4> QED BY <2>3, <2>4, <4>1, <4>2, <4>3
        <3> QED BY <2>6, <3>1, ReachableIsClosed DEF IsClosed, Executed
    <2>7. ASSUME c.image[a].flow \in {"jump", "cond"} PROVE TailTargets(c, a) \subseteq cfg.calls
        <3>1. Called(c, s, ran.end) \subseteq w.calls BY <1>3, <2>2 DEF WalkWhole
        <3>2. c.image[a].flow # "call" BY <2>7
        <3>3. TailTargets(c, a) \subseteq Called(c, s, ran.end) BY <2>4, <2>7, <3>2 DEF Called
        <3> QED BY <1>4, <3>1, <3>3
    <2>8. ASSUME EndsBlock(c, a)
          PROVE  \E b \in bs : b.successors = Successors(c, a) /\ b.term = Terminator(c, a)
        <3>1. PICK t \in Starts(w) : a \in t .. Cut(w, t).end - 1 BY <1>3, <1>6, <1>11, CutsCover
        <3>2. PICK e, run0 : e = Cut(w, t).end /\ run0 = w.ends[t] OBVIOUS
        <3>3. t \in DOMAIN w.ends BY DEF Starts
        <3>4. /\ t \in Nat /\ run0.end \in Nat /\ RunInv(c, run0, t) /\ WholeRun(c, run0, t, DOMAIN w.ends)
            BY <1>9, <3>2, <3>3
        <3>5. CutInv(c, w, t) BY <1>3, <3>3, CutIs
        <3>6. e \in Nat /\ e <= run0.end /\ a \in t .. e - 1 BY <3>1, <3>2, <3>5 DEF CutInv
        <3>7. a \notin t .. run0.end - 2 BY <2>8, <3>4 DEF RunInv
        <3>8. a = run0.end - 1 /\ e = run0.end BY <2>4, <3>4, <3>6, <3>7
        <3>9. Cut(w, t) = run0
            <4>1. PICK inside : inside = {u \in DOMAIN w.ends : t < u /\ u < run0.end} OBVIOUS
            <4>2. CASE inside = {} BY <3>2, <4>1, <4>2 DEF Cut
            <4>3. CASE inside # {}
                <5>1. inside \in SUBSET Nat BY <1>9, <4>1
                <5>2. Min(inside) \in inside BY <4>3, <5>1, LeastIs
                <5>3. Cut(w, t) = [end |-> Min(inside), successors |-> {Min(inside)}, term |-> "Flow"]
                    BY <3>2, <4>1, <4>3 DEF Cut
                <5>4. e = Min(inside) BY <3>2, <5>3
                <5>5. e < run0.end BY <4>1, <5>2, <5>4
                <5> QED BY <3>4, <3>6, <3>8, <5>5
            <4> QED BY <4>2, <4>3
        <3>10. run0.term = Terminator(c, a) BY <2>8, <3>4, <3>8 DEF WholeRun
        <3>11. run0.successors = Successors(c, a)
            <4>1. CASE run0.term = "Unresolved"
                <5>1. run0.successors = {} BY <3>4, <4>1 DEF RunInv
                <5>2. Successors(c, a) = {} BY <2>8, <3>10, <4>1, NoWayOn
                <5> QED BY <5>1, <5>2
            <4>2. CASE run0.term # "Unresolved" BY <3>4, <3>8, <4>2 DEF RunInv
            <4> QED BY <4>1, <4>2
        <3>12. PICK b : b = BlockAt(w, t) OBVIOUS
        <3>13. b \in bs BY <1>8, <3>12
        <3>14. b.successors = run0.successors /\ b.term = run0.term BY <3>9, <3>12 DEF BlockAt
        <3> QED BY <3>10, <3>11, <3>13, <3>14
    <2> QED BY <2>5, <2>6, <2>7, <2>8
<1>13. WholeFlow(c, cfg) BY <1>7, <1>10, <1>12 DEF WholeFlow
<1> QED BY <1>2, <1>13

-----------------------------------------------------------------------------
(* What is done N times to a member of S, and stays in S.                      *)
Iterates(S, x, N, F, q) == q[0] = x /\ \A n \in 1 .. N : q[n - 1] \in S => q[n] = F[n][q[n - 1]]

LEMMA IterationStays ==
    ASSUME NEW S, NEW x \in S, NEW N \in Nat, NEW F \in [1 .. N -> [S -> S]], NEW q, Iterates(S, x, N, F, q)
    PROVE  \A n \in 0 .. N : q[n] \in S
<1> DEFINE Good == {n \in Nat : n <= N => q[n] \in S}
<1>1. 0 \in Good BY DEF Iterates
<1>2. ASSUME NEW n \in Nat, n \in Good PROVE n + 1 \in Good
    <2>1. SUFFICES ASSUME n + 1 <= N PROVE q[n + 1] \in S OBVIOUS
    <2>2. n + 1 \in 1 .. N /\ (n + 1) - 1 = n /\ n <= N BY <2>1
    <2>3. q[n] \in S BY <1>2, <2>2
    <2>4. q[n + 1] = F[n + 1][q[n]] BY <2>2, <2>3 DEF Iterates
    <2> QED BY <2>2, <2>3, <2>4
<1> HIDE DEF Good
<1>3. Nat \subseteq Good BY <1>1, <1>2, AllNumbers
<1> QED BY <1>3 DEF Good

LEMMA IterationExists ==
    ASSUME NEW S, NEW x \in S, NEW N \in Nat, NEW F \in [1 .. N -> [S -> S]]
    PROVE  \E r \in [0 .. N -> S] : Iterates(S, x, N, F, r)
<1> DEFINE Is(r, m) == r \in [0 .. m -> S] /\ r[0] = x /\ \A n \in 1 .. m : r[n] = F[n][r[n - 1]]
           Good == {m \in Nat : m <= N => \E r : Is(r, m)}
<1>1. Is([n \in 0 .. 0 |-> x], 0) OBVIOUS
<1>2. ASSUME NEW m \in Nat, m + 1 <= N, NEW r, Is(r, m) PROVE \E v : Is(v, m + 1)
    <2> DEFINE v == [n \in 0 .. m + 1 |-> IF n = m + 1 THEN F[m + 1][r[m]] ELSE r[n]]
    <2>1. r[m] \in S /\ m + 1 \in 1 .. N BY <1>2
    <2>2. F[m + 1][r[m]] \in S BY <2>1
    <2>3. \A n \in 0 .. m : v[n] = r[n] /\ r[n] \in S BY <1>2
    <2>4. v[m + 1] = F[m + 1][v[m]] BY <2>3
    <2>5. v[m + 1] \in S BY <2>2
    <2>6. DOMAIN v = 0 .. m + 1 /\ v = [n \in 0 .. m + 1 |-> v[n]] OBVIOUS
    <2>7. v[0] = x BY <1>2, <2>3
    <2> HIDE DEF v
    <2>8. \A n \in 0 .. m + 1 : n \in 0 .. m \/ n = m + 1 OBVIOUS
    <2>9. v \in [0 .. m + 1 -> S] BY <2>3, <2>5, <2>6, <2>8
    <2>10. ASSUME NEW n \in 1 .. m + 1 PROVE v[n] = F[n][v[n - 1]]
        <3>1. CASE n = m + 1
            <4>1. n - 1 = m BY <3>1
            <4> QED BY <2>4, <3>1, <4>1
        <3>2. CASE n # m + 1
            <4>1. n \in 1 .. m /\ n - 1 \in 0 .. m /\ n \in 0 .. m BY <3>2
            <4>2. r[n] = F[n][r[n - 1]] BY <1>2, <4>1
            <4> QED BY <2>3, <4>1, <4>2
        <3> QED BY <3>1, <3>2
    <2>11. Is(v, m + 1) BY <2>7, <2>9, <2>10
    <2> QED BY <2>11
<1>3. N \in Good
    <2>1. 0 \in Good BY <1>1
    <2>2. ASSUME NEW m \in Nat, m \in Good PROVE m + 1 \in Good
        <3>1. SUFFICES ASSUME m + 1 <= N PROVE \E v : Is(v, m + 1) OBVIOUS
        <3>2. m <= N BY <3>1
        <3>3. PICK r : Is(r, m) BY <2>2, <3>2
        <3> HIDE DEF Is
        <3> QED BY <1>2, <3>1, <3>3
    <2> HIDE DEF Good
    <2> QED BY <2>1, <2>2, AllNumbers
<1>4. PICK r : Is(r, N) BY <1>3
<1>5. Iterates(S, x, N, F, r) BY <1>4 DEF Iterates
<1> QED BY <1>4, <1>5

-----------------------------------------------------------------------------
(* Each function of the set has a name that says so, or ends that do.          *)
Vouched(set) ==
    /\ set \subseteq DOMAIN known
    /\ \A f \in set : known[f].name \in KnownNames \/ NeverReturns(f, set)

LEMMA MoreNeverReturn ==
    ASSUME NEW s, NEW t, s \subseteq t, NEW f, NeverReturns(f, s)
    PROVE  NeverReturns(f, t)
BY DEF NeverReturns

LEMMA PassVouches ==
    ASSUME DOMAIN known \subseteq Addrs, NEW set, Vouched(set)
    PROVE  Vouched(Pass(set))
<1>1. PICK o : o = InOrder(DOMAIN known \ set) OBVIOUS
<1>2. PICK N : N = Len(o) OBVIOUS
<1>3. o \in Seq(DOMAIN known) /\ N \in Nat
    <2>1. PICK S : S = DOMAIN known \ set OBVIOUS
    <2>2. S \in SUBSET Addrs BY <2>1
    <2>3. S \in SUBSET Nat /\ IsFiniteSet(S) BY <2>2, AddrsAreNumbers, FS_Subset
    <2>4. o \in Seq(S) BY <1>1, <2>1, <2>3, InOrderLists
    <2> QED BY <1>2, <2>1, <2>4, SeqMonotonic
<1> DEFINE Added(n, u) == u \cup {f \in {o[n]} : NeverReturns(f, u)}
           S == {u \in SUBSET DOMAIN known : Vouched(u)}
           F == [n \in 1 .. N |-> [u \in S |-> Added(n, u)]]
<1>4. ASSUME NEW n \in 1 .. N, NEW u \in S PROVE Added(n, u) \in S
    <2>1. PICK v : v = Added(n, u) OBVIOUS
    <2>2. o[n] \in DOMAIN known BY <1>2, <1>3
    <2>3. v \subseteq DOMAIN known /\ u \subseteq v BY <2>1, <2>2
    <2>4. ASSUME NEW f \in v PROVE known[f].name \in KnownNames \/ NeverReturns(f, v)
        <3>1. f \in u \/ NeverReturns(f, u) BY <2>1
        <3>2. known[f].name \in KnownNames \/ NeverReturns(f, u) BY <3>1 DEF Vouched
        <3> QED BY <2>3, <3>2, MoreNeverReturn
    <2>5. Vouched(v) BY <2>3, <2>4 DEF Vouched
    <2> QED BY <2>1, <2>3, <2>5
<1>5. set \in S BY DEF Vouched
<1> HIDE DEF Added, S
<1>6. F \in [1 .. N -> [S -> S]] BY <1>4
<1> DEFINE s[n \in 0 .. N] == IF n = 0 THEN set ELSE Added(n, s[n - 1])
<1>7. Pass(set) = s[N] BY <1>1, <1>2 DEF Pass, Added
<1>8. s = [n \in 0 .. N |-> IF n = 0 THEN set ELSE Added(n, s[n - 1])]
    <2>1. \E r \in [0 .. N -> S] : Iterates(S, set, N, F, r)
        <3> HIDE DEF F
        <3> QED BY <1>3, <1>5, <1>6, IterationExists
    <2>2. PICK r \in [0 .. N -> S] : Iterates(S, set, N, F, r) BY <2>1
    <2>3. r[0] = set /\ \A n \in 1 .. N : r[n] = Added(n, r[n - 1])
        <3>1. \A n \in 1 .. N : n - 1 \in 0 .. N BY <1>3
        <3>2. \A n \in 1 .. N : r[n - 1] \in S BY <3>1
        <3>3. \A n \in 1 .. N, u \in S : F[n][u] = Added(n, u) OBVIOUS
        <3> HIDE DEF F
        <3> QED BY <2>2, <3>2, <3>3 DEF Iterates
    <2>4. r = [n \in 0 .. N |-> IF n = 0 THEN set ELSE Added(n, r[n - 1])]
        <3>1. \A n \in 0 .. N : n = 0 \/ n \in 1 .. N BY <1>3
        <3> QED BY <2>3, <3>1
    <2> QED BY <2>4
<1> HIDE DEF s
<1>9. Iterates(S, set, N, F, s)
    <2>1. s[0] = set BY <1>3, <1>8
    <2>2. \A n \in 1 .. N : s[n] = Added(n, s[n - 1])
        <3>1. \A n \in 1 .. N : n \in 0 .. N /\ n # 0 BY <1>3
        <3> QED BY <1>8, <3>1
    <2>3. \A n \in 1 .. N, u \in S : F[n][u] = Added(n, u) OBVIOUS
    <2> HIDE DEF F
    <2> QED BY <2>1, <2>2, <2>3 DEF Iterates
<1> HIDE DEF F
<1>10. s[N] \in S BY <1>3, <1>5, <1>6, <1>9, IterationStays
<1> QED BY <1>7, <1>10 DEF S

LEMMA NoReturnVouched ==
    ASSUME DOMAIN known \subseteq Addrs
    PROVE  Vouched(NoReturnSet)
<1> DEFINE S == {u \in SUBSET DOMAIN known : Vouched(u)}
           F == [n \in 1 .. 8 |-> [u \in S |-> Pass(u)]]
           named == {f \in DOMAIN known : known[f].name \in KnownNames}
<1>1. \A u \in S : Pass(u) \in S
    <2>1. \A u \in S : Vouched(Pass(u)) BY PassVouches
    <2> QED BY <2>1 DEF Vouched
<1>2. named \in S BY DEF Vouched
<1> HIDE DEF S, named
<1>3. F \in [1 .. 8 -> [S -> S]] /\ 8 \in Nat BY <1>1
<1> DEFINE s[n \in 0 .. 8] == IF n = 0 THEN named ELSE Pass(s[n - 1])
<1>4. NoReturnSet = s[8] BY DEF NoReturnSet, named
<1>5. s = [n \in 0 .. 8 |-> IF n = 0 THEN named ELSE Pass(s[n - 1])]
    <2>1. \E r \in [0 .. 8 -> S] : Iterates(S, named, 8, F, r)
        <3> HIDE DEF F
        <3> QED BY <1>2, <1>3, IterationExists
    <2>2. PICK r \in [0 .. 8 -> S] : Iterates(S, named, 8, F, r) BY <2>1
    <2>3. r[0] = named /\ \A n \in 1 .. 8 : r[n] = Pass(r[n - 1])
        <3>1. \A n \in 1 .. 8 : n - 1 \in 0 .. 8 OBVIOUS
        <3>2. \A n \in 1 .. 8 : r[n - 1] \in S BY <3>1
        <3>3. \A n \in 1 .. 8, u \in S : F[n][u] = Pass(u) OBVIOUS
        <3> HIDE DEF F
        <3> QED BY <2>2, <3>2, <3>3 DEF Iterates
    <2>4. r = [n \in 0 .. 8 |-> IF n = 0 THEN named ELSE Pass(r[n - 1])]
        <3>1. \A n \in 0 .. 8 : n = 0 \/ n \in 1 .. 8 OBVIOUS
        <3> QED BY <2>3, <3>1
    <2> QED BY <2>4
<1> HIDE DEF s
<1>6. Iterates(S, named, 8, F, s)
    <2>1. s[0] = named BY <1>5
    <2>2. \A n \in 1 .. 8 : s[n] = Pass(s[n - 1])
        <3>1. \A n \in 1 .. 8 : n \in 0 .. 8 /\ n # 0 OBVIOUS
        <3> QED BY <1>5, <3>1
    <2>3. \A n \in 1 .. 8, u \in S : F[n][u] = Pass(u) OBVIOUS
    <2> HIDE DEF F
    <2> QED BY <2>1, <2>2, <2>3 DEF Iterates
<1> HIDE DEF F
<1>7. \A n \in 0 .. 8 : s[n] \in S
    <2>1. PICK N \in Nat : N = 8 OBVIOUS
    <2>2. F \in [1 .. N -> [S -> S]] /\ Iterates(S, named, N, F, s) BY <1>3, <1>6, <2>1
    <2>3. \A n \in 0 .. N : s[n] \in S BY <1>2, <2>2, IterationStays
    <2> QED BY <2>1, <2>3
<1>8. s[8] \in S BY <1>7
<1> QED BY <1>4, <1>8 DEF S

-----------------------------------------------------------------------------
(* A function as its first walk found it, when no function was known that does *)
(* not return; what it says of itself; and that its tail calls are told apart. *)
FoundAs(f, bs, k) ==
    /\ bs # <<>>
    /\ \E c : /\ c.image = image /\ c.entry = f /\ c.noreturn = {} /\ bs = RawCfg(c).blocks
              /\ k.calls = RawCfg(c).calls /\ k.halt = RawCfg(c).halt
Denies(bs, k, set) ==
    /\ k.halt = "Complete"
    /\ \A b \in ToSet(bs) : b.successors = {} =>
           b.term \in {"Trap", "NoReturnCall"} \/ (b.term = "TailCall" /\ k.calls \cap set # {})
ToldApart(bs, k) ==
    /\ \A a \in Covers(ToSet(bs)) : image[a].flow = "cond" => image[a].to \cap k.calls = {}
    /\ \/ \A a \in Covers(ToSet(bs)) : image[a].flow = "jump" => image[a].to \cap k.calls = {}
       \/ \E t \in k.calls : k.calls = {t}

LEMMA OneTarget ==
    ASSUME image \in Images, NEW a \in Addrs
    PROVE  /\ image[a].flow \in Flows
           /\ image[a].flow \in {"call", "jump", "cond"} => \E t \in image[a].to : image[a].to = {t}
<1>1. image \in [Addrs -> Insns] BY ImagesAssumption
<1>2. image[a] \in Insns BY <1>1
<1>3. image[a].flow \in Flows BY <1>2 DEF Insns
<1>4. image[a].flow \in {"call", "jump", "cond"} => \E t \in image[a].to : image[a].to = {t}
    BY ImagesAssumption
<1> QED BY <1>3, <1>4

(* Control does not leave such a function but for the set.                     *)
LEMMA StaysInside ==
    ASSUME image \in Images, NEW set, NEW f \in Addrs, NEW bs, NEW k,
           FoundAs(f, bs, k), Denies(bs, k, set), ToldApart(bs, k),
           NEW a \in Covers(ToSet(bs)), NEW back
    PROVE  /\ image[a].flow # "ret"
           /\ Flow(a, back) \cap Addrs \subseteq Covers(ToSet(bs)) \cup set
<1>1. PICK c : /\ c.image = image /\ c.entry = f /\ c.noreturn = {} /\ bs = RawCfg(c).blocks
               /\ k.calls = RawCfg(c).calls /\ k.halt = RawCfg(c).halt
    BY DEF FoundAs
<1>2. PICK in : in = Covers(ToSet(bs)) OBVIOUS
<1>3. WholeFlow(c, RawCfg(c)) BY <1>1, CompleteWalk DEF Denies
<1>4. /\ Runs(c, a) /\ Successors(c, a) \cap Addrs \subseteq in
      /\ image[a].flow \in {"jump", "cond"} => TailTargets(c, a) \subseteq k.calls
      /\ EndsBlock(c, a) => \E b \in ToSet(bs) : b.successors = Successors(c, a) /\ b.term = Terminator(c, a)
    BY <1>1, <1>2, <1>3 DEF WholeFlow
<1>5. a \in Addrs /\ image[a].flow # "bad" BY <1>1, <1>4 DEF Runs, Decodes, IsExecutable
<1>6. PICK i : i = image[a] OBVIOUS
<1>7. i.flow \in Flows /\ (i.flow \in {"call", "jump", "cond"} => \E t \in i.to : i.to = {t})
    BY <1>5, <1>6, OneTarget
<1>8. c.image[a] = i /\ a \in in BY <1>1, <1>2, <1>6
<1>9. ASSUME EndsBlock(c, a), Successors(c, a) = {}
      PROVE  Terminator(c, a) \in {"Trap", "NoReturnCall"}
             \/ (Terminator(c, a) = "TailCall" /\ k.calls \cap set # {})
    BY <1>4, <1>9 DEF Denies
<1>10. i.flow # "ret"
    <2>1. SUFFICES ASSUME i.flow = "ret" PROVE FALSE OBVIOUS
    <2>2. EndsBlock(c, a) /\ Successors(c, a) = {} /\ Terminator(c, a) = "Return"
        BY <1>8, <2>1 DEF EndsBlock, Successors, Terminator
    <2> QED BY <1>9, <2>2
<1>11. \/ Flow(a, back) = {}
       \/ i.flow = "call" /\ Flow(a, back) \subseteq {a + 1}
       \/ i.flow = "cond" /\ Flow(a, back) = i.to \cup {a + 1}
       \/ i.flow \in {"jump", "switch"} /\ Flow(a, back) = i.to
       \/ i.flow \in {"next", "open", "load"} /\ Flow(a, back) = {a + 1}
    BY <1>6, <1>7 DEF Flow, Flows
<1>12. CASE Flow(a, back) = {} BY <1>6, <1>10, <1>12
<1>13. CASE i.flow = "call" /\ Flow(a, back) \subseteq {a + 1}
    <2>1. ~EndsBlock(c, a) BY <1>1, <1>7, <1>8, <1>13 DEF EndsBlock
    <2>2. Successors(c, a) = {a + 1} BY <2>1, GoesOn
    <2> QED BY <1>2, <1>4, <1>6, <1>10, <1>13, <2>2
<1>14. CASE i.flow = "cond" /\ Flow(a, back) = i.to \cup {a + 1}
    <2>1. Successors(c, a) = (i.to \ TailTargets(c, a)) \cup {a + 1} BY <1>8, <1>14 DEF Successors
    <2>2. TailTargets(c, a) \subseteq k.calls /\ TailTargets(c, a) \subseteq i.to
        BY <1>4, <1>6, <1>8, <1>14 DEF TailTargets
    <2>3. i.to \cap k.calls = {} BY <1>2, <1>6, <1>8, <1>14 DEF ToldApart
    <2>4. Successors(c, a) = Flow(a, back) BY <1>14, <2>1, <2>2, <2>3
    <2> QED BY <1>2, <1>4, <1>6, <1>10, <2>4
<1>15. CASE i.flow = "switch" /\ Flow(a, back) = i.to
    <2>1. Successors(c, a) = i.to BY <1>8, <1>15 DEF Successors
    <2> QED BY <1>2, <1>4, <1>6, <1>10, <1>15, <2>1
<1>16. CASE i.flow = "jump" /\ Flow(a, back) = i.to
    <2>1. PICK tails : tails = TailTargets(c, a) OBVIOUS
    <2>2. Successors(c, a) = i.to \ tails /\ EndsBlock(c, a) BY <1>8, <1>16, <2>1 DEF Successors, EndsBlock
    <2>3. tails \subseteq k.calls /\ tails \subseteq i.to BY <1>4, <1>6, <1>8, <1>16, <2>1 DEF TailTargets
    <2>4. CASE tails = {} BY <1>2, <1>4, <1>6, <1>10, <1>16, <2>2, <2>4
    <2>5. CASE tails # {}
        <3>1. PICK t \in i.to : i.to = {t} BY <1>7, <1>16
        <3>2. tails = {t} /\ t \in k.calls BY <2>3, <2>5, <3>1
        <3>3. k.calls = {t}
            <4>1. ~(i.to \cap k.calls = {}) BY <3>1, <3>2
            <4> QED BY <1>2, <1>6, <1>8, <1>16, <3>2, <4>1 DEF ToldApart
        <3>4. Successors(c, a) = {} BY <2>2, <3>1, <3>2
        <3>5. Terminator(c, a) = "TailCall" BY <1>1, <1>8, <1>16, <2>1, <2>5 DEF Terminator
        <3>6. k.calls \cap set # {} BY <1>9, <2>2, <3>4, <3>5
        <3>7. t \in set BY <3>3, <3>6
        <3> QED BY <1>6, <1>10, <1>16, <3>1, <3>7
    <2> QED BY <2>4, <2>5
<1>17. CASE i.flow \in {"next", "open", "load"} /\ Flow(a, back) = {a + 1}
    <2>1. ~EndsBlock(c, a) BY <1>8, <1>17 DEF EndsBlock
    <2>2. Successors(c, a) = {a + 1} BY <2>1, GoesOn
    <2> QED BY <1>2, <1>4, <1>6, <1>10, <1>17, <2>2
<1> QED BY <1>11, <1>12, <1>13, <1>14, <1>15, <1>16, <1>17

(* So none of it leads to a return. *)
Shut(X) ==
    \A a \in X \ Abort : image[a].flow # "ret" /\ \A back : Flow(a, back) \cap Addrs \subseteq X
Away(X) == {u \in SUBSET Addrs : u \cap X = {}}

LEMMA ReturningIsAway ==
    ASSUME NEW X, Shut(X), NEW back
    PROVE  Returning(back) \in Away(X)
<1> DEFINE first == {a \in Addrs \ Abort : image[a].flow = "ret"}
           More(u) == u \cup {a \in Addrs : Flow(a, back) \cap u # {}}
           S == Away(X)
           F == [n \in 1 .. LastAddr |-> [u \in S |-> More(u)]]
<1>1. LastAddr \in Nat BY CapsAssumption
<1>2. first \in S BY DEF Shut, Away
<1>3. ASSUME NEW u \in S PROVE More(u) \in S
    <2>1. u \subseteq Addrs /\ u \cap X = {} BY DEF Away
    <2>2. ASSUME NEW a \in X, Flow(a, back) \cap u # {} PROVE FALSE
        <3>1. PICK t \in Flow(a, back) : t \in u BY <2>2
        <3>2. a \notin Abort BY <3>1 DEF Flow
        <3>3. Flow(a, back) \cap Addrs \subseteq X BY <3>2 DEF Shut
        <3> QED BY <2>1, <3>1, <3>3
    <2> QED BY <2>1, <2>2 DEF Away
<1> HIDE DEF More, S, first
<1>4. F \in [1 .. LastAddr -> [S -> S]] BY <1>3
<1> DEFINE s[n \in 0 .. LastAddr] == IF n = 0 THEN first ELSE More(s[n - 1])
<1>5. Returning(back) = s[LastAddr] BY DEF Returning, first, More
<1>6. s = [n \in 0 .. LastAddr |-> IF n = 0 THEN first ELSE More(s[n - 1])]
    <2>1. \E r \in [0 .. LastAddr -> S] : Iterates(S, first, LastAddr, F, r)
        <3> HIDE DEF F
        <3> QED BY <1>1, <1>2, <1>4, IterationExists
    <2>2. PICK r \in [0 .. LastAddr -> S] : Iterates(S, first, LastAddr, F, r) BY <2>1
    <2>3. r[0] = first /\ \A n \in 1 .. LastAddr : r[n] = More(r[n - 1])
        <3>1. \A n \in 1 .. LastAddr : n - 1 \in 0 .. LastAddr BY <1>1
        <3>2. \A n \in 1 .. LastAddr : r[n - 1] \in S BY <3>1
        <3>3. \A n \in 1 .. LastAddr, u \in S : F[n][u] = More(u) OBVIOUS
        <3> HIDE DEF F
        <3> QED BY <2>2, <3>2, <3>3 DEF Iterates
    <2>4. r = [n \in 0 .. LastAddr |-> IF n = 0 THEN first ELSE More(r[n - 1])]
        <3>1. \A n \in 0 .. LastAddr : n = 0 \/ n \in 1 .. LastAddr BY <1>1
        <3> QED BY <2>3, <3>1
    <2> QED BY <2>4
<1> HIDE DEF s
<1>7. Iterates(S, first, LastAddr, F, s)
    <2>1. s[0] = first BY <1>1, <1>6
    <2>2. \A n \in 1 .. LastAddr : s[n] = More(s[n - 1])
        <3>1. \A n \in 1 .. LastAddr : n \in 0 .. LastAddr /\ n # 0 BY <1>1
        <3> QED BY <1>6, <3>1
    <2>3. \A n \in 1 .. LastAddr, u \in S : F[n][u] = More(u) OBVIOUS
    <2> HIDE DEF F
    <2> QED BY <2>1, <2>2, <2>3 DEF Iterates
<1> HIDE DEF F
<1>8. s[LastAddr] \in S BY <1>1, <1>2, <1>4, <1>7, IterationStays
<1> QED BY <1>5, <1>8 DEF S

LEMMA ComesBackIsAway ==
    ASSUME NEW X, Shut(X)
    PROVE  ComesBack \in Away(X)
<1> DEFINE S == Away(X)
           F == [n \in 1 .. LastAddr |-> [u \in S |-> Returning(u)]]
<1>1. LastAddr \in Nat BY CapsAssumption
<1>2. {} \in S BY DEF Away
<1>3. \A u \in S : Returning(u) \in S BY ReturningIsAway
<1> HIDE DEF S
<1>4. F \in [1 .. LastAddr -> [S -> S]] BY <1>3
<1> DEFINE s[n \in 0 .. LastAddr] == IF n = 0 THEN {} ELSE Returning(s[n - 1])
<1>5. ComesBack = s[LastAddr] BY DEF ComesBack
<1>6. s = [n \in 0 .. LastAddr |-> IF n = 0 THEN {} ELSE Returning(s[n - 1])]
    <2>1. \E r \in [0 .. LastAddr -> S] : Iterates(S, {}, LastAddr, F, r)
        <3> HIDE DEF F
        <3> QED BY <1>1, <1>2, <1>4, IterationExists
    <2>2. PICK r \in [0 .. LastAddr -> S] : Iterates(S, {}, LastAddr, F, r) BY <2>1
    <2>3. r[0] = {} /\ \A n \in 1 .. LastAddr : r[n] = Returning(r[n - 1])
        <3>1. \A n \in 1 .. LastAddr : n - 1 \in 0 .. LastAddr BY <1>1
        <3>2. \A n \in 1 .. LastAddr : r[n - 1] \in S BY <3>1
        <3>3. \A n \in 1 .. LastAddr, u \in S : F[n][u] = Returning(u) OBVIOUS
        <3> HIDE DEF F
        <3> QED BY <2>2, <3>2, <3>3 DEF Iterates
    <2>4. r = [n \in 0 .. LastAddr |-> IF n = 0 THEN {} ELSE Returning(r[n - 1])]
        <3>1. \A n \in 0 .. LastAddr : n = 0 \/ n \in 1 .. LastAddr BY <1>1
        <3> QED BY <2>3, <3>1
    <2> QED BY <2>4
<1> HIDE DEF s
<1>7. Iterates(S, {}, LastAddr, F, s)
    <2>1. s[0] = {} BY <1>1, <1>6
    <2>2. \A n \in 1 .. LastAddr : s[n] = Returning(s[n - 1])
        <3>1. \A n \in 1 .. LastAddr : n \in 0 .. LastAddr /\ n # 0 BY <1>1
        <3> QED BY <1>6, <3>1
    <2>3. \A n \in 1 .. LastAddr, u \in S : F[n][u] = Returning(u) OBVIOUS
    <2> HIDE DEF F
    <2> QED BY <2>1, <2>2, <2>3 DEF Iterates
<1> HIDE DEF F
<1>8. s[LastAddr] \in S BY <1>1, <1>2, <1>4, <1>7, IterationStays
<1> QED BY <1>5, <1>8 DEF S

-----------------------------------------------------------------------------
(* Until functions that never return are looked for: each known function is as *)
(* a walk found it, and its name is the loader's. Those that wait are not      *)
(* known, but there is evidence of them.                                       *)
Named(x, a) == x = NoName \/ (a \in DOMAIN hints /\ x = hints[a])
NamesOf(ev) == \A a \in DOMAIN ev : Named(ev[a].name, a)
FindsOf(acc) ==
    /\ \A f \in DOMAIN acc.known :
           f \in DOMAIN raw /\ FoundAs(f, raw[f], acc.known[f]) /\ Named(acc.known[f].name, f)
    /\ NamesOf(acc.evidence)
Searching == phase \in {"rounds", "leftovers", "refine"}
Finding ==
    FindsOf(Now) /\ WaitOnce /\ Waiting \cap DOMAIN known = {} /\ Waiting \subseteq DOMAIN evidence
FindingInv == Searching => Finding

LEMMA MergeAllNames ==
    ASSUME NEW ev, NEW as, NEW by, NamesOf(ev)
    PROVE  NamesOf(MergeAll(ev, as, by))
<1>1. ASSUME NEW a \in DOMAIN ev PROVE Merge(ev, a, by, NoName)[a].name = ev[a].name
    <2>1. PICK b : b = ev[a].by \cup {by} OBVIOUS
    <2>2. PICK n : n = IF ev[a].name = NoName THEN NoName ELSE ev[a].name OBVIOUS
    <2>3. n = ev[a].name BY <2>2
    <2>4. Merge(ev, a, by, NoName) = [ev EXCEPT ![a] = [by |-> b, name |-> n]] BY <2>1, <2>2 DEF Merge
    <2> QED BY <2>3, <2>4
<1>2. ASSUME NEW a, a \notin DOMAIN ev PROVE Merge(ev, a, by, NoName)[a].name = NoName
    <2>1. Merge(ev, a, by, NoName) = With(ev, a, [by |-> {by}, name |-> NoName]) BY <1>2 DEF Merge
    <2> QED BY <2>1 DEF With
<1>3. ASSUME NEW a \in DOMAIN ev \cup as
      PROVE  MergeAll(ev, as, by)[a] = IF a \in as THEN Merge(ev, a, by, NoName)[a] ELSE ev[a]
    BY DEF MergeAll
<1>4. DOMAIN MergeAll(ev, as, by) = DOMAIN ev \cup as BY DEF MergeAll
<1>5. ASSUME NEW a \in DOMAIN ev \cup as PROVE Named(MergeAll(ev, as, by)[a].name, a)
    <2>1. CASE a \in DOMAIN ev
        <3>1. MergeAll(ev, as, by)[a].name = ev[a].name BY <1>1, <1>3, <2>1
        <3> QED BY <2>1, <3>1 DEF NamesOf
    <2>2. CASE a \notin DOMAIN ev
        <3>1. MergeAll(ev, as, by)[a].name = NoName BY <1>2, <1>3, <2>2
        <3> QED BY <3>1 DEF Named
    <2> QED BY <2>1, <2>2
<1> QED BY <1>4, <1>5 DEF NamesOf

(* What a walk adds to what is known is as it found it. *)
Adds(e, w, x) == x.name = e[w.at].name /\ x.calls = w.cfg.calls /\ x.halt = w.cfg.halt

LEMMA FindAdded ==
    ASSUME NEW k, NEW e, NEW ev, NamesOf(ev), NEW w, NEW x, Adds(e, w, x), NamesOf(e), w.at \in DOMAIN e,
           w.at \in DOMAIN raw, FoundAs(w.at, raw[w.at], w.cfg),
           \A f \in DOMAIN k : f \in DOMAIN raw /\ FoundAs(f, raw[f], k[f]) /\ Named(k[f].name, f),
           NEW m, m.known = With(k, w.at, x), m.evidence = ev
    PROVE  FindsOf(m)
<1>1. PICK h : h = With(k, w.at, x) OBVIOUS
<1>2. DOMAIN h = DOMAIN k \cup {w.at} /\ h[w.at] = x /\ \A f \in DOMAIN k : f # w.at => h[f] = k[f]
    BY <1>1 DEF With
<1>3. Named(x.name, w.at) BY DEF Adds, NamesOf
<1>4. FoundAs(w.at, raw[w.at], x)
    <2>1. x.calls = w.cfg.calls /\ x.halt = w.cfg.halt BY DEF Adds
    <2> QED BY <2>1 DEF FoundAs
<1>5. \A f \in DOMAIN h : f \in DOMAIN raw /\ FoundAs(f, raw[f], h[f]) /\ Named(h[f].name, f)
    <2> TAKE f \in DOMAIN h
    <2>1. CASE f = w.at BY <1>2, <1>3, <1>4, <2>1
    <2>2. CASE f # w.at BY <1>2, <2>2
    <2> QED BY <2>1, <2>2
<1>6. m.known = h BY <1>1
<1> QED BY <1>5, <1>6 DEF FindsOf

LEMMA MergeFinds ==
    ASSUME phase \in {"rounds", "leftovers"}, NEW acc, Merging(acc), FindsOf(acc), NEW w,
           w.at \in DOMAIN acc.evidence, w.at \in DOMAIN raw,
           w.cfg.blocks # <<>> => FoundAs(w.at, raw[w.at], w.cfg)
    PROVE  /\ FindsOf(MergeWalk(acc, w))
           /\ DOMAIN acc.evidence \ {w.at} \subseteq DOMAIN MergeWalk(acc, w).evidence
<1>1. PICK e, p, k : acc = [evidence |-> e, pending |-> p, known |-> k] BY DEF Merging
<1>2. acc.evidence = e /\ acc.pending = p /\ acc.known = k BY <1>1
<1>3. /\ NamesOf(e)
      /\ \A f \in DOMAIN k : f \in DOMAIN raw /\ FoundAs(f, raw[f], k[f]) /\ Named(k[f].name, f)
    BY <1>2 DEF FindsOf
<1>4. CASE w.cfg.blocks = <<>>
    <2>1. MergeWalk(acc, w) = acc BY <1>4 DEF MergeWalk, MergeRound, MergeLeftover
    <2> QED BY <2>1
<1>5. CASE w.cfg.blocks # <<>> /\ phase = "rounds"
    <2>1. PICK calls : calls = {t \in w.cfg.calls : IsExecutable(t)} OBVIOUS
    <2>2. PICK ev : ev = MergeAll(e, calls, "CallTarget") OBVIOUS
    <2>3. PICK x : x = [name |-> ev[w.at].name, by |-> ev[w.at].by, calls |-> w.cfg.calls,
                        has_indirect |-> w.cfg.has_indirect, halt |-> w.cfg.halt]
        OBVIOUS
    <2>4. PICK m : m = MergeRound(acc, w) OBVIOUS
    <2>5. m = [evidence |-> ev, pending |-> p \cup (calls \ DOMAIN e), known |-> With(k, w.at, x)]
        BY <1>2, <1>5, <2>1, <2>2, <2>3, <2>4 DEF MergeRound
    <2>6. m.evidence = ev /\ m.known = With(k, w.at, x) BY <2>5
    <2>7. NamesOf(ev) BY <1>3, <2>2, MergeAllNames
    <2>8. DOMAIN ev = DOMAIN e \cup calls
        <3>1. Merged(ev, e, calls, "CallTarget") BY <2>2, MergeAllIs
        <3> QED BY <3>1 DEF Merged
    <2>9. Adds(ev, w, x) BY <2>3 DEF Adds
    <2>10. w.at \in DOMAIN ev BY <1>2, <2>8
    <2>11. FindsOf(m) BY <1>3, <1>5, <2>6, <2>7, <2>9, <2>10, FindAdded
    <2>12. MergeWalk(acc, w) = m BY <1>5, <2>4 DEF MergeWalk
    <2> QED BY <1>2, <2>6, <2>8, <2>11, <2>12
<1>6. CASE w.cfg.blocks # <<>> /\ phase = "leftovers"
    <2>3. PICK x : x = [name |-> e[w.at].name, by |-> e[w.at].by, calls |-> w.cfg.calls,
                        has_indirect |-> w.cfg.has_indirect, halt |-> w.cfg.halt]
        OBVIOUS
    <2>4. PICK f : f = Restrict(e, DOMAIN e \ {w.at}) OBVIOUS
    <2>5. MergeLeftover(acc, w) = [acc EXCEPT !.evidence = f, !.known = With(k, w.at, x)]
        BY <1>2, <1>6, <2>3, <2>4 DEF MergeLeftover
    <2>6. PICK u : u = [acc EXCEPT !.evidence = f] OBVIOUS
    <2>7. u = [evidence |-> f, pending |-> p, known |-> k] BY <1>1, <2>6
    <2>8. MergeLeftover(acc, w) = [u EXCEPT !.known = With(k, w.at, x)] BY <2>5, <2>6
    <2>9. PICK m : m = MergeLeftover(acc, w) OBVIOUS
    <2>10. m.evidence = f /\ m.known = With(k, w.at, x) BY <2>7, <2>8, <2>9
    <2>11. DOMAIN f = DOMAIN e \ {w.at} /\ \A a \in DOMAIN f : f[a] = e[a] BY <2>4 DEF Restrict
    <2>12. NamesOf(f) BY <1>3, <2>11 DEF NamesOf
    <2>13. Adds(e, w, x) BY <2>3 DEF Adds
    <2>14. FindsOf(m) BY <1>2, <1>3, <1>6, <2>10, <2>12, <2>13, FindAdded
    <2>15. MergeWalk(acc, w) = m BY <1>6, <2>9 DEF MergeWalk
    <2> QED BY <1>2, <2>10, <2>11, <2>14, <2>15
<1> QED BY <1>4, <1>5, <1>6

(* A new batch of addresses, in order: each waits once. *)
LEMMA NewBatchWaits ==
    ASSUME Idle, slice' = slice, NEW S \in SUBSET Addrs, batch' = InOrder(S)
    PROVE  WaitOnce' /\ Waiting' = S
<1>1. S \in SUBSET Nat /\ IsFiniteSet(S) BY AddrsAreNumbers, FS_Subset
<1>2. PICK o : o = InOrder(S) OBVIOUS
<1>3. o \in Seq(S) /\ Len(o) = Cardinality(S) /\ \A a \in S : \E i \in 1 .. Cardinality(S) : o[i] = a
    BY <1>1, <1>2, InOrderLists
<1>4. Items(o) = S BY <1>3 DEF Items
<1>5. slice' = <<>> BY DEF Idle
<1>6. DOMAIN slice' = {} BY <1>5
<1>7. InSlice' = {} BY <1>6 DEF InSlice
<1>8. \A i, j \in 1 .. Len(o) : o[i] = o[j] => i = j BY <1>1, <1>2, InOrderOnce
<1>9. batch' = o BY <1>2
<1> QED BY <1>4, <1>6, <1>7, <1>8, <1>9 DEF WaitOnce, Waiting

(* A function stays as it was found while others are interned. *)
LEMMA FindsStay ==
    ASSUME FindsOf(Now), image' = image, hints' = hints, known' = known, evidence' = evidence,
           \A f \in DOMAIN known : f \in DOMAIN raw => f \in DOMAIN raw' /\ raw'[f] = raw[f]
    PROVE  FindsOf(Now)'
<1>1. Now.known = known /\ Now.evidence = evidence BY DEF Now
<1>2. \A f \in DOMAIN known : f \in DOMAIN raw /\ FoundAs(f, raw[f], known[f]) /\ Named(known[f].name, f)
    BY <1>1 DEF FindsOf
<1>3. \A f \in DOMAIN known : f \in DOMAIN raw' /\ raw'[f] = raw[f] BY <1>2
<1>4. \A f, bs, k : FoundAs(f, bs, k)' <=> FoundAs(f, bs, k) BY DEF FoundAs
<1>5. \A x, a : Named(x, a)' <=> Named(x, a) BY DEF Named
<1>6. NamesOf(evidence) BY <1>1 DEF FindsOf
<1>8. PICK k, r, e : k = known' /\ r = raw' /\ e = evidence' OBVIOUS
<1>9. \A f \in DOMAIN k : f \in DOMAIN r /\ FoundAs(f, r[f], k[f]) /\ Named(k[f].name, f)
    BY <1>2, <1>3, <1>8
<1>10. \A f \in DOMAIN k : f \in DOMAIN r /\ FoundAs(f, r[f], k[f])' /\ Named(k[f].name, f)'
    BY <1>4, <1>5, <1>9
<1>11. NamesOf(e)' BY <1>1, <1>5, <1>6, <1>8 DEF NamesOf
<1>12. Now'.known = k /\ Now'.evidence = e BY <1>8 DEF Now
<1> QED BY <1>8, <1>10, <1>11, <1>12 DEF FindsOf

LEMMA FindingStarts ==
    ASSUME Init
    PROVE  FindingInv
<1>1. /\ batch = <<>> /\ slice = <<>> /\ known = <<>>
      /\ evidence = [a \in DOMAIN hints |-> [by |-> {"Symbol"}, name |-> hints[a]]]
    BY DEF Init
<1>2. Idle BY <1>1 DEF Idle
<1>3. DOMAIN slice = {} /\ DOMAIN known = {} /\ Len(batch) = 0 BY <1>1
<1>4. WaitOnce /\ Waiting = {} BY <1>2, <1>3, IdleWaits DEF WaitOnce
<1>5. NamesOf(evidence) BY <1>1 DEF NamesOf, Named
<1>6. FindsOf(Now) BY <1>3, <1>5 DEF FindsOf, Now
<1> QED BY <1>3, <1>4, <1>6 DEF FindingInv, Finding, Searching

LEMMA StartRoundFinds ==
    ASSUME RecoveryIs, RoundsInv, FindingInv, StartRound
    PROVE  FindingInv'
<1>1. /\ phase = "rounds" /\ Idle /\ batch' = InOrder(pending \ DOMAIN known)
      /\ image' = image /\ hints' = hints /\ phase' = phase
      /\ slice' = slice /\ evidence' = evidence /\ known' = known /\ raw' = raw /\ pending' = {}
    BY DEF StartRound, table
<1>2. FindsOf(Now) BY <1>1 DEF FindingInv, Finding, Searching
<1>3. FindsOf(Now)' BY <1>1, <1>2, FindsStay
<1>4. PICK n \in 0 .. LastAddr : Between(RoundsOf(image, hints)[n]) BY <1>1, RoundIsOver
<1>5. PICK r : r = RoundsOf(image, hints)[n] OBVIOUS
<1>6. DOMAIN hints \subseteq Addrs BY HintsAssumption DEF RecoveryIs
<1>7. RoundShape(image, r) BY <1>5, <1>6, RoundsShaped
<1>8. HoldsFor(Now, r) BY <1>4, <1>5 DEF Between
<1>9. DOMAIN evidence = r.seen /\ pending = r.last BY <1>8 DEF HoldsFor, Now
<1>10. pending \subseteq DOMAIN evidence /\ pending \subseteq Addrs
    BY <1>7, <1>9 DEF RoundShape, RecoveryIs, DiscoveryInv
<1>11. PICK S \in SUBSET Addrs : S = pending \ DOMAIN known BY <1>10
<1>12. WaitOnce' /\ Waiting' = S BY <1>1, <1>11, NewBatchWaits
<1>13. Waiting' \cap DOMAIN known' = {} /\ Waiting' \subseteq DOMAIN evidence' BY <1>1, <1>10, <1>11, <1>12
<1> QED BY <1>3, <1>12, <1>13 DEF FindingInv, Finding, Searching

LEMMA WalkSliceFinds ==
    ASSUME RecoveryIs, FindingInv, WalkSlice
    PROVE  FindingInv'
<1>1. SUFFICES ASSUME Finding PROVE FindingInv' BY DEF FindingInv, Finding, WalkSlice, Searching
<1>2. /\ image' = image /\ hints' = hints /\ evidence' = evidence /\ pending' = pending /\ known' = known
      /\ raw' = raw
    BY DEF WalkSlice, table
<1>4. FindsOf(Now)' BY <1>1, <1>2, FindsStay DEF Finding
<1>5. Waiting' = Waiting /\ WaitOnce' BY <1>1, TakenWait, TakenOnce DEF RecoveryIs, Finding
<1> QED BY <1>1, <1>2, <1>4, <1>5 DEF FindingInv, Finding, Searching

LEMMA InternFinds ==
    ASSUME RecoveryIs, FindingInv, InternSlice
    PROVE  FindingInv'
<1>1. SUFFICES ASSUME Finding PROVE FindingInv' BY DEF FindingInv, Finding, InternSlice, Searching
<1>2. /\ image' = image /\ hints' = hints /\ evidence' = evidence /\ pending' = pending /\ known' = known
      /\ batch' = batch /\ slice' = slice
    BY DEF InternSlice, discovery
<1>4. InSlice' = InSlice BY <1>2 DEF InSlice
<1>5. Waiting' = Waiting BY <1>2, <1>4 DEF Waiting
<1>6. WaitOnce' BY <1>1, <1>2, <1>4 DEF WaitOnce, Finding
<1>7. ASSUME NEW f \in DOMAIN known, f \in DOMAIN raw PROVE f \in DOMAIN raw' /\ raw'[f] = raw[f]
    <2>1. f \notin InSlice BY <1>1 DEF Waiting, Finding
    <2>2. RecoveryInv /\ DiscoveryInv BY DEF RecoveryIs
    <2>3. raw' = raw \/ \E g \in InSlice : RawGrows(g) BY <2>2, InternIs
    <2> QED BY <1>7, <2>1, <2>3 DEF RawGrows
<1>8. FindsOf(Now)' BY <1>1, <1>2, <1>7, FindsStay DEF Finding
<1> QED BY <1>1, <1>2, <1>5, <1>6, <1>8 DEF FindingInv, Finding, Searching

LEMMA ScanGapsFinds ==
    ASSUME RecoveryIs, FindingInv, ScanGaps
    PROVE  FindingInv'
<1>1. /\ phase = "rounds" /\ Idle /\ image' = image /\ hints' = hints /\ slice' = slice
      /\ known' = known /\ raw' = raw
      /\ evidence' = MergeAll(evidence, Prologues(Data), "ProloguePattern")
      /\ batch' = InOrder(Prologues(Data))
    BY DEF ScanGaps, table
<1>2. Finding BY <1>1 DEF FindingInv, Finding, Searching
<1>3. PICK S : S = Prologues(Data) OBVIOUS
<1>4. S \in SUBSET Addrs /\ S \cap Covered = {} BY <1>3 DEF Prologues
<1>5. WaitOnce' /\ Waiting' = S BY <1>1, <1>3, <1>4, NewBatchWaits
<1>6. \A f \in DOMAIN known : f \in DOMAIN raw /\ FoundAs(f, raw[f], known[f]) /\ Named(known[f].name, f)
    BY <1>2 DEF FindsOf, Now, Finding
<1>7. ASSUME NEW f \in DOMAIN known PROVE f \in Covered
    <2>1. PICK c : c.entry = f /\ raw[f] = RawCfg(c).blocks /\ raw[f] # <<>> BY <1>6 DEF FoundAs
    <2>2. f \in Addrs BY DEF RecoveryIs, DiscoveryInv
    <2>3. f \in Covers(ToSet(raw[f])) BY <2>1, <2>2, EntryIsWalked
    <2>4. Read(f) = raw[f] BY <1>1, ReadsRaw DEF RecoveryIs, Idle
    <2>5. f \in Covers(BlocksOf(f)) BY <2>3, <2>4 DEF BlocksOf
    <2> QED BY <2>5 DEF Covered
<1>8. S \cap DOMAIN known = {} BY <1>4, <1>7
<1>9. Merged(evidence', evidence, S, "ProloguePattern") BY <1>1, <1>3, MergeAllIs
<1>10. S \subseteq DOMAIN evidence' BY <1>9 DEF Merged
<1>11. FindsOf(Now)'
    <2>1. PICK k, r, e : k = known /\ r = raw /\ e = evidence' OBVIOUS
    <2>2. NamesOf(evidence) BY <1>2 DEF FindsOf, Now, Finding
    <2>3. NamesOf(e) BY <1>1, <2>1, <2>2, MergeAllNames
    <2>4. \A f, bs, q : FoundAs(f, bs, q)' <=> FoundAs(f, bs, q) BY <1>1 DEF FoundAs
    <2>5. \A x, a : Named(x, a)' <=> Named(x, a) BY <1>1 DEF Named
    <2>6. \A f \in DOMAIN k : f \in DOMAIN r /\ FoundAs(f, r[f], k[f])' /\ Named(k[f].name, f)'
        BY <1>6, <2>1, <2>4, <2>5
    <2>7. NamesOf(e)' BY <2>3, <2>5 DEF NamesOf
    <2>8. Now'.known = k /\ Now'.evidence = e /\ raw' = r BY <1>1, <2>1 DEF Now
    <2> QED BY <2>6, <2>7, <2>8 DEF FindsOf
<1> QED BY <1>1, <1>5, <1>8, <1>10, <1>11 DEF FindingInv, Finding, Searching

(* What the table was handed is what the walk found. *)
LEMMA WalkIsFound ==
    ASSUME RecoveryIs, phase # "rewalk", fresh = InSlice, NEW w, w.at \in InSlice,
           w.cfg = RawCfg(Walking(w.at)), w.cfg.blocks # <<>>
    PROVE  FoundAs(w.at, raw[w.at], w.cfg)
<1>1. PICK c : c = Walking(w.at) OBVIOUS
<1>2. c.image = image /\ c.entry = w.at /\ c.noreturn = {} BY <1>1 DEF Walking
<1>3. raw[w.at] = RawCfg(c).blocks BY <1>1 DEF RecoveryIs, HandedOver
<1> QED BY <1>1, <1>2, <1>3 DEF FoundAs

LEMMA MergeSliceFindsOf ==
    ASSUME RecoveryIs, FindingInv, MergeSlice
    PROVE  FindingInv'
<1>1. SUFFICES ASSUME Searching, Finding PROVE FindingInv' BY DEF FindingInv, Finding, Searching, MergeSlice
<1>2. phase \in {"rounds", "leftovers"} BY <1>1 DEF MergeSlice, RecoveryIs, DiscoveryInv, Idle, Searching
<1>3. /\ image' = image /\ hints' = hints /\ batch' = batch /\ slice' = <<>> /\ raw' = raw /\ phase' = phase
      /\ fresh = InSlice
    BY DEF MergeSlice, Publish
<1>4. FindsOf(Now) /\ WaitOnce /\ Waiting \cap DOMAIN known = {} /\ Waiting \subseteq DOMAIN evidence
    BY <1>1 DEF Finding
<1>5. PICK m : Merges(m) BY MergesOneByOne DEF RecoveryIs
<1>6. Len(slice) \in Nat /\ DOMAIN slice = 1 .. Len(slice) BY <1>5 DEF Merges
<1> DEFINE Rest(k) == {slice[j].at : j \in k + 1 .. Len(slice)} \cup Items(batch)
           Good == {k \in Nat : k <= Len(slice) => FindsOf(m[k]) /\ Rest(k) \subseteq DOMAIN m[k].evidence}
<1>7. 0 \in Good
    <2>1. \A j \in 0 + 1 .. Len(slice) : j \in DOMAIN slice BY <1>6
    <2>2. Rest(0) \subseteq Waiting BY <2>1 DEF Waiting, InSlice
    <2>3. m[0] = Now /\ Now.evidence = evidence BY <1>5 DEF Merges, Now
    <2> HIDE DEF Rest
    <2> QED BY <1>4, <2>2, <2>3
<1>8. ASSUME NEW k \in Nat, k \in Good PROVE k + 1 \in Good
    <2>1. SUFFICES ASSUME k + 1 <= Len(slice) PROVE FindsOf(m[k + 1]) /\ Rest(k + 1) \subseteq DOMAIN m[k + 1].evidence
        OBVIOUS
    <2>2. k <= Len(slice) /\ k + 1 \in DOMAIN slice BY <1>6, <2>1
    <2>3. PICK w : w = slice[k + 1] OBVIOUS
    <2>4. PICK as : as = Rest(k + 1) OBVIOUS
    <2>5. as \subseteq Rest(k) /\ w.at \in Rest(k)
        <3>1. \A j \in (k + 1) + 1 .. Len(slice) : j \in k + 1 .. Len(slice) BY <1>6
        <3>2. k + 1 \in k + 1 .. Len(slice) BY <1>6, <2>1
        <3> QED BY <2>3, <2>4, <3>1, <3>2
    <2>6. w.at \in InSlice BY <2>2, <2>3 DEF InSlice
    <2>7. w.at \notin as
        <3>1. \A j \in (k + 1) + 1 .. Len(slice) : j \in DOMAIN slice /\ j # k + 1 BY <1>6
        <3>2. \A j \in (k + 1) + 1 .. Len(slice) : slice[j].at # w.at BY <1>4, <2>2, <2>3, <3>1 DEF WaitOnce
        <3>3. w.at \notin Items(batch) BY <1>4, <2>6 DEF WaitOnce
        <3> QED BY <2>4, <3>2, <3>3
    <2>8. m[k + 1] = MergeWalk(m[k], w) BY <1>5, <2>1, <2>3 DEF Merges
    <2>9. Merging(m[k]) BY <1>5, <2>2 DEF Merges
    <2>10. FindsOf(m[k]) /\ Rest(k) \subseteq DOMAIN m[k].evidence BY <1>8, <2>2
    <2> HIDE DEF Rest
    <2>11. as \subseteq DOMAIN m[k].evidence /\ w.at \in DOMAIN m[k].evidence BY <2>5, <2>10
    <2>12. w.cfg = RawCfg(Walking(w.at)) BY <2>2, <2>3, <2>6, WalkOfSlice DEF RecoveryIs
    <2>13. w.at \in DOMAIN raw BY <1>3, <2>6 DEF RecoveryIs, HandedOver
    <2>14. w.cfg.blocks # <<>> => FoundAs(w.at, raw[w.at], w.cfg) BY <1>2, <1>3, <2>6, <2>12, WalkIsFound
    <2>15. PICK acc : acc = m[k] OBVIOUS
    <2>16. /\ FindsOf(MergeWalk(acc, w))
           /\ DOMAIN acc.evidence \ {w.at} \subseteq DOMAIN MergeWalk(acc, w).evidence
        BY <1>2, <2>9, <2>10, <2>11, <2>13, <2>14, <2>15, MergeFinds
    <2>17. as \subseteq DOMAIN MergeWalk(acc, w).evidence BY <2>7, <2>11, <2>15, <2>16
    <2> QED BY <2>4, <2>8, <2>15, <2>16, <2>17
<1>9. Items(batch) \subseteq Rest(Len(slice)) OBVIOUS
<1> HIDE DEF Good, Rest
<1>10. Len(slice) \in Good BY <1>6, <1>7, <1>8, AllNumbers
<1>11. PICK acc : acc = m[Len(slice)] OBVIOUS
<1>12. FindsOf(acc) /\ Items(batch) \subseteq DOMAIN acc.evidence BY <1>6, <1>9, <1>10, <1>11 DEF Good
<1>13. Now' = acc BY <1>5, <1>11, MergedNow
<1>14. evidence' = acc.evidence /\ known' = acc.known BY <1>5, <1>11 DEF Merges
<1>15. DOMAIN slice' = {} BY <1>3
<1>16. InSlice' = {} /\ Items(batch') = Items(batch) BY <1>3, <1>15 DEF InSlice
<1>17. Waiting' = Items(batch) BY <1>16 DEF Waiting
<1>18. WaitOnce' BY <1>3, <1>4, <1>15, <1>16 DEF WaitOnce
<1>19. Waiting' \cap DOMAIN known' = {}
    <2>1. DOMAIN known' \subseteq DOMAIN known \cup InSlice BY MergeKnows
    <2>2. InSlice \cap Items(batch) = {} BY <1>4 DEF WaitOnce
    <2> QED BY <1>4, <1>17, <2>1, <2>2 DEF Waiting
<1>20. FindsOf(Now)'
    <2>1. \A f, bs, q : FoundAs(f, bs, q)' <=> FoundAs(f, bs, q) BY <1>3 DEF FoundAs
    <2>2. \A x, a : Named(x, a)' <=> Named(x, a) BY <1>3 DEF Named
    <2>3. PICK r : r = raw OBVIOUS
    <2>4. \A f \in DOMAIN acc.known :
              f \in DOMAIN r /\ FoundAs(f, r[f], acc.known[f])' /\ Named(acc.known[f].name, f)'
        BY <1>12, <2>1, <2>2, <2>3 DEF FindsOf
    <2>5. NamesOf(acc.evidence)' BY <1>12, <2>2 DEF FindsOf, NamesOf
    <2>6. raw' = r BY <1>3, <2>3
    <2>7. FindsOf(acc)' BY <2>4, <2>5, <2>6 DEF FindsOf
    <2> QED BY <1>13, <2>7
<1> QED BY <1>12, <1>14, <1>17, <1>18, <1>19, <1>20 DEF FindingInv, Finding, Searching

LEMMA FindingKept ==
    ASSUME RecoveryIs, RoundsInv, FindingInv, [LiftingNext]_<<vars, dataflow>>
    PROVE  FindingInv'
<1>1. CASE StartRound BY <1>1, StartRoundFinds
<1>2. CASE WalkSlice BY <1>2, WalkSliceFinds
<1>3. CASE InternSlice BY <1>3, InternFinds
<1>4. CASE MergeSlice BY <1>4, MergeSliceFindsOf
<1>5. CASE ScanGaps BY <1>5, ScanGapsFinds
<1>6. ASSUME Searching, image' = image, hints' = hints, raw' = raw, evidence' = evidence, pending' = pending,
             known' = known, batch' = batch, slice' = slice
      PROVE  FindingInv'
    <2>2. InSlice' = InSlice BY <1>6 DEF InSlice
    <2>3. Waiting' = Waiting BY <1>6, <2>2 DEF Waiting
    <2>4. WaitOnce' = WaitOnce BY <1>6, <2>2 DEF WaitOnce
    <2>5. Finding BY <1>6 DEF FindingInv, Finding, Searching
    <2>6. FindsOf(Now)' BY <1>6, <2>5, FindsStay DEF Finding
    <2> QED BY <1>6, <2>3, <2>4, <2>5, <2>6 DEF FindingInv, Finding, Searching
<1>7. CASE EndLeftovers BY <1>6, <1>7 DEF EndLeftovers, Searching, discovery, table
<1>8. CASE Refine
    <2>1. phase' = "rewalk" BY <1>8 DEF Refine
    <2> QED BY <2>1 DEF FindingInv, Finding, Searching
<1>9. CASE Finish
    <2>1. phase' = "done" BY <1>9 DEF Finish
    <2> QED BY <2>1 DEF FindingInv, Finding, Searching
<1>10. CASE UNCHANGED vars
    <2>1. /\ phase' = phase /\ image' = image /\ hints' = hints /\ raw' = raw /\ evidence' = evidence
          /\ pending' = pending /\ known' = known /\ batch' = batch /\ slice' = slice
        BY <1>10 DEF vars, discovery, table
    <2>2. CASE Searching BY <1>6, <2>1, <2>2
    <2>3. CASE ~Searching BY <2>1, <2>3 DEF FindingInv, Searching, Finding
    <2> QED BY <2>2, <2>3
<1>11. CASE LiftFunction
    <2>1. UNCHANGED vars BY <1>11 DEF LiftFunction
    <2> QED BY <1>10, <2>1
<1>12. CASE UNCHANGED <<vars, dataflow>>
    <2>1. UNCHANGED vars BY <1>12
    <2> QED BY <1>10, <2>1
<1> QED BY <1>1, <1>2, <1>3, <1>4, <1>5, <1>7, <1>8, <1>9, <1>10, <1>11, <1>12 DEF LiftingNext, Next

-----------------------------------------------------------------------------
(* While functions are walked again: those that never return are not among     *)
(* them, so they stay as their first walk found them.                          *)
DeniesFor(f) ==
    /\ f \in DOMAIN known /\ f \in DOMAIN raw /\ f \notin Waiting /\ FoundAs(f, raw[f], known[f])
    /\ f \in Abort \/ Denies(raw[f], known[f], noreturn)
DenyingInv == phase = "rewalk" => \A f \in noreturn : DeniesFor(f)

LEMMA RefineDenies ==
    ASSUME RecoveryIs, FindingInv, Refine
    PROVE  DenyingInv'
<1>1. /\ phase = "refine" /\ image' = image /\ hints' = hints /\ slice' = slice /\ known' = known /\ raw' = raw
      /\ noreturn' = NoReturnSet
      /\ batch' = InOrder({f \in DOMAIN known \ NoReturnSet : known[f].calls \cap NoReturnSet # {}})
    BY DEF Refine, table
<1>2. FindsOf(Now) BY <1>1 DEF FindingInv, Finding, Searching
<1>3. Idle /\ DOMAIN known \subseteq Addrs BY <1>1 DEF RecoveryIs, DiscoveryInv
<1>4. PICK N : N = NoReturnSet OBVIOUS
<1>5. PICK S : S = {f \in DOMAIN known \ N : known[f].calls \cap N # {}} OBVIOUS
<1>6. S \in SUBSET Addrs /\ S \cap N = {} BY <1>3, <1>5
<1>7. batch' = InOrder(S) BY <1>1, <1>4, <1>5
<1>8. Waiting' = S BY <1>1, <1>3, <1>6, <1>7, NewBatchWaits
<1>9. Vouched(N) BY <1>3, <1>4, NoReturnVouched
<1>10. ASSUME NEW f \in N PROVE DeniesFor(f)'
    <2>1. f \in DOMAIN known /\ (known[f].name \in KnownNames \/ NeverReturns(f, N)) BY <1>9 DEF Vouched
    <2>2. f \in DOMAIN raw /\ FoundAs(f, raw[f], known[f]) /\ Named(known[f].name, f)
        BY <1>2, <2>1 DEF FindsOf, Now
    <2>3. f \in Abort \/ Denies(raw[f], known[f], N)
        <3>1. CASE known[f].name \in KnownNames BY <2>2, <3>1, KnownAssumption DEF Named, Abort
        <3>2. CASE NeverReturns(f, N)
            <4>1. Read(f) = raw[f] BY <1>3, <2>1, ReadsRaw DEF RecoveryIs, Idle
            <4>2. BlocksOf(f) = ToSet(raw[f]) BY <4>1 DEF BlocksOf
            <4> QED BY <3>2, <4>2 DEF NeverReturns, IsComplete, Ends, Denies
        <3> QED BY <2>1, <3>1, <3>2
    <2>4. Abort' = Abort BY <1>1 DEF Abort
    <2>5. PICK k, r : k = known[f] /\ r = raw[f] OBVIOUS
    <2>6. FoundAs(f, r, k)' BY <1>1, <2>2, <2>5 DEF FoundAs
    <2>7. noreturn' = N /\ known'[f] = k /\ raw'[f] = r BY <1>1, <1>4, <2>5
    <2>8. f \in Abort' \/ Denies(r, k, N) BY <2>3, <2>4, <2>5
    <2> QED BY <1>1, <1>6, <1>8, <2>1, <2>2, <2>6, <2>7, <2>8 DEF DeniesFor
<1>11. noreturn' = N BY <1>1, <1>4
<1> QED BY <1>10, <1>11 DEF DenyingInv

(* Such a function stays as it is while others are walked. *)
LEMMA DeniesStays ==
    ASSUME DenyingInv, phase = "rewalk", image' = image, hints' = hints, noreturn' = noreturn,
           Waiting' \subseteq Waiting,
           \A f \in noreturn : f \in DOMAIN known => f \in DOMAIN known' /\ known'[f] = known[f],
           \A f \in noreturn : f \in DOMAIN raw => f \in DOMAIN raw' /\ raw'[f] = raw[f]
    PROVE  DenyingInv'
<1>1. ASSUME NEW f \in noreturn PROVE DeniesFor(f)'
    <2>1. /\ f \in DOMAIN known /\ f \in DOMAIN raw /\ f \notin Waiting /\ FoundAs(f, raw[f], known[f])
          /\ f \in Abort \/ Denies(raw[f], known[f], noreturn)
        BY DEF DenyingInv, DeniesFor
    <2>2. PICK k, r, N : k = known[f] /\ r = raw[f] /\ N = noreturn OBVIOUS
    <2>3. f \in DOMAIN known' /\ f \in DOMAIN raw' /\ known'[f] = k /\ raw'[f] = r /\ noreturn' = N BY <2>1, <2>2
    <2>4. Abort' = Abort BY DEF Abort
    <2>5. FoundAs(f, r, k)' BY <2>1, <2>2 DEF FoundAs
    <2>6. f \in Abort' \/ Denies(r, k, N) BY <2>1, <2>2, <2>4
    <2> QED BY <2>1, <2>3, <2>5, <2>6 DEF DeniesFor
<1> QED BY <1>1 DEF DenyingInv

LEMMA MergeRewalkLeaves ==
    ASSUME NEW acc, Merging(acc), NEW w, NEW f, f # w.at, f \in DOMAIN acc.known
    PROVE  LET m == MergeRewalk(acc, w) IN f \in DOMAIN m.known /\ m.known[f] = acc.known[f]
<1>1. PICK e, p, k : acc = [evidence |-> e, pending |-> p, known |-> k] BY DEF Merging
<1>2. acc.evidence = e /\ acc.pending = p /\ acc.known = k BY <1>1
<1>3. PICK m : m = MergeRewalk(acc, w) OBVIOUS
<1>4. CASE w.cfg.blocks = <<>> BY <1>4 DEF MergeRewalk
<1>5. CASE w.cfg.blocks # <<>>
    <2>1. PICK y : m = [acc EXCEPT !.known[w.at] = y] BY <1>3, <1>5 DEF MergeRewalk
    <2>2. m = [evidence |-> e, pending |-> p, known |-> [k EXCEPT ![w.at] = y]] BY <1>1, <2>1
    <2>3. m.known = [k EXCEPT ![w.at] = y] BY <2>2
    <2> QED BY <1>2, <1>3, <2>3
<1> QED BY <1>4, <1>5

LEMMA RewalkLeaves ==
    ASSUME RecoveryIs, phase = "rewalk", MergeSlice, NEW f \in DOMAIN known, f \notin InSlice
    PROVE  f \in DOMAIN known' /\ known'[f] = known[f]
<1>1. PICK m : Merges(m) BY MergesOneByOne DEF RecoveryIs
<1>2. Len(slice) \in Nat /\ DOMAIN slice = 1 .. Len(slice) BY <1>1 DEF Merges
<1> DEFINE Good == {n \in Nat : n <= Len(slice) => f \in DOMAIN m[n].known /\ m[n].known[f] = known[f]}
<1>3. 0 \in Good BY <1>1 DEF Merges, Now
<1>4. ASSUME NEW n \in Nat, n \in Good PROVE n + 1 \in Good
    <2>1. SUFFICES ASSUME n + 1 <= Len(slice) PROVE f \in DOMAIN m[n + 1].known /\ m[n + 1].known[f] = known[f]
        OBVIOUS
    <2>2. n <= Len(slice) /\ n + 1 \in DOMAIN slice BY <1>2, <2>1
    <2>3. PICK w : w = slice[n + 1] OBVIOUS
    <2>4. f # w.at BY <2>2, <2>3 DEF InSlice
    <2>5. PICK acc, b : acc = m[n] /\ b = m[n + 1] OBVIOUS
    <2>6. Merging(acc) /\ b = MergeRewalk(acc, w) BY <1>1, <2>1, <2>2, <2>3, <2>5 DEF Merges, MergeWalk
    <2>7. f \in DOMAIN acc.known /\ acc.known[f] = known[f] BY <1>4, <2>2, <2>5
    <2>8. f \in DOMAIN b.known /\ b.known[f] = acc.known[f] BY <2>4, <2>6, <2>7, MergeRewalkLeaves
    <2> QED BY <2>5, <2>7, <2>8
<1> HIDE DEF Good
<1>5. Len(slice) \in Good BY <1>2, <1>3, <1>4, AllNumbers
<1> QED BY <1>1, <1>2, <1>5 DEF Good, Merges

LEMMA DenyingKept ==
    ASSUME RecoveryIs, FindingInv, DenyingInv, [LiftingNext]_<<vars, dataflow>>
    PROVE  DenyingInv'
<1>1. CASE Refine BY <1>1, RefineDenies
<1>2. ASSUME phase' # "rewalk" PROVE DenyingInv' BY <1>2 DEF DenyingInv
<1>3. CASE WalkSlice
    <2>1. SUFFICES ASSUME phase = "rewalk" PROVE DenyingInv' BY <1>3 DEF DenyingInv, WalkSlice
    <2>2. image' = image /\ hints' = hints /\ noreturn' = noreturn /\ known' = known /\ raw' = raw
        BY <1>3 DEF WalkSlice, table
    <2>3. Waiting' = Waiting BY <1>3, TakenWait DEF RecoveryIs
    <2> QED BY <2>1, <2>2, <2>3, DeniesStays
<1>4. CASE InternSlice
    <2>1. SUFFICES ASSUME phase = "rewalk" PROVE DenyingInv' BY <1>4 DEF DenyingInv, InternSlice
    <2>2. /\ image' = image /\ hints' = hints /\ noreturn' = noreturn /\ known' = known /\ batch' = batch
          /\ slice' = slice
        BY <1>4 DEF InternSlice, discovery
    <2>3. Waiting' = Waiting BY <2>2 DEF Waiting, InSlice
    <2>4. ASSUME NEW f \in noreturn, f \in DOMAIN raw PROVE f \in DOMAIN raw' /\ raw'[f] = raw[f]
        <3>1. f \notin InSlice BY <2>1 DEF DenyingInv, DeniesFor, Waiting
        <3>2. RecoveryInv /\ DiscoveryInv BY DEF RecoveryIs
        <3>3. raw' = raw \/ \E g \in InSlice : RawGrows(g) BY <1>4, <3>2, InternIs
        <3> QED BY <2>4, <3>1, <3>3 DEF RawGrows
    <2> QED BY <2>1, <2>2, <2>3, <2>4, DeniesStays
<1>5. CASE MergeSlice
    <2>1. SUFFICES ASSUME phase = "rewalk" PROVE DenyingInv' BY <1>5 DEF DenyingInv, MergeSlice
    <2>2. /\ image' = image /\ hints' = hints /\ noreturn' = noreturn /\ raw' = raw /\ batch' = batch
          /\ slice' = <<>>
        BY <1>5 DEF MergeSlice, Publish
    <2>3. DOMAIN slice' = {} BY <2>2
    <2>4. Waiting' \subseteq Waiting BY <2>2, <2>3 DEF Waiting, InSlice
    <2>5. ASSUME NEW f \in noreturn, f \in DOMAIN known PROVE f \in DOMAIN known' /\ known'[f] = known[f]
        <3>1. f \notin InSlice BY <2>1 DEF DenyingInv, DeniesFor, Waiting
        <3> QED BY <1>5, <2>1, <2>5, <3>1, RewalkLeaves
    <2> QED BY <2>1, <2>2, <2>4, <2>5, DeniesStays
<1>6. CASE UNCHANGED vars
    <2>1. SUFFICES ASSUME phase = "rewalk" PROVE DenyingInv' BY <1>6 DEF DenyingInv, vars
    <2>2. /\ image' = image /\ hints' = hints /\ raw' = raw /\ noreturn' = noreturn
          /\ known' = known /\ batch' = batch /\ slice' = slice
        BY <1>6 DEF vars, discovery, table
    <2>3. Waiting' = Waiting BY <2>2 DEF Waiting, InSlice
    <2> QED BY <2>1, <2>2, <2>3, DeniesStays
<1>7. CASE StartRound BY <1>2, <1>7 DEF StartRound
<1>8. CASE ScanGaps BY <1>2, <1>8 DEF ScanGaps
<1>9. CASE EndLeftovers BY <1>2, <1>9 DEF EndLeftovers
<1>10. CASE Finish BY <1>2, <1>10 DEF Finish
<1>11. CASE LiftFunction
    <2>1. UNCHANGED vars BY <1>11 DEF LiftFunction
    <2> QED BY <1>6, <2>1
<1>12. CASE UNCHANGED <<vars, dataflow>>
    <2>1. UNCHANGED vars BY <1>12
    <2> QED BY <1>6, <2>1
<1> QED BY <1>1, <1>3, <1>4, <1>5, <1>6, <1>7, <1>8, <1>9, <1>10, <1>11, <1>12 DEF LiftingNext, Next

(* What such a set of functions covers is a way without a return. *)
LEMMA NoneComesBack ==
    ASSUME image \in Images, NEW N,
           \A f \in N : /\ f \in Addrs
                        /\ f \in Abort \/ ( /\ FoundAs(f, raw[f], known[f])
                                            /\ Denies(raw[f], known[f], N)
                                            /\ ToldApart(raw[f], known[f]) )
    PROVE  N \cap ComesBack = {}
<1> DEFINE In(f) == Covers(ToSet(raw[f]))
<1>1. PICK X : X = Abort \cup N \cup UNION {In(f) : f \in N \ Abort} OBVIOUS
<1>2. ASSUME NEW f \in N \ Abort, NEW a \in In(f)
      PROVE  image[a].flow # "ret" /\ \A back : Flow(a, back) \cap Addrs \subseteq X
    <2>1. FoundAs(f, raw[f], known[f]) /\ Denies(raw[f], known[f], N) /\ ToldApart(raw[f], known[f])
        OBVIOUS
    <2>2. PICK bs, k : bs = raw[f] /\ k = known[f] OBVIOUS
    <2>3. a \in Covers(ToSet(bs)) BY <2>2
    <2>4. FoundAs(f, bs, k) /\ Denies(bs, k, N) /\ ToldApart(bs, k) BY <2>1, <2>2
    <2>5. ASSUME NEW back PROVE image[a].flow # "ret" /\ Flow(a, back) \cap Addrs \subseteq In(f) \cup N
        <3>1. image[a].flow # "ret" /\ Flow(a, back) \cap Addrs \subseteq Covers(ToSet(bs)) \cup N
            BY <2>3, <2>4, StaysInside
        <3> QED BY <2>2, <3>1
    <2>6. In(f) \cup N \subseteq X BY <1>1
    <2> HIDE DEF In
    <2>7. image[a].flow # "ret" BY <2>5
    <2> QED BY <2>5, <2>6, <2>7
<1>3. ASSUME NEW f \in N \ Abort PROVE f \in In(f)
    <2>1. FoundAs(f, raw[f], known[f]) /\ f \in Addrs OBVIOUS
    <2>2. PICK c : c.entry = f /\ raw[f] = RawCfg(c).blocks /\ raw[f] # <<>> BY <2>1 DEF FoundAs
    <2>3. f \in Covers(ToSet(raw[f])) BY <2>1, <2>2, EntryIsWalked
    <2> QED BY <2>3
<1> HIDE DEF In
<1>4. ASSUME NEW a \in X \ Abort
      PROVE  image[a].flow # "ret" /\ \A back : Flow(a, back) \cap Addrs \subseteq X
    <2>1. PICK f \in N \ Abort : a \in In(f) BY <1>1, <1>3
    <2> QED BY <1>2, <2>1
<1>5. Shut(X) BY <1>4 DEF Shut
<1>6. ComesBack \cap X = {} BY <1>5, ComesBackIsAway DEF Away
<1> QED BY <1>1, <1>6

(* In every state of the second walks, such a function is read as it was found.*)
LEMMA DeniedReads ==
    ASSUME RecoveryIs, DenyingInv, phase = "rewalk", NEW f \in noreturn
    PROVE  Read(f) = raw[f]
<1>1. f \in DOMAIN known /\ f \notin InSlice BY DEF DenyingInv, DeniesFor, Waiting
<1>2. TableInv /\ SliceInv BY DEF RecoveryIs, RecoveryInv
<1>3. f \in DOMAIN blocks /\ f \notin fresh BY <1>1, <1>2 DEF RecoveryIs, HandedOver, SliceInv
<1>4. todo # Nothing => todo.of # f BY <1>1, <1>2 DEF SliceInv
<1>5. ReadsBack BY <1>2, TableReadsBack
<1> QED BY <1>3, <1>4, <1>5 DEF ReadsBack

(* Plain tails are told apart. *)
LEMMA PlainIsToldApart ==
    ASSUME NEW f, Read(f) = raw[f], PlainTails(f)
    PROVE  ToldApart(raw[f], known[f])
BY DEF PlainTails, ToldApart, BlocksOf

Denying == RoundsInv /\ FindingInv /\ DenyingInv /\ image \in Images

LEMMA AlwaysDenying ==
    ASSUME HashIsNumber
    PROVE  LiftingSpec => [](RecoveryIs /\ Phases /\ Denying)
<1>1. LiftingInit => RecoveryIs /\ Phases /\ Denying
    <2>1. SUFFICES ASSUME Init PROVE RecoveryIs /\ Phases /\ Denying BY DEF LiftingInit
    <2>2. RecoveryIs /\ Phases /\ FindingInv BY <2>1, RecoveryIsStarts, PhasesStart, FindingStarts
    <2>3. phase = "rounds" /\ image \in Images BY <2>1 DEF Init
    <2> QED BY <2>2, <2>3 DEF Phases, Denying, DenyingInv
<1>2. RecoveryIs /\ Phases /\ Denying /\ [LiftingNext]_<<vars, dataflow>> => (RecoveryIs /\ Phases /\ Denying)'
    <2>1. SUFFICES ASSUME RecoveryIs, Phases, Denying, [LiftingNext]_<<vars, dataflow>>
                   PROVE  (RecoveryIs /\ Phases /\ Denying)'
        OBVIOUS
    <2>2. RecoveryIs' /\ Phases' BY <2>1, RecoveryIsKept, PhasesKept
    <2>3. FindingInv' /\ DenyingInv' BY <2>1, FindingKept, DenyingKept DEF Denying
    <2>4. image' \in Images BY <2>1, SameProgram DEF Denying
    <2> QED BY <2>2, <2>3, <2>4 DEF Phases, Denying
<1> QED BY <1>1, <1>2, PTL DEF LiftingSpec

(* A function that is said never to return does not: for every program whose   *)
(* tail calls are told apart, no path leads from its entry to a return, as     *)
(* long as the others are walked again (noreturn.rs:114-119).                  *)
THEOREM NoReturnIsRight ==
    ASSUME HashIsNumber
    PROVE  LiftingSpec => []NoReturnOfPlainTails
<1>1. ASSUME RecoveryIs, Phases, Denying PROVE NoReturnOfPlainTails
    <2>1. SUFFICES ASSUME phase = "rewalk", \A f \in noreturn : PlainTails(f)
                   PROVE  noreturn \cap ComesBack = {}
        BY DEF NoReturnOfPlainTails
    <2>2. PICK N : N = noreturn OBVIOUS
    <2>3. DenyingInv /\ image \in Images BY <1>1 DEF Denying
    <2>4. ASSUME NEW f \in N
          PROVE  /\ f \in Addrs
                 /\ f \in Abort \/ ( /\ FoundAs(f, raw[f], known[f])
                                     /\ Denies(raw[f], known[f], N)
                                     /\ ToldApart(raw[f], known[f]) )
        <3>1. DeniesFor(f) BY <2>1, <2>2, <2>3 DEF DenyingInv
        <3>2. Read(f) = raw[f] BY <1>1, <2>1, <2>2, <2>3, DeniedReads
        <3>3. f \in DOMAIN known BY <3>1 DEF DeniesFor
        <3>4. ToldApart(raw[f], known[f]) BY <2>1, <2>2, <3>2, PlainIsToldApart
        <3>5. f \in Addrs BY <1>1, <3>3 DEF RecoveryIs, DiscoveryInv
        <3> QED BY <2>2, <3>1, <3>4, <3>5 DEF DeniesFor
    <2>5. N \cap ComesBack = {} BY <2>3, <2>4, NoneComesBack
    <2> QED BY <2>2, <2>5
<1> QED BY <1>1, AlwaysDenying, PTL
=============================================================================
