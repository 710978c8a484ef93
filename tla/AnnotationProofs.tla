--------------------------- MODULE AnnotationProofs ---------------------------
(***************************************************************************)
(* Proofs about the annotation log, for any number of branches, keys and   *)
(* values, and any bounds: first what the operations on lists of records   *)
(* do, then what a log stays and the theorems about it, then the commands  *)
(* of AnnotateFile, each a process that can be killed at any step; last,   *)
(* the names of AnchoredNames on the builds that follow.                   *)
(*                                                                         *)
(* The library's theorems on induction take predicates, which the provers  *)
(* cannot instantiate; here an induction looks at the least number at      *)
(* which a fact fails (LeastOf).                                           *)
(***************************************************************************)
EXTENDS AnnotationLog, AnnotateFile, AnchoredNames, TLAPS, FiniteSetTheorems, SequenceTheorems, WellFoundedInduction

(* A set of numbers has a least one. *)
LEMMA LeastOf ==
    ASSUME NEW S \in SUBSET Nat, S # {}
    PROVE  \E n \in S : \A m \in S : n <= m
<1> DEFINE R == OpToRel(<, Nat)
<1>1. IsWellFoundedOn(R, Nat) BY NatLessThanWellFounded
<1>2. \A x, y \in Nat : x < y => <<x, y>> \in R BY DEF OpToRel
<1> HIDE DEF R
<1>3. PICK x \in S : \A y \in S : ~ (<<y, x>> \in R) BY <1>1, WFMin
<1>4. \A m \in S : x <= m
    <2> TAKE m \in S
    <2>1. ~(<<m, x>> \in R) BY <1>3
    <2>2. ~(m < x) BY <1>2, <2>1
    <2> QED BY <2>2
<1> QED BY <1>4

(* A set of numbers with a bound has a greatest one, which is Max. *)
LEMMA GreatestOf ==
    ASSUME NEW N \in Nat, NEW S \in SUBSET (0 .. N), S # {}
    PROVE  Max(S) \in S /\ \A y \in S : y <= Max(S)
<1> DEFINE T == {N - x : x \in S}
<1>1. PICK t \in T : \A u \in T : t <= u
    <2>1. \A x \in S : N - x \in Nat OBVIOUS
    <2>2. T \in SUBSET Nat /\ T # {} BY <2>1
    <2> HIDE DEF T
    <2> QED BY <2>2, LeastOf
<1>2. PICK x \in S : t = N - x BY <1>1
<1>3. \A y \in S : x >= y
    <2> TAKE y \in S
    <2>1. N - x <= N - y BY <1>1, <1>2
    <2>2. x \in 0 .. N /\ y \in 0 .. N OBVIOUS
    <2> QED BY <2>1, <2>2
<1> QED BY <1>2, <1>3 DEF Max

(* A function over 0 .. N can be defined from one number to the next. *)
Steps(S, N) == [S \X (1 .. N) -> S]

Follows(f, S, base, N, step) ==
    /\ f \in [0 .. N -> S]
    /\ f[0] = base
    /\ \A n \in 1 .. N : f[n] = step[<<f[n - 1], n>>]

LEMMA Recursion ==
    ASSUME NEW S, NEW base \in S, NEW N \in Nat, NEW step \in Steps(S, N)
    PROVE  \E f : Follows(f, S, base, N, step)
<1> USE DEF Steps, Follows
<1> DEFINE Good(m) == \E f \in [0 .. m -> S] :
                          f[0] = base /\ \A n \in 1 .. m : f[n] = step[<<f[n - 1], n>>]
           Bad == {m \in 0 .. N : ~Good(m)}
<1>1. SUFFICES ASSUME Bad # {} PROVE FALSE
    <2>1. N \notin Bad => Good(N) OBVIOUS
    <2> QED BY <2>1
<1>2. PICK m \in Bad : \A n \in Bad : m <= n
    <2>1. Bad \in SUBSET Nat OBVIOUS
    <2> HIDE DEF Bad
    <2> QED BY <1>1, <2>1, LeastOf
<1>3. m \in 0 .. N /\ ~Good(m) BY <1>2
<1>4. m # 0
    <2> DEFINE c == [i \in 0 .. 0 |-> base]
    <2>1. c \in [0 .. 0 -> S] /\ c[0] = base OBVIOUS
    <2>2. \A n \in 1 .. 0 : c[n] = step[<<c[n - 1], n>>] OBVIOUS
    <2> HIDE DEF c
    <2>3. Good(0) BY <2>1, <2>2
    <2> QED BY <1>3, <2>3
<1>5. Good(m - 1)
    <2>1. m - 1 \in 0 .. N /\ ~(m <= m - 1) BY <1>3, <1>4
    <2> QED BY <1>2, <2>1
<1>6. PICK f \in [0 .. m - 1 -> S] :
          f[0] = base /\ \A n \in 1 .. m - 1 : f[n] = step[<<f[n - 1], n>>]
    BY <1>5
<1> DEFINE g == [i \in 0 .. m |-> IF i = m THEN step[<<f[m - 1], m>>] ELSE f[i]]
<1>7. f[m - 1] \in S BY <1>3, <1>4, <1>6
<1>8. g \in [0 .. m -> S]
    <2>1. step[<<f[m - 1], m>>] \in S BY <1>3, <1>4, <1>7
    <2> QED BY <1>3, <1>4, <1>6, <2>1
<1>9. g[0] = base BY <1>3, <1>4, <1>6
<1>10. \A n \in 1 .. m : g[n] = step[<<g[n - 1], n>>]
    <2> TAKE n \in 1 .. m
    <2>1. CASE n = m
        <3>1. g[n] = step[<<f[m - 1], m>>] /\ g[n - 1] = f[m - 1] BY <1>3, <1>4, <2>1
        <3> QED BY <2>1, <3>1
    <2>2. CASE n # m
        <3>1. n \in 1 .. m - 1 BY <1>3, <2>2
        <3>2. g[n] = f[n] /\ g[n - 1] = f[n - 1] BY <1>3, <3>1
        <3> QED BY <1>6, <3>1, <3>2
    <2> QED BY <2>1, <2>2
<1> QED BY <1>3, <1>8, <1>9, <1>10

-----------------------------------------------------------------------------
(* Records whose id is the hash of what they say. *)
Authentic == {r \in Assertion : r.id = Digest(r.key, r.value, r.seq, r.by)}

LEMMA IdTells ==
    ASSUME NEW r \in Authentic, NEW s \in Authentic, r.id = s.id
    PROVE  r = s
<1> DEFINE d == <<r.key, r.value, r.seq, r.by>>
           e == <<s.key, s.value, s.seq, s.by>>
           domain == Keys \X Values \X (0 .. MaxSeq) \X Branches
<1>1. d \in domain /\ e \in domain BY DEF Authentic, Assertion
<1>2. Digest(d[1], d[2], d[3], d[4]) = Digest(e[1], e[2], e[3], e[4]) BY DEF Authentic
<1>3. d = e
    <2> HIDE DEF d, e
    <2> QED BY <1>1, <1>2, DigestAssumption
<1>4. r.key = s.key /\ r.value = s.value /\ r.seq = s.seq /\ r.by = s.by BY <1>3
<1> QED BY <1>4 DEF Authentic, Assertion

(* Both orders of records are total. *)
LEMMA Orders ==
    ASSUME NEW r \in Authentic, NEW s \in Authentic
    PROVE  /\ ~Before(r, r) /\ ~Older(r, r)
           /\ ~(Before(r, s) /\ Before(s, r)) /\ ~(Older(r, s) /\ Older(s, r))
           /\ r # s => (Before(r, s) \/ Before(s, r)) /\ (Older(r, s) \/ Older(s, r))
           /\ \A t \in Authentic : Before(r, s) /\ Before(s, t) => Before(r, t)
           /\ \A t \in Authentic : Older(r, s) /\ Older(s, t) => Older(r, t)
<1>1. \A t \in Authentic : t.id \in Nat /\ t.seq \in Nat BY BoundsAssumption DEF Authentic, Assertion
<1>2. r # s => r.id # s.id BY IdTells
<1> QED BY <1>1, <1>2 DEF Before, Older

(* Lists in the order of files: with copies, and without. *)
Ordered(s) == \A i, j \in 1 .. Len(s) : i < j => ~Before(s[j], s[i])
Strict(s) == \A i, j \in 1 .. Len(s) : i < j => Before(s[i], s[j])

LEMMA StrictIsOrdered ==
    ASSUME NEW s \in Seq(Authentic), Strict(s)
    PROVE  Ordered(s)
<1>1. \A i \in 1 .. Len(s) : s[i] \in Authentic BY ElementOfSeq
<1> QED BY <1>1, Orders DEF Ordered, Strict

(* In an ordered list, what is before a record is a part at its beginning. *)
LEMMA CutPoint ==
    ASSUME NEW s \in Seq(Authentic), Ordered(s), NEW r \in Authentic
    PROVE  \E m \in 0 .. Len(s) :
               /\ \A i \in 1 .. Len(s) : Before(s[i], r) <=> i <= m
               /\ Insert(s, r) = InsertAt(s, m + 1, r)
<1> DEFINE After == {i \in 1 .. Len(s) : ~Before(s[i], r)}
<1>0. Len(s) \in Nat /\ DOMAIN s = 1 .. Len(s) /\ \A i \in 1 .. Len(s) : s[i] \in Authentic
    BY LenProperties, ElementOfSeq
<1>1. PICK m \in 0 .. Len(s) : \A i \in 1 .. Len(s) : Before(s[i], r) <=> i <= m
    <2>1. CASE After = {}
        <3>1. \A i \in 1 .. Len(s) : Before(s[i], r) <=> i <= Len(s) BY <2>1
        <3> QED BY <1>0, <3>1
    <2>2. CASE After # {}
        <3>1. After \in SUBSET Nat OBVIOUS
        <3>2. PICK k \in After : \A i \in After : k <= i
            <4> HIDE DEF After
            <4> QED BY <2>2, <3>1, LeastOf
        <3>3. \A i \in 1 .. Len(s) : i < k => Before(s[i], r) BY <3>2
        <3>4. \A i \in 1 .. Len(s) : Before(s[i], r) => i < k
            <4> SUFFICES ASSUME NEW i \in 1 .. Len(s), Before(s[i], r), k <= i PROVE FALSE
                BY <3>2
            <4>1. k \in 1 .. Len(s) /\ ~Before(s[k], r) BY <3>2
            <4>2. CASE k = i BY <4>1, <4>2
            <4>3. CASE k < i
                <5>1. ~Before(s[i], s[k]) BY <4>1, <4>3 DEF Ordered
                <5>2. s[k] \in Authentic /\ s[i] \in Authentic BY <1>0, <4>1
                <5>3. s[k] = r \/ Before(r, s[k]) BY <4>1, <5>2, Orders
                <5> QED BY <5>1, <5>2, <5>3, Orders
            <4> QED BY <4>1, <4>2, <4>3
        <3>5. k - 1 \in 0 .. Len(s) BY <1>0, <3>2
        <3>6. \A i \in 1 .. Len(s) : Before(s[i], r) <=> i <= k - 1 BY <3>2, <3>3, <3>4
        <3> QED BY <3>5, <3>6
    <2> QED BY <2>1, <2>2
<1>2. {i \in DOMAIN s : Before(s[i], r)} = 1 .. m BY <1>0, <1>1
<1>3. Cardinality(1 .. m) = m BY <1>0, <1>1, FS_Interval
<1>4. Insert(s, r) = InsertAt(s, 1 + m, r) BY <1>2, <1>3 DEF Insert
<1> QED BY <1>0, <1>1, <1>4

(* What InsertAt and RemoveAt are, place by place. *)
LEMMA InsertedAt ==
    ASSUME NEW S, NEW s \in Seq(S), NEW r \in S, NEW m \in 0 .. Len(s)
    PROVE  /\ InsertAt(s, m + 1, r) \in Seq(S)
           /\ Len(InsertAt(s, m + 1, r)) = Len(s) + 1
           /\ \A i \in 1 .. Len(s) + 1 :
                  InsertAt(s, m + 1, r)[i] = IF i <= m THEN s[i] ELSE IF i = m + 1 THEN r ELSE s[i - 1]
<1>0. Len(s) \in Nat /\ \A i \in 1 .. Len(s) : s[i] \in S BY LenProperties, ElementOfSeq
<1> DEFINE a == SubSeq(s, 1, m)  b == SubSeq(s, m + 1, Len(s))
<1>1. a \in Seq(S) /\ Len(a) = m /\ \A i \in 1 .. m : a[i] = s[i]
    <2>1. \A i \in 1 .. m : s[i] \in S BY <1>0
    <2> QED BY <1>0, <2>1, SubSeqProperties
<1>2. b \in Seq(S) /\ Len(b) = Len(s) - m /\ \A i \in 1 .. Len(s) - m : b[i] = s[m + i]
    <2>1. \A i \in m + 1 .. Len(s) : s[i] \in S BY <1>0
    <2>2. b \in Seq(S) /\ Len(b) = (IF m + 1 <= Len(s) THEN Len(s) - (m + 1) + 1 ELSE 0)
          /\ \A i \in 1 .. Len(s) - (m + 1) + 1 : b[i] = s[m + 1 + i - 1]
        BY <1>0, <2>1, SubSeqProperties
    <2> QED BY <1>0, <2>2
<1>3. <<r>> \in Seq(S) /\ Len(<<r>>) = 1 /\ <<r>>[1] = r OBVIOUS
<1> HIDE DEF a, b
<1>4. /\ a \o <<r>> \in Seq(S) /\ Len(a \o <<r>>) = m + 1
      /\ \A i \in 1 .. m + 1 : (a \o <<r>>)[i] = IF i <= m THEN s[i] ELSE r
    <2>1. /\ a \o <<r>> \in Seq(S) /\ Len(a \o <<r>>) = Len(a) + Len(<<r>>)
          /\ \A i \in 1 .. Len(a) + Len(<<r>>) :
                 (a \o <<r>>)[i] = IF i <= Len(a) THEN a[i] ELSE <<r>>[i - Len(a)]
        BY <1>1, <1>3, ConcatProperties
    <2> QED BY <1>0, <1>1, <1>3, <2>1
<1> DEFINE c == a \o <<r>>
<1> HIDE DEF c
<1>5. /\ c \in Seq(S) /\ Len(c) = m + 1
      /\ \A i \in 1 .. m + 1 : c[i] = IF i <= m THEN s[i] ELSE r
    BY <1>4 DEF c
<1>6. /\ c \o b \in Seq(S) /\ Len(c \o b) = Len(s) + 1
      /\ \A i \in 1 .. Len(s) + 1 : (c \o b)[i] = IF i <= m + 1 THEN c[i] ELSE b[i - (m + 1)]
    <2>1. /\ c \o b \in Seq(S) /\ Len(c \o b) = Len(c) + Len(b)
          /\ \A i \in 1 .. Len(c) + Len(b) :
                 (c \o b)[i] = IF i <= Len(c) THEN c[i] ELSE b[i - Len(c)]
        BY <1>2, <1>5, ConcatProperties
    <2> QED BY <1>0, <1>2, <1>5, <2>1
<1>7. InsertAt(s, m + 1, r) = c \o b
    <2>1. (m + 1) - 1 = m OBVIOUS
    <2> QED BY <2>1 DEF InsertAt, a, b, c
<1> DEFINE t == c \o b
<1> HIDE DEF t
<1>8. \A i \in 1 .. Len(s) + 1 :
          t[i] = IF i <= m THEN s[i] ELSE IF i = m + 1 THEN r ELSE s[i - 1]
    <2> TAKE i \in 1 .. Len(s) + 1
    <2>1. t[i] = IF i <= m + 1 THEN c[i] ELSE b[i - (m + 1)] BY <1>6 DEF t
    <2>2. CASE i <= m + 1
        <3>1. t[i] = c[i] /\ i \in 1 .. m + 1 BY <1>0, <2>1, <2>2
        <3> QED BY <1>5, <3>1
    <2>3. CASE ~(i <= m + 1)
        <3>1. t[i] = b[i - (m + 1)] /\ i - (m + 1) \in 1 .. Len(s) - m BY <1>0, <2>1, <2>3
        <3>2. b[i - (m + 1)] = s[m + (i - (m + 1))] BY <1>2, <3>1
        <3>3. m + (i - (m + 1)) = i - 1 BY <1>0
        <3> QED BY <1>0, <2>3, <3>1, <3>2, <3>3
    <2> QED BY <2>2, <2>3
<1>9. t \in Seq(S) /\ Len(t) = Len(s) + 1 BY <1>6 DEF t
<1>10. InsertAt(s, m + 1, r) = t BY <1>7 DEF t
<1> QED BY <1>8, <1>9, <1>10

LEMMA RemovedAt ==
    ASSUME NEW S, NEW s \in Seq(S), NEW m \in 1 .. Len(s)
    PROVE  /\ RemoveAt(s, m) \in Seq(S)
           /\ Len(RemoveAt(s, m)) = Len(s) - 1
           /\ \A i \in 1 .. Len(s) - 1 : RemoveAt(s, m)[i] = IF i < m THEN s[i] ELSE s[i + 1]
<1>0. Len(s) \in Nat /\ \A i \in 1 .. Len(s) : s[i] \in S BY LenProperties, ElementOfSeq
<1> DEFINE a == SubSeq(s, 1, m - 1)  b == SubSeq(s, m + 1, Len(s))
<1>1. a \in Seq(S) /\ Len(a) = m - 1 /\ \A i \in 1 .. m - 1 : a[i] = s[i]
    <2>1. \A i \in 1 .. m - 1 : s[i] \in S BY <1>0
    <2>2. a \in Seq(S) /\ Len(a) = (IF 1 <= m - 1 THEN m - 1 - 1 + 1 ELSE 0)
          /\ \A i \in 1 .. m - 1 - 1 + 1 : a[i] = s[1 + i - 1]
        BY <1>0, <2>1, SubSeqProperties
    <2> QED BY <1>0, <2>2
<1>2. b \in Seq(S) /\ Len(b) = Len(s) - m /\ \A i \in 1 .. Len(s) - m : b[i] = s[m + i]
    <2>1. \A i \in m + 1 .. Len(s) : s[i] \in S BY <1>0
    <2>2. b \in Seq(S) /\ Len(b) = (IF m + 1 <= Len(s) THEN Len(s) - (m + 1) + 1 ELSE 0)
          /\ \A i \in 1 .. Len(s) - (m + 1) + 1 : b[i] = s[m + 1 + i - 1]
        BY <1>0, <2>1, SubSeqProperties
    <2> QED BY <1>0, <2>2
<1> HIDE DEF a, b
<1>3. /\ a \o b \in Seq(S) /\ Len(a \o b) = Len(a) + Len(b)
      /\ \A i \in 1 .. Len(a) + Len(b) : (a \o b)[i] = IF i <= Len(a) THEN a[i] ELSE b[i - Len(a)]
    BY <1>1, <1>2, ConcatProperties
<1> DEFINE t == a \o b
<1> HIDE DEF t
<1>4. RemoveAt(s, m) = t BY DEF RemoveAt, a, b, t
<1>5. t \in Seq(S) /\ Len(t) = Len(s) - 1 BY <1>0, <1>1, <1>2, <1>3 DEF t
<1>6. \A i \in 1 .. Len(s) - 1 : t[i] = IF i < m THEN s[i] ELSE s[i + 1]
    <2> TAKE i \in 1 .. Len(s) - 1
    <2>1. t[i] = IF i <= m - 1 THEN a[i] ELSE b[i - (m - 1)] BY <1>0, <1>1, <1>2, <1>3 DEF t
    <2>2. CASE i < m BY <1>0, <1>1, <2>1, <2>2
    <2>3. CASE ~(i < m)
        <3>1. t[i] = b[i - (m - 1)] /\ i - (m - 1) \in 1 .. Len(s) - m BY <1>0, <2>1, <2>3
        <3>2. b[i - (m - 1)] = s[m + (i - (m - 1))] BY <1>2, <3>1
        <3>3. m + (i - (m - 1)) = i + 1 BY <1>0
        <3> QED BY <2>3, <3>1, <3>2, <3>3
    <2> QED BY <2>2, <2>3
<1> QED BY <1>4, <1>5, <1>6

-----------------------------------------------------------------------------
LEMMA LinesOf ==
    ASSUME NEW S, NEW s \in Seq(S)
    PROVE  /\ Lines(s) = {s[i] : i \in 1 .. Len(s)} /\ Lines(s) \subseteq S
           /\ Len(s) \in Nat /\ \A i \in 1 .. Len(s) : s[i] \in S
<1>1. Len(s) \in Nat /\ DOMAIN s = 1 .. Len(s) BY LenProperties
<1>2. \A i \in 1 .. Len(s) : s[i] \in S BY ElementOfSeq
<1> QED BY <1>1, <1>2 DEF Lines, Range

LEMMA NoLines == Lines(<<>>) = {}
BY DEF Lines, Range

(* Inserting a record: one line more, and the order stays. *)
LEMMA Inserts ==
    ASSUME NEW s \in Seq(Authentic), Ordered(s), NEW r \in Authentic
    PROVE  /\ Insert(s, r) \in Seq(Authentic) /\ Len(Insert(s, r)) = Len(s) + 1
           /\ Ordered(Insert(s, r)) /\ Lines(Insert(s, r)) = Lines(s) \cup {r}
           /\ Strict(s) /\ r \notin Lines(s) => Strict(Insert(s, r))
<1>0. Len(s) \in Nat /\ Lines(s) = {s[i] : i \in 1 .. Len(s)} /\ \A i \in 1 .. Len(s) : s[i] \in Authentic
    BY LinesOf
<1>1. PICK m \in 0 .. Len(s) : /\ \A i \in 1 .. Len(s) : Before(s[i], r) <=> i <= m
                               /\ Insert(s, r) = InsertAt(s, m + 1, r)
    BY CutPoint
<1> DEFINE t == InsertAt(s, m + 1, r)
<1>2. /\ t \in Seq(Authentic) /\ Len(t) = Len(s) + 1
      /\ \A i \in 1 .. Len(s) + 1 : t[i] = IF i <= m THEN s[i] ELSE IF i = m + 1 THEN r ELSE s[i - 1]
    BY InsertedAt
<1> HIDE DEF t
<1>3. Lines(t) = {t[i] : i \in 1 .. Len(s) + 1} BY <1>2, LinesOf
<1>4. Lines(t) = Lines(s) \cup {r}
    <2>1. ASSUME NEW i \in 1 .. Len(s) + 1 PROVE t[i] \in Lines(s) \cup {r}
        <3>1. i <= m \/ i = m + 1 \/ (i > m + 1 /\ i - 1 \in 1 .. Len(s)) BY <1>0, <1>1
        <3>2. i <= m => i \in 1 .. Len(s) BY <1>0, <1>1
        <3> QED BY <1>0, <1>1, <1>2, <3>1, <3>2
    <2>2. ASSUME NEW i \in 1 .. Len(s) PROVE s[i] \in Lines(t)
        <3>1. CASE i <= m
            <4>1. i \in 1 .. Len(s) + 1 /\ t[i] = s[i] BY <1>0, <1>2, <3>1
            <4> QED BY <1>3, <4>1
        <3>2. CASE i > m
            <4>1. i + 1 \in 1 .. Len(s) + 1 /\ ~(i + 1 <= m) /\ i + 1 # m + 1 /\ (i + 1) - 1 = i
                BY <1>0, <1>1, <3>2
            <4>2. t[i + 1] = s[i] BY <1>2, <4>1
            <4> QED BY <1>3, <4>1, <4>2
        <3> QED BY <1>0, <1>1, <3>1, <3>2
    <2>3. r \in Lines(t)
        <3>1. m + 1 \in 1 .. Len(s) + 1 /\ ~(m + 1 <= m) BY <1>0, <1>1
        <3>2. t[m + 1] = r BY <1>2, <3>1
        <3> QED BY <1>3, <3>1, <3>2
    <2> QED BY <1>0, <1>3, <2>1, <2>2, <2>3
<1>5. ASSUME NEW i \in 1 .. Len(s) + 1, NEW j \in 1 .. Len(s) + 1, i < j
      PROVE  /\ ~Before(t[j], t[i])
             /\ Strict(s) /\ r \notin Lines(s) => Before(t[i], t[j])
    <2>1. CASE j <= m
        <3>1. t[i] = s[i] /\ t[j] = s[j] /\ i \in 1 .. Len(s) /\ j \in 1 .. Len(s)
            BY <1>0, <1>1, <1>2, <1>5, <2>1
        <3> QED BY <1>5, <3>1 DEF Ordered, Strict
    <2>2. CASE j = m + 1
        <3>1. t[i] = s[i] /\ t[j] = r /\ i \in 1 .. Len(s) /\ i <= m BY <1>0, <1>1, <1>2, <1>5, <2>2
        <3>2. Before(s[i], r) BY <1>1, <3>1
        <3> QED BY <1>0, <3>1, <3>2, Orders
    <2>3. CASE j > m + 1
        <3>1. t[j] = s[j - 1] /\ j - 1 \in 1 .. Len(s) /\ ~(j - 1 <= m) BY <1>0, <1>1, <1>2, <2>3
        <3>2. ~Before(s[j - 1], r) BY <1>1, <3>1
        <3>3. r \notin Lines(s) => Before(r, s[j - 1]) BY <1>0, <3>1, <3>2, Orders
        <3>4. CASE i <= m
            <4>1. t[i] = s[i] /\ i \in 1 .. Len(s) /\ i < j - 1 BY <1>0, <1>1, <1>2, <2>3, <3>4
            <4> QED BY <3>1, <4>1 DEF Ordered, Strict
        <3>5. CASE i = m + 1
            <4>1. t[i] = r BY <1>0, <1>1, <1>2, <3>5
            <4> QED BY <3>1, <3>2, <3>3, <4>1
        <3>6. CASE i > m + 1
            <4>1. t[i] = s[i - 1] /\ i - 1 \in 1 .. Len(s) /\ i - 1 < j - 1 BY <1>0, <1>1, <1>2, <1>5, <3>6
            <4> QED BY <3>1, <4>1 DEF Ordered, Strict
        <3> QED BY <1>1, <3>4, <3>5, <3>6
    <2> QED BY <1>1, <2>1, <2>2, <2>3
<1>6. Ordered(t) BY <1>2, <1>5 DEF Ordered
<1>7. Strict(s) /\ r \notin Lines(s) => Strict(t) BY <1>2, <1>5 DEF Strict
<1>8. Insert(s, r) = t BY <1>1 DEF t
<1> QED BY <1>2, <1>4, <1>6, <1>7, <1>8

LEMMA Removes ==
    ASSUME NEW s \in Seq(Authentic), Ordered(s), NEW m \in 1 .. Len(s)
    PROVE  /\ RemoveAt(s, m) \in Seq(Authentic) /\ Len(RemoveAt(s, m)) = Len(s) - 1
           /\ Ordered(RemoveAt(s, m)) /\ Lines(RemoveAt(s, m)) \subseteq Lines(s)
<1>0. Len(s) \in Nat /\ Lines(s) = {s[i] : i \in 1 .. Len(s)} BY LinesOf
<1> DEFINE t == RemoveAt(s, m)
<1>1. /\ t \in Seq(Authentic) /\ Len(t) = Len(s) - 1
      /\ \A i \in 1 .. Len(s) - 1 : t[i] = IF i < m THEN s[i] ELSE s[i + 1]
    BY RemovedAt
<1> HIDE DEF t
<1>2. Lines(t) = {t[i] : i \in 1 .. Len(s) - 1} BY <1>1, LinesOf
<1>3. ASSUME NEW i \in 1 .. Len(s) - 1 PROVE t[i] \in Lines(s)
    <2>1. i \in 1 .. Len(s) /\ i + 1 \in 1 .. Len(s) BY <1>0
    <2> QED BY <1>0, <1>1, <2>1
<1>4. ASSUME NEW i \in 1 .. Len(s) - 1, NEW j \in 1 .. Len(s) - 1, i < j
      PROVE  ~Before(t[j], t[i])
    <2> DEFINE at(x) == IF x < m THEN x ELSE x + 1
    <2>1. at(i) \in 1 .. Len(s) /\ at(j) \in 1 .. Len(s) /\ at(i) < at(j) BY <1>0, <1>4
    <2>2. t[i] = s[at(i)] /\ t[j] = s[at(j)] BY <1>1
    <2> HIDE DEF at
    <2> QED BY <2>1, <2>2 DEF Ordered
<1>5. Ordered(t) BY <1>1, <1>4 DEF Ordered
<1> QED BY <1>1, <1>2, <1>3, <1>5 DEF t

(* What is taken out of an ordered list goes back to where it was. *)
LEMMA PutBack ==
    ASSUME NEW s \in Seq(Authentic), Ordered(s), NEW m \in 1 .. Len(s)
    PROVE  Insert(RemoveAt(s, m), s[m]) = s
<1>0. Len(s) \in Nat /\ \A i \in 1 .. Len(s) : s[i] \in Authentic BY LinesOf
<1> DEFINE t == RemoveAt(s, m)  r == s[m]  u == Insert(t, r)
<1>1. /\ t \in Seq(Authentic) /\ Len(t) = Len(s) - 1 /\ Ordered(t)
      /\ \A i \in 1 .. Len(s) - 1 : t[i] = IF i < m THEN s[i] ELSE s[i + 1]
    BY Removes, RemovedAt
<1>2. r \in Authentic BY <1>0
<1> HIDE DEF t
<1>3. PICK k \in 0 .. Len(t) : /\ \A i \in 1 .. Len(t) : Before(t[i], r) <=> i <= k
                               /\ Insert(t, r) = InsertAt(t, k + 1, r)
    <2> HIDE DEF r
    <2> QED BY <1>1, <1>2, CutPoint
<1> HIDE DEF u
<1>4. /\ u \in Seq(Authentic) /\ Len(u) = Len(s)
      /\ \A i \in 1 .. Len(s) : u[i] = IF i <= k THEN t[i] ELSE IF i = k + 1 THEN r ELSE t[i - 1]
    <2> HIDE DEF r
    <2> DEFINE v == InsertAt(t, k + 1, r)
    <2>0. t \in Seq(Authentic) /\ r \in Authentic /\ k \in 0 .. Len(t) BY <1>1, <1>2, <1>3
    <2>1. /\ v \in Seq(Authentic) /\ Len(v) = Len(t) + 1
          /\ \A i \in 1 .. Len(t) + 1 : v[i] = IF i <= k THEN t[i] ELSE IF i = k + 1 THEN r ELSE t[i - 1]
        BY <2>0, InsertedAt
    <2> HIDE DEF v
    <2>2. Len(t) + 1 = Len(s) BY <1>0, <1>1
    <2>3. u = v BY <1>3 DEF u, v
    <2> QED BY <2>1, <2>2, <2>3
<1>5. k < m
    <2> SUFFICES ASSUME m <= k PROVE FALSE BY <1>1, <1>3
    <2>1. m \in 1 .. Len(t) /\ m \in 1 .. Len(s) - 1 /\ m + 1 \in 1 .. Len(s) BY <1>0, <1>1, <1>3
    <2>2. t[m] = s[m + 1] BY <1>1, <2>1
    <2>3. Before(s[m + 1], s[m]) BY <1>3, <2>1, <2>2
    <2> QED BY <2>1, <2>3 DEF Ordered
<1>6. ASSUME NEW j \in k + 1 .. m PROVE s[j] = r
    <2>1. CASE j = m BY <2>1
    <2>2. CASE j < m
        <3>1. j \in 1 .. Len(t) /\ j \in 1 .. Len(s) - 1 /\ j \in 1 .. Len(s) BY <1>0, <1>1, <1>3, <2>2
        <3>2. t[j] = s[j] BY <1>1, <2>2, <3>1
        <3>3. ~Before(s[j], r) BY <1>3, <3>1, <3>2
        <3>4. ~Before(r, s[j]) BY <2>2, <3>1 DEF Ordered
        <3>5. s[j] \in Authentic BY <1>0, <3>1
        <3> HIDE DEF r
        <3> QED BY <1>2, <3>3, <3>4, <3>5, Orders
    <2> QED BY <1>3, <2>1, <2>2
<1>7. \A i \in 1 .. Len(s) : u[i] = s[i]
    <2> TAKE i \in 1 .. Len(s)
    <2>1. CASE i <= k
        <3>1. i \in 1 .. Len(s) - 1 /\ i < m BY <1>0, <1>1, <1>3, <1>5, <2>1
        <3> QED BY <1>1, <1>4, <2>1, <3>1
    <2>2. CASE i > m
        <3>1. ~(i <= k) /\ i # k + 1 /\ i - 1 \in 1 .. Len(s) - 1 /\ ~(i - 1 < m) /\ (i - 1) + 1 = i
            BY <1>0, <1>3, <1>5, <2>2
        <3>2. u[i] = t[i - 1] BY <1>4, <3>1
        <3>3. t[i - 1] = s[(i - 1) + 1] BY <1>1, <3>1
        <3> QED BY <3>1, <3>2, <3>3
    <2>3. CASE k < i /\ i <= m
        <3>1. i \in k + 1 .. m BY <1>3, <2>3
        <3>2. s[i] = r BY <1>6, <3>1
        <3>3. CASE i = k + 1
            <4>1. u[i] = r BY <1>3, <1>4, <3>3
            <4> QED BY <3>2, <4>1
        <3>4. CASE i # k + 1
            <4>1. i - 1 \in k + 1 .. m /\ i - 1 < m /\ i - 1 \in 1 .. Len(s) - 1
                BY <1>0, <1>3, <2>3, <3>4
            <4>2. u[i] = t[i - 1] BY <1>3, <1>4, <2>3, <3>4
            <4>3. t[i - 1] = s[i - 1] BY <1>1, <4>1
            <4>4. s[i - 1] = r BY <1>6, <4>1
            <4> QED BY <3>2, <4>2, <4>3, <4>4
        <3> QED BY <3>3, <3>4
    <2> QED BY <1>3, <2>1, <2>2, <2>3
<1>8. u = s BY <1>4, <1>7, SeqEqual
<1> QED BY <1>8 DEF u, t

(* A set of records has one strict list at most. *)
LEMMA SameLines ==
    ASSUME NEW s \in Seq(Authentic), Strict(s), NEW t \in Seq(Authentic), Strict(t), Lines(s) = Lines(t)
    PROVE  s = t
<1>0. /\ Len(s) \in Nat /\ \A i \in 1 .. Len(s) : s[i] \in Authentic
      /\ Len(t) \in Nat /\ \A i \in 1 .. Len(t) : t[i] \in Authentic
      /\ Lines(s) = {s[i] : i \in 1 .. Len(s)} /\ Lines(t) = {t[i] : i \in 1 .. Len(t)}
    BY LinesOf
<1> DEFINE Diff == {i \in 1 .. Len(s) : ~(i <= Len(t) /\ s[i] = t[i])}
<1>1. Diff = {}
    <2> SUFFICES ASSUME Diff # {} PROVE FALSE OBVIOUS
    <2>1. PICK d \in Diff : \A i \in Diff : d <= i
        <3>1. Diff \in SUBSET Nat OBVIOUS
        <3> HIDE DEF Diff
        <3> QED BY <3>1, LeastOf
    <2>2. d \in 1 .. Len(s) /\ s[d] \in Authentic /\ ~(d <= Len(t) /\ s[d] = t[d]) BY <1>0, <2>1
    <2>3. \A i \in 1 .. Len(s) : i < d => i <= Len(t) /\ s[i] = t[i] BY <2>1
    <2>4. PICK j \in 1 .. Len(t) : t[j] = s[d] BY <1>0, <2>2
    <2>5. ~(j < d)
        <3> SUFFICES ASSUME j < d PROVE FALSE OBVIOUS
        <3>1. j \in 1 .. Len(s) /\ s[j] = t[j] BY <1>0, <2>2, <2>3
        <3>2. Before(s[j], s[d]) BY <2>2, <3>1 DEF Strict
        <3> QED BY <2>2, <2>4, <3>1, <3>2, Orders
    <2>6. d < j /\ d \in 1 .. Len(t) BY <1>0, <2>2, <2>4, <2>5
    <2>7. Before(t[d], s[d]) /\ t[d] \in Authentic BY <1>0, <2>4, <2>6 DEF Strict
    <2>8. PICK i \in 1 .. Len(s) : s[i] = t[d] BY <1>0, <2>6
    <2>9. CASE i < d
        <3>1. s[i] = t[i] /\ i \in 1 .. Len(t) BY <1>0, <2>3, <2>8, <2>9
        <3>2. Before(t[i], t[d]) BY <2>6, <2>9, <3>1 DEF Strict
        <3> QED BY <2>7, <2>8, <3>1, <3>2, Orders
    <2>10. CASE i = d BY <2>2, <2>7, <2>8, <2>10, Orders
    <2>11. CASE d < i
        <3>1. Before(s[d], t[d]) BY <2>2, <2>8, <2>11 DEF Strict
        <3> QED BY <2>2, <2>7, <3>1, Orders
    <2> QED BY <1>0, <2>2, <2>8, <2>9, <2>10, <2>11
<1>2. \A i \in 1 .. Len(s) : i <= Len(t) /\ s[i] = t[i] BY <1>1
<1>3. Len(s) <= Len(t) BY <1>0, <1>2
<1>4. ~(Len(s) < Len(t))
    <2> SUFFICES ASSUME Len(s) < Len(t) PROVE FALSE OBVIOUS
    <2> DEFINE j == Len(s) + 1
    <2>1. j \in 1 .. Len(t) BY <1>0
    <2>2. PICK i \in 1 .. Len(s) : s[i] = t[j] BY <1>0, <2>1
    <2>3. i \in 1 .. Len(t) /\ i < j /\ t[i] = t[j] BY <1>0, <1>2, <2>2
    <2>4. Before(t[i], t[j]) /\ t[j] \in Authentic
        <3> HIDE DEF j
        <3> QED BY <1>0, <2>1, <2>3 DEF Strict
    <2> QED BY <2>3, <2>4, Orders
<1>5. Len(s) = Len(t) BY <1>0, <1>3, <1>4
<1> QED BY <1>2, <1>5, SeqEqual

(* The records of any list have a strict one. *)
LEMMA StrictExists ==
    ASSUME NEW s \in Seq(Authentic)
    PROVE  \E t \in Seq(Authentic) : Strict(t) /\ Lines(t) = Lines(s)
<1>0. Len(s) \in Nat /\ Lines(s) = {s[i] : i \in 1 .. Len(s)} /\ \A i \in 1 .. Len(s) : s[i] \in Authentic
    BY LinesOf
<1> DEFINE Good(n) == \E t \in Seq(Authentic) : Strict(t) /\ Lines(t) = {s[i] : i \in 1 .. n}
           Bad == {n \in 0 .. Len(s) : ~Good(n)}
<1>1. SUFFICES ASSUME Bad # {} PROVE FALSE
    <2>1. Len(s) \notin Bad => Good(Len(s)) BY <1>0
    <2> QED BY <1>0, <2>1
<1>2. PICK n \in Bad : \A k \in Bad : n <= k
    <2>1. Bad \in SUBSET Nat BY <1>0
    <2> HIDE DEF Bad
    <2> QED BY <1>1, <2>1, LeastOf
<1>3. n \in 0 .. Len(s) /\ ~Good(n) BY <1>2
<1>4. n # 0
    <2>1. <<>> \in Seq(Authentic) /\ Len(<<>>) = 0 BY EmptySeq
    <2>2. Strict(<<>>) BY <2>1 DEF Strict
    <2>3. Lines(<<>>) = {s[i] : i \in 1 .. 0} BY NoLines
    <2>4. Good(0) BY <2>1, <2>2, <2>3
    <2> QED BY <1>3, <2>4
<1>5. Good(n - 1)
    <2>1. n - 1 \in 0 .. Len(s) /\ ~(n <= n - 1) BY <1>0, <1>3, <1>4
    <2> QED BY <1>2, <2>1
<1>6. PICK t \in Seq(Authentic) : Strict(t) /\ Lines(t) = {s[i] : i \in 1 .. n - 1} BY <1>5
<1>7. n \in 1 .. Len(s) BY <1>0, <1>3, <1>4
<1>8. s[n] \in Authentic BY <1>0, <1>7
<1>9. {s[i] : i \in 1 .. n} = Lines(t) \cup {s[n]}
    <2>1. \A i \in 1 .. n : i = n \/ i \in 1 .. n - 1 BY <1>7
    <2>2. \A i \in 1 .. n - 1 : i \in 1 .. n BY <1>7
    <2>3. n \in 1 .. n BY <1>7
    <2> QED BY <1>6, <2>1, <2>2, <2>3
<1>10. CASE s[n] \in Lines(t) BY <1>3, <1>6, <1>9, <1>10
<1>11. CASE s[n] \notin Lines(t)
    <2>1. Ordered(t) BY <1>6, StrictIsOrdered
    <2>2. Insert(t, s[n]) \in Seq(Authentic) /\ Strict(Insert(t, s[n])) /\ Lines(Insert(t, s[n])) = Lines(t) \cup {s[n]}
        BY <1>6, <1>8, <1>11, <2>1, Inserts
    <2> QED BY <1>3, <1>9, <2>2
<1> QED BY <1>10, <1>11

(* A list without copies has as many records as places. *)
LEMMA StrictCounts ==
    ASSUME NEW n \in Nat, NEW L \in SUBSET Authentic, NEW s \in [1 .. n -> L],
           \A i, j \in 1 .. n : i < j => Before(s[i], s[j])
    PROVE  /\ IsFiniteSet({s[i] : i \in 1 .. n})
           /\ Cardinality({s[i] : i \in 1 .. n}) = n
<1> DEFINE R == {s[i] : i \in 1 .. n}
<1>1. \A i \in 1 .. n : s[i] \in Authentic OBVIOUS
<1>2. \A i, j \in 1 .. n : s[i] = s[j] => i = j
    <2> SUFFICES ASSUME NEW i \in 1 .. n, NEW j \in 1 .. n, s[i] = s[j], i < j PROVE FALSE
        OBVIOUS
    <2>1. Before(s[i], s[j]) OBVIOUS
    <2> QED BY <1>1, <2>1, Orders
<1>3. s \in [1 .. n -> R] OBVIOUS
<1>4. \A x \in R : \E i \in 1 .. n : s[i] = x OBVIOUS
<1> HIDE DEF R
<1>5. s \in Injection(1 .. n, R) BY <1>2, <1>3 DEF Injection, IsInjective
<1>6. s \in Surjection(1 .. n, R) BY <1>3, <1>4 DEF Surjection
<1>7. ExistsBijection(1 .. n, R) BY <1>5, <1>6 DEF ExistsBijection, Bijection
<1>8. IsFiniteSet(1 .. n) /\ Cardinality(1 .. n) = n BY FS_Interval
<1>9. IsFiniteSet(R) /\ Cardinality(R) = n BY <1>7, <1>8, FS_Bijection
<1> QED BY <1>9 DEF R

(* InOrder makes the strict list of the records of a list. *)
LEMMA InOrderIs ==
    ASSUME NEW L, NEW t \in Seq(Authentic), Strict(t), Lines(t) = L
    PROVE  InOrder(L) = t
<1> DEFINE n == Len(t)
<1>0. n \in Nat /\ L = {t[i] : i \in 1 .. n} /\ L \in SUBSET Authentic /\ DOMAIN t = 1 .. n /\ t \in [1 .. n -> Authentic]
    BY LinesOf, LenProperties
<1>1. t \in [1 .. n -> L] /\ \A i, j \in 1 .. n : i < j => Before(t[i], t[j])
    <2>1. \A i \in 1 .. n : t[i] \in L BY <1>0
    <2> QED BY <1>0, <2>1 DEF Strict
<1> HIDE DEF n
<1>2. IsFiniteSet(L) /\ Cardinality(L) = n BY <1>0, <1>1, StrictCounts
<1> DEFINE Lists == [1 .. Cardinality(L) -> L]
           Fits(s) == \A i, j \in DOMAIN s : i < j => Before(s[i], s[j])
<1>3. t \in Lists /\ Fits(t) BY <1>0, <1>1, <1>2
<1> DEFINE u == CHOOSE s \in Lists : Fits(s)
<1>4. InOrder(L) = u BY DEF InOrder
<1>5. u \in Lists /\ Fits(u)
    <2> HIDE DEF Lists, Fits
    <2> QED BY <1>3
<1> HIDE DEF u
<1>6. u \in [1 .. n -> L] /\ \A i, j \in 1 .. n : i < j => Before(u[i], u[j]) BY <1>2, <1>5
<1>7. u \in Seq(Authentic) /\ Len(u) = n
    <2>1. u \in [1 .. n -> Authentic] BY <1>0, <1>6
    <2> QED BY <1>0, <2>1
<1>8. Lines(u) = {u[i] : i \in 1 .. n} BY <1>7, LinesOf
<1>9. IsFiniteSet(Lines(u)) /\ Cardinality(Lines(u)) = n BY <1>0, <1>6, <1>8, StrictCounts
<1>10. Lines(u) \in SUBSET L BY <1>6, <1>8
<1>11. Lines(u) = L BY <1>2, <1>9, <1>10, FS_Subset
<1>12. Strict(u) BY <1>6, <1>7 DEF Strict
<1>13. u = t BY <1>7, <1>11, <1>12, SameLines
<1> QED BY <1>4, <1>13

LEMMA Reads ==
    ASSUME NEW s \in Seq(Authentic)
    PROVE  /\ InOrder(Lines(s)) \in Seq(Authentic) /\ Strict(InOrder(Lines(s)))
           /\ Lines(InOrder(Lines(s))) = Lines(s)
<1>1. PICK t \in Seq(Authentic) : Strict(t) /\ Lines(t) = Lines(s) BY StrictExists
<1>2. InOrder(Lines(s)) = t BY <1>1, InOrderIs
<1> QED BY <1>1, <1>2

-----------------------------------------------------------------------------
(* The next number is above all that are in use, and no higher than needed. *)
LEMMA NextAfterIs ==
    ASSUME NEW L \in SUBSET Authentic
    PROVE  /\ NextAfter(L) \in 0 .. MaxSeq + 1
           /\ \A r \in L : r.seq < NextAfter(L)
           /\ NextAfter(L) = 0 \/ \E r \in L : NextAfter(L) = r.seq + 1
<1> DEFINE T == {0} \cup {r.seq + 1 : r \in L}
<1>1. \A r \in L : r.seq \in 0 .. MaxSeq BY DEF Authentic, Assertion
<1>2. T \in SUBSET (0 .. MaxSeq + 1) /\ T # {} BY <1>1, BoundsAssumption
<1>3. \A r \in L : r.seq + 1 \in T OBVIOUS
<1>4. \A x \in T : x = 0 \/ \E r \in L : x = r.seq + 1 OBVIOUS
<1> HIDE DEF T
<1>5. MaxSeq + 1 \in Nat BY BoundsAssumption
<1>6. Max(T) \in T /\ \A y \in T : y <= Max(T) BY <1>2, <1>5, GreatestOf
<1>7. NextAfter(L) = Max(T) BY DEF NextAfter, T
<1> DEFINE mx == Max(T)
<1> HIDE DEF mx
<1>8. mx \in 0 .. MaxSeq + 1 /\ mx \in T /\ \A y \in T : y <= mx BY <1>2, <1>6 DEF mx
<1>9. \A r \in L : r.seq < mx
    <2> TAKE r \in L
    <2>1. r.seq + 1 <= mx /\ r.seq \in Nat BY <1>1, <1>3, <1>8, BoundsAssumption
    <2> QED BY <1>5, <1>8, <2>1
<1>10. NextAfter(L) = mx BY <1>7 DEF mx
<1> QED BY <1>4, <1>8, <1>9, <1>10

LEMMA NextAfterGrows ==
    ASSUME NEW L \in SUBSET Authentic, NEW M \in SUBSET L
    PROVE  NextAfter(M) <= NextAfter(L)
<1>1. M \in SUBSET Authentic OBVIOUS
<1>2. NextAfter(L) \in 0 .. MaxSeq + 1 /\ \A r \in L : r.seq < NextAfter(L) BY NextAfterIs
<1>3. /\ NextAfter(M) \in 0 .. MaxSeq + 1
      /\ NextAfter(M) = 0 \/ \E r \in M : NextAfter(M) = r.seq + 1
    BY <1>1, NextAfterIs
<1>4. \A r \in M : r.seq \in Nat BY <1>1, BoundsAssumption DEF Authentic, Assertion
<1> QED BY <1>2, <1>3, <1>4, BoundsAssumption

LEMMA LargerOfTwo ==
    ASSUME NEW a \in Nat, NEW b \in Nat
    PROVE  Max({a, b}) = IF a <= b THEN b ELSE a
<1> DEFINE T == {a, b}
<1>1. T \in SUBSET (0 .. a + b) /\ T # {} /\ a + b \in Nat OBVIOUS
<1> HIDE DEF T
<1>2. Max(T) \in T /\ \A y \in T : y <= Max(T) BY <1>1, GreatestOf
<1>3. (Max(T) = a \/ Max(T) = b) /\ a <= Max(T) /\ b <= Max(T) BY <1>2 DEF T
<1>4. Max(T) = IF a <= b THEN b ELSE a BY <1>3
<1> QED BY <1>4 DEF T

(* There is a newest record in every list that is not empty. *)
LEMMA NewestIs ==
    ASSUME NEW s \in Seq(Authentic), s # <<>>
    PROVE  /\ Newest(s) \in 1 .. Len(s)
           /\ \A j \in 1 .. Len(s) : j # Newest(s) =>
                  \/ Older(s[j], s[Newest(s)])
                  \/ s[j] = s[Newest(s)] /\ j < Newest(s)
<1>0. Len(s) \in Nat /\ Len(s) # 0 /\ DOMAIN s = 1 .. Len(s) /\ \A i \in 1 .. Len(s) : s[i] \in Authentic
    BY LinesOf, LenProperties, EmptySeq
<1> DEFINE Wins(i, n) == \A j \in 1 .. n : j # i => Older(s[j], s[i]) \/ (s[j] = s[i] /\ j < i)
           Bad == {n \in 1 .. Len(s) : ~\E i \in 1 .. n : Wins(i, n)}
<1>1. Bad = {}
    <2> SUFFICES ASSUME Bad # {} PROVE FALSE OBVIOUS
    <2>1. PICK n \in Bad : \A k \in Bad : n <= k
        <3>1. Bad \in SUBSET Nat OBVIOUS
        <3> HIDE DEF Bad
        <3> QED BY <3>1, LeastOf
    <2>2. n \in 1 .. Len(s) /\ ~\E i \in 1 .. n : Wins(i, n) BY <2>1
    <2>3. n # 1
        <3> SUFFICES ASSUME n = 1 PROVE FALSE OBVIOUS
        <3>1. 1 \in 1 .. 1 /\ Wins(1, 1) OBVIOUS
        <3> QED BY <2>2, <3>1
    <2>4. \E i \in 1 .. n - 1 : Wins(i, n - 1)
        <3>1. n - 1 \in 1 .. Len(s) /\ ~(n <= n - 1) BY <1>0, <2>2, <2>3
        <3> QED BY <2>1, <3>1
    <2>5. PICK i \in 1 .. n - 1 : Wins(i, n - 1) BY <2>4
    <2>6. i \in 1 .. n /\ i # n /\ n \in 1 .. n /\ i < n BY <2>2, <2>5
    <2>7. s[i] \in Authentic /\ s[n] \in Authentic BY <1>0, <2>2, <2>6
    <2>8. \A j \in 1 .. n : j = n \/ j \in 1 .. n - 1 BY <2>2
    <2>9. CASE Older(s[n], s[i])
        <3>1. Wins(i, n) BY <2>5, <2>8, <2>9
        <3> QED BY <2>2, <2>6, <3>1
    <2>10. CASE ~Older(s[n], s[i])
        <3>1. s[i] = s[n] \/ Older(s[i], s[n]) BY <2>7, <2>10, Orders
        <3>2. ASSUME NEW j \in 1 .. n, j # n PROVE Older(s[j], s[n]) \/ (s[j] = s[n] /\ j < n)
            <4>1. j \in 1 .. n - 1 /\ j < n /\ s[j] \in Authentic BY <1>0, <2>2, <2>8, <3>2
            <4>2. j = i \/ Older(s[j], s[i]) \/ s[j] = s[i] BY <2>5, <4>1
            <4> QED BY <2>7, <3>1, <4>1, <4>2, Orders
        <3>3. Wins(n, n) BY <3>2
        <3> QED BY <2>2, <2>6, <3>3
    <2> QED BY <2>9, <2>10
<1>2. Len(s) \in 1 .. Len(s) BY <1>0
<1>3. PICK i \in 1 .. Len(s) : Wins(i, Len(s)) BY <1>1, <1>2
<1> DEFINE D == DOMAIN s
           P(x) == \A j \in DOMAIN s \ {x} : Older(s[j], s[x]) \/ (s[j] = s[x] /\ j < x)
<1>4. i \in D /\ P(i) BY <1>0, <1>3
<1>5. Newest(s) = CHOOSE x \in D : P(x) BY DEF Newest
<1>6. Newest(s) \in D /\ P(Newest(s))
    <2> HIDE DEF D, P
    <2> QED BY <1>4, <1>5
<1> DEFINE m == Newest(s)
<1>7. m \in D /\ P(m) BY <1>6
<1> HIDE DEF m
<1>8. m \in 1 .. Len(s) /\ \A j \in 1 .. Len(s) : j # m => Older(s[j], s[m]) \/ (s[j] = s[m] /\ j < m)
    BY <1>0, <1>7
<1> QED BY <1>8 DEF m

-----------------------------------------------------------------------------
(* A record that joins an ordered list is in it once more or once already. *)
LEMMA Joins ==
    ASSUME NEW s \in Seq(Authentic), Ordered(s), NEW r \in Authentic
    PROVE  /\ Joined(s, r) \in Seq(Authentic) /\ Ordered(Joined(s, r))
           /\ Lines(Joined(s, r)) = Lines(s) \cup {r}
           /\ Strict(s) => Strict(Joined(s, r))
<1>1. CASE r \in Lines(s)
    <2>1. Joined(s, r) = s BY <1>1 DEF Joined
    <2> QED BY <1>1, <2>1
<1>2. CASE r \notin Lines(s)
    <2>1. Joined(s, r) = Insert(s, r) BY <1>2 DEF Joined
    <2> QED BY <1>2, <2>1, Inserts
<1> QED BY <1>1, <1>2

(* A merge keeps an ordered list, with the records of both logs. *)
LEMMA Merges ==
    ASSUME NEW l, NEW o, l.records \in Seq(Authentic), Ordered(l.records), o.records \in Seq(Authentic)
    PROVE  \E all \in Seq(Authentic) :
               /\ Ordered(all) /\ (Strict(l.records) => Strict(all))
               /\ Lines(all) = Lines(l.records) \cup Lines(o.records)
               /\ merged(l, o) = [l EXCEPT !.records = all, !.next_seq = Max({NextAfter(Lines(all)), @})]
<1> DEFINE a == l.records  b == o.records  N == Len(b)
           S == {s \in Seq(Authentic) : Ordered(s)}
           step == [x \in S \X (1 .. N) |-> Joined(x[1], b[x[2]])]
<1>1. N \in Nat /\ Lines(b) = {b[i] : i \in 1 .. N} /\ \A i \in 1 .. N : b[i] \in Authentic BY LinesOf
<1>2. a \in S OBVIOUS
<1>3. step \in [S \X (1 .. N) -> S] /\ \A s \in S, n \in 1 .. N : step[<<s, n>>] = Joined(s, b[n])
    <2>1. \A s \in S, n \in 1 .. N : Joined(s, b[n]) \in S BY <1>1, Joins
    <2> QED BY <2>1
<1>4. PICK g : Follows(g, S, a, N, step)
    <2>1. N \in Nat BY <1>1
    <2>2. step \in Steps(S, N) BY <1>3 DEF Steps
    <2> HIDE DEF S, step, N, a
    <2> QED BY <1>2, <2>1, <2>2, Recursion
<1> DEFINE Fits(f) == f = [n \in 0 .. N |-> IF n = 0 THEN a ELSE Joined(f[n - 1], b[n])]
           f == CHOOSE x : Fits(x)
<1>5. Fits(g)
    <2>1. \A n \in 1 .. N : g[n] = Joined(g[n - 1], b[n])
        <3> TAKE n \in 1 .. N
        <3>1. n - 1 \in 0 .. N BY <1>1
        <3>2. g[n - 1] \in S BY <1>4, <3>1 DEF Follows
        <3> HIDE DEF step, S
        <3> QED BY <1>3, <1>4, <3>2 DEF Follows
    <2>2. \A n \in 0 .. N : n = 0 \/ n \in 1 .. N BY <1>1
    <2> HIDE DEF step, S
    <2> QED BY <1>4, <2>1, <2>2 DEF Follows
<1>6. Fits(f)
    <2> HIDE DEF Fits
    <2> QED BY <1>5
<1>7. merged(l, o) = [l EXCEPT !.records = f[N], !.next_seq = Max({NextAfter(Lines(f[N])), l.next_seq})]
    BY DEF merged
<1> HIDE DEF f, step
<1>8. f[0] = a /\ \A n \in 1 .. N : f[n] = Joined(f[n - 1], b[n])
    <2> HIDE DEF a, b, N
    <2>1. N \in Nat BY <1>1
    <2>2. \A n \in 0 .. N : f[n] = IF n = 0 THEN a ELSE Joined(f[n - 1], b[n]) BY <1>6
    <2>3. \A n \in 1 .. N : n \in 0 .. N /\ n # 0 OBVIOUS
    <2> QED BY <2>1, <2>2, <2>3
<1> DEFINE Good(n) == /\ f[n] \in Seq(Authentic) /\ Ordered(f[n]) /\ (Strict(a) => Strict(f[n]))
                      /\ Lines(f[n]) = Lines(a) \cup {b[i] : i \in 1 .. n}
           Bad == {n \in 0 .. N : ~Good(n)}
<1>9. Good(N)
    <2> SUFFICES ASSUME Bad # {} PROVE FALSE
        <3>1. N \in 0 .. N BY <1>1
        <3> HIDE DEF Good
        <3> QED BY <3>1
    <2>1. PICK n \in Bad : \A k \in Bad : n <= k
        <3>1. Bad \in SUBSET Nat BY <1>1
        <3> HIDE DEF Bad
        <3> QED BY <3>1, LeastOf
    <2>2. n \in 0 .. N /\ ~Good(n) BY <2>1
    <2>3. n # 0
        <3>1. {b[i] : i \in 1 .. 0} = {} OBVIOUS
        <3>2. Good(0) BY <1>8, <3>1
        <3> QED BY <2>2, <3>2
    <2>4. Good(n - 1)
        <3>1. n - 1 \in 0 .. N /\ ~(n <= n - 1) BY <1>1, <2>2, <2>3
        <3> QED BY <2>1, <3>1
    <2>5. n \in 1 .. N /\ b[n] \in Authentic BY <1>1, <2>2, <2>3
    <2> DEFINE s == f[n - 1]
    <2>6. f[n] = Joined(s, b[n]) BY <1>8, <2>5
    <2>7. s \in Seq(Authentic) /\ Ordered(s) /\ (Strict(a) => Strict(s)) /\ Lines(s) = Lines(a) \cup {b[i] : i \in 1 .. n - 1}
        BY <2>4
    <2> HIDE DEF s
    <2>8. /\ f[n] \in Seq(Authentic) /\ Ordered(f[n]) /\ (Strict(s) => Strict(f[n]))
          /\ Lines(f[n]) = Lines(s) \cup {b[n]}
        <3> DEFINE r == b[n]
        <3>1. r \in Authentic BY <2>5
        <3> HIDE DEF r
        <3>2. /\ Joined(s, r) \in Seq(Authentic) /\ Ordered(Joined(s, r))
              /\ Lines(Joined(s, r)) = Lines(s) \cup {r}
              /\ Strict(s) => Strict(Joined(s, r))
            BY <2>7, <3>1, Joins
        <3>3. f[n] = Joined(s, r) BY <2>6 DEF r
        <3>4. Lines(f[n]) = Lines(s) \cup {r} BY <3>2, <3>3
        <3> QED BY <3>2, <3>3, <3>4 DEF r
    <2>9. {b[i] : i \in 1 .. n} = {b[i] : i \in 1 .. n - 1} \cup {b[n]}
        <3>1. \A i \in 1 .. n : i = n \/ i \in 1 .. n - 1 BY <2>5
        <3>2. \A i \in 1 .. n - 1 : i \in 1 .. n BY <2>5
        <3>3. n \in 1 .. n BY <2>5
        <3> QED BY <3>1, <3>2, <3>3
    <2>10. Good(n) BY <2>7, <2>8, <2>9
    <2> QED BY <2>2, <2>10
<1>10. Lines(f[N]) = Lines(l.records) \cup Lines(o.records) BY <1>1, <1>9
<1>11. f[N] \in Seq(Authentic) /\ Ordered(f[N]) /\ (Strict(l.records) => Strict(f[N])) BY <1>9
<1> HIDE DEF N
<1>12. merged(l, o) = [l EXCEPT !.records = f[N], !.next_seq = Max({NextAfter(Lines(f[N])), @})] BY <1>7
<1> QED BY <1>10, <1>11, <1>12

-----------------------------------------------------------------------------
(* The fold over a list finds the winner of every key. *)
LEMMA FoldIsLatest ==
    ASSUME NEW s \in Seq(Authentic)
    PROVE  fold(s) = Latest(Lines(s))
<1> DEFINE N == Len(s)
           S == [Keys -> SUBSET Authentic]
           none == [k \in Keys |-> {}]
           step == [x \in S \X (1 .. N) |-> Newer(x[1], s[x[2]])]
<1>1. N \in Nat /\ Lines(s) = {s[i] : i \in 1 .. N} /\ \A i \in 1 .. N : s[i] \in Authentic BY LinesOf
<1>2. none \in S OBVIOUS
<1>3. \A r \in Authentic : r.key \in Keys BY DEF Authentic, Assertion
<1>4. \A x \in S, r \in Authentic : Newer(x, r) \in S BY <1>3 DEF Newer
<1>5. step \in Steps(S, N) /\ \A x \in S, n \in 1 .. N : step[<<x, n>>] = Newer(x, s[n])
    <2>1. \A x \in S, n \in 1 .. N : Newer(x, s[n]) \in S BY <1>1, <1>4
    <2> HIDE DEF S
    <2> QED BY <2>1 DEF Steps
<1> HIDE DEF none
<1>6. PICK g : Follows(g, S, none, N, step)
    <2>1. N \in Nat BY <1>1
    <2> HIDE DEF S, step, N
    <2> QED BY <1>2, <1>5, <2>1, Recursion
<1> DEFINE Fits(f) == f = [n \in 0 .. N |-> IF n = 0 THEN [k \in Keys |-> {}] ELSE Newer(f[n - 1], s[n])]
           out == CHOOSE x : Fits(x)
<1>7. Fits(g)
    <2>0. N \in Nat BY <1>1
    <2> HIDE DEF N, S, step
    <2>1. \A n \in 1 .. N : g[n] = Newer(g[n - 1], s[n])
        <3> TAKE n \in 1 .. N
        <3>1. n - 1 \in 0 .. N BY <2>0
        <3>2. g[n - 1] \in S BY <1>6, <3>1 DEF Follows
        <3> QED BY <1>5, <1>6, <3>2 DEF Follows
    <2>2. \A n \in 0 .. N : n = 0 \/ n \in 1 .. N BY <2>0
    <2> QED BY <1>6, <2>1, <2>2 DEF Follows, none
<1>8. Fits(out)
    <2> HIDE DEF Fits
    <2> QED BY <1>7
<1>9. fold(s) = [k \in Keys |-> {r \in out[N][k] : r.value # Cleared}] BY DEF fold
<1> HIDE DEF out, step
<1>10. out[0] = none /\ \A n \in 1 .. N : out[n] = Newer(out[n - 1], s[n])
    <2>0. N \in Nat BY <1>1
    <2> HIDE DEF N
    <2>1. \A n \in 0 .. N : out[n] = IF n = 0 THEN none ELSE Newer(out[n - 1], s[n]) BY <1>8 DEF none
    <2>2. \A n \in 1 .. N : n \in 0 .. N /\ n # 0 OBVIOUS
    <2> QED BY <2>0, <2>1, <2>2
<1> DEFINE Mine(k, n) == {i \in 1 .. n : s[i].key = k}
           Wins(i, k, n) == \A j \in Mine(k, n) : s[j] = s[i] \/ Older(s[j], s[i])
           Found(x, k, n) == \/ Mine(k, n) = {} /\ x = {}
                             \/ \E i \in Mine(k, n) : x = {s[i]} /\ Wins(i, k, n)
           Good(n) == out[n] \in S /\ \A k \in Keys : Found(out[n][k], k, n)
           Bad == {n \in 0 .. N : ~Good(n)}
<1>11. Good(N)
    <2> SUFFICES ASSUME Bad # {} PROVE FALSE
        <3>1. N \in 0 .. N BY <1>1
        <3> HIDE DEF Good
        <3> QED BY <3>1
    <2>1. PICK n \in Bad : \A k \in Bad : n <= k
        <3>1. Bad \in SUBSET Nat BY <1>1
        <3> HIDE DEF Bad
        <3> QED BY <3>1, LeastOf
    <2>2. n \in 0 .. N /\ ~Good(n)
        <3> HIDE DEF Good
        <3> QED BY <2>1
    <2>3. n # 0
        <3>1. \A k \in Keys : Mine(k, 0) = {} /\ none[k] = {} BY DEF none
        <3>2. Good(0) BY <1>2, <1>10, <3>1
        <3> QED BY <2>2, <3>2
    <2>4. Good(n - 1)
        <3>1. n - 1 \in 0 .. N /\ ~(n <= n - 1) BY <1>1, <2>2, <2>3
        <3> HIDE DEF Good
        <3> QED BY <2>1, <3>1
    <2>5. n \in 1 .. N /\ s[n] \in Authentic BY <1>1, <2>2, <2>3
    <2>6. PICK x \in S : x = out[n - 1] BY <2>4
    <2>7. PICK r \in Authentic : r = s[n] BY <2>5
    <2>8. \A k \in Keys : Found(x[k], k, n - 1) BY <2>4, <2>6
    <2>9. out[n] = Newer(x, r) /\ r.key \in Keys /\ Newer(x, r) \in S BY <1>3, <1>4, <1>10, <2>5, <2>6, <2>7
    <2>10. n \in 1 .. n /\ \A i \in 1 .. n : i = n \/ i \in 1 .. n - 1 BY <2>5
    <2>11. \A i \in 1 .. n - 1 : i \in 1 .. n BY <2>5
    <2>12. ASSUME NEW k \in Keys PROVE Found(Newer(x, r)[k], k, n)
        <3>1. CASE k # r.key
            <4>1. Mine(k, n) = Mine(k, n - 1) BY <2>7, <2>10, <2>11, <3>1
            <4>2. Newer(x, r)[k] = x[k] BY <3>1 DEF Newer
            <4>3. Found(x[k], k, n - 1) BY <2>8
            <4> QED BY <4>1, <4>2, <4>3
        <3>2. CASE k = r.key
            <4>1. Mine(k, n) = Mine(k, n - 1) \cup {n} /\ n \in Mine(k, n) BY <2>7, <2>10, <2>11, <3>2
            <4>2. CASE x[k] = {}
                <5>1. Newer(x, r)[k] = {r} BY <3>2, <4>2 DEF Newer
                <5>2. Mine(k, n - 1) = {}
                    <6>1. Found(x[k], k, n - 1) BY <2>8
                    <6> QED BY <4>2, <6>1
                <5>3. Wins(n, k, n) BY <4>1, <5>2
                <5> QED BY <2>7, <4>1, <5>1, <5>3
            <4>3. CASE x[k] # {}
                <5>1. PICK i \in Mine(k, n - 1) : x[k] = {s[i]} /\ Wins(i, k, n - 1)
                    <6>1. Found(x[k], k, n - 1) BY <2>8
                    <6> QED BY <4>3, <6>1
                <5>2. s[i] \in Authentic /\ i \in Mine(k, n) /\ \A j \in Mine(k, n - 1) : s[j] \in Authentic
                    BY <1>1, <2>5, <4>1
                <5>3. CASE Older(s[i], r)
                    <6>1. Newer(x, r)[k] = {r} BY <3>2, <5>1, <5>3 DEF Newer
                    <6>2. ASSUME NEW j \in Mine(k, n - 1) PROVE Older(s[j], r)
                        <7>1. (s[j] = s[i] \/ Older(s[j], s[i])) /\ s[j] \in Authentic BY <5>1, <5>2
                        <7> QED BY <5>2, <5>3, <7>1, Orders
                    <6>3. Wins(n, k, n) BY <2>7, <4>1, <6>2
                    <6> QED BY <2>7, <4>1, <6>1, <6>3
                <5>4. CASE ~Older(s[i], r)
                    <6>1. Newer(x, r)[k] = x[k] BY <3>2, <5>1, <5>4 DEF Newer
                    <6>2. r = s[i] \/ Older(r, s[i]) BY <5>2, <5>4, Orders
                    <6>3. Wins(i, k, n) BY <2>7, <4>1, <5>1, <6>2
                    <6> QED BY <5>1, <5>2, <6>1, <6>3
                <5> QED BY <5>3, <5>4
            <4> QED BY <4>2, <4>3
        <3> QED BY <3>1, <3>2
    <2>13. Good(n) BY <2>9, <2>12
    <2> QED BY <2>2, <2>13
<1>12. ASSUME NEW k \in Keys
       PROVE  {r \in out[N][k] : r.value # Cleared} = Latest(Lines(s))[k]
    <2> DEFINE won == {r \in Lines(s) : /\ r.key = k
                                        /\ r.value # Cleared
                                        /\ \A q \in Lines(s) \ {r} : q.key = k => Older(q, r)}
    <2>1. Latest(Lines(s))[k] = won BY DEF Latest
    <2>2. Found(out[N][k], k, N) BY <1>11
    <2>3. CASE Mine(k, N) = {} /\ out[N][k] = {} BY <1>1, <2>1, <2>3
    <2>4. CASE \E i \in Mine(k, N) : out[N][k] = {s[i]} /\ Wins(i, k, N)
        <3>1. PICK i \in Mine(k, N) : out[N][k] = {s[i]} /\ Wins(i, k, N) BY <2>4
        <3>2. s[i] \in Lines(s) /\ s[i].key = k /\ s[i] \in Authentic BY <1>1
        <3>3. ASSUME NEW q \in Lines(s), q.key = k PROVE (q = s[i] \/ Older(q, s[i])) /\ q \in Authentic
            <4>1. PICK j \in 1 .. N : q = s[j] BY <1>1
            <4>2. j \in Mine(k, N) BY <3>3, <4>1
            <4> QED BY <1>1, <3>1, <4>1, <4>2
        <3>4. ASSUME NEW q \in won PROVE q = s[i]
            <4>1. q \in Lines(s) /\ q.key = k /\ (s[i] # q => Older(s[i], q)) BY <3>2
            <4>2. (q = s[i] \/ Older(q, s[i])) /\ q \in Authentic BY <3>3, <4>1
            <4> QED BY <3>2, <4>1, <4>2, Orders
        <3>5. s[i].value # Cleared => s[i] \in won BY <3>2, <3>3
        <3>6. s[i].value = Cleared => won = {} BY <3>4
        <3> HIDE DEF won
        <3> QED BY <2>1, <3>1, <3>4, <3>5, <3>6
    <2> QED BY <2>2, <2>3, <2>4
<1>13. Latest(Lines(s)) = [k \in Keys |-> Latest(Lines(s))[k]] BY DEF Latest
<1> HIDE DEF Latest
<1> QED BY <1>9, <1>12, <1>13

-----------------------------------------------------------------------------
(* A log as the operations keep it: its lines in the order of a file, and  *)
(* the next number above every record it has or can bring back.            *)
LogOK(l) ==
    /\ l \in [records : Seq(Authentic), next_seq : 0 .. MaxSeq + 1, redo : Seq(Authentic)]
    /\ Ordered(l.records)
    /\ \A r \in Lines(l.records) \cup Lines(l.redo) : r.seq < l.next_seq

LEMMA BoundIsNat == MaxSeq + 1 \in Nat
BY BoundsAssumption

LEMMA EmptyIsOK == LogOK(EmptyLog)
<1>1. <<>> \in Seq(Authentic) /\ Len(<<>>) = 0 BY EmptySeq
<1>2. Ordered(<<>>) BY <1>1 DEF Ordered
<1>3. Lines(<<>>) = {} BY NoLines
<1> QED BY <1>1, <1>2, <1>3, BoundIsNat DEF LogOK, EmptyLog

(* A new record is above everything in the log it is added to. *)
LEMMA AssertedOK ==
    ASSUME NEW l, LogOK(l), l.next_seq <= MaxSeq,
           NEW key \in Keys, NEW value \in Values, NEW by \in Branches
    PROVE  /\ NewRecord(l, key, value, by) \in Authentic
           /\ \A old \in Lines(l.records) : Older(old, NewRecord(l, key, value, by))
           /\ LogOK(Asserted(l, NewRecord(l, key, value, by)))
<1> DEFINE r == NewRecord(l, key, value, by)
<1>1. /\ l.records \in Seq(Authentic) /\ Ordered(l.records)
      /\ l.next_seq \in 0 .. MaxSeq /\ l.next_seq + 1 \in 0 .. MaxSeq + 1
      /\ \A q \in Lines(l.records) : q.seq < l.next_seq
    BY BoundsAssumption DEF LogOK
<1>2. r \in Authentic
    <2> DEFINE d == <<key, value, l.next_seq, by>>
               domain == Keys \X Values \X (0 .. MaxSeq) \X Branches
    <2>1. d \in domain BY <1>1
    <2>2. Digest(d[1], d[2], d[3], d[4]) \in Nat
        <3> HIDE DEF d
        <3> QED BY <2>1, DigestAssumption
    <2>3. r.id \in Nat BY <2>2 DEF NewRecord
    <2>4. r \in Assertion BY <1>1, <2>3 DEF Assertion, NewRecord
    <2>5. r.id = Digest(r.key, r.value, r.seq, r.by) BY DEF NewRecord
    <2> HIDE DEF r
    <2> QED BY <2>4, <2>5 DEF Authentic
<1>3. r.seq = l.next_seq BY DEF NewRecord
<1> HIDE DEF r
<1>4. \A old \in Lines(l.records) : Older(old, r) BY <1>1, <1>3 DEF Older
<1>5. /\ Insert(l.records, r) \in Seq(Authentic) /\ Ordered(Insert(l.records, r))
      /\ Lines(Insert(l.records, r)) = Lines(l.records) \cup {r}
    BY <1>1, <1>2, Inserts
<1>6. <<>> \in Seq(Authentic) /\ Lines(<<>>) = {} BY EmptySeq, NoLines
<1> DEFINE records == Insert(l.records, r)
<1> HIDE DEF records
<1>7. records \in Seq(Authentic) /\ Ordered(records) /\ Lines(records) = Lines(l.records) \cup {r}
    BY <1>5 DEF records
<1>8. \A q \in Lines(records) : q.seq < l.next_seq + 1
    <2>1. \A q \in Lines(l.records) : q.seq \in Int
        BY <1>1, LinesOf, BoundsAssumption DEF Authentic, Assertion
    <2> QED BY <1>1, <1>3, <1>7, <2>1
<1>9. Asserted(l, r) = [records |-> records, next_seq |-> l.next_seq + 1, redo |-> <<>>]
    BY DEF Asserted, records
<1>10. LogOK(Asserted(l, r)) BY <1>1, <1>6, <1>7, <1>8, <1>9 DEF LogOK
<1> QED BY <1>2, <1>4, <1>10 DEF r

LEMMA AppendLines ==
    ASSUME NEW s \in Seq(Authentic), NEW r \in Authentic
    PROVE  /\ Append(s, r) \in Seq(Authentic) /\ Lines(Append(s, r)) = Lines(s) \cup {r}
           /\ Last(Append(s, r)) = r /\ Front(Append(s, r)) = s
<1> DEFINE t == Append(s, r)  n == Len(s)
<1>1. n \in Nat /\ Lines(s) = {s[i] : i \in 1 .. n} /\ \A i \in 1 .. n : s[i] \in Authentic BY LinesOf
<1>2. t \in Seq(Authentic) /\ Len(t) = n + 1 /\ (\A i \in 1 .. n : t[i] = s[i]) /\ t[n + 1] = r
    BY AppendProperties
<1> HIDE DEF t
<1>3. Lines(t) = {t[i] : i \in 1 .. n + 1} BY <1>2, LinesOf
<1>4. \A i \in 1 .. n + 1 : i \in 1 .. n \/ i = n + 1 BY <1>1
<1>5. \A i \in 1 .. n : i \in 1 .. n + 1 BY <1>1
<1>6. n + 1 \in 1 .. n + 1 BY <1>1
<1>7. Lines(t) = Lines(s) \cup {r} BY <1>1, <1>2, <1>3, <1>4, <1>5, <1>6
<1>8. Last(t) = r BY <1>2 DEF Last
<1> DEFINE u == SubSeq(t, 1, n)
<1>9. u \in Seq(Authentic) /\ Len(u) = n /\ \A i \in 1 .. n : u[i] = t[i]
    <2>1. \A i \in 1 .. n : t[i] \in Authentic BY <1>1, <1>2
    <2>2. 1 \in Int /\ n \in Int BY <1>1
    <2> HIDE DEF n
    <2>3. u \in Seq(Authentic) /\ Len(u) = (IF 1 <= n THEN n - 1 + 1 ELSE 0)
          /\ \A i \in 1 .. n - 1 + 1 : u[i] = t[1 + i - 1]
        BY <2>1, <2>2, SubSeqProperties
    <2> HIDE DEF u
    <2>4. n \in Nat BY <1>1 DEF n
    <2>5. n - 1 + 1 = n /\ \A i \in 1 .. n : 1 + i - 1 = i BY <2>4
    <2> QED BY <2>3, <2>4, <2>5
<1>10. Front(t) = u
    <2>1. Len(t) - 1 = n BY <1>1, <1>2
    <2> QED BY <2>1 DEF Front
<1> HIDE DEF u
<1>11. u = s BY <1>2, <1>9, SeqEqual
<1> QED BY <1>2, <1>7, <1>8, <1>10, <1>11 DEF t

(* The last of the undone records and the rest of them. *)
LEMMA LastAndFront ==
    ASSUME NEW s \in Seq(Authentic), s # <<>>
    PROVE  /\ Last(s) \in Authentic /\ Front(s) \in Seq(Authentic)
           /\ Lines(s) = Lines(Front(s)) \cup {Last(s)}
<1>1. PICK t \in Seq(Authentic), r \in Authentic : s = Append(t, r) BY SequenceEmptyOrAppend
<1>2. Lines(Append(t, r)) = Lines(t) \cup {r} /\ Last(Append(t, r)) = r /\ Front(Append(t, r)) = t
    BY AppendLines
<1> QED BY <1>1, <1>2

(* What is undone leaves the log, and redo brings the same log back. *)
LEMMA UndoneOK ==
    ASSUME NEW l, LogOK(l), l.records # <<>>
    PROVE  LogOK(Undone(l)) /\ Redone(Undone(l)) = l
<1> DEFINE at == Newest(l.records)  r == l.records[at]
           fewer == RemoveAt(l.records, at)  more == Append(l.redo, r)
<1>1. /\ l.records \in Seq(Authentic) /\ Ordered(l.records) /\ l.redo \in Seq(Authentic)
      /\ l = [records |-> l.records, next_seq |-> l.next_seq, redo |-> l.redo]
      /\ l.next_seq \in 0 .. MaxSeq + 1
      /\ \A q \in Lines(l.records) \cup Lines(l.redo) : q.seq < l.next_seq
    BY DEF LogOK
<1>2. at \in 1 .. Len(l.records) BY <1>1, NewestIs
<1> HIDE DEF at
<1>3. r \in Authentic /\ r \in Lines(l.records) BY <1>1, <1>2, LinesOf
<1>4. fewer \in Seq(Authentic) /\ Ordered(fewer) /\ Lines(fewer) \subseteq Lines(l.records)
    BY <1>1, <1>2, Removes
<1>5. Insert(fewer, r) = l.records BY <1>1, <1>2, PutBack
<1> HIDE DEF r
<1>6. more \in Seq(Authentic) /\ Lines(more) = Lines(l.redo) \cup {r} /\ Last(more) = r /\ Front(more) = l.redo
    BY <1>1, <1>3, AppendLines
<1> HIDE DEF fewer, more
<1>7. Undone(l) = [records |-> fewer, next_seq |-> l.next_seq, redo |-> more]
    <2>1. Undone(l) = [l EXCEPT !.records = fewer, !.redo = more] BY DEF Undone, at, r, fewer, more
    <2> QED BY <1>1, <2>1
<1>8. LogOK(Undone(l)) BY <1>1, <1>3, <1>4, <1>6, <1>7 DEF LogOK
<1> DEFINE u == [records |-> fewer, next_seq |-> l.next_seq, redo |-> more]
<1>9. Redone(u) = [records |-> Insert(fewer, Last(more)), next_seq |-> l.next_seq, redo |-> Front(more)]
    <2> DEFINE again == Insert(fewer, Last(more))  rest == Front(more)
    <2>1. u.records = fewer /\ u.redo = more OBVIOUS
    <2> HIDE DEF u
    <2>2. Redone(u) = [u EXCEPT !.records = again, !.redo = rest] BY <2>1 DEF Redone
    <2> HIDE DEF again, rest
    <2>3. Redone(u) = [records |-> again, next_seq |-> l.next_seq, redo |-> rest] BY <2>2 DEF u
    <2> QED BY <2>3 DEF again, rest
<1>10. Redone(u) = l BY <1>1, <1>5, <1>6, <1>9
<1> QED BY <1>7, <1>8, <1>10

LEMMA RedoneOK ==
    ASSUME NEW l, LogOK(l), l.redo # <<>>
    PROVE  LogOK(Redone(l))
<1>1. /\ l.records \in Seq(Authentic) /\ Ordered(l.records) /\ l.redo \in Seq(Authentic)
      /\ l = [records |-> l.records, next_seq |-> l.next_seq, redo |-> l.redo]
      /\ l.next_seq \in 0 .. MaxSeq + 1
      /\ \A q \in Lines(l.records) \cup Lines(l.redo) : q.seq < l.next_seq
    BY DEF LogOK
<1> DEFINE r == Last(l.redo)  rest == Front(l.redo)
<1>2. r \in Authentic /\ rest \in Seq(Authentic) /\ Lines(l.redo) = Lines(rest) \cup {r}
    BY <1>1, LastAndFront
<1> HIDE DEF r, rest
<1> DEFINE records == Insert(l.records, r)
<1>3. records \in Seq(Authentic) /\ Ordered(records) /\ Lines(records) = Lines(l.records) \cup {r}
    BY <1>1, <1>2, Inserts
<1> HIDE DEF records
<1>4. Redone(l) = [records |-> records, next_seq |-> l.next_seq, redo |-> rest]
    <2>1. Redone(l) = [l EXCEPT !.records = records, !.redo = rest] BY DEF Redone, records, r, rest
    <2> QED BY <1>1, <2>1
<1> QED BY <1>1, <1>2, <1>3, <1>4 DEF LogOK

(* What a file is read as, and what two files are merged into. *)
LEMMA ReadOK ==
    ASSUME NEW lines \in Seq(Authentic)
    PROVE  /\ LogOK(from_text(lines)) /\ Strict(from_text(lines).records)
           /\ Lines(from_text(lines).records) = Lines(lines)
<1> DEFINE t == InOrder(Lines(lines))  next == NextAfter(Lines(lines))
<1>1. t \in Seq(Authentic) /\ Strict(t) /\ Lines(t) = Lines(lines) BY Reads
<1>2. Ordered(t) BY <1>1, StrictIsOrdered
<1>3. Lines(lines) \in SUBSET Authentic BY LinesOf
<1>4. next \in 0 .. MaxSeq + 1 /\ \A r \in Lines(lines) : r.seq < next BY <1>3, NextAfterIs
<1>5. <<>> \in Seq(Authentic) /\ Lines(<<>>) = {} BY EmptySeq, NoLines
<1>6. from_text(lines) = [records |-> t, next_seq |-> next, redo |-> <<>>] BY DEF from_text
<1> HIDE DEF t, next
<1> QED BY <1>1, <1>2, <1>4, <1>5, <1>6 DEF LogOK

LEMMA MergedOK ==
    ASSUME NEW l, LogOK(l), NEW lines \in Seq(Authentic)
    PROVE  LogOK(merged(l, from_text(lines)))
<1> DEFINE o == from_text(lines)
<1>1. /\ l.records \in Seq(Authentic) /\ Ordered(l.records) /\ l.redo \in Seq(Authentic)
      /\ l = [records |-> l.records, next_seq |-> l.next_seq, redo |-> l.redo]
      /\ l.next_seq \in 0 .. MaxSeq + 1
      /\ \A q \in Lines(l.records) \cup Lines(l.redo) : q.seq < l.next_seq
    BY DEF LogOK
<1>2. o.records \in Seq(Authentic) BY ReadOK DEF LogOK
<1> HIDE DEF o
<1>3. PICK all \in Seq(Authentic) :
          /\ Ordered(all)
          /\ merged(l, o) = [l EXCEPT !.records = all, !.next_seq = Max({NextAfter(Lines(all)), @})]
    BY <1>1, <1>2, Merges
<1> DEFINE after == NextAfter(Lines(all))  next == Max({after, l.next_seq})
<1>4. Lines(all) \in SUBSET Authentic BY LinesOf
<1>5. after \in 0 .. MaxSeq + 1 /\ \A r \in Lines(all) : r.seq < after BY <1>4, NextAfterIs
<1>6. \A r \in Lines(all) \cup Lines(l.redo) : r.seq \in Nat
    BY <1>1, <1>4, LinesOf, BoundsAssumption DEF Authentic, Assertion
<1> HIDE DEF after
<1>7. after \in Nat /\ l.next_seq \in Nat BY <1>1, <1>5, BoundIsNat
<1>8. next = IF after <= l.next_seq THEN l.next_seq ELSE after BY <1>7, LargerOfTwo
<1> HIDE DEF next
<1>9. merged(l, o) = [records |-> all, next_seq |-> next, redo |-> l.redo]
    <2>1. merged(l, o) = [l EXCEPT !.records = all, !.next_seq = next] BY <1>3 DEF after, next
    <2> QED BY <1>1, <2>1
<1>10. next \in 0 .. MaxSeq + 1 BY <1>1, <1>5, <1>8
<1>11. \A r \in Lines(all) \cup Lines(l.redo) : r.seq < next
    BY <1>1, <1>5, <1>6, <1>7, <1>8
<1>12. LogOK([records |-> all, next_seq |-> next, redo |-> l.redo])
    BY <1>1, <1>3, <1>10, <1>11 DEF LogOK
<1>13. LogOK(merged(l, o)) BY <1>9, <1>12
<1> QED BY <1>13 DEF o

(* Merging two files in memory is reading the lines of both. *)
LEMMA MergeIsRead ==
    ASSUME NEW a \in Seq(Authentic), NEW b \in Seq(Authentic)
    PROVE  merged(from_text(a), from_text(b)) =
               [records |-> InOrder(Lines(a) \cup Lines(b)),
                next_seq |-> NextAfter(Lines(a) \cup Lines(b)), redo |-> <<>>]
<1> DEFINE l == from_text(a)  o == from_text(b)  both == Lines(a) \cup Lines(b)
<1>1. /\ l.records \in Seq(Authentic) /\ Strict(l.records) /\ Lines(l.records) = Lines(a)
      /\ l = [records |-> l.records, next_seq |-> NextAfter(Lines(a)), redo |-> <<>>]
    BY ReadOK DEF LogOK, from_text
<1>2. o.records \in Seq(Authentic) /\ Lines(o.records) = Lines(b) BY ReadOK DEF LogOK
<1> HIDE DEF l, o
<1>3. Ordered(l.records) BY <1>1, StrictIsOrdered
<1>4. PICK all \in Seq(Authentic) :
          /\ Strict(l.records) => Strict(all)
          /\ Lines(all) = Lines(l.records) \cup Lines(o.records)
          /\ merged(l, o) = [l EXCEPT !.records = all, !.next_seq = Max({NextAfter(Lines(all)), @})]
    BY <1>1, <1>2, <1>3, Merges
<1>5. Strict(all) /\ Lines(all) = both BY <1>1, <1>2, <1>4
<1>6. InOrder(both) = all BY <1>5, InOrderIs
<1>7. both \in SUBSET Authentic /\ Lines(a) \in SUBSET both BY LinesOf
<1>8. /\ NextAfter(both) \in Nat /\ NextAfter(Lines(a)) \in Nat
      /\ NextAfter(Lines(a)) <= NextAfter(both)
    <2>1. Lines(a) \in SUBSET Authentic BY <1>7
    <2> HIDE DEF both
    <2> QED BY <1>7, <2>1, NextAfterIs, NextAfterGrows, BoundIsNat
<1>9. Max({NextAfter(both), NextAfter(Lines(a))}) = NextAfter(both)
    <2> HIDE DEF both
    <2>1. PICK x \in Nat, y \in Nat : x = NextAfter(both) /\ y = NextAfter(Lines(a)) /\ y <= x BY <1>8
    <2>2. Max({x, y}) = x BY <2>1, LargerOfTwo
    <2> QED BY <2>1, <2>2
<1> HIDE DEF both
<1>10. merged(l, o) = [records |-> all, next_seq |-> NextAfter(both), redo |-> <<>>]
    <2>1. l.next_seq = NextAfter(Lines(a)) BY <1>1
    <2>2. merged(l, o) = [l EXCEPT !.records = all, !.next_seq = NextAfter(both)]
        BY <1>4, <1>5, <1>9, <2>1
    <2>3. PICK records, n : l = [records |-> records, next_seq |-> n, redo |-> <<>>] BY <1>1
    <2>4. PICK after : after = NextAfter(both) OBVIOUS
    <2> QED BY <2>2, <2>3, <2>4
<1> QED BY <1>6, <1>10 DEF l, o, both

-----------------------------------------------------------------------------
(* The inductive invariant: a good log, files of good records, and every   *)
(* correction above what it corrects.  The order of the lines is what undo *)
(* and redo need, the bound on the numbers what corrections need: neither  *)
(* follows from the types.                                                 *)
Inv ==
    /\ author \in Branches
    /\ LogOK(log)
    /\ files \in [Branches -> Seq(Authentic)]
    /\ corrected \in SUBSET (Assertion \X Assertion)
    /\ CorrectionsWin

LEMMA InvInit == Init => Inv
<1>1. <<>> \in Seq(Authentic) BY EmptySeq
<1> QED BY <1>1, EmptyIsOK DEF Init, Inv, CorrectionsWin

LEMMA AnnotateStep ==
    ASSUME Inv, NEW key \in Keys, NEW value \in Writes[author], Annotate(key, value)
    PROVE  Inv'
<1> DEFINE r == NewRecord(log, key, value, author)
           corrects == {old \in Lines(log.records) : old.key = key}
<1>1. LogOK(log) /\ log.next_seq <= MaxSeq /\ value \in Values /\ author \in Branches
    BY WritesAssumption DEF Inv, Annotate
<1>2. r \in Authentic /\ (\A old \in Lines(log.records) : Older(old, r)) /\ LogOK(Asserted(log, r))
    BY <1>1, AssertedOK
<1>3. log' = Asserted(log, r) /\ corrected' = corrected \cup (corrects \X {r}) /\ UNCHANGED <<author, files>>
    BY DEF Annotate
<1>4. corrects \in SUBSET Authentic BY <1>1, LinesOf DEF LogOK
<1>5. r \in Assertion /\ corrects \in SUBSET Assertion BY <1>2, <1>4 DEF Authentic
<1>6. \A old \in corrects : Older(old, r) BY <1>2
<1> HIDE DEF r, corrects
<1>7. corrected' \in SUBSET (Assertion \X Assertion) BY <1>3, <1>5 DEF Inv
<1>8. CorrectionsWin'
    <2> SUFFICES ASSUME NEW pair \in corrected' PROVE Older(pair[1], pair[2])
        BY DEF CorrectionsWin
    <2>1. CASE pair \in corrected BY <2>1 DEF Inv, CorrectionsWin
    <2>2. CASE pair \in corrects \X {r}
        <3>1. pair[1] \in corrects /\ pair[2] = r BY <2>2
        <3> QED BY <1>6, <3>1
    <2> QED BY <1>3, <2>1, <2>2
<1>9. LogOK(log') BY <1>2, <1>3
<1> QED BY <1>3, <1>7, <1>8, <1>9 DEF Inv

(* The steps that make no correction. *)
LEMMA OtherSteps ==
    ASSUME Inv, author' \in Branches, LogOK(log'), files' \in [Branches -> Seq(Authentic)],
           corrected' = corrected
    PROVE  Inv'
BY DEF Inv, CorrectionsWin

LEMMA InvStep == Inv /\ [Next]_vars => Inv'
<1> SUFFICES ASSUME Inv, [Next]_vars PROVE Inv' OBVIOUS
<1>0. LogOK(log) /\ author \in Branches /\ files \in [Branches -> Seq(Authentic)] BY DEF Inv
<1>1. ASSUME NEW key \in Keys, NEW value \in Writes[author], Annotate(key, value) PROVE Inv'
    BY <1>1, AnnotateStep
<1>2. CASE Undo
    <2>1. LogOK(log') BY <1>0, <1>2, UndoneOK DEF Undo
    <2> QED BY <1>0, <1>2, <2>1, OtherSteps DEF Undo
<1>3. CASE Redo
    <2>1. LogOK(log') BY <1>0, <1>3, RedoneOK DEF Redo
    <2> QED BY <1>0, <1>3, <2>1, OtherSteps DEF Redo
<1>4. CASE Save
    <2>1. log.records \in Seq(Authentic) BY <1>0 DEF LogOK
    <2>2. files' \in [Branches -> Seq(Authentic)] BY <1>0, <1>4, <2>1 DEF Save
    <2>3. LogOK(log') /\ author' \in Branches BY <1>0, <1>4 DEF Save
    <2> QED BY <1>4, <2>2, <2>3, OtherSteps DEF Save
<1>5. ASSUME NEW b \in Branches, Load(b) PROVE Inv'
    <2>1. LogOK(from_text(files[b])) BY <1>0, ReadOK
    <2>2. LogOK(log') BY <1>5, <2>1 DEF Load
    <2> QED BY <1>0, <1>5, <2>2, OtherSteps DEF Load
<1>6. ASSUME NEW b \in Branches, Merge(b) PROVE Inv'
    <2>1. LogOK(merged(log, from_text(files[b]))) BY <1>0, MergedOK
    <2>2. LogOK(log') BY <1>6, <2>1 DEF Merge
    <2> QED BY <1>0, <1>6, <2>2, OtherSteps DEF Merge
<1>7. ASSUME NEW b \in Branches, NEW c \in Branches, GitUnion(b, c) PROVE Inv'
    <2>1. files[b] \o files[c] \in Seq(Authentic) BY <1>0, ConcatProperties
    <2>2. files' \in [Branches -> Seq(Authentic)] BY <1>0, <1>7, <2>1 DEF GitUnion
    <2>3. LogOK(log') /\ author' \in Branches BY <1>0, <1>7 DEF GitUnion
    <2> QED BY <1>7, <2>2, <2>3, OtherSteps DEF GitUnion
<1>8. CASE UNCHANGED vars BY <1>0, <1>8, OtherSteps DEF vars
<1> QED BY <1>1, <1>2, <1>3, <1>4, <1>5, <1>6, <1>7, <1>8 DEF Next

LEMMA Invariant == Spec => []Inv
<1> QED BY InvInit, InvStep, PTL DEF Spec

(* Logs, files and histories hold assertions at all times, and no number   *)
(* is handed out past the bound (log.rs:259-269).                          *)
THEOREM TypeCorrect == Spec => []TypeOK
<1>1. Inv => TypeOK
    <2> SUFFICES ASSUME Inv PROVE TypeOK OBVIOUS
    <2>1. \A s \in Seq(Authentic) : s \in Seq(Assertion)
        <3>1. Authentic \subseteq Assertion BY DEF Authentic
        <3> QED BY <3>1, SeqMonotonic
    <2>2. log \in Log BY <2>1 DEF Inv, LogOK, Log
    <2>3. files \in [Branches -> Seq(Assertion)] BY <2>1 DEF Inv
    <2> QED BY <2>2, <2>3 DEF Inv, TypeOK
<1> QED BY <1>1, Invariant, PTL

(* A correction wins over what it corrects on every branch and for ever,   *)
(* through undo, merges and reloads (log.rs:300).                          *)
THEOREM CorrectionsAlwaysWin == Spec => []CorrectionsWin
<1>1. Inv => CorrectionsWin BY DEF Inv
<1> QED BY <1>1, Invariant, PTL

(* Undo followed by redo is the identity, to the order of the lines        *)
(* (log.rs:340-361).                                                       *)
THEOREM RedoAlwaysInvertsUndo == Spec => []RedoInvertsUndo
<1>1. Inv => RedoInvertsUndo BY UndoneOK DEF Inv, RedoInvertsUndo
<1> QED BY <1>1, Invariant, PTL

(* One pass over the lines, in whatever order and with whatever copies,    *)
(* finds the winner of every key (log.rs:366-380).                         *)
THEOREM FoldAlwaysFindsLatest == Spec => []FoldFindsLatest
<1>1. Inv => FoldFindsLatest
    <2> SUFFICES ASSUME Inv PROVE FoldFindsLatest OBVIOUS
    <2>1. log.records \in Seq(Authentic) /\ \A b \in Branches : files[b] \in Seq(Authentic)
        BY DEF Inv, LogOK
    <2> QED BY <2>1, FoldIsLatest DEF FoldFindsLatest
<1> QED BY <1>1, Invariant, PTL

(* Merging either file into the other in memory, and reading the lines of  *)
(* both, give the same log (log.rs:403-422 and 6-7).                       *)
THEOREM UnionIsAlwaysMerge == Spec => []UnionIsMerge
<1>1. Inv => UnionIsMerge
    <2> SUFFICES ASSUME Inv, NEW b \in Branches, NEW c \in Branches
                 PROVE  /\ merged(from_text(files[b]), from_text(files[c]))
                              = merged(from_text(files[c]), from_text(files[b]))
                        /\ merged(from_text(files[b]), from_text(files[c]))
                              = from_text(files[b] \o files[c])
        BY DEF UnionIsMerge
    <2> DEFINE s == files[b]  t == files[c]  both == Lines(s) \cup Lines(t)
    <2>1. s \in Seq(Authentic) /\ t \in Seq(Authentic) BY DEF Inv
    <2> HIDE DEF s, t
    <2>2. Lines(s \o t) = both BY <2>1, RangeConcatenation DEF Lines
    <2>3. Lines(t) \cup Lines(s) = both OBVIOUS
    <2> DEFINE result == [records |-> InOrder(both), next_seq |-> NextAfter(both), redo |-> <<>>]
    <2>4. merged(from_text(s), from_text(t)) = result BY <2>1, MergeIsRead
    <2>5. merged(from_text(t), from_text(s)) = result BY <2>1, <2>3, MergeIsRead
    <2>6. from_text(s \o t) = result BY <2>2 DEF from_text
    <2> QED BY <2>4, <2>5, <2>6 DEF s, t
<1> QED BY <1>1, Invariant, PTL

-----------------------------------------------------------------------------
(* The commands on one file. A log as it was just read from these lines.   *)
Reading(l, lines) ==
    /\ LogOK(l) /\ Strict(l.records) /\ Lines(l.records) = lines
    /\ l.next_seq = NextAfter(lines) /\ l.redo = <<>>

LEMMA NoRecords == Reading(EmptyLog, {})
<1>1. <<>> \in Seq(Authentic) /\ Len(<<>>) = 0 BY EmptySeq
<1>2. Strict(<<>>) BY <1>1 DEF Strict
<1>3. NextAfter({}) = 0
    <2>1. {} \in SUBSET Authentic OBVIOUS
    <2> QED BY <2>1, NextAfterIs
<1> QED BY <1>2, <1>3, NoLines, EmptyIsOK DEF Reading, EmptyLog

LEMMA FileIsRead ==
    ASSUME NEW lines \in Seq(Authentic)
    PROVE  Reading(from_text(lines), Lines(lines))
BY ReadOK DEF Reading, from_text

(* The promise, said of two sets of lines. *)
Edited(before, after) ==
    \/ \E by \in Branches, key \in Keys : \E value \in Writes[by] :
           after = before \cup {[key |-> key, value |-> value, by |-> by,
                                 seq |-> NextAfter(before),
                                 id |-> Digest(key, value, NextAfter(before), by)]}
    \/ before # {} /\ after = before \ {Journal!NewestOf(before)}

LEMMA EditedIsJournal == Edited(Stored, Stored') => Journal!JournalNext
<1>1. \A lines : Journal!NextAfter(lines) = NextAfter(lines)
    BY DEF Journal!NextAfter, NextAfter, Journal!Max, Max
<1> DEFINE S == Stored  T == Stored'
<1>2. \A by, key, value : Journal!Add(key, value, by) <=>
          T = S \cup {[key |-> key, value |-> value, by |-> by,
                       seq |-> Journal!NextAfter(S),
                       id |-> Digest(key, value, Journal!NextAfter(S), by)]}
    BY DEF Journal!Add
<1>3. Journal!TakeBack <=> S # {} /\ T = S \ {Journal!NewestOf(S)}
    BY DEF Journal!TakeBack
<1> HIDE DEF S, T
<1>4. Edited(S, T) => Journal!JournalNext BY <1>1, <1>2, <1>3 DEF Edited, Journal!JournalNext
<1> QED BY <1>4 DEF S, T

(* Undo of a log that was just read takes back the newest record. *)
LEMMA NewestLine ==
    ASSUME NEW s \in Seq(Authentic), Strict(s), s # <<>>
    PROVE  /\ Lines(s) # {}
           /\ Lines(RemoveAt(s, Newest(s))) = Lines(s) \ {Journal!NewestOf(Lines(s))}
<1> DEFINE m == Newest(s)  L == Lines(s)  r == s[m]  fewer == RemoveAt(s, m)
<1>1. /\ m \in 1 .. Len(s)
      /\ \A j \in 1 .. Len(s) : j # m => Older(s[j], s[m]) \/ (s[j] = s[m] /\ j < m)
    BY NewestIs
<1> HIDE DEF m
<1>2. /\ L = {s[i] : i \in 1 .. Len(s)} /\ L \subseteq Authentic
      /\ Len(s) \in Nat /\ \A i \in 1 .. Len(s) : s[i] \in Authentic
    BY LinesOf
<1>3. \A i, j \in 1 .. Len(s) : i # j => s[i] # s[j]
    <2> SUFFICES ASSUME NEW i \in 1 .. Len(s), NEW j \in 1 .. Len(s), i # j, s[i] = s[j] PROVE FALSE
        OBVIOUS
    <2>1. i < j \/ j < i BY <1>2
    <2>2. Before(s[i], s[j]) \/ Before(s[j], s[i]) BY <2>1 DEF Strict
    <2>3. s[i] \in Authentic BY <1>2
    <2> QED BY <2>2, <2>3, Orders
<1>4. r \in L /\ r \in Authentic BY <1>1, <1>2
<1>5. \A q \in L \ {r} : Older(q, r) BY <1>1, <1>2
<1> HIDE DEF r, L
<1>6. Journal!NewestOf(L) = r
    <2>1. \A x, y : Journal!Older(x, y) <=> Older(x, y) BY DEF Journal!Older, Older
    <2> DEFINE P(x) == \A q \in L \ {x} : Older(q, x)
    <2>2. Journal!NewestOf(L) = CHOOSE x \in L : P(x) BY <2>1 DEF Journal!NewestOf
    <2>3. P(r) BY <1>5
    <2>4. ASSUME NEW x \in L, P(x) PROVE x = r
        <3>1. x # r => Older(r, x) /\ Older(x, r) BY <1>4, <1>5, <2>4
        <3>2. x \in Authentic BY <1>2
        <3> QED BY <1>4, <3>1, <3>2, Orders
    <2> HIDE DEF P
    <2> QED BY <1>4, <2>2, <2>3, <2>4
<1>7. Lines(fewer) = L \ {r}
    <2>1. /\ fewer \in Seq(Authentic) /\ Len(fewer) = Len(s) - 1
          /\ \A i \in 1 .. Len(s) - 1 : fewer[i] = IF i < m THEN s[i] ELSE s[i + 1]
        BY <1>1, RemovedAt
    <2> HIDE DEF fewer
    <2>2. Lines(fewer) = {fewer[i] : i \in 1 .. Len(s) - 1} BY <2>1, LinesOf
    <2>3. ASSUME NEW q \in Lines(fewer) PROVE q \in L /\ q # r
        <3>1. PICK i \in 1 .. Len(s) - 1 : q = fewer[i] BY <2>2
        <3>2. PICK j \in 1 .. Len(s) : j # m /\ q = s[j]
            <4>1. CASE i < m
                <5>1. i \in 1 .. Len(s) BY <1>2
                <5> QED BY <2>1, <3>1, <4>1, <5>1
            <4>2. CASE ~(i < m)
                <5>1. i + 1 \in 1 .. Len(s) /\ i + 1 # m BY <1>1, <1>2, <4>2
                <5> QED BY <2>1, <3>1, <4>2, <5>1
            <4> QED BY <4>1, <4>2
        <3> QED BY <1>1, <1>2, <1>3, <3>2 DEF r
    <2>4. ASSUME NEW q \in L, q # r PROVE q \in Lines(fewer)
        <3>1. PICK j \in 1 .. Len(s) : q = s[j] BY <1>2
        <3>2. j # m BY <2>4, <3>1 DEF r
        <3>3. CASE j < m
            <4>1. j \in 1 .. Len(s) - 1 BY <1>1, <1>2, <3>3
            <4>2. fewer[j] = q BY <2>1, <3>1, <3>3, <4>1
            <4> QED BY <2>2, <4>1, <4>2
        <3>4. CASE ~(j < m)
            <4>1. j - 1 \in 1 .. Len(s) - 1 /\ ~(j - 1 < m) /\ (j - 1) + 1 = j BY <1>1, <1>2, <3>2, <3>4
            <4>2. fewer[j - 1] = q BY <2>1, <3>1, <4>1
            <4> QED BY <2>2, <4>1, <4>2
        <3> QED BY <3>3, <3>4
    <2> QED BY <2>3, <2>4
<1> QED BY <1>4, <1>6, <1>7 DEF L, m, fewer

(* So what a command makes of a log that it just read is one edit of it. *)
LEMMA OutcomeEdits ==
    ASSUME NEW l, NEW lines, Reading(l, lines)
    PROVE  /\ \A by \in Branches, key \in Keys : \A value \in Writes[by] :
                  l.next_seq <= MaxSeq =>
                      Edited(lines, Lines(Asserted(l, NewRecord(l, key, value, by)).records))
           /\ l.records # <<>> => Edited(lines, Lines(Undone(l).records))
<1>1. /\ l.records \in Seq(Authentic) /\ Strict(l.records) /\ Ordered(l.records)
      /\ Lines(l.records) = lines /\ l.next_seq = NextAfter(lines) /\ LogOK(l)
    BY DEF Reading, LogOK
<1>2. ASSUME NEW by \in Branches, NEW key \in Keys, NEW value \in Writes[by], l.next_seq <= MaxSeq
      PROVE  Edited(lines, Lines(Asserted(l, NewRecord(l, key, value, by)).records))
    <2> DEFINE r == NewRecord(l, key, value, by)
    <2>1. value \in Values BY WritesAssumption
    <2>2. r \in Authentic BY <1>1, <1>2, <2>1, AssertedOK
    <2>3. r = [key |-> key, value |-> value, by |-> by, seq |-> NextAfter(lines),
               id |-> Digest(key, value, NextAfter(lines), by)]
        BY <1>1 DEF NewRecord
    <2> HIDE DEF r
    <2>4. Lines(Insert(l.records, r)) = lines \cup {r} BY <1>1, <2>2, Inserts
    <2>5. Asserted(l, r).records = Insert(l.records, r) BY DEF Asserted
    <2>6. Edited(lines, Lines(Asserted(l, r).records)) BY <2>3, <2>4, <2>5 DEF Edited
    <2> QED BY <2>6 DEF r
<1>3. ASSUME l.records # <<>> PROVE Edited(lines, Lines(Undone(l).records))
    <2>1. lines # {} /\ Lines(RemoveAt(l.records, Newest(l.records))) = lines \ {Journal!NewestOf(lines)}
        BY <1>1, <1>3, NewestLine
    <2>2. Undone(l).records = RemoveAt(l.records, Newest(l.records))
        <3> DEFINE at == Newest(l.records)  fewer == RemoveAt(l.records, at)
                   more == Append(l.redo, l.records[at])
        <3>1. Undone(l) = [l EXCEPT !.records = fewer, !.redo = more] BY DEF Undone
        <3>2. l = [records |-> l.records, next_seq |-> l.next_seq, redo |-> l.redo] BY <1>1 DEF LogOK
        <3> HIDE DEF fewer, more
        <3>3. Undone(l).records = fewer BY <3>1, <3>2
        <3> QED BY <3>3 DEF fewer
    <2> QED BY <2>1, <2>2 DEF Edited
<1> QED BY <1>2, <1>3

(* The texts of the bodies, and the logs in memory. *)
Texts == Seq(Authentic) \cup {Empty, Garbled}
Logs == {l \in [records : Seq(Authentic), next_seq : 0 .. MaxSeq + 1, redo : Seq(Authentic)] : LogOK(l)}

CommandTypes ==
    /\ body \in [Inodes -> Texts]
    /\ {file, temporary} \subseteq Inodes \cup {Absent}
    /\ pc \in [Processes -> {"idle", "load", "change", "open", "write", "rename"}]
    /\ command = [p \in Processes |-> command[p]]
    /\ \A p \in Processes : command[p] \in Commands(p)
    /\ memory \in [Processes -> Logs]
    /\ fd \in [Processes -> Inodes \cup {Absent}]
    /\ \A p \in Processes : fd[p] # Absent <=> pc[p] = "write"
    /\ faults \in 0 .. MaxFaults
    /\ overlapped \in BOOLEAN

(* How far a command has come that has the file to itself. *)
Underway(p) ==
    /\ pc[p] = "change" => Reading(memory[p], Stored)
    /\ pc[p] \in {"open", "write", "rename"} => Edited(Stored, Lines(memory[p].records))
    /\ pc[p] = "write" => fd[p] = temporary /\ body[temporary] = Empty
    /\ pc[p] = "rename" => temporary # Absent /\ body[temporary] = memory[p].records

OneByOne ==
    /\ \A p, q \in Processes : pc[p] # "idle" /\ pc[q] # "idle" => p = q
    /\ file # Absent => Readable(file)
    /\ \A p \in Processes : Underway(p)

CommandInv ==
    /\ CommandTypes
    /\ temporary # Absent => temporary # file
    /\ ~overlapped => OneByOne

(* What a step may do to the lines of the file. *)
WholeEdit == ~overlapped' => Stored' = Stored \/ Edited(Stored, Stored')

LEMMA SameStored ==
    ASSUME file' = file, file # Absent => body'[file] = body[file]
    PROVE  Stored' = Stored /\ ((file # Absent => Readable(file)) => (file' # Absent => Readable(file)'))
BY DEF Stored, Readable

(* Only the process whose command is under way makes steps.                *)
LEMMA OthersRest ==
    ASSUME CommandTypes, OneByOne, NEW p \in Processes, pc[p] # "idle", NEW l,
           pc' = [pc EXCEPT ![p] = l], file' # Absent => Readable(file)', Underway(p)'
    PROVE  OneByOne'
<1>1. \A q \in Processes : q # p => pc[q] = "idle" BY DEF OneByOne
<1>2. \A q \in Processes : q # p => pc'[q] = "idle" BY <1>1 DEF CommandTypes
<1>3. \A q \in Processes : Underway(q)' BY <1>2 DEF Underway
<1> QED BY <1>2, <1>3 DEF OneByOne

(* A process that ends leaves nothing that the invariant is about.         *)
LEMMA ExitKeeps ==
    ASSUME CommandTypes, NEW p \in Processes, Exit(p)
    PROVE  /\ pc' \in [Processes -> {"idle", "load", "change", "open", "write", "rename"}]
           /\ command' = [q \in Processes |-> command'[q]]
           /\ \A q \in Processes : command'[q] \in Commands(q)
           /\ memory' \in [Processes -> Logs]
           /\ fd' \in [Processes -> Inodes \cup {Absent}]
           /\ \A q \in Processes : fd'[q] # Absent <=> pc'[q] = "write"
           /\ pc' = [pc EXCEPT ![p] = "idle"] /\ Underway(p)'
<1>1. EmptyLog \in Logs BY EmptyIsOK DEF Logs, LogOK
<1>2. [op |-> "undo"] \in Commands(p) BY DEF Commands
<1>3. /\ pc' = [pc EXCEPT ![p] = "idle"] /\ memory' = [memory EXCEPT ![p] = EmptyLog]
      /\ command' = [command EXCEPT ![p] = [op |-> "undo"]] /\ fd' = [fd EXCEPT ![p] = Absent]
    BY DEF Exit, Goto
<1>4. \A q \in Processes : command'[q] \in Commands(q) BY <1>2, <1>3 DEF CommandTypes
<1>5. command' = [q \in Processes |-> command'[q]] BY <1>3 DEF CommandTypes
<1>6. \A q \in Processes : fd'[q] # Absent <=> pc'[q] = "write" BY <1>3 DEF CommandTypes
<1>7. Underway(p)' BY <1>3 DEF Underway, CommandTypes
<1> QED BY <1>1, <1>3, <1>4, <1>5, <1>6, <1>7 DEF CommandTypes

LEMMA BeginStep ==
    ASSUME CommandInv, NEW p \in Processes, Begin(p)
    PROVE  CommandInv' /\ WholeEdit
<1> USE DEF CommandInv
<1>1. PICK c \in Commands(p) : command' = [command EXCEPT ![p] = c] BY DEF Begin
<1>2. /\ pc' = [pc EXCEPT ![p] = "load"] /\ pc[p] = "idle"
      /\ UNCHANGED <<body, file, temporary, memory, fd, faults>>
      /\ overlapped' = (overlapped \/ \E q \in Processes : pc[q] # "idle")
    BY DEF Begin, Goto
<1>3. CommandTypes'
    <2>1. command' = [q \in Processes |-> command'[q]] BY <1>1 DEF CommandTypes
    <2>2. \A q \in Processes : command'[q] \in Commands(q) BY <1>1 DEF CommandTypes
    <2>3. overlapped' \in BOOLEAN BY <1>2 DEF CommandTypes
    <2>4. \A q \in Processes : fd'[q] # Absent <=> pc'[q] = "write" BY <1>2 DEF CommandTypes
    <2> QED BY <1>2, <2>1, <2>2, <2>3, <2>4 DEF CommandTypes
<1>4. Stored' = Stored BY <1>2, SameStored
<1>5. ASSUME ~overlapped' PROVE OneByOne'
    <2>1. ~overlapped /\ \A q \in Processes : pc[q] = "idle" BY <1>2, <1>5
    <2>2. \A q \in Processes : pc'[q] = IF q = p THEN "load" ELSE "idle" BY <1>2, <2>1 DEF CommandTypes
    <2>3. \A q \in Processes : Underway(q)' BY <2>2 DEF Underway
    <2>4. file' # Absent => Readable(file)' BY <1>2, <2>1, SameStored DEF OneByOne
    <2> QED BY <2>2, <2>3, <2>4 DEF OneByOne
<1> QED BY <1>2, <1>3, <1>4, <1>5 DEF WholeEdit

LEMMA LoadStep ==
    ASSUME CommandInv, NEW p \in Processes, LoadFile(p)
    PROVE  CommandInv' /\ WholeEdit
<1> USE DEF CommandInv
<1> DEFINE l == IF file = Absent THEN EmptyLog ELSE from_text(body[file])
<1>1. /\ pc' = [pc EXCEPT ![p] = "change"] /\ pc[p] = "load" /\ (file # Absent => Readable(file))
      /\ memory' = [memory EXCEPT ![p] = l]
      /\ UNCHANGED <<body, file, temporary, command, fd, faults, overlapped>>
    BY DEF LoadFile, Goto
<1>2. Reading(l, Stored)
    <2>1. CASE file = Absent BY <2>1, NoRecords DEF Stored
    <2>2. CASE file # Absent
        <3>1. Readable(file) /\ body[file] \in Texts BY <1>1, <2>2 DEF CommandTypes
        <3>2. body[file] \in Seq(Authentic) BY <3>1 DEF Readable, Texts
        <3> QED BY <2>2, <3>1, <3>2, FileIsRead DEF Stored
    <2> QED BY <2>1, <2>2
<1>3. l \in Logs BY <1>2 DEF Reading, Logs, LogOK
<1> HIDE DEF l
<1>4. CommandTypes'
    <2>1. memory' \in [Processes -> Logs] BY <1>1, <1>3 DEF CommandTypes
    <2>2. \A q \in Processes : fd'[q] # Absent <=> pc'[q] = "write" BY <1>1 DEF CommandTypes
    <2> QED BY <1>1, <2>1, <2>2 DEF CommandTypes
<1>5. Stored' = Stored BY <1>1, SameStored
<1>6. ASSUME ~overlapped' PROVE OneByOne'
    <2>1. OneByOne BY <1>1, <1>6
    <2>2. Reading(memory'[p], Stored') BY <1>1, <1>2, <1>5 DEF CommandTypes
    <2>3. Underway(p)' BY <1>1, <2>2 DEF Underway, CommandTypes
    <2>4. file' # Absent => Readable(file)' BY <1>1, SameStored
    <2> QED BY <1>1, <2>1, <2>3, <2>4, OthersRest
<1> QED BY <1>1, <1>4, <1>5, <1>6 DEF WholeEdit

(* The steps that end a command and change nothing else.                   *)
LEMMA EndStep ==
    ASSUME CommandInv, NEW p \in Processes, pc[p] # "idle", Exit(p),
           UNCHANGED <<body, file, temporary, faults, overlapped>>
    PROVE  CommandInv' /\ WholeEdit
<1> USE DEF CommandInv
<1>1. CommandTypes' BY ExitKeeps DEF CommandTypes
<1>2. Stored' = Stored /\ ((file # Absent => Readable(file)) => (file' # Absent => Readable(file)'))
    BY SameStored
<1>3. ASSUME ~overlapped' PROVE OneByOne'
    <2>1. OneByOne /\ Underway(p)' /\ pc' = [pc EXCEPT ![p] = "idle"] BY <1>3, ExitKeeps
    <2>2. file' # Absent => Readable(file)' BY <1>2, <2>1 DEF OneByOne
    <2> QED BY <2>1, <2>2, OthersRest
<1> QED BY <1>1, <1>2, <1>3 DEF WholeEdit

LEMMA ChangeStep ==
    ASSUME CommandInv, NEW p \in Processes, ChangeLog(p)
    PROVE  CommandInv' /\ WholeEdit
<1> USE DEF CommandInv
<1>1. PICK l \in Outcomes(p) : memory' = [memory EXCEPT ![p] = l] BY DEF ChangeLog
<1>2. /\ pc' = [pc EXCEPT ![p] = "open"] /\ pc[p] = "change"
      /\ UNCHANGED <<body, file, temporary, command, fd, faults, overlapped>>
    BY DEF ChangeLog, Goto
<1> DEFINE m == memory[p]  c == command[p]
<1>3. LogOK(m) /\ c \in Commands(p) /\ l.next_seq <= MaxSeq + 1 BY DEF CommandTypes, Logs, Outcomes
<1>4. /\ LogOK(l)
      /\ Reading(m, Stored) => Edited(Stored, Lines(l.records))
    <2>1. CASE c.op = "annotate"
        <3> DEFINE r == NewRecord(m, c.key, c.value, p)
        <3>1. l = Asserted(m, r) BY <2>1 DEF Outcomes
        <3>2. c.key \in Keys /\ c.value \in Writes[p] /\ c.value \in Values /\ p \in Branches
            BY <1>3, <2>1, WritesAssumption DEF Commands, Processes
        <3> HIDE DEF m, c
        <3>3. l.next_seq = m.next_seq + 1 BY <3>1 DEF Asserted
        <3>4. m.next_seq <= MaxSeq
            <4>1. m.next_seq \in Int /\ MaxSeq \in Int BY <1>3, BoundsAssumption DEF LogOK
            <4> QED BY <1>3, <3>3, <4>1
        <3> QED BY <1>3, <3>1, <3>2, <3>4, AssertedOK, OutcomeEdits
    <2>2. CASE c.op = "undo"
        <3>1. m.records # <<>> /\ l = Undone(m) BY <2>2 DEF Outcomes
        <3> HIDE DEF m
        <3> QED BY <1>3, <3>1, UndoneOK, OutcomeEdits
    <2>3. CASE c.op = "redo"
        <3>1. m.redo # <<>> /\ l = Redone(m) BY <2>3 DEF Outcomes
        <3> HIDE DEF m
        <3> QED BY <1>3, <3>1, RedoneOK DEF Reading
    <2> QED BY <1>3, <2>1, <2>2, <2>3 DEF Commands
<1>5. CommandTypes'
    <2>1. l \in Logs BY <1>4 DEF Logs, LogOK
    <2>2. memory' \in [Processes -> Logs] BY <1>1, <2>1 DEF CommandTypes
    <2>3. \A q \in Processes : fd'[q] # Absent <=> pc'[q] = "write" BY <1>2 DEF CommandTypes
    <2> QED BY <1>2, <2>2, <2>3 DEF CommandTypes
<1>6. Stored' = Stored /\ ((file # Absent => Readable(file)) => (file' # Absent => Readable(file)'))
    BY <1>2, SameStored
<1>7. ASSUME ~overlapped' PROVE OneByOne'
    <2>1. OneByOne BY <1>2, <1>7
    <2>2. Reading(m, Stored) BY <1>2, <2>1 DEF OneByOne, Underway
    <2>3. Edited(Stored', Lines(memory'[p].records)) BY <1>1, <1>4, <1>6, <2>2 DEF CommandTypes
    <2>4. Underway(p)' BY <1>2, <2>3 DEF Underway, CommandTypes
    <2>5. file' # Absent => Readable(file)' BY <1>6, <2>1 DEF OneByOne
    <2> QED BY <1>2, <2>1, <2>4, <2>5, OthersRest
<1> QED BY <1>2, <1>5, <1>6, <1>7 DEF WholeEdit

(* There is a free body: each process that has one open, and the log.      *)
LEMMA SomeFree ==
    ASSUME CommandTypes, NEW p \in Processes, fd[p] = Absent, temporary = Absent
    PROVE  Min(Free) \in Inodes /\ Min(Free) # file /\ \A q \in Processes : fd[q] # Min(Free)
<1> DEFINE used == [q \in Branches |-> IF q = p THEN file ELSE fd[q]]
<1>1. used \in [Branches -> Inodes \cup {Absent}] BY DEF CommandTypes, Processes
<1>2. PICK b \in Inodes : b \notin Range(used) BY <1>1, InodesAssumption
<1>3. \A q \in Processes : b # used[q] BY <1>2 DEF Range, Processes
<1>4. b # Absent BY InodesAssumption
<1>5. b # file /\ \A q \in Processes : b # fd[q] BY <1>3, <1>4 DEF Processes
<1>6. b \in Free BY <1>4, <1>5 DEF Free
<1>7. Free \in SUBSET Nat BY InodesAssumption DEF Free
<1>8. PICK n \in Free : \A m \in Free : n <= m
    <2> HIDE DEF Free
    <2> QED BY <1>6, <1>7, LeastOf
<1>9. Min(Free) \in Free
    <2> HIDE DEF Free
    <2> QED BY <1>8 DEF Min
<1> HIDE DEF used
<1> DEFINE f == Min(Free)
<1>10. f \in Free BY <1>9
<1> HIDE DEF f
<1>11. f \in Inodes /\ f # file /\ \A q \in Processes : fd[q] # f BY <1>10 DEF Free
<1> QED BY <1>11 DEF f

LEMMA OpenStep ==
    ASSUME CommandInv, NEW p \in Processes, Open(p)
    PROVE  CommandInv' /\ WholeEdit
<1> USE DEF CommandInv
<1> DEFINE b == IF temporary # Absent THEN temporary ELSE Min(Free)
<1>1. /\ pc' = [pc EXCEPT ![p] = "write"] /\ pc[p] = "open" /\ temporary' = b
      /\ body' = [body EXCEPT ![b] = Empty] /\ fd' = [fd EXCEPT ![p] = b]
      /\ UNCHANGED <<file, command, memory, faults, overlapped>>
    BY DEF Open, Goto
<1>2. b \in Inodes /\ b # file
    <2>1. fd[p] = Absent BY <1>1 DEF CommandTypes
    <2> QED BY <2>1, SomeFree DEF CommandTypes
<1> HIDE DEF b
<1>3. b # Absent BY <1>2, InodesAssumption
<1>4. CommandTypes'
    <2>1. body' \in [Inodes -> Texts] BY <1>1 DEF CommandTypes, Texts
    <2>2. \A q \in Processes : fd'[q] # Absent <=> pc'[q] = "write" BY <1>1, <1>3 DEF CommandTypes
    <2>3. fd' \in [Processes -> Inodes \cup {Absent}] BY <1>1, <1>2 DEF CommandTypes
    <2>4. {file', temporary'} \subseteq Inodes \cup {Absent} BY <1>1, <1>2 DEF CommandTypes
    <2> QED BY <1>1, <2>1, <2>2, <2>3, <2>4 DEF CommandTypes
<1>5. Stored' = Stored /\ ((file # Absent => Readable(file)) => (file' # Absent => Readable(file)'))
    <2>1. file # Absent => body'[file] = body[file] BY <1>1, <1>2 DEF CommandTypes
    <2> QED BY <1>1, <2>1, SameStored
<1>6. ASSUME ~overlapped' PROVE OneByOne'
    <2>1. OneByOne BY <1>1, <1>6
    <2>2. Edited(Stored', Lines(memory'[p].records)) BY <1>1, <1>5, <2>1 DEF OneByOne, Underway
    <2>3. fd'[p] = temporary' /\ body'[temporary'] = Empty BY <1>1, <1>2 DEF CommandTypes
    <2>4. Underway(p)' BY <1>1, <2>2, <2>3 DEF Underway, CommandTypes
    <2>5. file' # Absent => Readable(file)' BY <1>5, <2>1 DEF OneByOne
    <2> QED BY <1>1, <2>1, <2>4, <2>5, OthersRest
<1> QED BY <1>1, <1>2, <1>4, <1>5, <1>6 DEF WholeEdit

LEMMA WriteStep ==
    ASSUME CommandInv, NEW p \in Processes, Write(p)
    PROVE  CommandInv' /\ WholeEdit
<1> USE DEF CommandInv
<1> DEFINE m == memory[p]
<1>1. PICK text \in {m.records} \cup (IF body[fd[p]] = Empty THEN {} ELSE {Garbled}) :
          body' = [body EXCEPT ![fd[p]] = text]
    BY DEF Write
<1>2. /\ pc' = [pc EXCEPT ![p] = "rename"] /\ pc[p] = "write" /\ fd' = [fd EXCEPT ![p] = Absent]
      /\ UNCHANGED <<file, temporary, command, memory, faults, overlapped>>
    BY DEF Write, Goto
<1>3. fd[p] \in Inodes BY <1>2 DEF CommandTypes
<1>4. LogOK(m) BY DEF CommandTypes, Logs
<1>5. text \in Texts BY <1>1, <1>4 DEF Texts, LogOK
<1>6. CommandTypes'
    <2>1. body' \in [Inodes -> Texts] BY <1>1, <1>5 DEF CommandTypes
    <2>2. \A q \in Processes : fd'[q] # Absent <=> pc'[q] = "write" BY <1>2 DEF CommandTypes
    <2>3. fd' \in [Processes -> Inodes \cup {Absent}] BY <1>2 DEF CommandTypes
    <2> QED BY <1>2, <2>1, <2>2, <2>3 DEF CommandTypes
<1>7. ASSUME ~overlapped' PROVE OneByOne' /\ Stored' = Stored
    <2>1. OneByOne BY <1>2, <1>7
    <2>2. fd[p] = temporary /\ body[temporary] = Empty BY <1>2, <2>1 DEF OneByOne, Underway
    <2>3. temporary # Absent /\ temporary # file BY <1>3, <2>2, InodesAssumption
    <2>4. Stored' = Stored /\ ((file # Absent => Readable(file)) => (file' # Absent => Readable(file)'))
        <3>1. file # Absent => body'[file] = body[file] BY <1>1, <2>2, <2>3 DEF CommandTypes
        <3> QED BY <1>2, <3>1, SameStored
    <2>5. Edited(Stored', Lines(memory'[p].records)) BY <1>2, <2>1, <2>4 DEF OneByOne, Underway
    <2>6. body'[temporary'] = memory'[p].records BY <1>1, <1>2, <1>3, <2>2 DEF CommandTypes
    <2>7. Underway(p)' BY <1>2, <2>3, <2>5, <2>6 DEF Underway, CommandTypes
    <2>8. file' # Absent => Readable(file)' BY <2>1, <2>4 DEF OneByOne
    <2> QED BY <1>2, <2>1, <2>4, <2>7, <2>8, OthersRest
<1> QED BY <1>2, <1>6, <1>7 DEF WholeEdit

LEMMA RenameStep ==
    ASSUME CommandInv, NEW p \in Processes, Rename(p)
    PROVE  CommandInv' /\ WholeEdit
<1> USE DEF CommandInv
<1>1. /\ pc[p] = "rename" /\ temporary # Absent /\ file' = temporary /\ temporary' = Absent
      /\ body' = [b \in Inodes |-> IF b = file /\ \A q \in Processes : fd[q] # b
                                     THEN Empty ELSE body[b]]
      /\ UNCHANGED <<faults, overlapped>> /\ Exit(p)
    BY DEF Rename
<1>2. CommandTypes'
    <2>1. body' \in [Inodes -> Texts] BY <1>1 DEF CommandTypes, Texts
    <2>2. {file', temporary'} \subseteq Inodes \cup {Absent} BY <1>1 DEF CommandTypes
    <2> QED BY <1>1, <2>1, <2>2, ExitKeeps DEF CommandTypes
<1>3. ASSUME ~overlapped' PROVE OneByOne' /\ Edited(Stored, Stored')
    <2>1. OneByOne BY <1>1, <1>3
    <2>2. body[temporary] = memory[p].records /\ Edited(Stored, Lines(memory[p].records))
        BY <1>1, <2>1 DEF OneByOne, Underway
    <2>3. temporary \in Inodes /\ temporary # file BY <1>1 DEF CommandTypes
    <2>4. body'[temporary] = memory[p].records BY <1>1, <2>2, <2>3
    <2>5. memory[p].records \in Seq(Assertion)
        <3>1. Authentic \subseteq Assertion BY DEF Authentic
        <3>2. memory[p].records \in Seq(Authentic) BY DEF CommandTypes, Logs, LogOK
        <3> QED BY <3>1, <3>2, SeqMonotonic
    <2>6. body'[file'] \notin {Empty, Garbled} BY <1>1, <2>4, <2>5, ContentsAssumption
    <2>7. file' # Absent /\ Readable(file)' BY <1>1, <2>6 DEF Readable
    <2>8. Stored' = Lines(memory[p].records) BY <1>1, <2>4, <2>7 DEF Stored
    <2>9. OneByOne' BY <1>1, <2>1, <2>7, ExitKeeps, OthersRest
    <2> QED BY <2>2, <2>8, <2>9
<1> QED BY <1>1, <1>2, <1>3 DEF WholeEdit

LEMMA FailStep ==
    ASSUME CommandInv, NEW p \in Processes, Fail(p)
    PROVE  CommandInv' /\ WholeEdit
<1> USE DEF CommandInv
<1> DEFINE m == memory[p]
<1>1. /\ pc[p] # "idle" /\ faults < MaxFaults /\ faults' = faults + 1
      /\ UNCHANGED <<file, temporary, overlapped>> /\ Exit(p)
    BY DEF Fail
<1>2. \/ /\ pc[p] = "write"
         /\ \E text \in {SubSeq(m.records, 1, n) : n \in 0 .. Len(m.records)} \cup {Garbled} :
                body' = [body EXCEPT ![fd[p]] = text]
      \/ body' = body
    BY DEF Fail
<1>3. \A text \in {SubSeq(m.records, 1, n) : n \in 0 .. Len(m.records)} \cup {Garbled} : text \in Texts
    <2> DEFINE s == m.records
    <2>1. s \in Seq(Authentic) BY DEF CommandTypes, Logs, LogOK
    <2> HIDE DEF s
    <2>2. ASSUME NEW n \in 0 .. Len(s) PROVE SubSeq(s, 1, n) \in Seq(Authentic)
        <3>1. \A i \in 1 .. n : s[i] \in Authentic BY <2>1, LinesOf
        <3>2. 1 \in Int /\ n \in Int OBVIOUS
        <3> QED BY <3>1, <3>2, SubSeqProperties
    <2>3. \A text \in {SubSeq(s, 1, n) : n \in 0 .. Len(s)} \cup {Garbled} : text \in Texts
        BY <2>2 DEF Texts
    <2> QED BY <2>3 DEF s
<1>4. body' \in [Inodes -> Texts] BY <1>2, <1>3 DEF CommandTypes
<1>5. CommandTypes'
    <2>1. faults' \in 0 .. MaxFaults BY <1>1, FaultsAssumption DEF CommandTypes
    <2> QED BY <1>1, <1>4, <2>1, ExitKeeps DEF CommandTypes
<1>6. ASSUME ~overlapped' PROVE OneByOne' /\ Stored' = Stored
    <2>1. OneByOne BY <1>1, <1>6
    <2>2. file # Absent => body'[file] = body[file]
        <3>1. pc[p] = "write" => fd[p] = temporary /\ fd[p] # Absent BY <2>1 DEF OneByOne, Underway, CommandTypes
        <3>2. pc[p] = "write" => fd[p] # file BY <3>1
        <3> QED BY <1>2, <3>2 DEF CommandTypes
    <2>3. Stored' = Stored /\ ((file # Absent => Readable(file)) => (file' # Absent => Readable(file)'))
        BY <1>1, <2>2, SameStored
    <2>4. file' # Absent => Readable(file)' BY <2>1, <2>3 DEF OneByOne
    <2> QED BY <1>1, <2>1, <2>3, <2>4, ExitKeeps, OthersRest
<1> QED BY <1>1, <1>5, <1>6 DEF WholeEdit

LEMMA CommandInvInit == CommandsInit => CommandInv
<1> SUFFICES ASSUME CommandsInit PROVE CommandInv OBVIOUS
<1>1. EmptyLog \in Logs BY EmptyIsOK DEF Logs, LogOK
<1>2. \A p \in Processes : [op |-> "undo"] \in Commands(p) BY DEF Commands
<1>3. 0 \in 0 .. MaxFaults BY FaultsAssumption
<1>4. CommandTypes BY <1>1, <1>2, <1>3 DEF CommandsInit, CommandTypes, Texts
<1>5. OneByOne BY DEF CommandsInit, OneByOne, Underway
<1> QED BY <1>4, <1>5 DEF CommandInv, CommandsInit

LEMMA CommandInvStep ==
    ASSUME CommandInv, [CommandsNext]_commandVars
    PROVE  CommandInv' /\ WholeEdit
<1>1. ASSUME NEW p \in Processes, Begin(p) PROVE CommandInv' /\ WholeEdit BY <1>1, BeginStep
<1>2. ASSUME NEW p \in Processes, Work(p) PROVE CommandInv' /\ WholeEdit
    <2>1. CASE LoadFile(p) BY <2>1, LoadStep
    <2>2. CASE LoadFails(p)
        <3>1. pc[p] # "idle" BY <2>2 DEF LoadFails
        <3> QED BY <2>2, <3>1, EndStep DEF LoadFails
    <2>3. CASE ChangeLog(p) BY <2>3, ChangeStep
    <2>4. CASE Nothing(p)
        <3>1. pc[p] # "idle" BY <2>4 DEF Nothing
        <3> QED BY <2>4, <3>1, EndStep DEF Nothing
    <2>5. CASE Open(p) BY <2>5, OpenStep
    <2>6. CASE Write(p) BY <2>6, WriteStep
    <2>7. CASE Rename(p) BY <2>7, RenameStep
    <2>8. CASE RenameFails(p)
        <3>1. pc[p] # "idle" BY <2>8 DEF RenameFails
        <3> QED BY <2>8, <3>1, EndStep DEF RenameFails
    <2> QED BY <1>2, <2>1, <2>2, <2>3, <2>4, <2>5, <2>6, <2>7, <2>8 DEF Work
<1>3. ASSUME NEW p \in Processes, Fail(p) PROVE CommandInv' /\ WholeEdit BY <1>3, FailStep
<1>4. CASE UNCHANGED commandVars
    <2>1. CommandInv' BY <1>4 DEF commandVars, CommandInv, CommandTypes, OneByOne, Underway, Readable, Stored
    <2>2. Stored' = Stored BY <1>4 DEF commandVars, Stored, Readable
    <2> QED BY <2>1, <2>2 DEF WholeEdit
<1> QED BY <1>1, <1>2, <1>3, <1>4 DEF CommandsNext

LEMMA CommandsKeep == CommandsSpec => []CommandInv
<1>1. CommandInv /\ [CommandsNext]_commandVars => CommandInv' BY CommandInvStep
<1> QED BY <1>1, CommandInvInit, PTL DEF CommandsSpec

(* Bodies hold texts, names refer to bodies, and only a writing process has *)
(* one open: also when commands overlap and fail (annotate.rs:29-45).      *)
THEOREM CommandsTypeCorrect == CommandsSpec => []CommandsTypeOK
<1>1. CommandInv => CommandsTypeOK
    <2> SUFFICES ASSUME CommandInv PROVE CommandsTypeOK OBVIOUS
    <2>1. \A s \in Seq(Authentic) : s \in Seq(Assertion)
        <3>1. Authentic \subseteq Assertion BY DEF Authentic
        <3> QED BY <3>1, SeqMonotonic
    <2>2. Texts \subseteq Text BY <2>1 DEF Texts, Text
    <2>3. Logs \subseteq Log BY <2>1 DEF Logs, Log
    <2>4. body \in [Inodes -> Text] /\ memory \in [Processes -> Log]
        BY <2>2, <2>3 DEF CommandInv, CommandTypes
    <2> QED BY <2>4 DEF CommandInv, CommandTypes, CommandsTypeOK
<1> QED BY <1>1, CommandsKeep, PTL

(* "An interrupted write cannot lose the file" (annotate.rs:38), for any   *)
(* number of processes, commands, kills and failed writes, as long as no   *)
(* two commands have overlapped.                                           *)
THEOREM LogAlwaysSurvives == CommandsSpec => []LogSurvives
<1>1. CommandInv => LogSurvives BY DEF CommandInv, OneByOne, LogSurvives
<1> QED BY <1>1, CommandsKeep, PTL

(* And every step then leaves the lines of the file alone or is one edit   *)
(* of NameJournal, made on top of all that was there (annotate.rs:39-45).  *)
THEOREM CommandsAlwaysAtomic == CommandsSpec => CommandsAreAtomic
<1>1. CommandInv /\ [CommandsNext]_commandVars => [~overlapped' => Journal!JournalNext]_Stored
    <2> SUFFICES ASSUME CommandInv, [CommandsNext]_commandVars, ~overlapped', Stored' # Stored
                 PROVE  Journal!JournalNext
        OBVIOUS
    <2> QED BY CommandInvStep, EditedIsJournal DEF WholeEdit
<1> QED BY <1>1, CommandsKeep, PTL DEF CommandsSpec, CommandsAreAtomic

-----------------------------------------------------------------------------
(* The least of one address is that address. *)
LEMMA LowestOfOne ==
    ASSUME NEW a \in Slots
    PROVE  Lowest({a}) = a
<1>1. a <= a BY OrderAssumption
<1> QED BY <1>1 DEF Lowest

(* Builds place functions and the log names identities (anchor.rs:260-275, *)
(* annotate.rs:99-127), for any functions, addresses, bodies and texts.    *)
THEOREM NamesTypeCorrect == NamesSpec => []NamesTypeOK
<1>1. NamesInit => NamesTypeOK BY DEF NamesInit, NamesTypeOK
<1>2. NamesTypeOK /\ [NamesNext]_namesVars => NamesTypeOK'
    <2> SUFFICES ASSUME NamesTypeOK, [NamesNext]_namesVars PROVE NamesTypeOK'
        OBVIOUS
    <2>1. ASSUME NEW a \in Slots, NEW name \in Names, SetName(a, name) PROVE NamesTypeOK'
        <3>1. build[a] \in Code BY <2>1 DEF SetName, NamesTypeOK, Builds
        <3>2. build[a].bytes \in Bytes /\ build[a].fn \in Functions BY <3>1 DEF Code
        <3> DEFINE e == [name |-> name, abs |-> a, fn |-> build[a].fn]
        <3>3. e \in Entry BY <3>2 DEF Entry
        <3>4. winners' = [winners EXCEPT ![build[a].bytes] = e] /\ build' = build
            BY <2>1 DEF SetName
        <3> HIDE DEF e
        <3> QED BY <3>2, <3>3, <3>4 DEF NamesTypeOK
    <2>2. CASE Rebuild BY <2>2 DEF Rebuild, NamesTypeOK
    <2>3. CASE UNCHANGED namesVars BY <2>3 DEF namesVars, NamesTypeOK
    <2> QED BY <2>1, <2>2, <2>3 DEF NamesNext
<1> QED BY <1>1, <1>2, PTL DEF NamesSpec

(* "Naming a location so the name survives a rebuild" (anchor.rs:1): where *)
(* one function alone has the shapes of a named body, resolve              *)
(* (anchor.rs:392-417) finds it with confidence, for any two builds, any   *)
(* hash of bodies into shapes and any hint of an address.                  *)
THEOREM NamesAlwaysFollow == NamesSpec => []NameFollows
<1>1. NamesTypeOK => NameFollows
    <2> SUFFICES ASSUME NEW key \in Named, NEW a \in Occupied(build), SameShape(key) = {a}
                 PROVE  /\ Landing(key) # None
                        /\ Landing(key).at = a
                        /\ is_confident(Landing(key).how)
        BY DEF NameFollows
    <2>1. a \in Slots BY DEF Occupied
    <2>2. SameBytes(key) \subseteq {a} BY DEF SameBytes, SameShape, Shape
    <2>3. Lowest({a}) = a BY <2>1, LowestOfOne
    <2>4. CASE SameBytes(key) # {}
        <3>1. SameBytes(key) = {a} BY <2>2, <2>4
        <3>2. Landing(key) = [at |-> a, how |-> "exact"]
            BY <2>3, <2>4, <3>1 DEF Landing, resolve
        <3> QED BY <2>1, <3>2, NoneAssumption DEF is_confident
    <2>5. CASE SameBytes(key) = {}
        <3>1. Cardinality(SameShape(key)) = 1 BY FS_Singleton
        <3>2. SameShape(key) # {} BY DEF SameShape
        <3>3. Landing(key) = [at |-> a, how |-> "shape"]
            BY <2>3, <2>5, <3>1, <3>2 DEF Landing, resolve
        <3> QED BY <2>1, <3>3, NoneAssumption DEF is_confident
    <2> QED BY <2>4, <2>5
<1> QED BY <1>1, NamesTypeCorrect, PTL
=============================================================================
