------------------------- MODULE AnnotationRecords -------------------------
(***************************************************************************)
(* The data of the annotation log, crates/e5r-db/src/log.rs: assertions,   *)
(* logs, and what each operation makes of a log.  A key is a place in the  *)
(* program together with the field that is set there; an id is the hash of *)
(* a whole record.                                                         *)
(***************************************************************************)
EXTENDS Integers, SequencesExt

CONSTANTS
    Branches,     \* working copies, each with its own author
    Keys,         \* places and fields that can be annotated
    Values,       \* what an author can write: texts, and Cleared
    Cleared,      \* the absent value of a tombstone
    Writes,       \* what each author writes
    Digest(_, _, _, _), \* the content hash of a key, value, number and author
    MaxSeq,       \* bound: the highest sequence number handed out
    MaxLines,     \* bound: the longest list of records
    MaxRedo       \* bound: the longest list of undone records

ASSUME BoundsAssumption == MaxSeq \in Nat /\ MaxLines \in Nat /\ MaxRedo \in Nat

ASSUME WritesAssumption == Writes \in [Branches -> SUBSET Values]

Assertion == [key : Keys, value : Values, by : Branches,
              seq : 0 .. MaxSeq, id : Nat]

\* Sixty-four bits of hash are taken to tell all records apart.
ASSUME DigestAssumption ==
    LET domain == Keys \X Values \X (0 .. MaxSeq) \X Branches
        digest(d) == Digest(d[1], d[2], d[3], d[4])
    IN  \A d, e \in domain : digest(d) \in Nat /\ (digest(d) = digest(e) => d = e)

Lines(records) == Range(records)

\* The order of the lines of a file, and the order of the winners.
Before(r, s) == r.id < s.id \/ (r.id = s.id /\ r.seq < s.seq)

Older(r, s) == r.seq < s.seq \/ (r.seq = s.seq /\ r.id < s.id)

Insert(records, r) ==
    InsertAt(records, 1 + Cardinality({i \in DOMAIN records : Before(records[i], r)}), r)

EmptyLog == [records |-> <<>>, next_seq |-> 0, redo |-> <<>>]

\* The number after the last one used.
NextAfter(lines) == Max({0} \cup {r.seq + 1 : r \in lines})

-----------------------------------------------------------------------------
(* The operations on one log. *)

Asserted(log, r) ==
    [records |-> Insert(log.records, r), next_seq |-> log.next_seq + 1, redo |-> <<>>]

NewRecord(log, key, value, by) ==
    [key |-> key, value |-> value, by |-> by, seq |-> log.next_seq,
     id |-> Digest(key, value, log.next_seq, by)]

\* Where the newest record sits; of equal records the last one.
Newest(records) ==
    CHOOSE i \in DOMAIN records :
        \A j \in DOMAIN records \ {i} :
            Older(records[j], records[i]) \/ (records[j] = records[i] /\ j < i)

Undone(log) ==
    LET at == Newest(log.records)
    IN  [log EXCEPT !.records = RemoveAt(@, at), !.redo = Append(@, log.records[at])]

\* Faulty variant: the oldest undone record comes back first.
RedoneFirst(log) ==
    [log EXCEPT !.records = Insert(@, Head(log.redo)), !.redo = Tail(@)]

Redone(log) ==
    [log EXCEPT !.records = Insert(@, Last(log.redo)), !.redo = Front(@)]

\* Faulty variant: the record that comes later in the file wins.
NewerInFileOrder(out, r) == [out EXCEPT ![r.key] = {r}]

\* A record joins what the fold has found so far: of each key at most one record.
Newer(out, r) ==
    IF \E prev \in out[r.key] : ~Older(prev, r) THEN out
    ELSE [out EXCEPT ![r.key] = {r}]

\* The current value of every key, found in one pass over the records.
fold(records) ==
    LET out[n \in 0 .. Len(records)] ==
            IF n = 0 THEN [k \in Keys |-> {}] ELSE Newer(out[n - 1], records[n])
    IN  [k \in Keys |-> {r \in out[Len(records)][k] : r.value # Cleared}]

\* A record of the other log is inserted unless it is there.
Joined(records, r) == IF r \in Lines(records) THEN records ELSE Insert(records, r)

\* Faulty variant: what the other log has handed out is forgotten.
mergedKeepingNumbers(log, other) ==
    LET records[n \in 0 .. Len(other.records)] ==
            IF n = 0 THEN log.records ELSE Joined(records[n - 1], other.records[n])
    IN  [log EXCEPT !.records = records[Len(other.records)]]

merged(log, other) ==
    LET records[n \in 0 .. Len(other.records)] ==
            IF n = 0 THEN log.records ELSE Joined(records[n - 1], other.records[n])
        all == records[Len(other.records)]
    IN  [log EXCEPT !.records = all, !.next_seq = Max({NextAfter(Lines(all)), @})]

\* A set of records in the order of the lines of a file.
InOrder(lines) ==
    CHOOSE s \in [1 .. Cardinality(lines) -> lines] :
        \A i, j \in DOMAIN s : i < j => Before(s[i], s[j])

\* Faulty variant: numbering starts from the number of lines.
from_textCounting(lines) ==
    [records |-> InOrder(Lines(lines)),
     next_seq |-> Cardinality(Lines(lines)), redo |-> <<>>]

\* What reading makes of the lines of a file: sorted, without duplicates.
from_text(lines) ==
    [records |-> InOrder(Lines(lines)), next_seq |-> NextAfter(Lines(lines)), redo |-> <<>>]

-----------------------------------------------------------------------------
Log == [records : Seq(Assertion), next_seq : 0 .. MaxSeq + 1, redo : Seq(Assertion)]

\* The winner for each key, whatever the order of the lines.
Latest(lines) ==
    [k \in Keys |-> {r \in lines :
        /\ r.key = k
        /\ r.value # Cleared
        /\ \A s \in lines \ {r} : s.key = k => Older(s, r)}]
=============================================================================
