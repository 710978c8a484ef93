---------------------------- MODULE NameJournal ----------------------------
(***************************************************************************)
(* What the annotate commands promise to the file of a log: each command   *)
(* takes effect at one instant, as one new assertion numbered after all    *)
(* that are there, or as the removal of the newest one.                    *)
(***************************************************************************)
EXTENDS AnnotationRecords

VARIABLE lines    \* the assertions that the file holds

NewestOf(records) == CHOOSE r \in records : \A s \in records \ {r} : Older(s, r)

JournalInit == lines = {}

Add(key, value, by) ==
    lines' = lines \cup {[key |-> key, value |-> value, by |-> by,
                          seq |-> NextAfter(lines),
                          id |-> Digest(key, value, NextAfter(lines), by)]}

TakeBack ==
    /\ lines # {}
    /\ lines' = lines \ {NewestOf(lines)}

JournalNext ==
    \/ \E by \in Branches, key \in Keys : \E value \in Writes[by] : Add(key, value, by)
    \/ TakeBack

JournalSpec == JournalInit /\ [][JournalNext]_lines
=============================================================================
