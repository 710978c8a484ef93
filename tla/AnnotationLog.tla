--------------------------- MODULE AnnotationLog ---------------------------
(***************************************************************************)
(* The annotation log, crates/e5r-db/src/log.rs: the files of the branches *)
(* of a team, the one log that is open in memory, and how edits, undo,     *)
(* redo, saving and merging change them.  AnnotateFile has several         *)
(* processes at the same file.                                             *)
(***************************************************************************)
EXTENDS AnnotationRecords

VARIABLES
    author,       \* the branch whose log is open
    log,          \* the open log
    files,        \* the lines of each branch's file
    corrected     \* history: <<old, new>> when new was made while old was in the log

vars == <<author, log, files, corrected>>

-----------------------------------------------------------------------------
Init ==
    /\ author \in Branches
    /\ log = EmptyLog
    /\ files = [b \in Branches |-> <<>>]
    /\ corrected = {}

\* The author sets or clears a field.
Annotate(key, value) ==
    LET r == NewRecord(log, key, value, author)
        corrects == {old \in Lines(log.records) : old.key = key}
    IN  /\ log.next_seq <= MaxSeq
        /\ Len(log.records) < MaxLines
        /\ log' = Asserted(log, r)
        /\ corrected' = corrected \cup (corrects \X {r})
        /\ UNCHANGED <<author, files>>

Undo ==
    /\ log.records # <<>>
    /\ Len(log.redo) < MaxRedo
    /\ log' = Undone(log)
    /\ UNCHANGED <<author, files, corrected>>

Redo ==
    /\ log.redo # <<>>
    /\ Len(log.records) < MaxLines
    /\ log' = Redone(log)
    /\ UNCHANGED <<author, files, corrected>>

\* to_text writes the records in the order they are kept.
Save ==
    /\ files' = [files EXCEPT ![author] = log.records]
    /\ UNCHANGED <<author, log, corrected>>

\* Leave the open log, saved or not, and open a branch's file.
Load(b) ==
    /\ author' = b
    /\ log' = from_text(files[b])
    /\ UNCHANGED <<files, corrected>>

\* Fold a file into the open log.
Merge(b) ==
    /\ Cardinality(Lines(log.records) \cup Lines(files[b])) <= MaxLines
    /\ log' = merged(log, from_text(files[b]))
    /\ UNCHANGED <<author, files, corrected>>

\* git merge with the union driver keeps the lines of both sides.
GitUnion(b, c) ==
    /\ b # c
    /\ Len(files[b]) + Len(files[c]) <= MaxLines
    /\ files' = [files EXCEPT ![b] = @ \o files[c]]
    /\ UNCHANGED <<author, log, corrected>>

Next ==
    \/ \E key \in Keys, value \in Writes[author] : Annotate(key, value)
    \/ Undo
    \/ Redo
    \/ Save
    \/ \E b \in Branches : Load(b) \/ Merge(b)
    \/ \E b, c \in Branches : GitUnion(b, c)

Spec == Init /\ [][Next]_vars

-----------------------------------------------------------------------------
(* Properties. *)

\* Every variable keeps its type: logs, files and histories hold assertions, and
\* no number is handed out past the bound (log.rs:259-269).
TypeOK ==
    /\ author \in Branches
    /\ log \in Log
    /\ files \in [Branches -> Seq(Assertion)]
    /\ corrected \in SUBSET (Assertion \X Assertion)

\* The fold of log.rs:366-380 finds the record that wins by number and id for every
\* key, wherever the lines of the file sit and however many copies there are.
FoldFindsLatest ==
    /\ fold(log.records) = Latest(Lines(log.records))
    /\ \A b \in Branches : fold(files[b]) = Latest(Lines(files[b]))

\* Reading the union of two files, and merging either file into the other with
\* Log::merge, give the same records, the same next number and so the same names
\* (log.rs:403-422 and 6-7).
UnionIsMerge ==
    \A b, c \in Branches :
        LET mine == from_text(files[b])
            theirs == from_text(files[c])
        IN  /\ merged(mine, theirs) = merged(theirs, mine)
            /\ merged(mine, theirs) = from_text(files[b] \o files[c])

\* A record made on top of another one for the same key wins over it for ever, on
\* every branch the two reach: no merge, reload or undo makes log.rs:300 hand out
\* a number that is not above everything in the log.
CorrectionsWin == \A pair \in corrected : Older(pair[1], pair[2])

\* Undo followed by redo gives the log back, to the order of its lines and its
\* redo stack, after any sequence of edits and merges (log.rs:340-361).
RedoInvertsUndo ==
    log.records # <<>> => Redone(Undone(log)) = log
=============================================================================
