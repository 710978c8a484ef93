------------------------------ MODULE TaskRules ------------------------------
(***************************************************************************)
(* The data of the task store, crates/e5r-db/src/work.rs: tasks, their     *)
(* contents, and the rules one task or a whole board of tasks must obey.   *)
(***************************************************************************)
EXTENDS Integers, Sequences

CONSTANTS
    Authors,      \* people and agents who write tasks
    MaxId,        \* the largest task number the id type can hold
    Nobody,       \* an empty owner
    Absent,       \* no file for this id
    Inputs        \* the contents that clients submit

ASSUME MaxIdAssumption == MaxId \in Nat \ {0}

Ids == 1 .. MaxId

State == {"planned", "active", "blocked", "review", "done"}

\* The states that matches!(.., Active | Review | Done) singles out.
Started == {"active", "review", "done"}

\* A task's content. "shaped" stands for the checks on text and size: a title of
\* 1 to 240 bytes, at most 64 KiB, distinct well-formed prerequisite ids.
Draft == [state : State, owner : Authors \cup {Nobody}, blocker : BOOLEAN,
          shaped : BOOLEAN, depends_on : SUBSET Ids]

ASSUME InputsAssumption == Inputs \subseteq Draft

Change == [author : Authors, previous : Draft]

Task == [revision : Nat \ {0}, content : Draft, author : Authors,
         history : Seq(Change)]

ASSUME AbsentAssumption == Absent \notin Task

\* The content rules a saved task obeys whatever the other tasks are.
validate(content) ==
    /\ content.shaped
    /\ content.state = "blocked" <=> content.blocker
    /\ content.state = "active" => content.owner # Nobody

DependsOn(board, i) == IF board[i] \in Task THEN board[i].content.depends_on ELSE {}

IsDone(board, i) == board[i] \in Task /\ board[i].content.state = "done"

IsStarted(board, i) == board[i] \in Task /\ board[i].content.state \in Started

-----------------------------------------------------------------------------
(* The rules that tie tasks together. *)

\* Every prerequisite names a task that exists.
PrerequisitesExist(board) ==
    \A i \in Ids : \A d \in DependsOn(board, i) : board[d] \in Task

\* No set of tasks can be waiting on one another: each set has a member with no
\* prerequisite in the set.
Acyclic(board) ==
    \A S \in (SUBSET Ids) \ {{}} : \E i \in S : DependsOn(board, i) \cap S = {}

\* A task that is active, in review or done has only completed prerequisites.
StartedAfterPrerequisites(board) ==
    \A i \in Ids : IsStarted(board, i) => \A d \in DependsOn(board, i) : IsDone(board, d)

Legal(board) ==
    /\ PrerequisitesExist(board)
    /\ Acyclic(board)
    /\ StartedAfterPrerequisites(board)
=============================================================================
