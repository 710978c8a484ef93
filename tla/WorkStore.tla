------------------------------ MODULE WorkStore ------------------------------
(***************************************************************************)
(* The task store on disk, crates/e5r-db/src/work.rs: one JSON file per    *)
(* task, a directory lock file that serializes writers, a synced temporary *)
(* file renamed over the task, and readers that take no lock.              *)
(*                                                                         *)
(* A writer is one `e5rx project task` command (or one `project record`    *)
(* command: each record kind is such a store). A writer can crash at every *)
(* step and every file operation can fail. A reader is one call of         *)
(* Store::board, made by `task list` or by the dashboard.                  *)
(***************************************************************************)
EXTENDS TaskRules

CONSTANTS
    Readers,      \* calls of Store::board
    MaxRevision,  \* the largest number a revision can hold
    MaxFaults,    \* bound: how many crashes and failed file operations happen
    Torn,         \* a file created but not completely written
    NoLock,       \* the lock file does not exist
    DeadLock,     \* the lock file exists, and nobody will remove it on Drop
    None          \* a writer with nothing to do

ASSUME WorkStoreAssumption ==
    /\ MaxRevision \in Nat \ {0}
    /\ MaxFaults \in Nat
    /\ Torn \notin Task \cup {Absent}
    /\ NoLock \notin Authors /\ DeadLock \notin Authors /\ NoLock # DeadLock

\* A writer is known by the author it records: two commands of one author are
\* two requests of one writer.
Writers == Authors

VARIABLES
    files,    \* id -> the task in <id>.json
    tmp,      \* id -> the task in <id>.tmp
    lock,     \* who created .lock
    pc,       \* writer -> the point of create / update it has reached
    req,      \* writer -> what it was asked to do
    plan,     \* writer -> the id and the task it is about to save
    acked,    \* the tasks returned to callers, with the revision the caller had read
    faults,   \* crashes and failed file operations so far
    rpc,      \* reader -> the point of board it has reached
    listed,   \* reader -> the ids read_dir had to yield
    rows      \* reader -> the tasks it has read

writerVars == <<pc, req, plan, acked>>
readerVars == <<rpc, listed, rows>>
vars == <<files, tmp, lock, faults, writerVars, readerVars>>

Request ==
    [op : {"create"}, named : BOOLEAN, content : Inputs] \cup
    [op : {"update"}, named : BOOLEAN, content : Inputs, id : Ids, revision : 1 .. MaxRevision]

Plan == [id : Ids, task : Task]

File == Task \cup {Absent, Torn}

Critical == {"locked", "prepared", "opened", "written", "renamed"}

Present == {i \in Ids : files[i] # Absent}

TypeOK ==
    /\ files \in [Ids -> File]
    /\ \A i \in Ids : files[i] \in Task => files[i].revision <= MaxRevision
    /\ tmp \in [Ids -> File]
    /\ lock \in Writers \cup {NoLock, DeadLock}
    /\ pc \in [Writers -> {"idle", "asked"} \cup Critical]
    /\ req \in [Writers -> Request \cup {None}]
    /\ plan \in [Writers -> Plan \cup {None}]
    /\ acked \subseteq [id : Ids, from : 0 .. MaxRevision, task : Task]
    /\ faults \in 0 .. MaxFaults
    /\ rpc \in [Readers -> {"idle", "reading", "shown"}]
    /\ listed \in [Readers -> SUBSET Ids]
    /\ rows \in [Readers -> [Ids -> File]]

-----------------------------------------------------------------------------
(* check: may this content be saved under this id, given the listing? *)

\* The search of check finds `id` from `dep` when every set of tasks that holds
\* dep and, with a task, its prerequisites, also holds id.
Reaches(dep, id) ==
    \A C \in SUBSET Ids :
        (dep \in C /\ \A i \in C : DependsOn(files, i) \subseteq C) => id \in C

\* Everything check refuses in a content that is to be saved under id.
check(id, content) ==
    /\ validate(content)
    /\ \A dep \in content.depends_on :
        /\ dep # id
        /\ files[dep] \in Task
        /\ content.state \in Started => IsDone(files, dep)
        /\ ~Reaches(dep, id)
    /\ content.state # "done" =>
        \A i \in Ids \ {id} : id \in DependsOn(files, i) => ~IsStarted(files, i)

\* list refuses the whole directory when one task does not parse or validate.
ListSucceeds == \A i \in Present : files[i] \in Task /\ validate(files[i].content)

\* The number after the largest in use; there is none when that is the last.
IsNextId(id) ==
    /\ \A j \in Present : j < id
    /\ id = 1 \/ id - 1 \in Present

\* The task create saves.
Created(w, content) ==
    [revision |-> 1, content |-> content, author |-> w, history |-> <<>>]

\* Faulty variant: the replaced content is not kept.
UpdatedForgetting(w, old, content) ==
    [revision |-> old.revision + 1, content |-> content, author |-> w, history |-> <<>>]

\* The task update saves over `old`.
Updated(w, old, content) ==
    [revision |-> old.revision + 1, content |-> content, author |-> w,
     history  |-> Append(old.history, [author |-> old.author, previous |-> old.content])]

\* Faulty variant: an update does not compare revisions.
AcceptsAnyRevision(w, id) ==
    /\ ListSucceeds
    /\ \/ req[w].op = "create" /\ IsNextId(id)
       \/ /\ req[w].op = "update"
          /\ id = req[w].id
          /\ id \in Present
          /\ files[id].revision < MaxRevision
    /\ check(id, req[w].content)

\* Faulty variant: the revision counter runs past its type.
AcceptsPastLimit(w, id) ==
    /\ ListSucceeds
    /\ \/ req[w].op = "create" /\ IsNextId(id)
       \/ /\ req[w].op = "update"
          /\ id = req[w].id
          /\ id \in Present
          /\ files[id].revision = req[w].revision
    /\ check(id, req[w].content)

\* create and update get from their listing to save: everything parses, the caller
\* read the current revision, no counter is exhausted and check has no objection.
Accepts(w, id) ==
    /\ ListSucceeds
    /\ \/ req[w].op = "create" /\ IsNextId(id)
       \/ /\ req[w].op = "update"
          /\ id = req[w].id
          /\ id \in Present
          /\ files[id].revision = req[w].revision
          /\ files[id].revision < MaxRevision
    /\ check(id, req[w].content)

Saved(w, id) ==
    IF req[w].op = "create"
    THEN Created(w, req[w].content)
    ELSE Updated(w, files[id], req[w].content)

-----------------------------------------------------------------------------
(* Writers *)

Goto(w, point) == pc' = [pc EXCEPT ![w] = point]

\* The command returns: its stack is gone.
Return(w) ==
    /\ Goto(w, "idle")
    /\ req' = [req EXCEPT ![w] = None]
    /\ plan' = [plan EXCEPT ![w] = None]

\* A crash or a failed file operation.
Fault == faults < MaxFaults /\ faults' = faults + 1

\* Drop for Lock: remove_file, whose failure is ignored.
Unlock ==
    \/ lock' = NoLock /\ UNCHANGED faults
    \/ lock' = DeadLock /\ Fault

\* A person or an agent runs `task add` or `task update`.
Ask(w) ==
    /\ pc[w] = "idle"
    /\ \E r \in Request : req' = [req EXCEPT ![w] = r]
    /\ Goto(w, "asked")
    /\ UNCHANGED <<files, tmp, lock, faults, plan, acked, readerVars>>

\* validate_author, or valid_id, refuses before anything is locked.
RefuseName(w) ==
    /\ pc[w] = "asked"
    /\ ~req[w].named
    /\ Return(w)
    /\ UNCHANGED <<files, tmp, lock, faults, acked, readerVars>>

\* Faulty variant: a command waits for the lock to go away.
LockWaits(w) ==
    /\ pc[w] = "asked"
    /\ req[w].named
    /\ lock # NoLock
    /\ UNCHANGED vars

\* create_new finds a lock file: the command fails, it never waits.
LockBusy(w) ==
    /\ pc[w] = "asked"
    /\ req[w].named
    /\ lock # NoLock
    /\ Return(w)
    /\ UNCHANGED <<files, tmp, lock, faults, acked, readerVars>>

\* Faulty variant: create instead of create_new opens a lock that is there.
LockShared(w) ==
    /\ pc[w] = "asked"
    /\ req[w].named
    /\ lock' = w
    /\ Goto(w, "locked")
    /\ UNCHANGED <<files, faults, tmp, req, plan, acked, readerVars>>

\* create_new creates the lock file, in one atomic step.
Lock(w) ==
    /\ pc[w] = "asked"
    /\ req[w].named
    /\ lock = NoLock
    /\ lock' = w
    /\ Goto(w, "locked")
    /\ UNCHANGED <<files, faults, tmp, req, plan, acked, readerVars>>

\* list and check pass: the task to save is fixed here and written later.
Prepare(w) ==
    /\ pc[w] = "locked"
    /\ \E id \in Ids :
        /\ Accepts(w, id)
        /\ plan' = [plan EXCEPT ![w] = [id |-> id, task |-> Saved(w, id)]]
    /\ Goto(w, "prepared")
    /\ UNCHANGED <<files, tmp, lock, faults, req, acked, readerVars>>

\* Every error between lock and save: corrupt listing, task not found, revision
\* conflict, a rule broken, ids or revisions exhausted.
Reject(w) ==
    /\ pc[w] = "locked"
    /\ ~ \E id \in Ids : Accepts(w, id)
    /\ Unlock
    /\ Return(w)
    /\ UNCHANGED <<files, tmp, acked, readerVars>>

\* save: File::create truncates whatever an earlier writer left behind.
OpenTemporary(w) ==
    /\ pc[w] = "prepared"
    /\ tmp' = [tmp EXCEPT ![plan[w].id] = Torn]
    /\ Goto(w, "opened")
    /\ UNCHANGED <<files, faults, lock, req, plan, acked, readerVars>>

\* save: write_all and sync_all.
WriteTemporary(w) ==
    /\ pc[w] = "opened"
    /\ tmp' = [tmp EXCEPT ![plan[w].id] = plan[w].task]
    /\ Goto(w, "written")
    /\ UNCHANGED <<files, faults, lock, req, plan, acked, readerVars>>

\* Faulty variant: the rename does not wait for the write.
RenameEarly(w) ==
    /\ pc[w] \in {"opened", "written"}
    /\ files' = [files EXCEPT ![plan[w].id] = tmp[plan[w].id]]
    /\ tmp' = [tmp EXCEPT ![plan[w].id] = Absent]
    /\ Goto(w, "renamed")
    /\ UNCHANGED <<faults, lock, req, plan, acked, readerVars>>

\* save: the rename that publishes the temporary file, whatever it holds.
Rename(w) ==
    /\ pc[w] = "written"
    /\ files' = [files EXCEPT ![plan[w].id] = tmp[plan[w].id]]
    /\ tmp' = [tmp EXCEPT ![plan[w].id] = Absent]
    /\ Goto(w, "renamed")
    /\ UNCHANGED <<faults, lock, req, plan, acked, readerVars>>

\* save: creating, writing, syncing or renaming fails; the temporary file stays.
SaveFails(w) ==
    /\ pc[w] \in {"prepared", "opened", "written"}
    /\ Fault
    /\ lock' = NoLock
    /\ Return(w)
    /\ UNCHANGED <<files, tmp, acked, readerVars>>

\* create / update returns the saved task.
Acknowledge(w) ==
    /\ pc[w] = "renamed"
    /\ acked' = acked \cup
           {[id   |-> plan[w].id,
             from |-> IF req[w].op = "create" THEN 0 ELSE req[w].revision,
             task |-> plan[w].task]}
    /\ Unlock
    /\ Return(w)
    /\ UNCHANGED <<files, tmp, readerVars>>

\* The process dies. Its lock file, if it has one, stays.
Crash(w) ==
    /\ pc[w] # "idle"
    /\ Fault
    /\ lock' = IF lock = w THEN DeadLock ELSE lock
    /\ Return(w)
    /\ UNCHANGED <<files, tmp, acked, readerVars>>

\* docs/toolkit/dashboard.md: remove the lock after confirming that the writer is
\* no longer running.
ClearDeadLock ==
    /\ lock = DeadLock
    /\ lock' = NoLock
    /\ UNCHANGED <<files, faults, tmp, writerVars, readerVars>>

-----------------------------------------------------------------------------
(* Readers: Store::board lists the directory without the lock, file by file. *)

BeginBoard(r) ==
    /\ rpc[r] = "idle"
    /\ rpc' = [rpc EXCEPT ![r] = "reading"]
    /\ listed' = [listed EXCEPT ![r] = Present]
    /\ UNCHANGED <<files, tmp, lock, faults, writerVars, rows>>

\* read_dir yields the ids it had to, in any order, and may yield newer ones.
ReadTask(r) ==
    /\ rpc[r] = "reading"
    /\ \E i \in Present :
        /\ rows[r][i] = Absent
        /\ rows' = [rows EXCEPT ![r][i] = files[i]]
    /\ UNCHANGED <<files, tmp, lock, faults, writerVars, rpc, listed>>

\* The rows are computed from what was read.
ShowBoard(r) ==
    /\ rpc[r] = "reading"
    /\ \A i \in listed[r] : rows[r][i] # Absent
    /\ rpc' = [rpc EXCEPT ![r] = "shown"]
    /\ UNCHANGED <<files, tmp, lock, faults, writerVars, listed, rows>>

\* The next request for a board.
CloseBoard(r) ==
    /\ rpc[r] = "shown"
    /\ rpc' = [rpc EXCEPT ![r] = "idle"]
    /\ listed' = [listed EXCEPT ![r] = {}]
    /\ rows' = [rows EXCEPT ![r] = [i \in Ids |-> Absent]]
    /\ UNCHANGED <<files, tmp, lock, faults, writerVars>>

-----------------------------------------------------------------------------
Init ==
    /\ files = [i \in Ids |-> Absent]
    /\ tmp = [i \in Ids |-> Absent]
    /\ lock = NoLock
    /\ pc = [w \in Writers |-> "idle"]
    /\ req = [w \in Writers |-> None]
    /\ plan = [w \in Writers |-> None]
    /\ acked = {}
    /\ faults = 0
    /\ rpc = [r \in Readers |-> "idle"]
    /\ listed = [r \in Readers |-> {}]
    /\ rows = [r \in Readers |-> [i \in Ids |-> Absent]]

\* The steps of a command once it has been issued.
Work(w) ==
    \/ RefuseName(w) \/ LockBusy(w) \/ Lock(w) \/ Prepare(w) \/ Reject(w)
    \/ OpenTemporary(w) \/ WriteTemporary(w) \/ Rename(w) \/ SaveFails(w)
    \/ Acknowledge(w)

Read(r) == BeginBoard(r) \/ ReadTask(r) \/ ShowBoard(r) \/ CloseBoard(r)

Next ==
    \/ \E w \in Writers : Ask(w) \/ Work(w) \/ Crash(w)
    \/ ClearDeadLock
    \/ \E r \in Readers : Read(r)

Spec == Init /\ [][Next]_vars

\* The operating system keeps running a command that has not crashed.
FairSpec == Spec /\ \A w \in Writers : WF_vars(Work(w))

-----------------------------------------------------------------------------
(* Properties *)

Board == INSTANCE TaskBoard WITH tasks <- files

\* The store implements the abstract board: whatever writers, crashes and failed
\* file operations do, files change only by one legal revision of one task.
RefinesTaskBoard == Board!Spec

\* Prerequisites exist, never form a cycle, and are done before a dependent is
\* started: the rules Store::check enforces against its own, earlier, listing.
LegalBoard == Legal(files)

\* The directory lock serializes create and update from listing to rename.
OneWriter ==
    \A v, w \in Writers : pc[v] \in Critical /\ pc[w] \in Critical => v = w

\* No crash or failed write leaves a half-written <id>.json, which would make
\* list, and with it every command and the dashboard, fail.
NoTornTask == Torn \notin {files[i] : i \in Ids}

\* The contents of a task from its first revision to the current one.
Revisions(task) ==
    Append(task.history, [author |-> task.author, previous |-> task.content])

\* A task returned to a caller is never lost or overwritten: it stays the current
\* revision or an entry of the history, under the number the caller was given.
AcknowledgedSurvives ==
    \A p \in acked :
        /\ files[p.id] \in Task
        /\ p.task.revision <= files[p.id].revision
        /\ Revisions(files[p.id])[p.task.revision] =
               [author |-> p.task.author, previous |-> p.task.content]

\* A row of a board is a task as it was saved at some time, not older than the
\* file could have been when the board was begun and not yet overwritten in part.
RowsWereSaved ==
    \A r \in Readers, i \in Ids :
        rows[r][i] # Absent =>
            /\ rows[r][i] \in Task /\ files[i] \in Task
            /\ rows[r][i].revision <= files[i].revision
            /\ Revisions(files[i])[rows[r][i].revision] =
                   [author |-> rows[r][i].author, previous |-> rows[r][i].content]

\* What anybody was told is kept: every revision that was acknowledged to a writer,
\* or is shown on a board, is in its file under its number (work.rs:183-202, 366-382).
ToldIsKept == AcknowledgedSurvives /\ RowsWereSaved

\* Of the callers that had read the same revision of a task, at most one is told
\* that it replaced it; of those that created a task, no two got the same id.
OneWinner == \A p, q \in acked : p.id = q.id /\ p.from = q.from => p = q

\* Every command that is not killed returns: nobody waits for the lock.
CommandsReturn == \A w \in Writers : pc[w] # "idle" ~> pc[w] = "idle"
=============================================================================
