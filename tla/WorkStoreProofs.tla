--------------------------- MODULE WorkStoreProofs ---------------------------
(***************************************************************************)
(* Proofs about WorkStore, for every set of writers and readers and every  *)
(* bound: types, mutual exclusion, the rules between tasks, and that the   *)
(* files implement the abstract board; then what the store tells its       *)
(* callers: a revision that was acknowledged or shown stays in its file,   *)
(* and a revision is replaced once.                                        *)
(***************************************************************************)
EXTENDS WorkStore, TLAPS, SequenceTheorems

\* A published file holds a whole task.
WholeFiles ==
    \A i \in Ids : files[i] \in Task \cup {Absent}

\* A command that was issued has a request.
HasRequest == \A w \in Writers : pc[w] # "idle" => req[w] \in Request

\* A writer that holds the lock owns the lock file.
HoldsLock == \A w \in Writers : pc[w] \in Critical => lock = w

\* What a writer decided to save is still what it would decide: nothing has moved
\* under it since the listing.
PlanStands ==
    \A w \in Writers : pc[w] \in {"prepared", "opened", "written"} =>
        /\ plan[w] \in Plan
        /\ Accepts(w, plan[w].id)
        /\ plan[w].task = Saved(w, plan[w].id)

\* A synced temporary file holds the planned task.
TemporaryWritten ==
    \A w \in Writers : pc[w] = "written" => tmp[plan[w].id] = plan[w].task

\* A renamed file holds the planned task until the command returns.
Published ==
    \A w \in Writers : pc[w] = "renamed" =>
        /\ plan[w] \in Plan
        /\ files[plan[w].id] = plan[w].task

\* The inductive invariant.
IInv ==
    /\ TypeOK
    /\ WholeFiles
    /\ HasRequest
    /\ HoldsLock
    /\ PlanStands
    /\ TemporaryWritten
    /\ Published
    /\ LegalBoard

USE DEF Writers

LEMMA Sentinels ==
    /\ Absent \notin Task
    /\ Torn \notin Task
    /\ Torn # Absent
    /\ \A w \in Writers : w # NoLock /\ w # DeadLock
    /\ NoLock # DeadLock
    /\ Inputs \subseteq Draft
BY AbsentAssumption, WorkStoreAssumption, InputsAssumption

LEMMA InitIInv == Init => IInv
<1> SUFFICES ASSUME Init PROVE IInv
  OBVIOUS
<1>1. TypeOK
  BY Sentinels, WorkStoreAssumption DEF Init, TypeOK, File
<1>2. WholeFiles
  BY DEF Init, WholeFiles
<1>3. \A w \in Writers : pc[w] = "idle"
  BY DEF Init
<1>4. HasRequest /\ HoldsLock /\ PlanStands /\ TemporaryWritten /\ Published
  BY <1>3 DEF HasRequest, HoldsLock, PlanStands, TemporaryWritten, Published, Critical
<1>5. \A i \in Ids : DependsOn(files, i) = {} /\ ~IsStarted(files, i)
  BY Sentinels DEF Init, DependsOn, IsStarted
<1>6. LegalBoard
  <2>1. PrerequisitesExist(files) /\ StartedAfterPrerequisites(files)
    BY <1>5 DEF PrerequisitesExist, StartedAfterPrerequisites
  <2>2. ASSUME NEW S \in (SUBSET Ids) \ {{}}
        PROVE  \E i \in S : DependsOn(files, i) \cap S = {}
    <3>0. S # {}
      OBVIOUS
    <3>1. PICK i \in S : TRUE
      BY <3>0
    <3> QED BY <3>1, <1>5
  <2> QED BY <2>1, <2>2 DEF LegalBoard, Legal, Acyclic
<1> QED BY <1>1, <1>2, <1>4, <1>6 DEF IInv

\* What a writer saves is a task that keeps the revision below its limit.
LEMMA SavedIsTask ==
    ASSUME TypeOK, WholeFiles, HasRequest,
           NEW w \in Writers, pc[w] # "idle", NEW id \in Ids, Accepts(w, id)
    PROVE  /\ Saved(w, id) \in Task
           /\ Saved(w, id).revision <= MaxRevision
           /\ Saved(w, id).content = req[w].content
<1>1. req[w] \in Request /\ req[w].content \in Draft
  BY Sentinels DEF HasRequest, Request
<1>2. CASE req[w].op = "create"
  BY <1>1, <1>2, WorkStoreAssumption DEF Saved, Created, Task
<1>3. CASE req[w].op # "create"
  <2>1. files[id] \in Task /\ files[id].revision < MaxRevision
    BY <1>3 DEF Accepts, Present, WholeFiles
  <2>2. files[id].revision + 1 \in Nat \ {0} /\ files[id].revision + 1 <= MaxRevision
    BY <2>1, WorkStoreAssumption DEF Task
  <2>3. [author |-> files[id].author, previous |-> files[id].content] \in Change
    BY <2>1 DEF Task, Change
  <2>4. Append(files[id].history,
               [author |-> files[id].author, previous |-> files[id].content]) \in Seq(Change)
    BY <2>1, <2>3 DEF Task
  <2> QED
    BY <1>1, <1>3, <2>2, <2>4 DEF Saved, Updated, Task
<1> QED BY <1>2, <1>3

-----------------------------------------------------------------------------
(* The rules between tasks survive a save that check allowed. *)

LEMMA SaveKeepsLegal ==
    ASSUME WholeFiles, files \in [Ids -> File], LegalBoard,
           NEW id \in Ids, NEW task \in Task, check(id, task.content),
           files' = [files EXCEPT ![id] = task]
    PROVE  LegalBoard'
<1> DEFINE D == task.content.depends_on
<1>1. /\ files'[id] = task
      /\ \A i \in Ids \ {id} : files'[i] = files[i]
  BY DEF File
<1>2. /\ DependsOn(files, id)' = D
      /\ \A i \in Ids \ {id} : DependsOn(files, i)' = DependsOn(files, i)
  BY <1>1 DEF DependsOn
<1>3. D \subseteq Ids /\ id \notin D
  BY DEF check, Task, Draft
<1>4. \A i \in Ids : DependsOn(files, i) \subseteq Ids
  BY DEF DependsOn, Task, Draft
<1>5. PrerequisitesExist(files')
  <2> SUFFICES ASSUME NEW i \in Ids, NEW d \in DependsOn(files, i)'
               PROVE  files'[d] \in Task
    BY DEF PrerequisitesExist, DependsOn
  <2>1. files[d] \in Task
    BY <1>2, <1>3 DEF check, LegalBoard, Legal, PrerequisitesExist
  <2>2. d \in Ids
    BY <1>2, <1>3, <1>4
  <2> QED BY <2>1, <2>2, <1>1
<1>6. Acyclic(files')
  <2> SUFFICES ASSUME NEW S \in (SUBSET Ids) \ {{}},
                      \A i \in S : DependsOn(files, i)' \cap S # {}
               PROVE  FALSE
    BY DEF Acyclic, DependsOn
  <2>1. CASE id \notin S
    <3>1. \A i \in S : DependsOn(files, i) \cap S # {}
      BY <2>1, <1>2
    <3> QED BY <3>1 DEF LegalBoard, Legal, Acyclic
  <2>2. CASE id \in S
    <3>1. PICK d \in D : d \in S
      BY <2>2, <1>2
    <3>2. ~Reaches(d, id)
      BY DEF check
    <3>3. PICK C \in SUBSET Ids : /\ d \in C /\ id \notin C
                                  /\ \A i \in C : DependsOn(files, i) \subseteq C
      BY <3>2 DEF Reaches
    <3> DEFINE T == S \cap C
    <3>4. T \in (SUBSET Ids) \ {{}}
      BY <3>1, <3>3
    <3>5. \A i \in T : DependsOn(files, i) \cap T # {}
      BY <1>2, <3>3
    <3> QED BY <3>4, <3>5 DEF LegalBoard, Legal, Acyclic
  <2> QED BY <2>1, <2>2
<1>7. StartedAfterPrerequisites(files')
  <2> SUFFICES ASSUME NEW i \in Ids, IsStarted(files, i)', NEW d \in DependsOn(files, i)'
               PROVE  IsDone(files, d)'
    BY DEF StartedAfterPrerequisites, DependsOn, IsDone, IsStarted
  <2>1. d \in Ids
    BY <1>2, <1>3, <1>4
  <2>2. CASE i = id
    <3>1. IsDone(files, d) /\ d # id
      BY <2>2, <1>1, <1>2, <1>3 DEF check, IsStarted
    <3> QED BY <3>1, <2>1, <1>1 DEF IsDone
  <2>3. CASE i # id
    <3>1. IsStarted(files, i) /\ d \in DependsOn(files, i)
      BY <2>3, <1>1, <1>2 DEF IsStarted
    <3>2. IsDone(files, d)
      BY <3>1 DEF LegalBoard, Legal, StartedAfterPrerequisites
    <3>3. CASE d = id
      BY <3>1, <3>3, <2>3, <1>1 DEF check, IsDone
    <3>4. CASE d # id
      BY <3>2, <3>4, <2>1, <1>1 DEF IsDone
    <3> QED BY <3>3, <3>4
  <2> QED BY <2>2, <2>3
<1> QED BY <1>5, <1>6, <1>7 DEF LegalBoard, Legal, PrerequisitesExist, Acyclic,
           StartedAfterPrerequisites, DependsOn, IsDone, IsStarted

-----------------------------------------------------------------------------
(* Every step keeps the invariant. *)

\* A step that changes neither files nor what a writer is doing leaves its plan
\* standing; Accepts and Saved read nothing else.
LEMMA SamePlan ==
    ASSUME NEW w \in Writers, NEW id, Accepts(w, id),
           files' = files, req'[w] = req[w]
    PROVE  Accepts(w, id)' /\ Saved(w, id)' = Saved(w, id)
BY DEF Accepts, Saved, ListSucceeds, IsNextId, Present, check, Reaches, DependsOn,
       IsDone, IsStarted

\* Returning, whatever becomes of the lock, keeps the invariant of a writer that
\* had not published or whose task is published.
LEMMA ReturnStep ==
    ASSUME IInv, NEW w \in Writers, Return(w),
           UNCHANGED <<files, tmp, readerVars>>,
           acked' \subseteq [id : Ids, from : 0 .. MaxRevision, task : Task],
           faults' \in 0 .. MaxFaults,
           lock' \in Writers \cup {NoLock, DeadLock},
           pc[w] \notin Critical => \A v \in Writers \ {w} : lock = v => lock' = v
    PROVE  IInv'
<1> USE DEF IInv
<1>1. /\ pc' = [pc EXCEPT ![w] = "idle"]
      /\ req' = [req EXCEPT ![w] = None]
      /\ plan' = [plan EXCEPT ![w] = None]
  BY DEF Return, Goto
<1>2. \A v \in Writers \ {w} : pc'[v] = pc[v] /\ req'[v] = req[v] /\ plan'[v] = plan[v]
  BY <1>1 DEF TypeOK
<1>3. pc'[w] = "idle"
  BY <1>1 DEF TypeOK
<1>4. TypeOK'
  BY <1>1 DEF TypeOK, readerVars
<1>5. WholeFiles' /\ LegalBoard'
  BY DEF WholeFiles, LegalBoard
<1>6. HasRequest' /\ TemporaryWritten' /\ Published'
  BY <1>2, <1>3 DEF HasRequest, TemporaryWritten, Published
<1>7. HoldsLock'
  <2> SUFFICES ASSUME NEW v \in Writers, pc'[v] \in Critical PROVE lock' = v
    BY DEF HoldsLock
  <2>1. v # w /\ pc[v] \in Critical /\ lock = v
    BY <1>2, <1>3 DEF Critical, HoldsLock
  <2>2. pc[w] \notin Critical
    BY <2>1 DEF HoldsLock
  <2> QED BY <2>1, <2>2
<1>8. PlanStands'
  BY <1>2, <1>3, SamePlan DEF PlanStands
<1> QED BY <1>4, <1>5, <1>6, <1>7, <1>8

LEMMA AskStep ==
    ASSUME IInv, NEW w \in Writers, Ask(w)
    PROVE  IInv'
<1> USE DEF IInv
<1>1. /\ pc' = [pc EXCEPT ![w] = "asked"]
      /\ \E r \in Request : req' = [req EXCEPT ![w] = r]
      /\ UNCHANGED <<files, tmp, lock, faults, plan, acked, readerVars>>
  BY DEF Ask, Goto
<1>2. \A v \in Writers \ {w} : pc'[v] = pc[v] /\ req'[v] = req[v]
  BY <1>1 DEF TypeOK
<1>3. pc'[w] = "asked" /\ req'[w] \in Request
  BY <1>1 DEF TypeOK
<1>4. TypeOK'
  BY <1>1 DEF TypeOK, readerVars
<1>5. WholeFiles' /\ LegalBoard'
  BY <1>1 DEF WholeFiles, LegalBoard
<1>6. HasRequest' /\ TemporaryWritten' /\ Published' /\ HoldsLock'
  BY <1>1, <1>2, <1>3 DEF HasRequest, TemporaryWritten, Published, HoldsLock, Critical
<1>7. PlanStands'
  BY <1>1, <1>2, <1>3, SamePlan DEF PlanStands
<1> QED BY <1>4, <1>5, <1>6, <1>7

LEMMA LockStep ==
    ASSUME IInv, NEW w \in Writers, Lock(w)
    PROVE  IInv'
<1> USE DEF IInv
<1>1. /\ pc' = [pc EXCEPT ![w] = "locked"] /\ pc[w] = "asked"
      /\ lock = NoLock /\ lock' = w
      /\ UNCHANGED <<files, tmp, faults, req, plan, acked, readerVars>>
  BY DEF Lock, Goto
<1>2. \A v \in Writers \ {w} : pc'[v] = pc[v]
  BY <1>1 DEF TypeOK
<1>3. pc'[w] = "locked"
  BY <1>1 DEF TypeOK
<1>4. TypeOK'
  BY <1>1 DEF TypeOK, readerVars, Critical
<1>5. WholeFiles' /\ LegalBoard'
  BY <1>1 DEF WholeFiles, LegalBoard
<1>6. HasRequest' /\ TemporaryWritten' /\ Published'
  BY <1>1, <1>2, <1>3 DEF HasRequest, TemporaryWritten, Published
<1>7. HoldsLock'
  BY <1>1, <1>2, <1>3, Sentinels DEF HoldsLock
<1>8. PlanStands'
  BY <1>1, <1>2, <1>3, SamePlan DEF PlanStands
<1> QED BY <1>4, <1>5, <1>6, <1>7, <1>8

LEMMA PrepareStep ==
    ASSUME IInv, NEW w \in Writers, Prepare(w)
    PROVE  IInv'
<1> USE DEF IInv
<1>1. PICK id \in Ids : /\ Accepts(w, id)
                        /\ plan' = [plan EXCEPT ![w] = [id |-> id, task |-> Saved(w, id)]]
  BY DEF Prepare
<1>2. /\ pc' = [pc EXCEPT ![w] = "prepared"] /\ pc[w] = "locked"
      /\ UNCHANGED <<files, tmp, lock, faults, req, acked, readerVars>>
  BY DEF Prepare, Goto
<1>3. \A v \in Writers \ {w} : pc'[v] = pc[v] /\ plan'[v] = plan[v]
  BY <1>1, <1>2 DEF TypeOK
<1>4. pc'[w] = "prepared" /\ plan'[w] = [id |-> id, task |-> Saved(w, id)]
  BY <1>1, <1>2 DEF TypeOK
<1>5. Saved(w, id) \in Task
  BY <1>1, <1>2, SavedIsTask
<1>6. plan'[w] \in Plan
  BY <1>4, <1>5 DEF Plan
<1>7. TypeOK'
  BY <1>1, <1>2, <1>6, <1>4 DEF TypeOK, readerVars, Critical
<1>8. WholeFiles' /\ LegalBoard'
  BY <1>2 DEF WholeFiles, LegalBoard
<1>9. HasRequest' /\ TemporaryWritten' /\ Published' /\ HoldsLock'
  BY <1>2, <1>3, <1>4 DEF HasRequest, TemporaryWritten, Published, HoldsLock, Critical
<1>10. PlanStands'
  <2> SUFFICES ASSUME NEW v \in Writers, pc'[v] \in {"prepared", "opened", "written"}
               PROVE  (/\ plan[v] \in Plan
                       /\ Accepts(v, plan[v].id)
                       /\ plan[v].task = Saved(v, plan[v].id))'
    BY DEF PlanStands
  <2>1. CASE v = w
    BY <2>1, <1>1, <1>2, <1>4, <1>6
       DEF Accepts, Saved, ListSucceeds, IsNextId, Present, check, Reaches,
           DependsOn, IsDone, IsStarted
  <2>2. CASE v # w
    BY <2>2, <1>2, <1>3, SamePlan DEF PlanStands
  <2> QED BY <2>1, <2>2
<1> QED BY <1>7, <1>8, <1>9, <1>10

\* The steps on the temporary file: no other writer is between list and rename.
LEMMA TemporaryStep ==
    ASSUME IInv, NEW w \in Writers, OpenTemporary(w) \/ WriteTemporary(w)
    PROVE  IInv'
<1> USE DEF IInv
<1>1. /\ pc[w] \in {"prepared", "opened"}
      /\ \E t \in {Torn, plan[w].task} : tmp' = [tmp EXCEPT ![plan[w].id] = t]
      /\ pc' = [pc EXCEPT ![w] = "opened"] \/ pc' = [pc EXCEPT ![w] = "written"]
      /\ pc'[w] = "written" => tmp' = [tmp EXCEPT ![plan[w].id] = plan[w].task]
      /\ UNCHANGED <<files, lock, faults, req, plan, acked, readerVars>>
  BY DEF OpenTemporary, WriteTemporary, Goto, TypeOK
<1>2. \A v \in Writers \ {w} : pc'[v] = pc[v] /\ pc[v] \notin Critical
  BY <1>1 DEF TypeOK, HoldsLock, Critical
<1>3. pc'[w] \in {"opened", "written"}
  BY <1>1 DEF TypeOK
<1>4. plan[w] \in Plan
  BY <1>1 DEF PlanStands
<1>5. tmp' \in [Ids -> File]
  BY <1>1, <1>4 DEF TypeOK, File, Plan
<1>6. TypeOK'
  BY <1>1, <1>5 DEF TypeOK, readerVars, Critical
<1>7. WholeFiles' /\ LegalBoard'
  BY <1>1 DEF WholeFiles, LegalBoard
<1>8. HasRequest' /\ Published' /\ HoldsLock'
  BY <1>1, <1>2, <1>3 DEF HasRequest, Published, HoldsLock, Critical
<1>9. TemporaryWritten'
  BY <1>1, <1>2, <1>4 DEF TemporaryWritten, TypeOK, Plan, Critical
<1>10. PlanStands'
  BY <1>1, <1>2, SamePlan DEF PlanStands, Critical
<1> QED BY <1>6, <1>7, <1>8, <1>9, <1>10

\* What Rename does to files.
LEMMA RenamePublishes ==
    ASSUME IInv, NEW w \in Writers, Rename(w)
    PROVE  /\ plan[w] \in Plan
           /\ Accepts(w, plan[w].id)
           /\ plan[w].task = Saved(w, plan[w].id)
           /\ files' = [files EXCEPT ![plan[w].id] = plan[w].task]
BY DEF IInv, Rename, PlanStands, TemporaryWritten

LEMMA RenameStep ==
    ASSUME IInv, NEW w \in Writers, Rename(w)
    PROVE  IInv'
<1> USE DEF IInv
<1> DEFINE id == plan[w].id
           task == plan[w].task
<1>1. /\ pc[w] = "written"
      /\ tmp' = [tmp EXCEPT ![id] = Absent]
      /\ pc' = [pc EXCEPT ![w] = "renamed"]
      /\ UNCHANGED <<lock, faults, req, plan, acked, readerVars>>
  BY DEF Rename, Goto
<1>2. /\ id \in Ids /\ task \in Task /\ plan[w] \in Plan
      /\ files' = [files EXCEPT ![id] = task]
      /\ Accepts(w, id) /\ task = Saved(w, id)
  BY RenamePublishes DEF Plan
<1>3. \A v \in Writers \ {w} : pc'[v] = pc[v] /\ pc[v] \notin Critical
  BY <1>1 DEF TypeOK, HoldsLock, Critical
<1>4. pc'[w] = "renamed"
  BY <1>1 DEF TypeOK
<1>5. task.revision <= MaxRevision /\ task.content = req[w].content
  BY <1>1, <1>2, SavedIsTask
<1>6. /\ files' \in [Ids -> File]
      /\ \A i \in Ids : files'[i] \in Task => files'[i].revision <= MaxRevision
  BY <1>2, <1>5 DEF TypeOK, File
<1>7. TypeOK'
  BY <1>1, <1>6 DEF TypeOK, readerVars, Critical, File
<1>8. WholeFiles'
  BY <1>2 DEF WholeFiles, TypeOK
<1>9. LegalBoard'
  <2>1. check(id, task.content)
    BY <1>2, <1>5 DEF Accepts
  <2> QED BY <2>1, <1>2, SaveKeepsLegal DEF TypeOK
<1>10. HasRequest' /\ HoldsLock' /\ TemporaryWritten' /\ PlanStands'
  BY <1>1, <1>3, <1>4 DEF HasRequest, HoldsLock, TemporaryWritten, PlanStands, Critical
<1>11. Published'
  BY <1>1, <1>2, <1>3, <1>4 DEF Published, Critical, TypeOK
<1> QED BY <1>7, <1>8, <1>9, <1>10, <1>11

LEMMA AcknowledgeStep ==
    ASSUME IInv, NEW w \in Writers, Acknowledge(w)
    PROVE  IInv'
<1> USE DEF IInv
<1>1. plan[w] \in Plan /\ req[w] \in Request
  BY DEF Acknowledge, Published, HasRequest
<1>2. [id |-> plan[w].id,
       from |-> IF req[w].op = "create" THEN 0 ELSE req[w].revision,
       task |-> plan[w].task] \in [id : Ids, from : 0 .. MaxRevision, task : Task]
  BY <1>1, WorkStoreAssumption DEF Plan, Request
<1>3. acked' \subseteq [id : Ids, from : 0 .. MaxRevision, task : Task]
  BY <1>2 DEF Acknowledge, TypeOK
<1>4. faults' \in 0 .. MaxFaults /\ lock' \in Writers \cup {NoLock, DeadLock}
  BY WorkStoreAssumption DEF Acknowledge, Unlock, Fault, TypeOK
<1>5. pc[w] \in Critical
  BY DEF Acknowledge, Critical
<1> QED BY <1>3, <1>4, <1>5, ReturnStep DEF Acknowledge

\* The ways a command ends without publishing.
LEMMA EndStep ==
    ASSUME IInv, NEW w \in Writers,
           RefuseName(w) \/ LockBusy(w) \/ Reject(w) \/ SaveFails(w) \/ Crash(w)
    PROVE  IInv'
<1> USE DEF IInv
<1>1. Return(w) /\ UNCHANGED <<files, tmp, acked, readerVars>>
  BY DEF RefuseName, LockBusy, Reject, SaveFails, Crash
<1>2. faults' \in 0 .. MaxFaults /\ lock' \in Writers \cup {NoLock, DeadLock}
  BY WorkStoreAssumption
     DEF RefuseName, LockBusy, Reject, SaveFails, Crash, Unlock, Fault, TypeOK
<1>3. acked' \subseteq [id : Ids, from : 0 .. MaxRevision, task : Task]
  BY <1>1 DEF TypeOK
<1>4. CASE pc[w] \in Critical
  BY <1>1, <1>2, <1>3, <1>4, ReturnStep
<1>5. CASE pc[w] \notin Critical
  <2>1. RefuseName(w) \/ LockBusy(w) \/ Crash(w)
    BY <1>5 DEF Reject, SaveFails, Critical
  <2>2. ASSUME NEW v \in Writers, lock = v, v # w PROVE lock' = v
    BY <2>1, <2>2 DEF RefuseName, LockBusy, Crash
  <2> QED BY <2>2, <1>1, <1>2, <1>3, ReturnStep
<1> QED BY <1>4, <1>5

\* Steps that touch neither the writers nor the files they write.
LEMMA ReaderStep ==
    ASSUME IInv, ClearDeadLock \/ \E r \in Readers : Read(r)
    PROVE  IInv'
<1> USE DEF IInv
<1>1. UNCHANGED <<files, tmp, faults, writerVars>>
  BY DEF ClearDeadLock, Read, BeginBoard, ReadTask, ShowBoard, CloseBoard
<1>2. lock' = lock \/ (lock = DeadLock /\ lock' = NoLock)
  BY DEF ClearDeadLock, Read, BeginBoard, ReadTask, ShowBoard, CloseBoard
<1>3. /\ rpc' \in [Readers -> {"idle", "reading", "shown"}]
      /\ listed' \in [Readers -> SUBSET Ids]
  BY DEF ClearDeadLock, Read, BeginBoard, ReadTask, ShowBoard, CloseBoard, TypeOK,
         readerVars, Present
<1>4. rows' \in [Readers -> [Ids -> File]]
  <2>1. CASE UNCHANGED rows
    BY <2>1 DEF TypeOK
  <2>2. ASSUME NEW r \in Readers, ReadTask(r) PROVE rows' \in [Readers -> [Ids -> File]]
    <3>1. PICK i \in Ids : rows' = [rows EXCEPT ![r] = [@ EXCEPT ![i] = files[i]]]
      BY <2>2 DEF ReadTask, Present
    <3>2. [rows[r] EXCEPT ![i] = files[i]] \in [Ids -> File]
      BY DEF TypeOK
    <3> QED BY <3>1, <3>2 DEF TypeOK
  <2>3. ASSUME NEW r \in Readers, CloseBoard(r) PROVE rows' \in [Readers -> [Ids -> File]]
    <3>1. [i \in Ids |-> Absent] \in [Ids -> File]
      BY DEF File
    <3> QED BY <2>3, <3>1 DEF TypeOK, CloseBoard
  <2> QED BY <2>1, <2>2, <2>3
          DEF ClearDeadLock, Read, BeginBoard, ShowBoard, readerVars
<1>5. TypeOK'
  BY <1>1, <1>2, <1>3, <1>4 DEF TypeOK, writerVars
<1>6. WholeFiles' /\ LegalBoard'
  BY <1>1 DEF WholeFiles, LegalBoard
<1>7. HasRequest' /\ TemporaryWritten' /\ Published'
  BY <1>1 DEF HasRequest, TemporaryWritten, Published, writerVars
<1>8. HoldsLock'
  BY <1>1, <1>2, Sentinels DEF HoldsLock, writerVars
<1>9. PlanStands'
  BY <1>1, SamePlan DEF PlanStands, writerVars
<1> QED BY <1>5, <1>6, <1>7, <1>8, <1>9

LEMMA NextIInv == IInv /\ [Next]_vars => IInv'
<1> SUFFICES ASSUME IInv, [Next]_vars PROVE IInv'
  OBVIOUS
<1>1. ASSUME NEW w \in Writers, Ask(w) PROVE IInv'
  BY <1>1, AskStep
<1>2. ASSUME NEW w \in Writers, Work(w) PROVE IInv'
  BY <1>2, LockStep, PrepareStep, TemporaryStep, RenameStep, AcknowledgeStep, EndStep
     DEF Work
<1>3. ASSUME NEW w \in Writers, Crash(w) PROVE IInv'
  BY <1>3, EndStep
<1>4. CASE ClearDeadLock \/ \E r \in Readers : Read(r)
  BY <1>4, ReaderStep
<1>5. CASE UNCHANGED vars
  <2> USE <1>5 DEF vars, writerVars, readerVars
  <2>1. TypeOK' /\ WholeFiles' /\ LegalBoard'
    BY DEF IInv, TypeOK, WholeFiles, LegalBoard
  <2>2. HasRequest' /\ TemporaryWritten' /\ Published' /\ HoldsLock'
    BY DEF IInv, HasRequest, TemporaryWritten, Published, HoldsLock
  <2>3. PlanStands'
    BY SamePlan DEF IInv, PlanStands
  <2> QED BY <2>1, <2>2, <2>3 DEF IInv
<1> QED BY <1>1, <1>2, <1>3, <1>4, <1>5 DEF Next

LEMMA AlwaysIInv == Spec => []IInv
BY InitIInv, NextIInv, PTL DEF Spec

-----------------------------------------------------------------------------
(* Theorems *)

\* Every variable of the store keeps its type, and no revision passes its limit.
THEOREM TypesHold == Spec => []TypeOK
<1>1. IInv => TypeOK
  BY DEF IInv
<1> QED BY <1>1, AlwaysIInv, PTL

\* Store::lock: no two commands are between listing and rename at the same time.
THEOREM LockExcludes == Spec => []OneWriter
<1>1. IInv => OneWriter
  BY DEF IInv, HoldsLock, OneWriter
<1> QED BY <1>1, AlwaysIInv, PTL

\* Store::check, deciding on a listing, keeps the rules between tasks for ever:
\* prerequisites exist, form no cycle, and are done before a dependent starts.
THEOREM RulesHold == Spec => []LegalBoard
<1>1. IInv => LegalBoard
  BY DEF IInv
<1> QED BY <1>1, AlwaysIInv, PTL

\* Store::save: no crash or failure publishes a half-written task.
THEOREM NothingTorn == Spec => []NoTornTask
<1>1. IInv => NoTornTask
  BY Sentinels DEF IInv, WholeFiles, NoTornTask
<1> QED BY <1>1, AlwaysIInv, PTL

-----------------------------------------------------------------------------
(* The files implement the abstract board. *)

\* The abstract board speaks of the same data and rules.
LEMMA SameData ==
    /\ Board!Ids = Ids
    /\ Board!Draft = Draft
    /\ Board!Task = Task
BY DEF Board!Ids, Ids, Board!Draft, Draft, Board!Task, Task, Board!Change, Change,
       Board!State, State

LEMMA SameRules ==
    ASSUME NEW board
    PROVE  /\ Board!Legal(board) <=> Legal(board)
           /\ \A content : Board!validate(content) <=> validate(content)
<1>1. \A i : /\ Board!DependsOn(board, i) = DependsOn(board, i)
             /\ Board!IsDone(board, i) <=> IsDone(board, i)
             /\ Board!IsStarted(board, i) <=> IsStarted(board, i)
  BY SameData DEF Board!DependsOn, DependsOn, Board!IsDone, IsDone,
                  Board!IsStarted, IsStarted, Board!Started, Started
<1>2. Board!PrerequisitesExist(board) <=> PrerequisitesExist(board)
  BY <1>1, SameData DEF Board!PrerequisitesExist, PrerequisitesExist
<1>3. Board!Acyclic(board) <=> Acyclic(board)
  BY <1>1, SameData DEF Board!Acyclic, Acyclic
<1>4. Board!StartedAfterPrerequisites(board) <=> StartedAfterPrerequisites(board)
  BY <1>1, SameData DEF Board!StartedAfterPrerequisites, StartedAfterPrerequisites
<1>5. \A content : Board!validate(content) <=> validate(content)
  BY DEF Board!validate, validate
<1> QED BY <1>2, <1>3, <1>4, <1>5 DEF Board!Legal, Legal

LEMMA InitBoard == Init => Board!Init
BY DEF Init, Board!Init, Board!Ids, Ids

\* Only Rename writes files.
LEMMA OnlyRenamePublishes ==
    ASSUME Next
    PROVE  UNCHANGED files \/ \E w \in Writers : Rename(w)
BY DEF Next, Ask, Work, Crash, RefuseName, LockBusy, Lock, Prepare, Reject,
       OpenTemporary, WriteTemporary, SaveFails, Acknowledge, ClearDeadLock, Read,
       BeginBoard, ReadTask, ShowBoard, CloseBoard

LEMMA RenameRefines ==
    ASSUME IInv, IInv', NEW w \in Writers, Rename(w)
    PROVE  Board!Next
<1> DEFINE id == plan[w].id
           content == req[w].content
<1>1. /\ id \in Ids /\ Accepts(w, id) /\ plan[w].task = Saved(w, id)
      /\ files' = [files EXCEPT ![id] = Saved(w, id)]
  BY RenamePublishes DEF Plan
<1>2. req[w] \in Request /\ content \in Inputs
  BY DEF IInv, HasRequest, Rename, Request
<1>3. validate(content)
  BY <1>1 DEF Accepts, check
<1>4. Legal(files)'
  BY DEF IInv, LegalBoard
<1>5. Board!Legal(files')
  BY <1>4, SameRules DEF Legal, PrerequisitesExist, Acyclic,
     StartedAfterPrerequisites, DependsOn, IsDone, IsStarted
<1>6. Board!Create(id, content, w) \/ Board!Update(id, content, w)
  <2>1. CASE req[w].op = "create"
    <3>1. \A j \in Ids : files[j] # Absent => j < id
      BY <1>1, <2>1 DEF Accepts, IsNextId, Present
    <3>2. files[id] = Absent
      BY <3>1, <1>1 DEF Ids
    <3>3. \A j \in Ids : files[j] \in Task => j < id
      BY <3>1, Sentinels
    <3> QED
      BY <3>2, <3>3, <1>1, <2>1, SameData DEF Board!Create, Saved, Created
  <2>2. CASE req[w].op # "create"
    <3>1. files[id] \in Task
      BY <1>1, <2>2 DEF Accepts, Present, IInv, WholeFiles
    <3>2. files' = [files EXCEPT ![id] =
              [revision |-> files[id].revision + 1, content |-> content, author |-> w,
               history  |-> Append(files[id].history,
                   [author |-> files[id].author, previous |-> files[id].content])]]
      BY <1>1, <2>2 DEF Saved, Updated
    <3> QED
      BY <3>1, <3>2, SameData DEF Board!Update
  <2> QED BY <2>1, <2>2
<1>7. Board!validate(content)
  BY <1>3, SameRules
<1>8. id \in Board!Ids /\ content \in Inputs /\ w \in Authors
  BY <1>1, <1>2, SameData
<1> QED BY <1>5, <1>6, <1>7, <1>8 DEF Board!Next

\* The store on disk implements the abstract board: whatever commands, crashes
\* and failures do, the published files change by one legal revision at a time.
THEOREM StoreImplementsBoard == Spec => RefinesTaskBoard
<1>1. IInv /\ IInv' /\ [Next]_vars => [Board!Next]_files
  <2> SUFFICES ASSUME IInv, IInv', Next PROVE Board!Next \/ UNCHANGED files
    BY DEF vars
  <2> QED BY OnlyRenamePublishes, RenameRefines
<1> QED BY <1>1, InitBoard, AlwaysIInv, PTL DEF Spec, RefinesTaskBoard, Board!Spec

-----------------------------------------------------------------------------
(* What callers were told. *)

\* A task has one entry of history for each revision before its own.
Numbered(task) == Len(task.history) = task.revision - 1

\* Every revision of `task` is a revision of `later`, under the same number.
Kept(task, later) ==
    /\ Numbered(task)
    /\ task.revision <= later.revision
    /\ \A k \in 1 .. task.revision : Revisions(later)[k] = Revisions(task)[k]

\* The revision a writer was shown when it asked, 0 when it creates.
From(w) == IF req[w].op = "create" THEN 0 ELSE req[w].revision

FilesNumbered == \A i \in Ids : files[i] \in Task => Numbered(files[i])

\* What is renamed and not yet acknowledged follows the revision the caller read.
PublishedNext ==
    \A w \in Writers : pc[w] = "renamed" => plan[w].task.revision = From(w) + 1

AckedKept ==
    \A p \in acked :
        /\ p.task.revision = p.from + 1
        /\ files[p.id] \in Task
        /\ Kept(p.task, files[p.id])

RowsKept ==
    \A r \in Readers, i \in Ids : rows[r][i] # Absent =>
        /\ rows[r][i] \in Task /\ files[i] \in Task
        /\ Kept(rows[r][i], files[i])

HInv == FilesNumbered /\ PublishedNext /\ AckedKept /\ RowsKept

-----------------------------------------------------------------------------
(* Revisions of one task and of the next. *)

LEMMA RevisionsOfTask ==
    ASSUME NEW task \in Task, Numbered(task)
    PROVE  /\ Revisions(task) \in Seq(Change)
           /\ Len(Revisions(task)) = task.revision
           /\ Revisions(task)[task.revision] =
                  [author |-> task.author, previous |-> task.content]
           /\ \A k \in 1 .. task.revision - 1 : Revisions(task)[k] = task.history[k]
<1> DEFINE last == [author |-> task.author, previous |-> task.content]
<1>1. /\ task.history \in Seq(Change) /\ last \in Change
      /\ task.revision \in Nat \ {0} /\ Len(task.history) = task.revision - 1
  BY DEF Task, Change, Numbered
<1>2. Revisions(task) = Append(task.history, last)
  BY DEF Revisions
<1> HIDE DEF last
<1>3. /\ Append(task.history, last) \in Seq(Change)
      /\ Len(Append(task.history, last)) = task.revision
      /\ Append(task.history, last)[task.revision] = last
      /\ \A k \in 1 .. task.revision - 1 : Append(task.history, last)[k] = task.history[k]
  BY <1>1, AppendProperties
<1> QED BY <1>2, <1>3 DEF last

LEMMA KeptSelf ==
    ASSUME NEW task \in Task, Numbered(task)
    PROVE  Kept(task, task)
BY DEF Kept, Task

\* An update keeps what its file kept.
LEMMA KeptAfterUpdate ==
    ASSUME NEW old \in Task, Numbered(old), NEW next \in Task,
           next.revision = old.revision + 1, next.history = Revisions(old)
    PROVE  /\ Numbered(next)
           /\ \A task \in Task : Kept(task, old) => Kept(task, next)
<1>1. Len(Revisions(old)) = old.revision /\ old.revision \in Nat /\ next.revision \in Nat \ {0}
  BY RevisionsOfTask DEF Task
<1>2. Numbered(next)
  BY <1>1 DEF Numbered
<1>3. ASSUME NEW task \in Task, Kept(task, old)
      PROVE  Kept(task, next)
  <2>1. task.revision \in Nat \ {0} /\ task.revision <= old.revision
    BY <1>3 DEF Kept, Task
  <2>2. ASSUME NEW k \in 1 .. task.revision
        PROVE  Revisions(next)[k] = Revisions(old)[k]
    <3>1. k \in 1 .. next.revision - 1
      BY <1>1, <2>1
    <3>2. Revisions(next)[k] = next.history[k]
      BY <1>2, <3>1, RevisionsOfTask
    <3> QED BY <3>2
  <2> QED BY <1>1, <1>3, <2>1, <2>2 DEF Kept
<1> QED BY <1>2, <1>3

\* Two tasks kept by one file are the same task when they have the same number.
LEMMA KeptDetermines ==
    ASSUME NEW task \in Task, NEW other \in Task, NEW later \in Task,
           Kept(task, later), Kept(other, later), task.revision = other.revision
    PROVE  task = other
<1>1. /\ Numbered(task) /\ Numbered(other) /\ task.revision \in Nat \ {0}
      /\ \A k \in 1 .. task.revision : Revisions(task)[k] = Revisions(other)[k]
  BY DEF Kept, Task
<1>2. ASSUME NEW k \in 1 .. task.revision - 1
      PROVE  task.history[k] = other.history[k]
  <2>1. Revisions(task)[k] = task.history[k] /\ Revisions(other)[k] = other.history[k]
    BY <1>1, RevisionsOfTask
  <2>2. k \in 1 .. task.revision
    BY <1>1
  <2> QED BY <1>1, <2>1, <2>2
<1>3. task.history \in Seq(Change) /\ other.history \in Seq(Change)
  BY DEF Task
<1>4. Len(task.history) = task.revision - 1 /\ Len(other.history) = task.revision - 1
  BY <1>1 DEF Numbered
<1>5. task.history = other.history
  BY <1>2, <1>3, <1>4, SeqEqual
<1>6. [author |-> task.author, previous |-> task.content] =
      [author |-> other.author, previous |-> other.content]
  BY <1>1, RevisionsOfTask
<1>7. task.author = other.author /\ task.content = other.content
  BY <1>6
<1> QED BY <1>5, <1>7 DEF Task

-----------------------------------------------------------------------------
(* Every step keeps what was told. *)

LEMMA InitHInv == Init => HInv
<1> SUFFICES ASSUME Init PROVE HInv
  OBVIOUS
<1>1. FilesNumbered /\ RowsKept
  BY Sentinels DEF Init, FilesNumbered, RowsKept
<1>2. PublishedNext /\ AckedKept
  BY DEF Init, PublishedNext, AckedKept
<1> QED BY <1>1, <1>2 DEF HInv

\* What Rename saves has the next number, and keeps what the file kept.
LEMMA RenameContinues ==
    ASSUME IInv, HInv, NEW w \in Writers, Rename(w)
    PROVE  LET id == plan[w].id
               task == plan[w].task
           IN  /\ id \in Ids /\ task \in Task /\ Numbered(task)
               /\ task.revision = From(w) + 1
               /\ files[id] \in Task =>
                      \A t \in Task : Kept(t, files[id]) => Kept(t, task)
<1> DEFINE id == plan[w].id
           task == plan[w].task
<1>1. id \in Ids /\ task \in Task /\ Accepts(w, id) /\ task = Saved(w, id)
  BY RenamePublishes DEF Plan
<1>2. CASE req[w].op = "create"
  <2>1. task.revision = 1 /\ task.history = <<>>
    BY <1>1, <1>2 DEF Saved, Created
  <2>2. \A j \in Ids : files[j] # Absent => j < id
    BY <1>1, <1>2 DEF Accepts, IsNextId, Present
  <2>3. files[id] = Absent
    BY <1>1, <2>2 DEF Ids
  <2> QED BY <1>1, <1>2, <2>1, <2>3, Sentinels DEF From, Numbered
<1>3. CASE req[w].op # "create"
  <2>1. files[id] \in Task /\ files[id].revision = req[w].revision
    BY <1>1, <1>3 DEF Accepts, Present, IInv, WholeFiles
  <2>2. task.revision = files[id].revision + 1 /\ task.history = Revisions(files[id])
    BY <1>1, <1>3 DEF Saved, Updated, Revisions
  <2>3. Numbered(files[id])
    BY <1>1, <2>1 DEF HInv, FilesNumbered
  <2> QED BY <1>1, <1>3, <2>1, <2>2, <2>3, KeptAfterUpdate DEF From
<1> QED BY <1>2, <1>3

LEMMA RenameKeeps ==
    ASSUME IInv, HInv, NEW w \in Writers, Rename(w)
    PROVE  HInv'
<1> DEFINE id == plan[w].id
           task == plan[w].task
<1>1. /\ id \in Ids /\ task \in Task /\ Numbered(task) /\ task.revision = From(w) + 1
      /\ files[id] \in Task => \A t \in Task : Kept(t, files[id]) => Kept(t, task)
  BY RenameContinues
<1>2. files' = [files EXCEPT ![id] = task]
  BY RenamePublishes
<1>3. /\ pc' = [pc EXCEPT ![w] = "renamed"]
      /\ UNCHANGED <<req, plan, acked, rows>>
  BY DEF Rename, Goto, readerVars
<1>4. files'[id] = task /\ \A i \in Ids \ {id} : files'[i] = files[i]
  BY <1>1, <1>2 DEF IInv, TypeOK
<1>5. FilesNumbered'
  BY <1>1, <1>4 DEF HInv, FilesNumbered, Numbered
<1>6. PublishedNext'
  <2>1. \A v \in Writers \ {w} : pc'[v] = pc[v]
    BY <1>3 DEF IInv, TypeOK
  <2> QED BY <1>1, <1>3, <2>1 DEF HInv, PublishedNext, From
<1>7. AckedKept'
  <2> SUFFICES ASSUME NEW p \in acked
               PROVE  /\ p.task.revision = p.from + 1
                      /\ files'[p.id] \in Task
                      /\ Kept(p.task, files'[p.id])
    BY <1>3 DEF AckedKept, Kept, Numbered, Revisions
  <2>1. p.id \in Ids /\ p.task \in Task
    BY DEF IInv, TypeOK
  <2>2. p.task.revision = p.from + 1 /\ files[p.id] \in Task /\ Kept(p.task, files[p.id])
    BY DEF HInv, AckedKept
  <2> QED BY <1>1, <1>4, <2>1, <2>2
<1>8. RowsKept'
  <2> SUFFICES ASSUME NEW r \in Readers, NEW i \in Ids, rows[r][i] # Absent
               PROVE  /\ rows[r][i] \in Task /\ files'[i] \in Task
                      /\ Kept(rows[r][i], files'[i])
    BY <1>3 DEF RowsKept, Kept, Numbered, Revisions
  <2>1. rows[r][i] \in Task /\ files[i] \in Task /\ Kept(rows[r][i], files[i])
    BY DEF HInv, RowsKept
  <2> QED BY <1>1, <1>4, <2>1
<1> QED BY <1>5, <1>6, <1>7, <1>8 DEF HInv

LEMMA AcknowledgeKeeps ==
    ASSUME IInv, HInv, NEW w \in Writers, Acknowledge(w)
    PROVE  HInv'
<1> DEFINE p == [id |-> plan[w].id, from |-> From(w), task |-> plan[w].task]
<1>1. /\ acked' = acked \cup {p}
      /\ pc[w] = "renamed" /\ pc' = [pc EXCEPT ![w] = "idle"]
      /\ req' = [req EXCEPT ![w] = None] /\ plan' = [plan EXCEPT ![w] = None]
      /\ UNCHANGED <<files, rows>>
  BY DEF Acknowledge, Return, Goto, From, readerVars
<1>2. FilesNumbered' /\ RowsKept'
  BY <1>1 DEF HInv, FilesNumbered, RowsKept, Numbered, Kept, Revisions
<1>3. PublishedNext'
  <2>1. /\ pc'[w] = "idle"
        /\ \A v \in Writers \ {w} :
               pc'[v] = pc[v] /\ req'[v] = req[v] /\ plan'[v] = plan[v]
    BY <1>1 DEF IInv, TypeOK
  <2> QED BY <2>1 DEF HInv, PublishedNext, From
<1>4. /\ plan[w].task.revision = From(w) + 1
      /\ plan[w].id \in Ids /\ plan[w].task \in Task
      /\ files[plan[w].id] = plan[w].task
  BY <1>1 DEF HInv, PublishedNext, IInv, Published, Plan
<1>5. Kept(p.task, files[p.id])
  BY <1>4, KeptSelf DEF HInv, FilesNumbered
<1>6. AckedKept'
  <2> SUFFICES ASSUME NEW q \in acked'
               PROVE  /\ q.task.revision = q.from + 1
                      /\ files[q.id] \in Task
                      /\ Kept(q.task, files[q.id])
    BY <1>1 DEF AckedKept, Kept, Numbered, Revisions
  <2> QED BY <1>1, <1>4, <1>5 DEF HInv, AckedKept
<1> QED BY <1>2, <1>3, <1>6 DEF HInv

\* A row is read from the file as it is.
LEMMA ReadTaskKeeps ==
    ASSUME IInv, HInv, NEW r \in Readers, ReadTask(r)
    PROVE  HInv'
<1>1. PICK i \in Present : rows' = [rows EXCEPT ![r] = [@ EXCEPT ![i] = files[i]]]
  BY DEF ReadTask
<1>2. UNCHANGED <<files, pc, req, plan, acked>>
  BY DEF ReadTask, writerVars
<1>3. FilesNumbered' /\ PublishedNext' /\ AckedKept'
  BY <1>2 DEF HInv, FilesNumbered, PublishedNext, AckedKept, Numbered, Kept, Revisions, From
<1>4. i \in Ids /\ files[i] \in Task /\ Kept(files[i], files[i])
  BY KeptSelf DEF Present, IInv, WholeFiles, HInv, FilesNumbered
<1>5. RowsKept'
  <2> SUFFICES ASSUME NEW s \in Readers, NEW j \in Ids, rows'[s][j] # Absent
               PROVE  /\ rows'[s][j] \in Task /\ files[j] \in Task
                      /\ Kept(rows'[s][j], files[j])
    BY <1>2 DEF RowsKept, Kept, Numbered, Revisions
  <2>1. CASE s = r /\ j = i
    <3>1. rows'[s][j] = files[i]
      BY <1>1, <1>4, <2>1 DEF IInv, TypeOK
    <3> QED BY <1>4, <2>1, <3>1
  <2>2. CASE ~(s = r /\ j = i)
    <3>1. rows'[s][j] = rows[s][j]
      BY <1>1, <1>4, <2>2 DEF IInv, TypeOK
    <3> QED BY <3>1 DEF HInv, RowsKept
  <2> QED BY <2>1, <2>2
<1> QED BY <1>3, <1>5 DEF HInv

\* A board that is closed forgets its rows.
LEMMA CloseBoardKeeps ==
    ASSUME IInv, HInv, NEW r \in Readers, CloseBoard(r)
    PROVE  HInv'
<1>1. /\ rows' = [rows EXCEPT ![r] = [i \in Ids |-> Absent]]
      /\ UNCHANGED <<files, pc, req, plan, acked>>
  BY DEF CloseBoard, writerVars
<1>2. FilesNumbered' /\ PublishedNext' /\ AckedKept'
  BY <1>1 DEF HInv, FilesNumbered, PublishedNext, AckedKept, Numbered, Kept, Revisions, From
<1>3. \A s \in Readers, j \in Ids : rows'[s][j] # Absent => rows'[s][j] = rows[s][j]
  BY <1>1 DEF IInv, TypeOK
<1>4. RowsKept'
  <2> SUFFICES ASSUME NEW s \in Readers, NEW j \in Ids, rows'[s][j] # Absent
               PROVE  /\ rows'[s][j] \in Task /\ files[j] \in Task
                      /\ Kept(rows'[s][j], files[j])
    BY <1>1 DEF RowsKept, Kept, Numbered, Revisions
  <2> QED BY <1>3 DEF HInv, RowsKept
<1> QED BY <1>2, <1>4 DEF HInv

\* The other steps tell nobody anything: a writer comes to "renamed" by Rename only.
LEMMA QuietStep ==
    ASSUME IInv, HInv, UNCHANGED <<files, acked, rows>>,
           \A w \in Writers : pc'[w] = "renamed" =>
               pc[w] = "renamed" /\ req'[w] = req[w] /\ plan'[w] = plan[w]
    PROVE  HInv'
<1>1. FilesNumbered' /\ AckedKept' /\ RowsKept'
  BY DEF HInv, FilesNumbered, AckedKept, RowsKept, Numbered, Kept, Revisions
<1>2. PublishedNext'
  BY DEF HInv, PublishedNext, From
<1> QED BY <1>1, <1>2 DEF HInv

LEMMA WriterStep ==
    ASSUME IInv, HInv, NEW w \in Writers, Ask(w) \/ Work(w) \/ Crash(w)
    PROVE  HInv'
<1>1. CASE Rename(w)
  BY <1>1, RenameKeeps
<1>2. CASE Acknowledge(w)
  BY <1>2, AcknowledgeKeeps
<1>3. CASE ~Rename(w) /\ ~Acknowledge(w)
  <2>1. UNCHANGED <<files, acked, rows>>
    BY <1>3 DEF Ask, Work, Crash, RefuseName, LockBusy, Lock, Prepare, Reject,
        OpenTemporary, WriteTemporary, SaveFails, readerVars
  <2>2. \E point \in {"idle", "asked", "locked", "prepared", "opened", "written"} :
            pc' = [pc EXCEPT ![w] = point]
    BY <1>3 DEF Ask, Work, Crash, RefuseName, LockBusy, Lock, Prepare, Reject,
        OpenTemporary, WriteTemporary, SaveFails, Return, Goto
  <2>3. \A v \in Writers \ {w} : req'[v] = req[v] /\ plan'[v] = plan[v]
    BY <1>3 DEF Ask, Work, Crash, RefuseName, LockBusy, Lock, Prepare, Reject,
        OpenTemporary, WriteTemporary, SaveFails, Return, IInv, TypeOK
  <2>4. pc'[w] # "renamed" /\ \A v \in Writers \ {w} : pc'[v] = pc[v]
    BY <2>2 DEF IInv, TypeOK
  <2> QED BY <2>1, <2>3, <2>4, QuietStep
<1> QED BY <1>1, <1>2, <1>3

LEMMA ReaderKeeps ==
    ASSUME IInv, HInv, ClearDeadLock \/ \E r \in Readers : Read(r)
    PROVE  HInv'
<1>1. ASSUME NEW r \in Readers, ReadTask(r) PROVE HInv'
  BY <1>1, ReadTaskKeeps
<1>2. ASSUME NEW r \in Readers, CloseBoard(r) PROVE HInv'
  BY <1>2, CloseBoardKeeps
<1>3. ASSUME ClearDeadLock \/ \E r \in Readers : BeginBoard(r) \/ ShowBoard(r) PROVE HInv'
  <2>1. UNCHANGED <<files, acked, rows, pc, req, plan>>
    BY <1>3 DEF ClearDeadLock, BeginBoard, ShowBoard, writerVars, readerVars
  <2> QED BY <2>1, QuietStep
<1> QED BY <1>1, <1>2, <1>3 DEF Read

LEMMA NextHInv == IInv /\ HInv /\ [Next]_vars => HInv'
<1> SUFFICES ASSUME IInv, HInv, [Next]_vars PROVE HInv'
  OBVIOUS
<1>1. ASSUME NEW w \in Writers, Ask(w) \/ Work(w) \/ Crash(w) PROVE HInv'
  BY <1>1, WriterStep
<1>2. CASE ClearDeadLock \/ \E r \in Readers : Read(r)
  BY <1>2, ReaderKeeps
<1>3. CASE UNCHANGED vars
  <2>1. UNCHANGED <<files, acked, rows, pc, req, plan>>
    BY <1>3 DEF vars, writerVars, readerVars
  <2> QED BY <2>1, QuietStep
<1> QED BY <1>1, <1>2, <1>3 DEF Next

LEMMA AlwaysHInv == Spec => [](IInv /\ HInv)
BY InitIInv, InitHInv, NextIInv, NextHInv, PTL DEF Spec

-----------------------------------------------------------------------------
(* Theorems *)

\* work.rs:183-202 and 366-382: every revision that a caller was told it had saved,
\* and every row of a board, stays in its file under its number.
THEOREM WhatIsToldIsKept == Spec => []ToldIsKept
<1>1. ASSUME IInv, HInv, NEW task \in Task, NEW later \in Task, Kept(task, later)
      PROVE  /\ task.revision <= later.revision
             /\ Revisions(later)[task.revision] =
                    [author |-> task.author, previous |-> task.content]
  <2>1. Numbered(task) /\ task.revision \in 1 .. task.revision
    BY <1>1 DEF Kept, Task
  <2> QED BY <1>1, <2>1, RevisionsOfTask DEF Kept
<1>2. IInv /\ HInv => AcknowledgedSurvives
  <2> SUFFICES ASSUME IInv, HInv, NEW p \in acked
               PROVE  /\ files[p.id] \in Task
                      /\ p.task.revision <= files[p.id].revision
                      /\ Revisions(files[p.id])[p.task.revision] =
                             [author |-> p.task.author, previous |-> p.task.content]
    BY DEF AcknowledgedSurvives
  <2>1. p.task \in Task /\ files[p.id] \in Task /\ Kept(p.task, files[p.id])
    BY DEF IInv, TypeOK, HInv, AckedKept
  <2> QED BY <1>1, <2>1
<1>3. IInv /\ HInv => RowsWereSaved
  <2> SUFFICES ASSUME IInv, HInv, NEW r \in Readers, NEW i \in Ids, rows[r][i] # Absent
               PROVE  /\ rows[r][i] \in Task /\ files[i] \in Task
                      /\ rows[r][i].revision <= files[i].revision
                      /\ Revisions(files[i])[rows[r][i].revision] =
                             [author |-> rows[r][i].author, previous |-> rows[r][i].content]
    BY DEF RowsWereSaved
  <2>1. rows[r][i] \in Task /\ files[i] \in Task /\ Kept(rows[r][i], files[i])
    BY DEF HInv, RowsKept
  <2> QED BY <1>1, <2>1
<1>4. IInv /\ HInv => ToldIsKept
  BY <1>2, <1>3 DEF ToldIsKept
<1> QED BY <1>4, AlwaysHInv, PTL

\* Store::update compares revisions under the lock: of the callers that had read one
\* revision at most one is told that it replaced it, and no number is given twice.
THEOREM OneReplaces == Spec => []OneWinner
<1>1. IInv /\ HInv => OneWinner
  <2> SUFFICES ASSUME IInv, HInv, NEW p \in acked, NEW q \in acked,
                      p.id = q.id, p.from = q.from
               PROVE  p = q
    BY DEF OneWinner
  <2>1. /\ p \in [id : Ids, from : 0 .. MaxRevision, task : Task]
        /\ q \in [id : Ids, from : 0 .. MaxRevision, task : Task]
    BY DEF IInv, TypeOK
  <2>2. /\ files[p.id] \in Task
        /\ Kept(p.task, files[p.id]) /\ Kept(q.task, files[p.id])
        /\ p.task.revision = p.from + 1 /\ q.task.revision = q.from + 1
    BY DEF HInv, AckedKept
  <2>3. p.task = q.task
    BY <2>1, <2>2, KeptDetermines
  <2> QED BY <2>1, <2>3
<1> QED BY <1>1, AlwaysHInv, PTL
=============================================================================
