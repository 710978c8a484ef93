------------------------------ MODULE TaskBoard ------------------------------
(***************************************************************************)
(* What the task store of crates/e5r-db/src/work.rs promises its clients,  *)
(* without files, locks or temporary files: a board on which one task at a *)
(* time gains one revision, and which stays legal after every change.      *)
(* WorkStore refines this specification.                                   *)
(***************************************************************************)
EXTENDS TaskRules

VARIABLE tasks

Init == tasks = [i \in Ids |-> Absent]

\* A new task takes the number after the largest one in use.
Create(i, content, author) ==
    /\ tasks[i] = Absent
    /\ \A j \in Ids : tasks[j] \in Task => j < i
    /\ tasks' = [tasks EXCEPT ![i] = [revision |-> 1, content |-> content,
                                      author |-> author, history |-> <<>>]]

\* An update adds one revision and keeps the replaced content in the history.
Update(i, content, author) ==
    /\ tasks[i] \in Task
    /\ tasks' = [tasks EXCEPT ![i] =
           [revision |-> @.revision + 1, content |-> content, author |-> author,
            history  |-> Append(@.history,
                            [author |-> @.author, previous |-> @.content])]]

Next ==
    \E i \in Ids, content \in Inputs, author \in Authors :
        /\ Create(i, content, author) \/ Update(i, content, author)
        /\ validate(content)
        /\ Legal(tasks')

Spec == Init /\ [][Next]_tasks
=============================================================================
