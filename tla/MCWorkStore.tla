----------------------------- MODULE MCWorkStore -----------------------------
(* Small instances of WorkStore for TLC: two scenarios in one run, told apart *)
(* by what the writers ask for.                                                *)
EXTENDS WorkStore, TLC

VARIABLE
    scenario   \* "handoff" or "rules"

\* A task that writers hand to and fro: revisions differ by their authors.
Handed == [state |-> "planned", owner |-> Nobody, blocker |-> FALSE,
           shaped |-> TRUE, depends_on |-> {}]

\* A prerequisite that is done and reopened, a task started on top of it, and
\* planned tasks that take each other as a prerequisite.
Done == [Handed EXCEPT !.state = "done"]
Review == [Handed EXCEPT !.state = "review", !.depends_on = {1}]
Needs(i) == [Handed EXCEPT !.depends_on = {i}]

ScenarioInputs == {Handed, Done, Review, Needs(1), Needs(2)}

\* Handoff: one task, up to the largest revision, a reader and a fault.
\* Rules: two tasks of two revisions each, and writers only.
Asked(r) ==
    IF scenario = "handoff"
    THEN r.content = Handed
         /\ IF r.op = "update" THEN r.id = 1
            ELSE files[1] = Absent /\ \A w \in Writers : req[w] = None
    ELSE /\ r.named
         /\ IF r.op = "create" THEN r.content \in {Handed, Done, Review}
            ELSE /\ r.revision = 1
                 /\ r.content \in IF r.id = 1 THEN {Handed, Needs(2)} ELSE {Review, Needs(1)}

MCInit == Init /\ scenario \in {"handoff", "rules"}

MCNext ==
    /\ Next
    /\ \A w \in Writers : req'[w] \notin {None, req[w]} => Asked(req'[w])
    /\ scenario = "rules" => UNCHANGED <<faults, readerVars>>
    /\ UNCHANGED scenario

MCSpec == MCInit /\ [][MCNext]_<<vars, scenario>> /\ \A w \in Writers : WF_vars(Work(w))
=============================================================================
