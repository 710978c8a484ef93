----------------------------- MODULE MCPtxCheck -----------------------------
(* Small instances of PtxCheck for TLC: five kernels, three supplied proofs of *)
(* the one they fit, and the jobs that tell them apart.                        *)
EXTENDS PtxCheck, TLC
CONSTANTS c1, c2, kept, good, wrong, odd, foreign, broken, right, idle, torn

ClassOf == [k \in Kernels |->
    CASE k = good -> "map" [] k = foreign -> "outside" [] k = broken -> "malformed"
      [] OTHER -> "block"]
AboutOf == [p \in Proofs |-> IF p = idle THEN wrong ELSE good]

Job(k, p, d, s) == [kernel |-> k, proof |-> p, keep |-> d, search |-> s]
KeptJobs == <<
    Job(good, NoProof, kept, TRUE), Job(wrong, NoProof, kept, TRUE), Job(odd, NoProof, kept, TRUE),
    Job(good, right, kept, FALSE), Job(good, torn, kept, FALSE), Job(wrong, idle, kept, FALSE) >>
OwnJobs ==
    {Job(k, NoProof, NoKeep, FALSE) : k \in {foreign, broken, odd}} \cup
    {Job(wrong, NoProof, NoKeep, TRUE), Job(good, idle, NoKeep, FALSE)}
JobsOf == {KeptJobs[i] : i \in DOMAIN KeptJobs} \cup OwnJobs

\* Every two jobs in one kept directory, and a check in a directory of its own
\* beside one of them.
MCInit ==
    /\ Init
    /\ \E j \in DOMAIN KeptJobs :
         /\ job[c2] = KeptJobs[j]
         /\ \/ \E i \in 1..j : job[c1] = KeptJobs[i]
            \/ j = 4 /\ job[c1] \in OwnJobs

MCSpec == MCInit /\ [][Next]_vars /\ \A c \in Checkers : WF_vars(Own(c)) /\ WF_vars(Lean(c))
=============================================================================
