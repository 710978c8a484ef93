---------------------------- MODULE MCDashboard ----------------------------
(* Small instances of Dashboard for TLC. The files start alike in all         *)
(* projects; the edits make them differ.                                       *)
EXTENDS Dashboard, TLC
CONSTANTS p1, p2, b1, b2, plain, wide, odd, l1, l2, torn

StartsAlike ==
    /\ Init
    /\ \A p \in Projects :
         /\ manifest[p] = [hash |-> b1, settings |-> plain]
         /\ binary[p] = b1 /\ log[p] = l1
    /\ single \in {NoWorkspace, [project |-> p1, text |-> manifest[p1]]}

MCSpec == StartsAlike /\ [][Next]_vars /\ WF_vars(Serve) /\ WF_vars(Work)
=============================================================================
