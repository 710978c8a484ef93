--------------------------- MODULE MCFirmwareJob ---------------------------
(* Small instances of FirmwareJob for TLC. *)
EXTENDS FirmwareJob, TLC

ImageThenProof == <<"image", "proof">>

\* The last version of the proof has a sorry.
ProofEscapes == {<<"proof", 3>>}

\* One job pins the ELF, the other takes any.
DutyPins == "duty" :> {1} @@ "clamp" :> {1, 2, 3}
=============================================================================
