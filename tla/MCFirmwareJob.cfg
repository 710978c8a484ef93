SPECIFICATION FairSpec
CONSTANTS
    Jobs = {"duty", "clamp"}
    Order <- ImageThenProof
    Versions = {1, 2, 3}
    Escapes <- ProofEscapes
    Refused = {3}
    Pinned <- DutyPins
    MaxEdits = 3
    MaxRuns = 3
INVARIANTS FreshIsExact ForwardIsExact
PROPERTY ChecksEnd
CHECK_DEADLOCK FALSE
