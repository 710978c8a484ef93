SPECIFICATION LiftingSpec
CONSTANTS
    LastAddr = 5
    InsnCap = 6
    BlockCap = 5
    Hash <- MCHash
    Slots = 4
    NoId = NoId
    Images <- MCImages
    Hints <- MCHints
    NoName = NoName
    KnownNames = {"abort"}
    Eax = Eax
    Ebx = Ebx
    Locs = {Eax, Ebx}
    LiveOut = {Eax}
    ArgLocs = {Ebx}
    Result = Eax
    Effects <- MCEffects
    MaxSteps = 4
    NoFunction = NoFunction
    Undefined = Undefined
    NoLoc = NoLoc
INVARIANTS WalkIsExact SlicesDoNotMatter NoReturnOfPlainTails ReadsBack HeldOnce RewalkOnlyShortens ReadsAgree
CHECK_DEADLOCK FALSE
