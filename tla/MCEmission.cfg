SPECIFICATION Spec
CONSTANTS
    NoBlock = NoBlock
    Entry = 1
    MaxCopiedTail = 2
    Floor = 1
    MaxRounds = 1000
    SinkRounds = 8
    LiftRounds = 8
    GuardMax = 4
    ExitMax = 2
    Graphs <- MCGraphs
INVARIANTS ControlIsKept NothingIsLost
CHECK_DEADLOCK FALSE
