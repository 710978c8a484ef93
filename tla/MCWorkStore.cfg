SPECIFICATION MCSpec
CONSTANTS
    Authors = {a1, a2}
    Readers = {r1}
    MaxId = 2
    MaxFaults = 1
    MaxRevision = 3
    Inputs <- ScenarioInputs
    Nobody = Nobody
    Absent = Absent
    Torn = Torn
    NoLock = NoLock
    DeadLock = DeadLock
    None = None
INVARIANTS TypeOK OneWriter NoTornTask ToldIsKept OneWinner LegalBoard
PROPERTIES RefinesTaskBoard CommandsReturn
