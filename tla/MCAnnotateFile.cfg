SPECIFICATION CommandsSpec
CONSTANTS
    Branches = {"ann", "bob"}
    Keys = {"f"}
    Values = {"old"}
    Cleared = "none"
    Writes <- OneWrites
    Digest <- MCDigest
    MaxSeq = 1
    MaxLines = 2
    MaxRedo = 1
    Inodes = {1, 2, 3, 4}
    Absent = Absent
    Empty = Empty
    Garbled = Garbled
    MaxFaults = 2
INVARIANT LogSurvives
PROPERTY CommandsAreAtomic
