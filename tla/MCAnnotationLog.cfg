SPECIFICATION Spec
CONSTANTS
    Branches = {"ann", "bob"}
    Keys = {"f"}
    Values = {"old", "none"}
    Cleared = "none"
    Writes <- OneClears
    Digest <- MCDigest
    MaxSeq = 1
    MaxLines = 2
    MaxRedo = 2
INVARIANTS FoldFindsLatest UnionIsMerge CorrectionsWin RedoInvertsUndo
