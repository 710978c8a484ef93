SPECIFICATION Spec
CONSTANTS
    ann = ann
    bob = bob
    cat = cat
    Users = {ann, bob, cat}
    Patchers = {cat}
    Names = {"tool"}
    Tasks = {1, 2}
    Inodes = {1, 2, 3}
    MaxCommands = 5
    MaxFaults = 2
    NoDir = NoDir
    NoFile = NoFile
    NoBody = NoBody
    NoUser = NoUser
    Half = Half
    Garbled = Garbled
INVARIANTS CreatedStays NamesAreFreed BinaryIsWhole
CHECK_DEADLOCK FALSE
SYMMETRY Symmetry
