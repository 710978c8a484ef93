SPECIFICATION Spec
CONSTANTS
    f = f
    g = g
    load = load
    call = call
    x = x
    y = y
    Functions = {f, g}
    Length = 2
    Ops = {load, call}
    Imms = {x, y}
    Relative <- Calls
    Wanted <- Loads
    Words <- Loads
    MaxEdits = 2
    MaxRelinks = 1
INVARIANTS LandsAsMeant RevertRestores WrittenOnce
CHECK_DEADLOCK FALSE
SYMMETRY Symmetry
