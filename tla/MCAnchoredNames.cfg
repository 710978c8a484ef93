SPECIFICATION NamesSpec
CONSTANTS
    Functions = {f, g}
    Slots = {1, 2, 3}
    Bytes = {1, 2, 3, 4}
    ShapeOf <- MCShapeOf
    Names = {"old"}
    None = None
SYMMETRY Symmetry
INVARIANT NameFollows
