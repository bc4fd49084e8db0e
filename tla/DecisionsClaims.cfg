\* Claims of docstrings that the code does not keep: leave in one at a time.
SPECIFICATION Spec
CONSTANTS
    BlockBound = 1
    DeltaBound = 1
    LineBound = 3
    Limits = {30}
    Targets = {8}
    Overlaps = {15}
INVARIANTS
    SharpNoteNamesTheTop
    ScreenIsTheResolver
    RowNumbersPointAtTheFile
CHECK_DEADLOCK FALSE
