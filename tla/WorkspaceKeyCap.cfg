SPECIFICATION Spec

CONSTANTS
    Request = {r1, r2}
    Prompt = {}
    Agent = {a1}
    Tool = {}
    Key = {k1, k2}
    Default = {}
    KeyCap = 1
    MaxVersion = 1
    MaxFields = 1
    Absent = Absent
    Untouched = Untouched

SYMMETRY Symmetry

INVARIANTS
    KeysWithinCap
