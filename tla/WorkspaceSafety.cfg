SPECIFICATION Spec

CONSTANTS
    Request = {r1, r2}
    Prompt = {p1}
    Agent = {a1}
    Tool = {t1, t2}
    Key = {k1, k2, k3}
    Default = {t2}
    KeyCap = 1
    MaxVersion = 3
    MaxFields = 2
    Absent = Absent
    Untouched = Untouched

\* Versions, links and keys are explored one at a time.
CONSTRAINT OneSubject

SYMMETRY Symmetry

INVARIANTS
    OneActiveVersion
    NumberedWithoutGap
    AgentsAreWhole
    KeyOverrunIsBounded
