SPECIFICATION Spec

CONSTANTS
    Run = {r1}
    Case = {c1, c2}
    Worker = {w1}
    MaxTries = 2
    MaxFaults = 0
    Faults = {}
    NoRun = NoRun
    NoCase = NoCase

SYMMETRY Symmetry

INVARIANTS
    DeletedCaseIsSkipped

\* Nobody has to start another run, and the runs of an instance are used up.
CHECK_DEADLOCK FALSE
