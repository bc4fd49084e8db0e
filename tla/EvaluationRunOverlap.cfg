SPECIFICATION Spec

CONSTANTS
    Run = {r1}
    Case = {c1, c2}
    Worker = {w1, w2}
    MaxTries = 2
    MaxFaults = 2
    Faults = {"kill", "timeout", "stall", "error", "unmarked", "enqueue", "crash"}
    NoRun = NoRun
    NoCase = NoCase

SYMMETRY Symmetry

INVARIANTS
    BilledWithItsResult
    CompletedCoversItsCases

\* Nobody has to start another run, and the runs of an instance are used up.
CHECK_DEADLOCK FALSE
