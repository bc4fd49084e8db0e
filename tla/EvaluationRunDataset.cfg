SPECIFICATION Spec

CONSTANTS
    Run = {r1, r2}
    Case = {c1}
    Worker = {w1, w2}
    MaxTries = 2
    MaxFaults = 1
    Faults = {"kill", "timeout", "stall", "error", "unmarked", "enqueue", "crash"}
    NoRun = NoRun
    NoCase = NoCase

SYMMETRY Symmetry

INVARIANTS
    CompletedCoversItsCases

PROPERTIES
    LedgerSpec

\* Nobody has to start another run, and the runs of an instance are used up.
CHECK_DEADLOCK FALSE
