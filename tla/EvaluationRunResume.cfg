SPECIFICATION FairSpec

CONSTANTS
    Run = {r1}
    Case = {c1, c2}
    Worker = {w1}
    MaxTries = 3
    MaxFaults = 2
    Faults = {"kill", "timeout", "error", "unmarked", "crash"}
    NoRun = NoRun
    NoCase = NoCase

INVARIANTS
    NoRecordedCaseReruns
    SummaryIsCurrent

PROPERTIES
    EveryRunSettles

\* Nobody has to start another run, and the runs of an instance are used up.
CHECK_DEADLOCK FALSE
