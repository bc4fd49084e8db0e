SPECIFICATION Spec

CONSTANTS
    Document = {d1}
    Job = {j1, j2}
    Client = {c1}
    MaxTries = 2
    MaxFaults = 0
    Faults = {}
    NoDocument = NoDocument

PROPERTIES
    SuccessLeavesReady

\* Every user may stop, and the jobs and ids of an instance run out.
CHECK_DEADLOCK FALSE
