SPECIFICATION FairSpec

CONSTANTS
    Document = {d1}
    Job = {j1, j2}
    Client = {c1}
    MaxTries = 2
    MaxFaults = 1
    Faults = {"kill", "commit", "early", "record", "rollback", "undelete"}
    NoDocument = NoDocument

PROPERTIES
    EveryJobSettles

\* Every user may stop, and the jobs and ids of an instance run out.
CHECK_DEADLOCK FALSE
