SPECIFICATION Spec

CONSTANTS
    Document = {d1, d2}
    Job = {j1, j2}
    Client = {c1}
    MaxTries = 2
    MaxFaults = 1
    Faults = {"kill", "commit", "early", "record", "enqueue", "rollback"}
    NoDocument = NoDocument

SYMMETRY Symmetry

INVARIANTS
    OneRowPerChecksum
    NoCollision
    LiveRowHasBytes
    StuckOnlyByAbandonedOrReadyReingest

PROPERTIES
    CorpusSpec

\* Every user may stop, and the jobs and ids of an instance run out.
CHECK_DEADLOCK FALSE
