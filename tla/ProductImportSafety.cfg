SPECIFICATION Spec

CONSTANTS
    Product = {p1, p2}
    Text = {t1, t2}
    NoText = NoText
    Import = {i1, i2}
    ChunkSize = 2
    MaxSpoiled = 1
    MaxTries = 2
    MaxFaults = 2
    Faults = {"database", "provider", "break", "record", "kill", "enqueue"}

SYMMETRY Symmetry

INVARIANTS
    CertifiedUnlessRaced
    EveryStaleRowIsOwed
    AccountsForEveryRow

PROPERTIES
    CatalogueSpec

\* Every user may stop, and the imports of an instance run out.
CHECK_DEADLOCK FALSE
