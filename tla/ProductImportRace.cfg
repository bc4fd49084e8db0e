SPECIFICATION Spec

CONSTANTS
    Product = {p1}
    Text = {t1, t2}
    NoText = NoText
    Import = {i1, i2, i3}
    ChunkSize = 1
    MaxSpoiled = 0
    MaxTries = 1
    MaxFaults = 0
    Faults = {}

INVARIANTS
    CertifiedIsCurrent

CHECK_DEADLOCK FALSE
