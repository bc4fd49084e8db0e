\* One round of three calls of one statement each.
SPECIFICATION Spec
CONSTANTS
    Id = {i1, i2, i3}
    NoId = NoId
    Width = 3
    MaxSteps = 1
    Own = 2
    Grace = 1
    Wait = 6
    Lookups = 1
    LeadLimit = 1
CHECK_DEADLOCK FALSE
PROPERTY OnlyTheNetCostsTheSession
