\* Three ids, two rounds of at most three calls.
SPECIFICATION Spec
CONSTANTS
    Id = {i1, i2, i3}
    NoId = NoId
    Width = 3
    MaxSteps = 2
    Own = 2
    Grace = 1
    Wait = 6
    Lookups = 2
    LeadLimit = 2
SYMMETRY Symmetry
\* A turn that is over does nothing.
CHECK_DEADLOCK FALSE
INVARIANTS
    PairsUp
    BudgetIsTheCalls
    AnswersAreTrue
