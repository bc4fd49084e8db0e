\* Every family of inputs: what each pure decision answers and what it promises.
SPECIFICATION Spec
CONSTANTS
    BlockBound = 5
    DeltaBound = 4
    LineBound = 5
    Limits = {0, 2, 30}
    Targets = {8, 12}
    Overlaps = {0, 15, 50}
INVARIANTS
    CallsAreWhole
    AnswersAreSound
    GrantsFollowTheToggle
    VerdictsAreEarned
    ChunksTileTheText
    LinesAreAccountedFor
CHECK_DEADLOCK FALSE
