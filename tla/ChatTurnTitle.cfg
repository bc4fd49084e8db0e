SPECIFICATION Spec

CONSTANTS
    Turn = {t1}
    Conversation = {k1}
    MaxSteps = 1
    MaxText = 1
    QueueMax = 2
    MaxTries = 2
    MaxFaults = 1
    Faults = {"database"}
    NoConversation = NoConversation

INVARIANTS
    TitleOnlyForCommitted

\* Nobody has to send another turn.
CHECK_DEADLOCK FALSE
