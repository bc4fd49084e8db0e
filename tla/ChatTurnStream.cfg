SPECIFICATION FairSpec

CONSTANTS
    Turn = {t1, t2}
    Conversation = {k1}
    MaxSteps = 1
    MaxText = 1
    QueueMax = 1
    MaxTries = 2
    MaxFaults = 2
    Faults = {"provider", "bug", "database", "commit", "enqueue", "crash", "kill", "title"}
    NoConversation = NoConversation

INVARIANTS
    ScreenAgreesWithHistory

PROPERTIES
    EveryStreamEnds
    EveryConversationIsTitled

\* Nobody has to send another turn.
CHECK_DEADLOCK FALSE
