SPECIFICATION Spec

CONSTANTS
    Turn = {t1, t2, t3}
    Conversation = {k1}
    MaxSteps = 1
    MaxText = 0
    QueueMax = 1
    MaxTries = 2
    MaxFaults = 1
    Faults = {"provider", "bug", "stray", "database", "commit", "enqueue", "crash", "kill", "title"}
    NoConversation = NoConversation

SYMMETRY Symmetry

INVARIANTS
    QuestionIsAnswered

PROPERTIES
    TranscriptSpec

\* Nobody has to send another turn.
CHECK_DEADLOCK FALSE
