SPECIFICATION Spec
CONSTANTS
    t1 = t1
    t2 = t2
    t3 = t3
    bad = bad
    Tasks = {t1, t2, t3}
    Malformed = {bad}
    NoTask = NoTask
    Torn = Torn
    Playbooks <- MCPlaybooks
    Entry <- MCEntry
    Queues <- MCQueues
    SaveOutcomes = {"written", "unopened", "truncated"}
    MaxAttempts = 1
INVARIANTS
    TypeOK
    NoTaskLostOrDuplicated
    NoStepSkipped
    CheckerFollowsTask
    FileUpToDate
PROPERTIES
    ErrorReplyMovesNothing
    ImplementsLedger
