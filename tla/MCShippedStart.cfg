SPECIFICATION Spec
CONSTANTS
    t1 = t1
    t2 = t2
    t3 = t3
    Tasks = {t1}
    Malformed = {}
    Entry <- MCEntry
    Queues <- NewTask
    SaveOutcomes = {"written"}
    MaxAttempts = 0
    NoTask = NoTask
    Torn = Torn
    Playbooks <- ReviewPlaybooks
    Summaries <- MCSummaries
    Covers <- MCCovers
    WindowSize = 6
    RepeatThreshold = 3
    HaltThreshold = 3
    Calls <- AdvanceOnly
    Norm <- AsMade
    Evaluations <- MCEvaluations
    Approvals = {TRUE, FALSE}
    StepLimit = 3
    RouterTimeouts = FALSE
    LatePreflight = FALSE
INVARIANTS
    ForbiddenInCurrentStep
CHECK_DEADLOCK FALSE
