SPECIFICATION FairSpec
CONSTANTS
    t1 = t1
    t2 = t2
    t3 = t3
    Tasks = {t1, t2, t3}
    Malformed = {}
    Entry <- MCEntry
    Queues <- NewOrLeft
    SaveOutcomes = {"written"}
    MaxAttempts = 0
    NoTask = NoTask
    Torn = Torn
    Playbooks <- ReviewPlaybooks
    Summaries <- MCSummaries
    Covers <- MCCovers
    WindowSize = 6
    RepeatThreshold = 3
    HaltThreshold = 3
    Calls <- ControlCalls
    Norm <- Normalised
    Evaluations <- MCEvaluations
    Approvals = {TRUE, FALSE}
    StepLimit = 4
    RouterTimeouts = TRUE
    LatePreflight = TRUE
INVARIANTS
    TypeOK
    PlanReviewedFirst
    CallsRunOnceInOrder
    CheckerEnforcesStep
    NothingForbiddenRuns
PROPERTIES
    LoopEnds
CHECK_DEADLOCK FALSE
