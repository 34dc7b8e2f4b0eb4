SPECIFICATION LogSpec
CONSTANTS
    Playbooks <- MCPlaybooks
    Contexts <- MCContexts
    Covers <- MCCovers
    Summaries = {"task/state", "compile/check"}
    WindowSize = 3
    RepeatThreshold = 2
    HaltThreshold = 2
    MaxReports = 5
INVARIANTS
    TypeOK
    WindowIsEndOfLog
    CountsRejectionsInARow
    ApprovalOnlyInPlanReview
