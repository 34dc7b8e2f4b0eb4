SPECIFICATION RunSpec
CONSTANTS
    Content <- MCContent
    Required <- MCRequired
    Texts <- MCTexts
    Costs = {1, 3}
    StepLimit = 2
    CostLimit = 2
    MaxRetries = 2
    MaxLen = 1
INVARIANTS
    CallAtTheEndIsTaken
CHECK_DEADLOCK FALSE
