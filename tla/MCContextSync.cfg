SPECIFICATION SyncSpec
CONSTANTS
    Disks <- MCDisks
    Op = "write-tests"
    Reloads = {"ReloadAll", "ReloadTools", "ReloadSkills", "ReloadPolicy"}
    Evals <- MCEvals
    Values = {4}
    Derives = {{}}
    MaxEdits = 1
    MaxReloads = 1
    MaxSteps = 1
INVARIANTS
    SyncTypeOK
    PromptNamesWhatIsThere
    QuietCopiesAgree
    SurveyDeniesNothing
PROPERTIES
    SurveyReachesPrompt
CHECK_DEADLOCK FALSE
