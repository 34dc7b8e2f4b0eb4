SPECIFICATION RouterSpec
CONSTANTS
    Declared <- MCDeclared
    Kebab <- MCKebab
    Calls <- MCCalls
    Scripts <- MCScripts
    Letters = {"a", "b"}
    InitialFiles <- MCInitialFiles
    Readable = {"compile"}
    Allowed = {"ls"}
    Parts = {"p", "q", "x", "y", "3", "7"}
    Numbers <- MCNumbers
    Findings <- MCFindings
    Codes = {0, 7}
    MaxCalls = 2
INVARIANTS
    RouterTypeOK
    ToolsAreIsolated
    FlagsReachTheTool
    EditIsUnambiguous
    SearchLosesNothing
PROPERTIES
    AnsweredUnlessHung
CHECK_DEADLOCK FALSE
