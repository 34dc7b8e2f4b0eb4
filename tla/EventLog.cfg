SPECIFICATION LogSpec
CONSTANTS
    Kinds = {"ToolCallCompleted", "AgentFinished"}
    PortSize = 2
    WriteOutcomes = {"flushed", "buffered", "lost"}
    MaxEmitted = 5
INVARIANTS
    LogTypeOK
    NothingLostRunning
    FileHasNoGap
CHECK_DEADLOCK FALSE
