SPECIFICATION RunSpec
CONSTANTS
    Batches <- MCBatches
    ToolTurns = 2
    MaxSteers = 1
    MaxAttempts = 3
    MaxTurns = 2
    MaxHeard = 1
INVARIANTS SteersKept CallsPaired EventsTellTranscript FailedAttemptsHidden ShownIsKept
PROPERTIES CancelEndsRun AbortEndsRun
CHECK_DEADLOCK FALSE
