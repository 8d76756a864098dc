SPECIFICATION RunSpec
CONSTANTS
    Batches <- MCBatches
    ToolTurns = 1
    MaxSteers = 1
    MaxAttempts = 1
    MaxTurns = 1
    MaxHeard = 0
INVARIANT AdmittedSteerObserved
CHECK_DEADLOCK FALSE
