SPECIFICATION Spec
CONSTANTS
    MaxRuns = 2
    Sessions = {s1, s2}
    First = s1
    MaxRewrites = 2
    MaxFaults = 1
INVARIANTS BusyMeansRun EndedTurnsDurable TranscriptFollows SessionsKeptApart
CHECK_DEADLOCK FALSE
