SPECIFICATION Spec
CONSTANTS
    MaxRuns = 2
    Sessions = {s1, s2}
    First = s1
    MaxRewrites = 1
    MaxFaults = 0
INVARIANTS ActiveRunHeld
CHECK_DEADLOCK FALSE
