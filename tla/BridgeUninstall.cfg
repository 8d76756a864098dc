SPECIFICATION Spec
CONSTANTS
    Callers = {c1, c2}
    MaxInstalls = 1
    MaxStarts = 2
INVARIANTS UninstallStops
CHECK_DEADLOCK FALSE
