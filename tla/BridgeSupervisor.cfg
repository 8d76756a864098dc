SPECIFICATION Spec
CONSTANTS
    Callers = {c1, c2}
    MaxInstalls = 2
    MaxStarts = 2
INVARIANTS TypeOK KnownProcessUsable RunningProcessHeld
PROPERTIES DeadForgotten
CHECK_DEADLOCK FALSE
