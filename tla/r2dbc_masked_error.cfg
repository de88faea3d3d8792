CONSTANTS
    Uses = {u1}
    MaxConnections = 1
    MaxFaults = 2

SPECIFICATION Spec
CHECK_DEADLOCK FALSE
INVARIANTS
    ErrorsPropagate
