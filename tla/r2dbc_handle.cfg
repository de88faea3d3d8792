CONSTANTS
    Uses = {u1, u2, u3}
    MaxConnections = 2
    MaxFaults = 4

SPECIFICATION Spec
SYMMETRY Symmetry
CHECK_DEADLOCK FALSE
INVARIANTS
    HandleInvariant
    AllOrNothing
    ConnectionsReturn
PROPERTIES
    DecidedBeforeClosed
