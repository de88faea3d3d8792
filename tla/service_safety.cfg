CONSTANTS
    Movies = {m1, m2}
    Nodes = {n1, n2}
    Requests = {r1, r2, r3}
    null = null
    SplitBrain = FALSE
    MaxFaults = 1

SPECIFICATION ServiceSpec
SYMMETRY Symmetry
INVARIANTS
    ServiceInvariant
    FailedCallsHaveNoEffect
    ResponsesAreTrue
    RegistrationsMatch
PROPERTIES
    ReadsSeeConfirmations
