CONSTANTS
    Movies = {m1}
    Nodes = {n1, n2}
    Requests = {r1, r2}
    null = null
    SplitBrain = FALSE
    MaxFaults = 0

SPECIFICATION ServiceSpec
INVARIANTS
    CommandsAreAnswered
