CONSTANTS
    Movies = {m1, m2}
    Workers = {w1, w2}
    MaxFaults = 2
    TableColumns <- FittingColumns
    RequiredColumns <- FittingRequired

SPECIFICATION FairSpec
CHECK_DEADLOCK FALSE
INVARIANTS
    RowIffProcessed
    ProjectionInvariant
PROPERTIES
    ImplementsExactlyOnce
    AllAreProcessed
