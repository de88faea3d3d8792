CONSTANTS
    Movies = {m1, m2}
    Workers = {w1, w2}
    MaxFaults = 0
    TableColumns <- ShippedColumns
    RequiredColumns <- ShippedRequired

SPECIFICATION FairSpec
CHECK_DEADLOCK FALSE
PROPERTIES
    RegisteredAreListed
