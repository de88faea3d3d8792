CONSTANTS
    Movies = {m1, m2}
    Workers = {w1}
    MaxFaults = 0

SPECIFICATION FairSpec
CHECK_DEADLOCK FALSE
PROPERTIES
    RegisteredArePublished
