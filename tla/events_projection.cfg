CONSTANTS
    Movies = {m1, m2}
    Workers = {w1, w2}
    MaxFaults = 2

SPECIFICATION FairSpec
CHECK_DEADLOCK FALSE
INVARIANTS
    PublicationInvariant
    StoredArePublished
    DroppedArePublished
    TwiceOnlyAfterFailure
PROPERTIES
    PublishedUnlessDisabled
    ImplementsAtLeastOnce
