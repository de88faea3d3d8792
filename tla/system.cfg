CONSTANTS
    Movies = {m1}
    Nodes = {n1, n2}
    Requests = {r1, r2}
    null = null
    SplitBrain = FALSE
    MaxFaults = 1
    MaxInt = 7
    TableColumns <- FittingColumns
    RequiredColumns <- FittingRequired

SPECIFICATION FairSystemSpec
INVARIANTS
    ListedAreKnown
    EntitiesHaveTags
PROPERTIES
    TableFollowsJournal
    RegistrationsAreListed
    CommandsAreConsumed
