CONSTANTS
    Movies = {m1}
    Nodes = {n1, n2}
    Requests = {r1, r2, r3}
    null = null
    SplitBrain = TRUE
    MaxFaults = 2

SPECIFICATION Spec
SYMMETRY Symmetry
INVARIANTS
    InductiveInvariant
    JournalWellFormed
    MemoryReflectsJournal
    AcceptedIsDurable
    RejectedIsJustified
    OneEffectPerRequest
    OneAnswerPerRequest
PROPERTIES
    ImplementsLifecycle
