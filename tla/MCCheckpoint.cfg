SPECIFICATION CheckpointSpec
CONSTANTS
    Backends = {"p", "q"}
    Subjects = {"s"}
    Values = {"x", "y"}
    System <- SameSystem
    ContextTokens = 4
    MaxOutput = 1
    LedgerBound = 2
    FaultBound = 1
INVARIANTS
    PromptIsCanonical
    PublishedIsComplete
    PublishedIsAccepted
    TemporariesAreOwned
