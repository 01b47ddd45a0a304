SPECIFICATION MCSpec
CONSTANTS
    CommitId <- Commits
    Payload <- Payloads
    Name = {"A", "B"}
    Uri = {"a", "mirror", "b"}
    Publishes <- MCPublishes
    Sendable <- MCSendable
    Deposited <- MCDeposited
    MaxEdition = 2
    MaxStamps = 2
    NoFile = NoFile
INVARIANTS
    FindsNearestClaims
    GreedyIsCanonical
    HistoriesAreOrderable
    CrlsFollowChains
PROPERTY BindingEnds
CHECK_DEADLOCK FALSE
