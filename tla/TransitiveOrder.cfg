SPECIFICATION MCHistorySpec
CONSTANTS
    CommitId <- Commits
    Payload <- Payloads
    Name = {"A", "B"}
    Uri = {"a", "mirror", "b"}
    Publishes <- MCPublishes
    Sendable <- MCSendable
    Deposited <- MCDeposited
    MaxEdition = 2
    MaxStamps = 2
    NoFile = NoFile
INVARIANT FollowsTransitiveBinding
CHECK_DEADLOCK FALSE
