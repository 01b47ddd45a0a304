SPECIFICATION AuditSpec
CONSTANTS
    Site = {s1, s2}
    Disturbed = {s1}
    Content = {ours}
    ours = ours
    s1 = s1
    s2 = s2
    Unsupported = submodule
    None = None
    MaxCommits = 4
    MaxTampered = 1
INVARIANTS
    PassMeansStamped
    FreshCloneAgrees
    EveryClaimIsJudged
    StampsStand
CONSTRAINT LongOrTampered
PROPERTY AuditEnds
CHECK_DEADLOCK FALSE
