SPECIFICATION MCTokenSpec
CONSTANTS
    leaf = leaf
    ca1 = ca1
    ca2 = ca2
    root = root
    None = None
    Cert = {leaf, ca1, ca2, root}
    GenTime = 1
    MaxChainLength = 3
    ours = ours
    theirs = theirs
    Manifest = {ours, theirs}
    Ours = ours
    sha256 = sha256
    sha512 = sha512
    Family = {sha256, sha512}
    Default = sha256
    sha1 = sha1
    Legacy = sha1
    foreign = foreign
    Foreign = foreign
INVARIANTS
    TrustIsEarned
    RefusedOnlyWithoutPath
    SealedChainsNeverHurt
    AcceptedWasStated
    ConformantIsRefusedForTrustOnly
PROPERTY VerdictComes
CHECK_DEADLOCK FALSE
