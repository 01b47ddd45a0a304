SPECIFICATION Spec
CONSTANTS
    p1 = p1
    p2 = p2
    siteA = siteA
    siteB = siteB
    issuerX = issuerX
    ours = ours
    theirs = theirs
    None = None
    Proc = {p1}
    Site = {siteA}
    Issuer = {issuerX}
    IssuerOf <- OneIssuer
    Content = {ours}
    Profiles <- OnlyA
    Tolerated = {}
    Faults <- NoFaults
    CrlValidity = 1
    MaxCommits = 5
    MaxTime = 2
    MaxGen = 1
    Exclusive = TRUE
    Steady = TRUE
    UserDoes <- Branches
INVARIANTS
    RenewalChainCoversHistory
    RecordsArePermanent
    SecondUseIsSelfContained
PROPERTIES
    EvidenceStays
CONSTRAINT LongOrChanging
