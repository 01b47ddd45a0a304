SPECIFICATION Spec
CONSTANTS
    p1 = p1
    p2 = p2
    siteA = siteA
    siteB = siteB
    issuerX = issuerX
    ours = ours
    theirs = theirs
    None = None
    Proc = {p1}
    Site = {siteA, siteB}
    Issuer = {issuerX}
    IssuerOf <- OneIssuer
    Content = {ours, theirs}
    Profiles <- EachSite
    Tolerated = {siteB}
    Faults <- SyncFault
    CrlValidity = 1
    MaxCommits = 3
    MaxTime = 0
    MaxGen = 0
    Exclusive = TRUE
    Steady = TRUE
    UserDoes <- Guarded

    
PROPERTIES
    RestoreConverges
    FreshStampReadsClean
    FreshStampPasses
SYMMETRY Contents
