SPECIFICATION Spec
CONSTANTS
    p1 = p1
    p2 = p2
    siteA = siteA
    siteB = siteB
    issuerX = issuerX
    ours = ours
    theirs = theirs
    None = None
    Proc = {p1, p2}
    Site = {siteA}
    Issuer = {issuerX}
    IssuerOf <- OneIssuer
    Content = {ours}
    Profiles <- OnlyA
    Tolerated = {siteA}
    Faults <- AnyFault
    CrlValidity = 1
    MaxCommits = 2
    MaxTime = 0
    MaxGen = 0
    Exclusive = FALSE
    Steady = TRUE
    UserDoes <- Beside
PROPERTIES
    InvocationsEnd
