SPECIFICATION AuditSpec
CONSTANTS
    Site = {s1}
    Disturbed = {}
    Content = {ours}
    ours = ours
    s1 = s1
    s2 = s2
    Unsupported = submodule
    None = None
    MaxCommits = 5
    MaxTampered = 0
INVARIANT EvidenceSurvivesEditing
CHECK_DEADLOCK FALSE
