SPECIFICATION MCServicesSpec
CONSTANTS
    Configurers = {c1}
    Secrets = {s1}
    Bases = {b1}
    Limit = 1
    MaxItems = 2
    Absent = Absent
    MaxAttempt = 3
    MaxTries = 3
    LogLimit = 1
    TotalLimit = 1
    CollectMaxJobs = 2
    e1 = e1
    e2 = e2
    Editors = {e1, e2}
    Drafts <- MCDrafts
    NoVersion <- MCNoVersion
    NoEditor = NoEditor
    MaxWrites = 3
    MaxOwnedArtifacts = 2
    MaxArgs = 2
    MaxLines = 3
    MaxVersionDiffLines = 4
    MaxBytes = 5
    MaxLogLines = 3
    MaxIssues = 3
    MaxDiagnosisFindings = 1
    MaxRuleGroups = 2
    MaxFileGroups = 1
SYMMETRY MCSymmetry
CHECK_DEADLOCK FALSE
INVARIANTS
    
    RerunOnce
    PriorBytesAreKept
    
    DraftIsShownTruly
