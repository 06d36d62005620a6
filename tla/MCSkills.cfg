SPECIFICATION MCSkillsSpec
CONSTANTS
    s1 = s1
    s2 = s2
    s3 = s3
    Scanners = {s1, s2, s3}
    Paths <- MCPaths
    MaxContent = 1
    MaxClock = 3
    MaxEdits = 2
    MaxRunning = 2
    MaxTombstones = 1
    Corpus = {1, 2, 4}
    MaxIds = 3
    MaxVerdictFindings = 2
    Projects = {"p", "q"}
    PageLimit = 1
    Retention = 1
    DayLength = 2
    MaxTime = 1
    MaxEvents = 5
SYMMETRY MCSymmetry
CHECK_DEADLOCK FALSE
INVARIANTS
    ScanIsWhole
    InventoryIsOneSnapshot
    
    AcceptedVerdictIsCanonical
    ExportIsWhole
