\* Model downloads, the skill library, materialized skills, caller identities.
CONSTANTS
    j1 = j1
    j2 = j2
    p1 = p1
    p2 = p2
    k1 = k1
    k2 = k2
    NoFile = NoFile
    NoTag = NoTag
    NoGen = NoGen
    Missing = Missing
    Jobs = {j1, j2}
    Want <- MCWant
    Size = 2
    Versions = {"good", "other", "broken"}
    MaxRedirects = 1
    MaxAttempts = 3
    MaxChanges = 2
    Artifacts = {"a"}
    Provenances = {"local"}
    MaxGeneration = 3
    MaxLibraryFaults = 1
    Owners = {p1, p2}
    Releases = {"v"}
    Texts = {"t", "u"}
    MaxWrites = 1
    MaxMaterializeFaults = 1
    Commands = {k1, k2}
    MaxCommands = 2
    MaxWipes = 1
    MaxCells = 2
    MaxEdits = 3
    MaxHead = 3
SPECIFICATION MCArtifactsSpec
SYMMETRY MCSymmetry
CHECK_DEADLOCK FALSE
INVARIANTS
    
    
    ForeignBytesSurvive
    CallersAreSound
