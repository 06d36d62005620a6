\* The model cell, event delivery, the flow worker and the daemon's launch.
CONSTANTS
    h1 = h1
    h2 = h2
    h3 = h3
    m1 = m1
    m2 = m2
    c1 = c1
    c2 = c2
    None = None
    NoOne = NoOne
    Handlers = {h1, h2, h3}
    Asks <- MCAsks
    Models = {m1, m2}
    Downloaded = {m1}
    MaxResets = 1
    Clients = {c1, c2}
    Kinds <- MCKinds
    MaxEvents = 5
    MaxFaults = 1
    Plan <- MCPlan
    MaxAttempts = 2
    MaxLeases = 2
    MaxSpawns = 3
    MaxWedges = 1
    Probing = TRUE
SPECIFICATION DaemonSpec
CHECK_DEADLOCK FALSE
INVARIANTS
    CellServesOneModel
    ResultAfterEvents
    
    StartsAreExclusive
    CancellationIsNoError

    
