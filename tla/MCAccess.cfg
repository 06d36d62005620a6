\* Grants, receipts and flow authorizations; the control center's fences.
CONSTANTS
    t1 = t1
    t2 = t2
    g1 = g1
    g2 = g2
    c1 = c1
    c2 = c2
    x = x
    Nil = Nil
    Nobody = Nobody
    Tasks = {t1, t2}
    Asks <- MCAsks
    GrantIds = {g1, g2}
    Terms <- MCTerms
    ReceiptIds = {a1}
    Revocable = {"flow.run"}
    Flows = {f1}
    Resources = {x}
    MaxClock = 2
    Ttl = 1
    MaxResets = 1
    MaxCallers = 1
    Calls = {c1, c2}
    CallKinds <- MCKinds
    Projects = {p1, p2}
    Operations = {1, 2}
    MaxOperations = 1
    MaxGenerations = 2
    MaxLog = 3
SPECIFICATION MCAccessSpec
CHECK_DEADLOCK FALSE
INVARIANTS
    ReceiptSpentOnce
    
PROPERTY CoreIsCurrent
