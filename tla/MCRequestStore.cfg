\* Three requests compete for two projects: queue order, idempotency, leases.
CONSTANTS
    RequestIds = {r1, r2, r3}
    Projects = {p1, p2}
    Keys = {k1, k2}
    Ops = {status}
    FlowOps = {}
    None = None
    LeaseDuration = 1
    MaxTime = 1
    MaxClaims = 2
    MaxEvents = 0
SPECIFICATION Spec
SYMMETRY StoreSymmetry
INVARIANTS
    OneActiveLeasePerProject
    StartedInOrder
    IdempotentAcceptance
PROPERTIES
    FinishedIsFinal
    ImplementsProjectQueue
