\* One flow request, its checkpoint, its cancellation and its authorization.
CONSTANTS
    RequestIds = {r1}
    Projects = {p1}
    Keys = {k1}
    Ops = {status, flow}
    FlowOps = {flow}
    None = None
    LeaseDuration = 1
    MaxTime = 1
    MaxClaims = 3
    MaxEvents = 7
SPECIFICATION Spec
INVARIANTS
    OneTerminalEvent
    AcknowledgedCancellationStands
    NoEffectAfterCancellation
    FlowOutcomeDecides
