CONSTANTS
    NumSteps = 2
    MaxAttempts = 2
    MaxCrashes = 1
SPECIFICATION Spec
CHECK_DEADLOCK FALSE
INVARIANTS
    WritesAreAccepted
    EffectsAreAccountedFor
    NoEffectWithoutApproval
    ReportIsTrue
PROPERTY RunEnds
