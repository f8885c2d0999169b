SPECIFICATION Spec
CONSTANTS
    None = None
    Bases = {0, 1, 3}
    Factors = {1, 2, 3}
    Caps = {0, 2, 20}
    Jitters = {0, 1, 2}
    Scale = 2
    LastAttempt = 5
    QueuePolicies <- SlowAndFast
    BuiltIn <- Doubling
CHECK_DEADLOCK FALSE
INVARIANTS
    WithinJitteredCap
PROPERTIES
    BackoffNeverShrinks
    GeometricGrowth
