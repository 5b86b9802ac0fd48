SPECIFICATION Spec
CONSTANTS
    Node = {n1}
    Manual = {}
    Call = {}
    CallsFailAnyTime = FALSE
    MaxDbFaults = 2
    MaxRestarts = 1
    FailureThreshold = 2
    CoolDown = 2
INVARIANTS
    BrokenIsOnRecord
PROPERTIES
    CoolDownHolds
    ClosedFollowsHalfOpen
    Recovers
