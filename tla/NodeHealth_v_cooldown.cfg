SPECIFICATION Spec
CONSTANTS
    Node = {n1}
    Manual = {}
    Call = {c1}
    CallsFailAnyTime = FALSE
    MaxDbFaults = 0
    MaxRestarts = 0
    FailureThreshold = 2
    CoolDown = 2
PROPERTY CoolDownHolds
