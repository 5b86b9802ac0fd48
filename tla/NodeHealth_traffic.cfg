SPECIFICATION Spec
CONSTANTS
    Node = {n1}
    Manual = {m1}
    Call = {c1, c2}
    CallsFailAnyTime = TRUE
    MaxDbFaults = 0
    MaxRestarts = 1
    FailureThreshold = 2
    CoolDown = 2
SYMMETRY Symmetry
INVARIANTS
    BreakerConsistent
    HalfOpenHasProbe
