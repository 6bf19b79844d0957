SPECIFICATION Spec
CONSTANTS
    None = None
    Requests <- MCRequests
    Expiry = 2
    Ahead = 1
    Scale = 16
    MaxTime = 6
    MaxPulls = 2
INVARIANTS
    TypeOK
    PushIsTakeable
    RateIsExact
\* The clocks stop at MaxTime.
CHECK_DEADLOCK FALSE
