\* Half-second ticks, a tolerance of 2 s and none (0), clocks 1.5 s apart at
\* most, ten ticks of time.  The handler may stay idle for ever.
CONSTANTS
    Second = 2
    Tolerances = {0, 4}
    MaxSkew = 3
    MaxTime = 10
SPECIFICATION Spec
INVARIANTS
    Inv
    AcceptedIsFresh
    RefusedIsLate
    CreditIsBooked
PROPERTIES
    ExpiredIsFinal
CHECK_DEADLOCK FALSE
