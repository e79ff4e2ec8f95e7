\* Room for a lost call of each kind.
CONSTANT MaxCalls = 6
SPECIFICATION Spec
INVARIANTS
    Inv
    ChainIsSound
    NeverTooEarly
    StraysAreUnknown
CHECK_DEADLOCK FALSE
