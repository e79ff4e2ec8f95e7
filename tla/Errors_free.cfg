\* One operation that can meet a 503, one tag.
CONSTANTS
    Ops = {"CONTRACT_CALL"}
    Tags = {"shape"}
SPECIFICATION Spec
INVARIANT
    FreeIsFree
CHECK_DEADLOCK FALSE
