\* Every operation, and two tags so that one could be taken for the other.
CONSTANTS
    Ops = {"TRANSFER", "PROGRAM_CALL", "CONTRACT_CALL"}
    Tags = {"limit_daily", "shape"}
SPECIFICATION Spec
INVARIANTS
    TypeOK
    VerdictsAreTrue
    TagIsReason
    ClassesAgree
CHECK_DEADLOCK FALSE
