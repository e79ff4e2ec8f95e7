\* Every request type, from its defaults or filled in, with any two fields
\* changed, before, between or after the two attempts.
CONSTANTS
    Kinds = {"TRANSFER", "PROGRAM_CALL", "CONTRACT_CALL", "WALLET", "ACCOUNT", "ASSET", "X402"}
    MaxEdits = 2
SPECIFICATION Spec
INVARIANTS
    TypeOK
    HandedOver
    SentIsComplete
    NothingSetIsLost
    RetrySendsTheSame
CHECK_DEADLOCK FALSE
