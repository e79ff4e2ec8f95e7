\* Up to three create() calls: one lost, one misjudged, one more.  The payment
\* ends when the caller stops or has been paid for, so the run may stop.
CONSTANTS
    Ops = {"TRANSFER", "PROGRAM_CALL", "CONTRACT_CALL"}
    MaxCalls = 3
    PollAttempts = 2
SPECIFICATION Spec
INVARIANTS
    PaidOnce
    PaidIsTrue
    Inv
PROPERTIES
    PollEndsDecided
    ImplementsPayment
CHECK_DEADLOCK FALSE
