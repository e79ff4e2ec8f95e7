\* One call lost, its resend rejected.
CONSTANTS
    Ops = {"CONTRACT_CALL"}
    MaxCalls = 2
    PollAttempts = 0
SPECIFICATION Spec
INVARIANTS
    RejectionLeavesNothingOpen
CHECK_DEADLOCK FALSE
