\* Four rows, pages of one to three rows, and the gateway's default of two.
CONSTANTS
    Kinds = {"wallets", "transactions", "settlements"}
    MaxRows = 4
    PageSizes = {0, 1, 3}
    DefaultSize = 2
    MaxPages = 6
SPECIFICATION Spec
INVARIANTS
    Inv
    MissedAtMostLeft
    TwiceAtMostEntered
    RaisesOnlyOnEmpty
PROPERTIES
    ScanEnds
CHECK_DEADLOCK FALSE
