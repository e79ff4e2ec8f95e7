\* Two threads, exchanges that may outlast the refresh buffer, a lifetime of
\* zero among those announced, and a wall clock that is set two units ahead or
\* back, at any time and any number of times.
CONSTANTS
    Calls = {c1, c2}
    NoCall = NoCall
    RefreshBuffer = 1
    Timeout = 2
    DefaultTtl = 5
    Lifetimes = {0, 2}
    Skews = {0, 2}
    LastStart = 3
    MaxTime = 3
SPECIFICATION Spec
SYMMETRY Symmetry
INVARIANTS
    IInv
    LateByExchange
PROPERTIES
    NoNeedlessRefresh
