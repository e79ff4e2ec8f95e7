\* Two threads racing for the lock and the cache.  No symmetry: a liveness
\* property is checked.
CONSTANTS
    Calls = {c1, c2}
    NoCall = NoCall
    RefreshBuffer = 1
    Timeout = 1
    DefaultTtl = 3
    Lifetimes = {3}
    Skews = {0}
    LastStart = 2
    MaxTime = 3
SPECIFICATION FairSpec
PROPERTIES
    CacheNeverGoesBack
    RetryUsesNewToken
    ImplementsCallOnce
    EveryCallEnds
