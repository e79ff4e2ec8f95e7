\* One call and the limits of the code in units of 20 s: the refresh buffer
\* 120 s, the timeout 200 s, the default and the longest lifetime 900 s.
CONSTANTS
    Calls = {c1}
    NoCall = NoCall
    RefreshBuffer = 6
    Timeout = 10
    DefaultTtl = 45
    Lifetimes = {45}
    Skews = {0}
    LastStart = 0
    MaxTime = 50
SPECIFICATION Spec
INVARIANT
    RefreshedBeforeExpiry
