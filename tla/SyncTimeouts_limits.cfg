\* The limits of client.py in units of 5 s: 200 s, 180 s, 150 s, and a network
\* that takes at most 5 s each way, or 15 s.  A request is over when it is over.
CONSTANTS
    SdkTimeout = 40
    WriteTimeout = 36
    EngineWait = 30
    Delays = {1, 3}
SPECIFICATION Spec
INVARIANTS
    Inv
    GatewayGivesUpFirst
    SlowEngineGets202
PROPERTIES
    TimeoutBlamesNetwork
CHECK_DEADLOCK FALSE
