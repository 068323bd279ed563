\* A cached failure under a backward correction of the wall clock.
SPECIFICATION Spec
CONSTANTS
    c1 = c1
    c2 = c2
    kafka = kafka
    redis = redis
    NoCaller = NoCaller
    NoResult = NoResult
    NoReply = NoReply
    Callers <- OneCaller
    Deps <- OneDep
    ClockSteps <- Backwards
    TTL = 1
    Timeout = 2
    Overrun = 0
    MaxSkew = 5
    MaxTime = 5
SYMMETRY Interchangeable
PROPERTIES
    RecoveryIsSeen
