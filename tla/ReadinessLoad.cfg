\* Check rounds, drain and metrics, with a clock that may step backwards.
SPECIFICATION Spec
CONSTANTS
    c1 = c1
    c2 = c2
    kafka = kafka
    redis = redis
    NoCaller = NoCaller
    NoResult = NoResult
    NoReply = NoReply
    Callers <- TwoCallers
    Deps <- OneDep
    ClockSteps <- Backwards
    TTL = 1
    Timeout = 2
    Overrun = 0
    MaxSkew = 1
    MaxTime = 3
SYMMETRY Interchangeable
INVARIANTS
    TypeOK
    MetricsAgree
    
PROPERTIES
    RoundsSpaced
    
    KeepsPromise
