\* Every request is answered.
SPECIFICATION Spec
CONSTANTS
    c1 = c1
    c2 = c2
    kafka = kafka
    redis = redis
    NoCaller = NoCaller
    NoResult = NoResult
    NoReply = NoReply
    Callers <- TwoCallers
    Deps <- OneDep
    ClockSteps <- Never
    TTL = 1
    Timeout = 2
    Overrun = 0
    MaxSkew = 1
    MaxTime = 2
PROPERTIES
    EveryCallAnswered
