\* What an answer says of the dependencies, while the clock is never corrected.
SPECIFICATION PatientSpec
CONSTANTS
    c1 = c1
    c2 = c2
    kafka = kafka
    redis = redis
    NoCaller = NoCaller
    NoResult = NoResult
    NoReply = NoReply
    Callers <- TwoCallers
    Deps <- TwoDeps
    ClockSteps <- Never
    TTL = 1
    Timeout = 2
    Overrun = 0
    MaxSkew = 1
    MaxTime = 5
SYMMETRY Interchangeable
PROPERTIES
    OutageIsSeen
    RecoveryIsSeen
