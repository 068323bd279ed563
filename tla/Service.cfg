\* Shutdown around readiness probes: clients, answers, and that the drain ends.
SPECIFICATION SmallSpec
CONSTANTS
    r1 = r1
    r2 = r2
    NoSignal = NoSignal
    NoCaller = NoCaller
    NoResult = NoResult
    NoReply = NoReply
    Requests <- TwoProbes
    Clients <- OneClient
    Fallible <- MayFail
    ClockSteps <- Never
    MaxSignals = 1
    TTL = 0
    Timeout = 1
    Overrun = 0
    MaxSkew = 0
    MaxTime = 1
INVARIANTS
    ClientsOutliveChecks
    NothingLeftBehind
PROPERTIES
    Drains
