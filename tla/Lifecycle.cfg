\* Order of shutdown, exit status, forced exits, and that the process ends.
SPECIFICATION Spec
CONSTANTS
    r1 = r1
    r2 = r2
    NoSignal = NoSignal
    Requests <- TwoRequests
    Clients <- ThreeClients
    Fallible <- MayFail
    MaxSignals = 3
INVARIANTS
    TypeOK
    ClosedAfterDrain
    CleanExit
    NeverHalfStarted
    ForcedByRepeat
    GuardedWhileWorking
    
    
PROPERTIES
    FollowsPhases
    Terminates
