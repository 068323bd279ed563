\* What is counted, logged and correlated, for two concurrent requests.
SPECIFICATION Spec
CONSTANTS
    r1 = r1
    r2 = r2
    id = id
    ZeroId = ZeroId
    NoId = NoId
    Requests <- TwoRequests
    Routes <- OneRoute
    Methods <- OneMethod
    Codes <- TwoCodes
    Inbound <- OneId
    Headers <- SomeHeaders
SYMMETRY Interchangeable
INVARIANTS
    TypeOK
    CountedAsSent
    PanicsAreLogged
    Correlated
