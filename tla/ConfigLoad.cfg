\* Load against the contract, for every pair of settings.
SPECIFICATION Spec
CONSTANTS
    Environments <- TwoSet
    DefaultPort = 8080
    Unset = Unset
    Empty = Empty
    Blank = Blank
    Malformed = Malformed
INVARIANTS
    TypeOK
    StartsIffPermitted
    ReportIsExact
