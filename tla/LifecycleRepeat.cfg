\* FR-023 against a second signal that comes before the re-arming.
SPECIFICATION Spec
CONSTANTS
    r1 = r1
    r2 = r2
    NoSignal = NoSignal
    Requests <- OneRequest
    Clients <- ThreeClients
    Fallible <- MayFail
    MaxSignals = 3
INVARIANTS
    RepeatIsHeard
