\* One line per failing field, against two rules that fail on one field.
SPECIFICATION Spec
CONSTANTS
    Environments <- HealthSet
    DefaultPort = 8080
    Unset = Unset
    Empty = Empty
    Blank = Blank
    Malformed = Malformed
INVARIANTS
    OneLinePerField
