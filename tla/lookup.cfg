CONSTANTS
    Calls = {c1, c2, c3}
    Names = {old, new}
    NoDocument = NoDocument
    NoName = NoName
    Ttl = 2
    Lag = 1
    MaxTime = 4
    MaxMoves = 2
    MaxFaults = 1
    Never = Never
SPECIFICATION Spec
CHECK_DEADLOCK FALSE
SYMMETRY Symmetry
INVARIANTS LookupInv NoGoingBack
PROPERTIES ImplementsRecentName
