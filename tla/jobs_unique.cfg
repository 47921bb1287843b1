CONSTANTS
    Calls = {c1, c2, c3}
    Tasks = {t1, t2}
    Workers = {w1, w2}
    NoTask = NoTask
    NoWorker = NoWorker
    NoCall = NoCall
    PlatformUnique = TRUE
    MaxFaults = 2
    MaxCrashes = 1
SPECIFICATION Spec
CHECK_DEADLOCK FALSE
SYMMETRY Symmetry
INVARIANTS JobInv AtMostOneRun
PROPERTIES ImplementsContract
