CONSTANTS
    Calls = {c1, c2}
    Tasks = {t1}
    Workers = {w1}
    NoTask = NoTask
    NoWorker = NoWorker
    NoCall = NoCall
    PlatformUnique = TRUE
    MaxFaults = 1
    MaxCrashes = 0
SPECIFICATION Spec
CHECK_DEADLOCK FALSE
PROPERTIES InProgressMeansRunning
