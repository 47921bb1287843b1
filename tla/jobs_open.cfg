CONSTANTS
    Calls = {c1, c2, c3}
    Tasks = {t1}
    Workers = {w1}
    NoTask = NoTask
    NoWorker = NoWorker
    NoCall = NoCall
    PlatformUnique = FALSE
    MaxFaults = 1
    MaxCrashes = 1
SPECIFICATION FairSpec
CHECK_DEADLOCK FALSE
INVARIANTS ResultsMatchStatus StoresAgree OrphanOnlyAfterFault
PROPERTIES PublishedIsFinal AckedSettles
