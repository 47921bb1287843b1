CONSTANTS
    Workers = {w1, w2}
    MaxAttempts = 5
    SelectionTimeout = 20
    AttemptTimes = {0, 10, 20}
    MaxWait = 30
    WorkerTimeout = 120
    MaxRequests = 1
SPECIFICATION FairSpec
INVARIANTS StartInv ReadyCanServe GaveUpInTime NotReadyHasAReason
PROPERTIES Recovers
