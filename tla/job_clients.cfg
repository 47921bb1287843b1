CONSTANTS
    Clients = {c1, c2, c3}
    JobsLimit = 2
    DefaultLimit = 3
    Window = 6
    Second = 3
    Pause = 2
SPECIFICATION FairSpec
INVARIANTS ClientsInv OutcomeInTime
PROPERTIES EveryClientSettles
