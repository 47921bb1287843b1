CONSTANTS
    Callers = {c1, c2, c3}
    Ttl = 2
    ResultTtl = 4
    MaxTime = 5
    MaxFaults = 2
    Never = Never
    NoCaller = NoCaller
SPECIFICATION FairSpec
CHECK_DEADLOCK FALSE
INVARIANTS DedupInv OneAtATimeIfPrompt DuplicateGetsResult
PROPERTY NobodyWaitsForever
