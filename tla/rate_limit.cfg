CONSTANTS
    Requests = {r1, r2, r3, r4}
    MaxRequests = 1
    Window = 3
    Second = 3
    MaxTime = 3
    MaxFaults = 1
    Never = Never
SPECIFICATION Spec
CHECK_DEADLOCK FALSE
SYMMETRY Symmetry
INVARIANTS BucketInv AdmissionIsBounded NoLockout RefusedOnlyWhenFull
    RetryAfterIsEnough
