\* A request that has been answered is an end of the behaviour.
SPECIFICATION Spec
CHECK_DEADLOCK FALSE
CONSTANTS
    Roles = {w1, w2, w3}
    MaxParallel = 2
    MaxRetries = 1
INVARIANTS SuccessIsKept
