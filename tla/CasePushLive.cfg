\* Liveness: two passes, every fault for a while, the oldest row first, a Case
\* that is never pushed.
SPECIFICATION FairSpec
CONSTANTS
    NULL = NULL
    Cases = {c1, c2, c3}
    High = {c1, c2}
    Passes = {p1, p2}
    SfIds = {i1, i2}
    MAX_ATTEMPTS = 3
    Limit = 1
    Faults = {"network", "recordtype", "lookup", "hidden", "postgres", "crash"}
    MaxLockLosses = 0
PROPERTIES OutboxSpec EventuallySettled
