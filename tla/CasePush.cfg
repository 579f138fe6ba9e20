\* Overlapping passes, every fault, the session that holds the lock dropped once;
\* the Limit bites.
SPECIFICATION Spec
CONSTANTS
    NULL = NULL
    Cases = {c1, c2, c3}
    High = {c1, c2}
    Passes = {p1, p2}
    SfIds = {i1, i2, i3}
    MAX_ATTEMPTS = 3
    Limit = 1
    Faults = {"network", "recordtype", "lookup", "hidden", "postgres", "crash"}
    MaxLockLosses = 1
SYMMETRY Symmetry
INVARIANTS TypeOK SyncedIsReal BatchIsFresh TimelineAgrees
