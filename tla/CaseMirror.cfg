\* Sync and reconcile runs interleave with open transactions, purges, shared
\* stamps and failures.
SPECIFICATION FairSpec
CONSTANTS
    NULL = NULL
    Cases = {1, 2}
    Runs = {r1}
    Limit = 1
    DeleteCap = 1
    MaxOpen = 2
    Ties = TRUE
    Reconciles = TRUE
    Purges = TRUE
    Outages = TRUE
    MaxTime = 2
    MaxVer = 2
INVARIANTS TypeOK NothingMissed StayedIsKept
PROPERTY Mirrored
