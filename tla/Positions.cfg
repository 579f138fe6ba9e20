\* Two polls, a sync and guarded reconciles; failures anywhere.
SPECIFICATION FairSpec
CONSTANTS
    Slots = {r1, r2}
    Prompt = TRUE
    Aircraft = {1, 2}
    Polls = {p1, p2}
    Syncs = {s1}
    LIVE_POSITION_WINDOW = 0
    POSITION_RETENTION = 0
    DeleteCap = 1
    MaxTime = 2
INVARIANTS TypeOK OneWorks LiveIsNewest
PROPERTY TenantFollows
