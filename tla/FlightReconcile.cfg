\* One positions run at a time, the sweep and the archive; failures anywhere.
SPECIFICATION FairSpec
CONSTANTS
    None = None
    Aircraft = {a1}
    Others = TRUE
    Ticks = {t1}
    TTL = 1
    Grace = 0
    Retention = 0
    Day = 1
    DeleteCap = 1
    ArchiveCap = 1
    IsLiveEnabled = TRUE
    MaxTime = 3
    Jobs = {"positions", "reconcile", "archive", "purge"}
    Outages = {"positions", "reconcile", "archive"}
PROPERTIES LeavesSafely EventuallyDim EventuallyArchived
