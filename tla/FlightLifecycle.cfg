\* Two positions runs that may overlap, beside the runs that bring legs back
\* and take them away; failures anywhere.
SPECIFICATION Spec
CONSTANTS
    None = None
    Aircraft = {a1}
    Others = TRUE
    Ticks = {t1, t2}
    TTL = 1
    Grace = 1
    Retention = 1
    Day = 1
    DeleteCap = 1
    ArchiveCap = 1
    IsLiveEnabled = FALSE
    MaxTime = 4
    Jobs = {"positions", "enrichment", "archive", "purge"}
    Outages = {"positions", "enrichment", "archive"}
SYMMETRY Symmetry
INVARIANTS TypeOK  ArchivedIsSettled
