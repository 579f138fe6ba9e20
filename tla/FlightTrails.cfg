\* Three aircraft, chunks of two, faults anywhere.
SPECIFICATION FairSpec
CONSTANTS
    Aircraft = {1, 2, 3}
    Lookback = 1
    Recent = 0
    _ENRICHMENT_CHUNK = 2
    MaxTime = 2
INVARIANTS TypeOK TrailIsWhole
PROPERTIES FinishedIsEnriched EventuallyTrailed
