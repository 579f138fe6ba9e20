\* Two pulls that overlap and fail anywhere, equal stamps, two ticks a second,
\* pages cut, and a first window that slides past changes.
SPECIFICATION FairSpec
CONSTANTS
    NULL = NULL
    Recs = {r1, r2, r3}
    Local = {r1}
    Pulls = {p1, p2}
    Limit = 2
    Second = 2
    Lookback = 1
    FirstMark = NULL
    Ties = TRUE
    Outages = TRUE
    MaxTime = 3
INVARIANTS TypeOK NothingForgotten
PROPERTIES OnlyForward Mirrored
