\* Two pulls overlap; nothing fails.
SPECIFICATION Spec
CONSTANTS
    NULL = NULL
    Recs = {r1}
    Local = {r1}
    Pulls = {p1, p2}
    Limit = 1
    Second = 1
    Lookback = 2
    FirstMark = 0
    Ties = FALSE
    Outages = FALSE
    MaxTime = 6
INVARIANT OverlapIsHarmless
