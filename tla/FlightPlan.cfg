\* More aircraft than two cycles can look up, one that comes and goes, tokens
\* that expire within a cycle.
SPECIFICATION FairSpec
CONSTANTS
    Lifetime = 7
    Leeway = 3
    Timeout = 2
    Aircraft = {1, 2, 3, 4}
    Steady = {2, 3, 4}
    CACHE_TTL = 1
    MAX_FETCHES_PER_CYCLE = 2
    MaxAge = 4
INVARIANTS TypeOK NeverSendsExpired AuthIsReal
PROPERTY EventuallyPlanned
