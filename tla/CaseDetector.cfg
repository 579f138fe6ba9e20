SPECIFICATION FairSpec
CONSTANTS
    NULL = NULL
    Watched = {1, 2}
    Nominal <- MCNominal
    Aircraft = {a1}
    Runs = {r1, r2}
    Scenes <- MCScenes
    Cadence = 10
    MaxTime = 40
INVARIANTS TypeOK FiledOnce
PROPERTIES LostIsSilent GoAroundIsValley WeatherIsReal EventuallyFiled
