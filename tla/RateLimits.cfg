SPECIFICATION RateSpec
CONSTANTS
    None = None
    Conns = {public, auth}
    Budget = 2
    Window = 3
    MaxNow = 9
    Callers = {t1, t2}
    Pairs = {p1, p2}
    Api = api
    Ids = {i1}
    Cap <- MCCap
    Decay <- MCDecay
    LruCap = 1
    IndexCap = 1
    Seconds = 20
    Stale = 1
SYMMETRY Symmetry
CONSTRAINT Apart
INVARIANTS
    WindowCap
    NoNeedlessWait
    BurstBounded
    BackoffFits
