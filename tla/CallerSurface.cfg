SPECIFICATION Spec
CONSTANTS
    Callers = {t1, t2}
    Channels = {ticker}
    Ids = {1, 2}
    QueueCap = 2
    Plans <- MCPlans
CHECK_DEADLOCK FALSE
INVARIANTS PresenceAccounts GuardsHeard NoLostTeardown CrashNotClean
PROPERTY TeardownsApplied
