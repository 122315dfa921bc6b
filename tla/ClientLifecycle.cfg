SPECIFICATION Spec
CONSTANTS
    r1 = r1
    r2 = r2
    c1 = c1
    o1 = o1
    Waiters = {r1, r2, c1, o1}
    Tasks <- MCTasks
    Requests <- MCRequests
    RingCap = 1
    MissedCap = 1
    Readies = {r1, r2}
    Closes = {c1}
    Observers = {o1}
    Listened = {"ClientClosedEvent"}
    Scenarios <- MCScenarios
INVARIANTS
    CloseAnnounced
PROPERTIES
    NoLostTerminal
    KeepsContract
    ReadyNeverHangs
    CloseReturns
