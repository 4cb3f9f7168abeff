SPECIFICATION LockSpec
CONSTANTS
    p1 = p1
    p2 = p2
    p3 = p3
    p4 = p4
    t1 = t1
    t2 = t2
    Backends = {p1, p2, p3, p4}
    Tags = {t1, t2}
    LockModes = {"ShareLock", "AccessExclusiveLock"}
    MaxEdges = 4
    MaxPids = 3
SYMMETRY Interchangeable
INVARIANTS
    CycleIsDeadlock
    
    SeverityCountsSessions
PROPERTY
    CycleStaysUntilAborted
