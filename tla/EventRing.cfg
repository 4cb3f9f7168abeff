\* Two recording sessions, a reader and a session that found a foreign
\* segment; the ring holds one to three events and wraps several times; one
\* restart may change its size.  A single attached reader, so that readers
\* cannot overlap for ever.
SPECIFICATION FairSpec
CONSTANTS
    w1 = w1
    w2 = w2
    r1 = r1
    r2 = r2
    Writers = {w1, w2}
    Readers = {r1, r2}
    Detached = {r2}
    FaultWriters = {}
    RiskEvents <- MCRiskEvents
    Sizes = {1, 2, 3}
    MaxEvents = 4
    MaxRestarts = 1
    NoBackend = NoBackend
    NoEvent = NoEvent
INVARIANTS
    TypeOK
    RetainsNewest
    SnapshotsWhole
PROPERTIES
    ViewsAdvance
    ImplementsHistory
    RecordsReturn
    SnapshotsReturn
