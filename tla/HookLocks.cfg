SPECIFICATION FairSpec
CONSTANTS
    p1 = p1
    p2 = p2
    p3 = p3
    Backends = {p1, p2, p3}
    Tags = {1, 2}
    LockModes = {"AccessShareLock", "RowExclusiveLock", "ShareLock", "AccessExclusiveLock"}
    MaxEdges = 256
    MaxPids = 64
    MaxTables = 2
    Guards <- SomeGuards
    Ops = {"insert", "create_index", "truncate", "drop_if_exists"}
INVARIANTS
    TypeOK
    
    
    
PROPERTY
    StatementsEnd
