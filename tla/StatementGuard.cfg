SPECIFICATION FairSpec
CONSTANTS
    s1 = s1
    s2 = s2
    Sessions = {s1, s2}
    Detached = {}
    Statements <- SharedStatements
    Confs <- SharedConfs
    Sizes = {1, 2}
    MaxDepth = 2
    MaxEvents = 2
    MaxRestarts = 1
INVARIANTS
    TypeOK
    HarmNeedsFailOpen
    
    ToldIsOnRecord
    RecordedBlockStops
PROPERTY
    HooksReturn
