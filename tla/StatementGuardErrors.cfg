SPECIFICATION Spec
CONSTANTS
    s1 = s1
    s2 = s2
    Sessions = {s1}
    Detached = {}
    Statements <- SharedStatements
    Confs <- SharedConfs
    Sizes = {1}
    MaxDepth = 1
    MaxEvents = 2
    MaxRestarts = 0
INVARIANT
    ErrorsFailOpen
