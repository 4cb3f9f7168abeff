SPECIFICATION WalSpec
CONSTANTS
    s1 = s1
    s2 = s2
    Samplers = {s1, s2}
    Limits <- MCLimits
    MaxTime = 2
    MaxWal = 2
INVARIANTS
    WalTypeOK
    WalIsCountedOnce
    LevelAgreesWithScore
