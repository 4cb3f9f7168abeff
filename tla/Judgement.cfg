SPECIFICATION MCSpec
CONSTANTS
    Trees <- MCTrees
    Thresholds = {0, 50, 60, 80}
    Clients = {"c1", "c2"}
    Standbys = {"s1", "s2"}
    LongSeconds = 2
    LagLimits <- MCLagLimits
    WalLimits <- MCWalLimits
    Activities <- MCActivities
    Pools <- MCPools
    Graphs <- MCGraphs
    Lags <- MCLags
    WalRates <- MCWalRates
INVARIANTS
    FilterHidesNothing
    AlterCountsWorst
    StricterNeverSofter
    DefaultsStopDestruction
    
    ExplainNeverUnderstates
    
    ReportExplainsScore
PROPERTY
    PressureNeverFallsAsSignalsWorsen
