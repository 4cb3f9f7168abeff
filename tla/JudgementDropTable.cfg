SPECIFICATION MCSpec
CONSTANTS
    Trees <- MCTrees
    Thresholds = {50, 80}
    Clients = {"c1", "c2"}
    Standbys = {"s1", "s2"}
    LongSeconds = 2
    LagLimits <- MCLagLimits
    WalLimits <- MCWalLimits
    Activities <- MCActivities
    Pools <- MCPools
    Graphs <- MCGraphs
    Lags <- MCLags
    WalRates <- MCWalRates
INVARIANT
    DropTableIsPGC004
