SPECIFICATION FairSpec
CONSTANTS
    Notifier = Notifier
    RiskEvents <- MCRiskEvents
    Sizes = {2}
    DecisionSets <- BothDecisions
    CatchUps = {FALSE}
    MaxEvents = 2
    MaxRestarts = 1
PROPERTY
    WatchSurvivesRestart
CHECK_DEADLOCK FALSE
