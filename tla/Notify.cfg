SPECIFICATION FairSpec
CONSTANTS
    Notifier = Notifier
    RiskEvents <- MCRiskEvents
    Sizes = {1, 2}
    DecisionSets <- MCDecisionSets
    CatchUps = {FALSE, TRUE}
    MaxEvents = 4
    MaxRestarts = 1
INVARIANTS
    AtMostOncePerEvent
    OnlyNewEvents
    PollsAreExhausted
PROPERTIES
    NewEventsArePosted
CHECK_DEADLOCK FALSE
