\* Two periodic schedules, of which one step dispatches one, as the desktop does.
CONSTANTS
    Schedules = {1, 2}
    Period <- MCPeriod
    Anchor <- MCAnchor
    FirstRun <- MCFirstRun
    MaxDispatches = 1
    MaxClaims = 1
    RetryDelay = 1
    MaxTime = 1
    MaxAttempts = 1
    MaxFaults = 3
SPECIFICATION FairSpec
INVARIANTS
    TypeOK
    FiresOnce
PROPERTIES
    AttemptBegunOnce
    DueWorkIsTakenUp
CHECK_DEADLOCK FALSE
