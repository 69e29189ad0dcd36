SPECIFICATION FairSpec
CONSTANTS
    broken = broken
    fixed = fixed
    PRs = {1, 2}
    Forks = {2}
    Revisions = {broken, fixed}
    Failing = {broken}
    FirstHead <- MCFirstHead
    DaysBeforeStale = 4
    DaysBeforeClose = 2
    MaxTouches <- MCTouches
    MaxFailures = 1
INVARIANTS OnlyForksAreClosed ClosedWasExplained
PROPERTIES ClosedAfterCountdown AbandonedCloses
CHECK_DEADLOCK FALSE
