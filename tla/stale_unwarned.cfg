SPECIFICATION Spec
CONSTANTS
    broken = broken
    fixed = fixed
    PRs = {1, 2}
    Forks = {2}
    Revisions = {broken, fixed}
    Failing = {broken}
    FirstHead <- MCFirstHead
    DaysBeforeStale = 14
    DaysBeforeClose = 7
    MaxTouches <- MCTouches
    MaxFailures = 1
INVARIANT ClosedWasWarned

CHECK_DEADLOCK FALSE
