CONSTANTS
    JobIds = {j1, j2}
    NoJob = NoJob
SPECIFICATION FairSpec
INVARIANTS
    TypeOK
    RunningExecutionIsVisible
    RetryFollowsItsOriginal
PROPERTIES
    SettledIsFinal
    ImplementsLifecycle
    QueuedIsResolved
    RunningIsResolved
CHECK_DEADLOCK FALSE
