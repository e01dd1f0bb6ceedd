CONSTANTS
    t1 = t1
    t2 = t2
    w1 = w1
    w2 = w2
    Runs = {1, 2}
    Tasks = {t1, t2}
    Workers = {w1}
    TaskOf <- TwoTasks
    Plan <- FullThenDelivery
    DryRuns = {2}
    MaxRunning = 1
    Cancellable = {1}
    LeaseTerm = 1
    MaxCrashes = 1
SPECIFICATION FairSpec
CHECK_DEADLOCK FALSE
INVARIANTS
    SuccessHasEvidence
PROPERTIES
    CancelPrevails
    ReleaseNeedsProof
    RunsSettle
    ClaimsSettle
