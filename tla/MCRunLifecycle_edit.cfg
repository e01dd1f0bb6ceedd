CONSTANTS
    t1 = t1
    t2 = t2
    w1 = w1
    w2 = w2
    Runs = {1}
    Tasks = {t1}
    Workers = {w1}
    TaskOf <- OneTask
    Plan <- DeliveryPlan
    DryRuns = {}
    MaxRunning = 2
    Cancellable = {1}
    LeaseTerm = 1
    MaxCrashes = 0
SPECIFICATION Spec
CHECK_DEADLOCK FALSE
INVARIANTS
    EndedRunLeavesNoPendingEmail
