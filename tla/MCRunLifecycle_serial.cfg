CONSTANTS
    t1 = t1
    t2 = t2
    w1 = w1
    w2 = w2
    Runs = {1, 2}
    Tasks = {t1}
    Workers = {w1, w2}
    TaskOf <- SameTask
    Plan <- ComposeThenDelivery
    DryRuns = {1, 2}
    MaxRunning = 2
    Cancellable = {}
    LeaseTerm = 2
    MaxCrashes = 1
SYMMETRY WorkerSymmetry
SPECIFICATION Spec
CHECK_DEADLOCK FALSE
INVARIANTS
    TypeOK
    TaskSerial
    LockFollowsClaim
PROPERTIES
    OutcomeIsFinal
