CONSTANTS
    m1 = m1
    m2 = m2
    k1 = k1
    k2 = k2
    d1 = d1
    d2 = d2
    o1 = o1
    Messages = {m1}
    Kind <- OneReport
    Family <- OneFamily
    Started = {m1}
    Dispatchers = {d1, d2}
    Operators = {}
    Mortal = {d1}
    Keys = {}
    AutoLimit = 1
    MaxAttempts = 1
    MaxEdits = 0
    MaxCrashes = 1
    MaxFaults = 0
    Instances = {{m1, d1, d2}}
SPECIFICATION MCSpec
CHECK_DEADLOCK FALSE
INVARIANTS
    PostDataIsUncertain
