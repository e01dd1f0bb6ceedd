CONSTANTS
    m1 = m1
    m2 = m2
    k1 = k1
    k2 = k2
    d1 = d1
    d2 = d2
    o1 = o1
    Messages = {m1, m2}
    Kind <- ReportAndProbe
    Family <- OneFamily
    Started = {}
    Dispatchers = {d1, d2}
    Operators = {o1}
    Mortal = {d1, o1}
    Keys = {k1, k2}
    AutoLimit = 2
    MaxAttempts = 3
    MaxEdits = 1
    MaxCrashes = 1
    MaxFaults = 1
    Instances = {{m1, d1, o1}, {m2, d1, d2}}
SYMMETRY KeySymmetry
SPECIFICATION MCSpec
CHECK_DEADLOCK FALSE
INVARIANTS
    RunTellsOfMail
    RequestOnce
PROPERTIES
    DeliversOnce
