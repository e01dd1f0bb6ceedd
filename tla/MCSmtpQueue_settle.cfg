CONSTANTS
    m1 = m1
    m2 = m2
    k1 = k1
    k2 = k2
    d1 = d1
    d2 = d2
    o1 = o1
    Messages = {m1, m2}
    Kind <- ReportAndAlert
    Family <- OneFamily
    Started = {}
    Dispatchers = {d1, d2}
    Operators = {o1}
    Mortal = {d1}
    Keys = {}
    AutoLimit = 2
    MaxAttempts = 2
    MaxEdits = 0
    MaxCrashes = 1
    MaxFaults = 1
    Instances = {{m1, d1, d2, o1}, {m2, d1, d2}}
SPECIFICATION MCFairSpec
CHECK_DEADLOCK FALSE
PROPERTIES
    SlotIsReleased
    MessagesSettle
    ResultIsFinal
