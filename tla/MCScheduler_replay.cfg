CONSTANTS
    t1 = t1
    s1 = s1
    s2 = s2
    e1 = e1
    v1 = v1
    v2 = v2
    v3 = v3
    v4 = v4
    x1 = x1
    Tasks = {t1}
    Versions = {v1, v2}
    Scheduled = {v1, v2}
    Cron <- Crons
    Policy <- EnqueueOnce
    Uses <- NoUses
    Manual = {}
    Items = {}
    Schedulers = {s1}
    Editors = {}
    MaxNow = 5
    MaxOps = 2
    Instances = {{s1, v1, v2}}
SPECIFICATION MCSpec
CHECK_DEADLOCK FALSE
INVARIANTS
    NewRulesDoNotReplay
