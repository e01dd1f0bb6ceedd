CONSTANTS
    t1 = t1
    s1 = s1
    s2 = s2
    e1 = e1
    v1 = v1
    v2 = v2
    v3 = v3
    v4 = v4
    x1 = x1
    Tasks = {t1}
    Versions = {v1, v2, v3, v4}
    Scheduled = {v1, v2, v3}
    Cron <- Crons
    Policy <- EveryPolicy
    Uses <- UsedByV2
    Manual = {v1, v2}
    Items = {x1}
    Schedulers = {s1, s2}
    Editors = {e1}
    MaxNow = 4
    MaxOps = 2
    Instances = {{s1, e1, x1, v1, v2}, {s1, s2, v1, v3, v4}}
SPECIFICATION MCSpec
CHECK_DEADLOCK FALSE
INVARIANTS
    OccurrenceOnce
    OccurrenceCovered
    ScheduleStands
