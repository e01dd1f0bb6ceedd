CONSTANTS
    v1 = v1
    v2 = v2
    v3 = v3
    Tasks = {t1}
    Versions = {v1, v2, v3}
    Scheduled = {v1, v2}
    Cron <- Crons
    Policy <- CatchUpAndOnce
    Uses <- NoUses
    Manual = {}
    Items = {}
    Schedulers = {s1, s2}
    Editors = {}
    MaxNow = 4
    MaxOps = 1
    Procs = {main, other}
    Leader = main
    Tools = {read}
    Runners = {"opencode", "synthetic", "codex", "antigravity", "sample", "isolated"}
    Budget = 10
    Failures = 3
SPECIFICATION ProgressSpec
CHECK_DEADLOCK FALSE
INVARIANTS
    CleanupIsTrue
    SuccessIsEarned
PROPERTIES
    CaughtUp
    InvocationEnds
