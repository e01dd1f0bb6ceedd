CONSTANTS
    People = {p, q}
    Threads = {x, y}
    MaxSessions = 3
    MaxEdits = 2
    MaxCalls = 2
    MaxLapses = 1
    PreauthLimit = 1
    AccountLimit = 1
    GlobalLimit = 1
    Slots = 1
    Services = {"x", "y"}
    MaxContent = 3
    MaxRestores = 2
    Callers = {x, y}
    RequestKeys = {"k"}
    Contract <- MCContract
    MaxRuns = 3
    MaxActs = 3
    MaxTries = 2
    s1 = s1
    Pages = {x, y}
    Groups = {g1, g2, g3, g4}
    Profiles = {s0, s1}
    Fixed = {s0}
    Mapped = {s0, s1, g1, g2}
    Theirs = {g2}
    Creators = {"host", "user"}
    Host = "host"
    CreationKeys = {"k"}
    Addresses = {"a", "b"}
    MaxPages = 3
    MaxChanges = 4
    MaxLetters = 2
SPECIFICATION PagesSpec
PROPERTIES
    EditsAreSerialized
CHECK_DEADLOCK FALSE
