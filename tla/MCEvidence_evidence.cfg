CONSTANTS
    MaxMinute = 1
    MaxHour = 1
    MaxDom = 4
    MaxMonth = 2
    LastDay = 3
    Dom <- MCDom
    Month <- MCMonth
    Weekday <- MCWeekday
    Expressions <- MCExpressions
    Sources <- MCSources
    Kind <- MCKind
    Size <- MCSize
    Document <- MCDocument
    MaxAsks = 2
    Artifacts <- MCArtifacts
    MaxFiles = 2
    MaxTotal = 3
    MaxImage = 2
    MaxMessage = 4
    MetadataBytes = 1
    MailCount = 2
    Finds <- MCFinds
    Alias <- MCAlias
    NoKey = "nokey"
    MaxRetries = 2
    MaxBuilds = 2
    HistoryLimit = 1
    ImageEngines = {"codex", "openrouter"}
    ImageNames = {"a", "b"}
    ImageBriefs <- MCBriefs
SPECIFICATION Spec
INVARIANTS
    FindsTheExtreme
    TransferIsCharged
    OnlyAuthentic
    NoFalseFailure
    AcceptanceIsLearned
    LeftOutWasSent
    AnswerHasReceipt
PROPERTIES
    CleanCloseIsQuiet
