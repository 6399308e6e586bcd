SPECIFICATION Spec
CONSTANTS
    Event = {a, b, c}
    Nil = Nil
    Capacity = 3
    BatchSize = {2, 3}
    NormalMin = 1
    NormalMax = 300
    AuthMin = 60
    AuthMax = 1800
    RetryAfter = {1, 30, 3600}
    Saver = {s1, s2}
    Inode = {i1, i2, i3}
    None = None
    Empty = Empty
    Torn = Torn
    MaxRuns = 3
    Registered = {"flashduty", "pagerduty", "webapi"}
    MaxAttempts = 2
    Pusher = {p1, p2}
    MaxSize = 2
    PushSizes = {1, 2}
    PopSizes = {1, 2}
    MaxItems = 4
    Record = {r1, r2, r3}
    MaxCounts = {0, 1, 2}
    Retentions = {0, 1}
    MaxTime = 3
    Caller = {k1, k2}
    MaxDrawn = 3
    m1 = m1
    m2 = m2
    ModelName = {m1, m2}
    Absent = Absent
    RawSettings <- SettingsGroups
    MaxInput = 4
    RunInputs <- SomeInputs
    ServerName = {v1, v2}
    McpTool = {u1, u2}
    Unnamed = Unnamed
    Servers = 3
    Asker = {g1, g2}
    h1 = h1
    Host = {h1, h2}
    RawLabels = {"missing", "fixed", "var", "composite", "longer"}
    HostMoves = TRUE
    TTL = 2
    MaxSlow = 1
    MaxClock = 4
    Key = {k1}
    Alerting <- AlertConfigs
    Notifier = {n1, n2}
    MinSeverity = "Warning"
    DiagnoseEnabled = TRUE
    Aggregator = TRUE
    NoEvent = NoEvent
    EngineTime = 8
    Category = {redis, mcp}
    McpCategory = {mcp}
    t1 = t1
    t2 = t2
    linux = linux
    darwin = darwin
    ToolName = {t1, t2}
    OS = {linux, darwin}
    Tool <- SomeTools
    Nothing = Nothing
    AnyOS = AnyOS
    Character <- SomeCharacters
    Patterns <- SomePatterns
    Texts <- SomeTexts
    MaxPatterns = 2
INVARIANTS
    PartsTypeOK
    ForwardTruthful
    EachInOrder
    OneIdentity
    AcceptedIsUsable
    CommandsSound
    NoneLeftBehind
    FreshIdentity
    ToolsSound
    FiltersSound
    RepeatLimit
    NotTooEarly
    SubmittedOnce
PROPERTIES
    QueueSpec
    NeverHastier
    CleanupExact
    StoreSound
    SpacedDelivery
    RecoveryFollowsAlert
CHECK_DEADLOCK FALSE
