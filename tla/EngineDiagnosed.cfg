SPECIFICATION EngineSpec
CONSTANTS
    Key = {k1}
    Alerting <- Configs
    Notifier = {n1}
    MinSeverity = "Critical"
    DiagnoseEnabled = TRUE
    Aggregator = TRUE
    NoEvent = NoEvent
    EngineTime = 2
INVARIANTS
    DiagnosedWereAccepted
