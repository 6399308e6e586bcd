SPECIFICATION Spec
CONSTANTS
    Key = {k1}
    Req = {r1, r2}
    Session = {s1}
    None = None
    MaxConcurrent = 2
    DailyTokenLimit = 0
    Cost = {1}
    MaxEvents = 1
PROPERTIES
    ShutdownFindsAll
CHECK_DEADLOCK FALSE
