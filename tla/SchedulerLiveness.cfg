SPECIFICATION FairSpec
CONSTANTS
    Key = {k1}
    Req = {r1, r2}
    Session = {s1}
    None = None
    MaxConcurrent = 1
    DailyTokenLimit = 2
    Cost = {0, 1}
    MaxEvents = 1
PROPERTIES
    RequestsEnd
CHECK_DEADLOCK FALSE
