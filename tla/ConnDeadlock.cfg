SPECIFICATION FairSpec
CONSTANTS
    SessionId = {i1}
    Routine = {g1}
    None = None
    RingCapacity = 1
    SendChSize = 1
    FlushBatch = 1
    MaxConcurrent = 1
    MaxEvents = 0
PROPERTIES
    ConnectionEnds
CHECK_DEADLOCK FALSE
