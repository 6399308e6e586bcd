SPECIFICATION FairSpec
CONSTANTS
    SessionId = {}
    Routine = {}
    None = None
    RingCapacity = 2
    SendChSize = 2
    FlushBatch = 1
    MaxConcurrent = 1
    MaxEvents = 5
PROPERTIES
    ChannelSpec
    ConnectionEnds
