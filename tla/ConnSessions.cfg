SPECIFICATION Spec
CONSTANTS
    SessionId = {i1, i2}
    Routine = {g1, g2, g3}
    None = None
    RingCapacity = 1
    SendChSize = 2
    FlushBatch = 1
    MaxConcurrent = 2
    MaxEvents = 1
SYMMETRY Symmetry
INVARIANTS
    TypeOK
    SlotsMatch
    SessionsKnown
CHECK_DEADLOCK FALSE
