SPECIFICATION Spec
CONSTANTS
    Key = {k1, k2}
    Req = {r1, r2, r3}
    Session = {s1}
    None = None
    MaxConcurrent = 2
    DailyTokenLimit = 1
    Cost = {1}
    MaxEvents = 2
SYMMETRY Symmetry
INVARIANTS
    SlotConservation
    PendingIsAwaited
    NoStaleCancel
    OvershootBounded
    OneCrewPerCooldown
PROPERTIES
    TakenOnce
    PoolSpec
CHECK_DEADLOCK FALSE
