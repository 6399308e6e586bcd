SPECIFICATION Spec
CONSTANTS
    Asker = {input, conn}
    Input = input
    Host = {h1}
    RawLabels = {"fixed", "var", "composite"}
    HostMoves = FALSE
    TTL = 2
    MaxSlow = 1
    MaxClock = 4
INVARIANT RecoveryFindsAlert
CHECK_DEADLOCK FALSE
