SPECIFICATION Spec
CONSTANTS
    MaxHistory = 4
    ChatRounds = 2
    ContextLimits = {0, 6}
    MaxCalls = 2
    ResultTokens = {1, 3}
    MaxRounds = 4
    WindowLimits = {0, 1, 6}
    LoopCalls = 2
    LoopTokens = {1, 3}
    Models = 3
    MaxRetries = 3
    MaxBackoff = 3
    Caller = {c1, c2}
    NoCaller = NoCaller
    PipeSize = 1
    ForeignId = {1}
    MaxIds = 3
    MaxForeign = 1
    InputSize = 2
    MaxInputs = 4
INVARIANTS
    RolledBack
CHECK_DEADLOCK FALSE
