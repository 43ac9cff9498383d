SPECIFICATION MCSpec
CONSTANTS
    Tunnels = {t1}
    LeastMin = 1
    IntervalMin = 2
    IntervalMax = 3
    IdleMax = 3
    World = 2
    Fudge = 1
    AppTicks = TRUE
    Outcomes <- Unrejected
PROPERTIES  LockUpFound SilentTunnelShut
CHECK_DEADLOCK FALSE
