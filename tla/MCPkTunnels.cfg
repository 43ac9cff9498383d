SPECIFICATION FairSpec
CONSTANTS
    Blockers = {b1}
    Loop = loop
    NoThread = nobody
    NumRelays = 2
    Uuid <- MCUuid
    Ping <- MCPing
    Answering = {1, 2}
    Steady = {2}
    Spares = 0
    MaxErrors = 1
    Modulus = 4
INVARIANTS ChangingIsConnecting CountIsClose
PROPERTIES LastTunnelStays KeepsTrying
CHECK_DEADLOCK FALSE
