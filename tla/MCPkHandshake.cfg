SPECIFICATION MCSpec
CONSTANTS
    Kites = {k1}
    Strangers = {k0}
    KiteMax = 3
    Salts = {1, 2}
    Tls = TRUE
    Hasty = TRUE
    MaxResponses = 4
    MaxLines = 2
    Visitors = {v1, v2}
    RelaySlots = 2
INVARIANTS SignedAsAsked 
PROPERTIES AttemptEnds RelayDecides
CHECK_DEADLOCK FALSE
