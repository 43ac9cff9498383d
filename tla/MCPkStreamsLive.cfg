SPECIFICATION FairSpec
CONSTANTS
    Slots = {i1, i2}
    MaxSids = 2
    MaxAhead = 1
    Window = 0
PROPERTIES OverIsClosed BlockedIsLetGo
CHECK_DEADLOCK FALSE
