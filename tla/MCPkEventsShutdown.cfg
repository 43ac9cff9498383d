SPECIFICATION FairSpec
CONSTANTS
    Main = main
    Blockers = {b1}
    Consumers = {c1, c2}
    Nobody = nobody
    MaxSlots = 4
    MaxTime = 1
    MaxEvents = 1
PROPERTY ShutdownServed
CHECK_DEADLOCK FALSE
