SPECIFICATION MCSpec
CONSTANTS
    Main = main
    Blockers = {b1}
    Consumers = {c1, c2}
    Nobody = nobody
    MaxSlots = 4
    MaxTime = 2
    MaxEvents = 5
  
PROPERTY RequestAnswered
CHECK_DEADLOCK FALSE
