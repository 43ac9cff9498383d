SPECIFICATION MCSpec
CONSTANTS
    Slots = {i1, i2}
    MaxSids = 3
    MaxAhead = 2
    Window = 0
    Initial = 6
    Minimum = 1
    Maximum = 7
    Increment = 3
    Buffer = 3
    Backlog = 2
    Reads <- MCReads
    Throttles = TRUE
    Timeouts = TRUE
    MaxData = 12
    Tunnels = {t1}
    Streams = {c1}
    Fds = {1, 2}
    BackEnds = {"epoll", "poll", "select"}
    Racing = FALSE
SYMMETRY MCSymmetry
INVARIANTS HalfClosesAgree NoStreamStalls ReportsAreHonest NoStall  KernelKnows EventsAreFresh
CHECK_DEADLOCK FALSE
