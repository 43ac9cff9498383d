SPECIFICATION MCSpec
CONSTANTS
    Cap = 10
    Shapes <- MCShapes
    MaxFrames = 2
    MaxRead = 12
    MaxConns = 2
    Yielding = FALSE
    LogMax = 13
    LineMax = 4
    LineSizes = {1, 2, 3}
    LogCount = 6
    Keys = {"a", "b", "c"}
    Vals = {"u", "v"}
    Home <- MCHome
    MinBits = 1
    MaxBits = 3
    MaxBucket = 2
    ShrinkBits = 1
    ShrinkPart = 2
    SpareBits = 2
    MaxCount = 4
    Timers = {w1, w2, w3, w4}
    D = 2
    Afters = {0, 2}
    Repeats = {0, 1}
    NowMax = 3
    MaxJump = 2
    Ipv4 = {a1, a2}
    Ipv6 = {b1}
    NoAddress = no_address
    Tld = tld
    NoTld = no_tld
    OwnName = own_name
    RelayMax = 3
    FlagSets <- MCFlagSets
    SetupCalls = 2
    Merged = TRUE
SYMMETRY MCSymmetry
INVARIANTS NothingHeldBack LogIsTail FindsWhatIsHeld 
PROPERTIES SameFrames TimersRunInOrder
CHECK_DEADLOCK FALSE
