CONSTANTS
    MainThread = main
    Blockers = {b1, b2}
    Apps = {a1}
    NoThread = nobody
    MaxJobs = 1
    MaxTunnels = 1
    MaxAppCalls = 2

SPECIFICATION FairSpec

INVARIANTS
    LoopIdleWhileBlocked
    NoWaitCycle

PROPERTIES
    HandoverKept
    BlockServed
    StopServed
