CONSTANTS
    Workers = {w1, w2}
    Conns = {c1, c2}
    Checks = {check_world, check_frontends}
    Quit = quit
    NoJob = no_job
    MaxJobs = 3
    MaxTicks = 2
    MaxRetries = 1

SPECIFICATION FairSpec

INVARIANTS
    NoStrandedJob
    OneOwner

PROPERTIES
    QuitReachesAll
    BagSpec

\* After the shutdown, or once the bounded ticks and connections are used up,
\* every worker sleeps: the program really may stop there.
CHECK_DEADLOCK FALSE
