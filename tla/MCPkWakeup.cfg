SPECIFICATION FairSpec
CONSTANTS
    Senders = {s1, s2}
    Loop = loop
    Asyncs <- MCAsyncs
INVARIANT NoLostWakeup
PROPERTY RequestsServed
CHECK_DEADLOCK FALSE
