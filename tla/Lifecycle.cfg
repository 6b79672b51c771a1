CONSTANTS
    Addr = {a1, a2}
    Query = {q1}
    Change = {r1}
    Probe = {b1}
    Tunnel = {t1}
    Fragile = {"udp"}
    NoAddr = NoAddr
SPECIFICATION FairSpec
INVARIANTS
    FailedStartAccounted
    ReadyHonest
    CleanExit
    QuietAfterShutdown
PROPERTIES
    StopReturns
CHECK_DEADLOCK FALSE
