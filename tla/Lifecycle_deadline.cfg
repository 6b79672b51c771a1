CONSTANTS
    Addr = {a1, a2}
    Query = {q1}
    Change = {r1}
    Probe = {b1}
    Tunnel = {t1}
    Fragile = {"udp"}
    NoAddr = NoAddr
SPECIFICATION FairSpec
PROPERTIES
    StopKeepsDeadline
CHECK_DEADLOCK FALSE
