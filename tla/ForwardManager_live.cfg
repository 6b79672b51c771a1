CONSTANTS
    x1 = x1
    Vip = {v1, v2}
    Port = {p1}
    Context = {x1}
    ContextOf <- MCContextOf
    Query = {q1, q2}
    Conn = {c1}
    State = {s1, s2}
    NoVip = NoVip
    NoState = NoState
    NoPort = NoPort
SPECIFICATION FairSpec
PROPERTIES
    ImplementsIdleForward
    IdleVIPReleased
    AllocatedVIPReleased
    DeadListenerForgotten
CHECK_DEADLOCK FALSE
