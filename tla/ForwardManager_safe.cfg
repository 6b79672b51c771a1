CONSTANTS
    x1 = x1
    Vip = {v1}
    Port = {p1, p2}
    Context = {x1}
    ContextOf <- MCContextOf
    Query = {q1, q2}
    Conn = {c1, c2}
    State = {s1, s2}
    NoVip = NoVip
    NoState = NoState
    NoPort = NoPort
SPECIFICATION Spec
SYMMETRY Symmetry
INVARIANTS
    AllocatedNeverForgotten
    ActiveCountExact
    IdleVIPWillExpire
    ListenersTracked
CHECK_DEADLOCK FALSE
