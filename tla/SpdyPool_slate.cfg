CONSTANTS
    k1 = k1
    x1 = x1
    x2 = x2
    Key = {k1}
    Context = {x1}
    ContextOf <- MCContextOf
    Dialer = {d1, d2}
    ConnId = {e1, e2, e3, e4}
    NoKey = NoKey
    NoConn = NoConn
    NoDialer = NoDialer
    MaxConfig = 1
SPECIFICATION Spec
INVARIANTS
    CleanSlate
CHECK_DEADLOCK FALSE
