CONSTANTS
    x1 = x1
    x2 = x2
    k1 = k1
    u1 = u1
    s1 = s1
    s2 = s2
    a1 = a1
    a2 = a2
    Client = {r1, r2}
    Context = {x1, x2}
    Cluster = {k1}
    User = {u1}
    Server = {s1, s2}
    Cred = {a1, a2}
    Bodies <- Credentials
    Files <- BadFile
    Used = {x1}
    Dial = {d1}
    None = None
    Nil = Nil
    Unreadable = Unreadable
SPECIFICATION Spec
SYMMETRY Symmetry
INVARIANTS
    ClientsMatch
    TunnelsFresh
PROPERTIES
    PostKeepsLoaded
    RequestsAdvance
CHECK_DEADLOCK FALSE
