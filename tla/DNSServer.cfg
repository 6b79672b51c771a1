CONSTANTS
    Context = {x1, x2}
    x1 = x1
    x2 = x2
    s1 = s1
    Clusters <- Both
    Service = {s1}
    Addr = {a1, a2}
    p1 = p1
    p2 = p2
    Port = {p1, p2}
    PortSets <- Grows
    Query = {q1, q2}
    NoAddr = NoAddr
    NoContext = NoContext
SPECIFICATION Spec
SYMMETRY Symmetry
INVARIANTS
    RightService
    AnswerServed
    ContextsAccounted
PROPERTIES
    QueriesAdvance
CHECK_DEADLOCK FALSE
