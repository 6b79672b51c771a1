CONSTANTS
    Context = {x1}
    Cluster = {u1, u2}
    Pod = {p1, p2}
    Backing = {p1}
    Call = {c1, c2}
    NoCluster = NoCluster
    NoPod = NoPod
    NoContext = NoContext
    TTL = 2
    Timeout = 1
    MaxTime = 3
    MaxChanges = 1
SPECIFICATION Spec
SYMMETRY Symmetric
INVARIANTS
    ReplacedClusterForgotten
    
    PickNeverPanics
CHECK_DEADLOCK FALSE
