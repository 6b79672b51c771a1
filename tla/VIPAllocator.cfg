CONSTANTS
    Key = {k1, k2}
    Caller = {c1, c2}
    Word = 8
    Networks <- MCNetworks
    Foreign = {1, 6}
    NoKey = NoKey
    MaxRestarts = 1
SPECIFICATION FairSpec
INVARIANTS
    Consistent
    TrackedIsBound
    Accounted
    CleanupComplete
    HostAddressesOnly
PROPERTIES
    ForeignUntouched
    LeaseSpec
    AllocateReturns
