\* Two servers with two connections each.
SPECIFICATION FairSpec
CONSTANTS
    RingSize = 2
    NumServers = 2
    PoolSize = 2
    NumSlots = 2
    MaxLookups = 3
    MaxConns = 4
    Losses = TRUE
    Cuts = TRUE
INVARIANTS
    PoolBounded
    MapIsCurrent
PROPERTIES
    IsLookupService
    ServerComesBack
\* The bound on the lookups ends the requests; connections come and go.
CHECK_DEADLOCK FALSE
