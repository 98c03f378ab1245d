\* Three servers with two connections each; four losses.
SPECIFICATION FairSpec
CONSTANTS
    NumServers = 3
    PoolSize = 2
    NumSlots = 3
    MaxLosses = 4
INVARIANTS
    SlotsServed
    OvershootBounded
PROPERTIES
    PoolRecovers
\* Nothing need happen once the pools are full.
CHECK_DEADLOCK FALSE
