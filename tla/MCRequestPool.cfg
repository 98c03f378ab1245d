SPECIFICATION Spec
CONSTANTS
    InitialRequests = 2
    LowWater = 1
    MaxHeld = 5
    Clients = {c1, c2}
SYMMETRY Symmetry
INVARIANTS
    TypeOK
    Exclusive
    FreeCountExact
    BoundedGrowth
PROPERTIES
    GrowsOnlyWhenLow
