\* Three ingests at once, over three natural keys.
CONSTANTS
    Ingests = {i1, i2, i3}
    k1 = k1
    k2 = k2
    k3 = k3
    p1 = p1
    p2 = p2
    Keys = {k1, k2, k3}
    Prices = {p1, p2}
    Batches <- MCBatches
SPECIFICATION FairSpec
INVARIANTS
    TypeOK
    DeadlocksAreFound
PROPERTIES
    WorkDecreases
    EveryIngestEnds
    ImplementsContract
CHECK_DEADLOCK FALSE
