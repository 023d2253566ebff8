\* A walk and three ingests of up to two rows: pages that end on a shared date,
\* batches committed out of the order of their ids and amid the walk.
CONSTANTS
    Walks = {w1}
    Batches = {b1, b2, b3}
    Times <- MCTimes
    MaxLimit = 3
    MaxBatch = 2
SPECIFICATION Spec
INVARIANTS
    TypeOK
    PagesDescend
    WalkExact
SYMMETRY Symmetry
CHECK_DEADLOCK FALSE
