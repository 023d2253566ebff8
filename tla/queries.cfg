\* Up to four observations and four benchmarks; a price answer of two rows, an
\* index of one or two.
CONSTANTS
    Observations <- MCObservations
    Benchmarks <- MCBenchmarks
    MaxRows = 4
    LastDay = 3
    Windows = {1, 2}
    IndexWindow = 1
    PriceLimit = 2
    Limits = {1, 2}
SPECIFICATION Spec
INVARIANTS
    TypeOK
    CheapestIsCurrent
    MedianSplits
    IndexIsOptimal
CHECK_DEADLOCK FALSE
