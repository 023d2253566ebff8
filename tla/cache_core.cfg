\* Two reads, two ingests, one key under each prefix.
CONSTANTS
    Segments <- MCSegments
    Reads = {r1, r2}
    Ingests = {i1, i2}
    Queries <- OneKeyEach
    KnownGpus <- MCKnownGpus
    TTL = 2
SPECIFICATION Spec
INVARIANTS
    TypeOK
    StaleOnlyByRace
    ReadsFollowIngests
PROPERTY StaleOnlyFades
SYMMETRY Symmetry
CHECK_DEADLOCK FALSE
