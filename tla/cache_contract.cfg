\* Two reads over three price keys (one of an unknown GPU) and an index key, one ingest.
CONSTANTS
    Segments <- MCSegments
    Reads = {r1, r2}
    Ingests = {i1}
    Queries <- SeveralKeys
    KnownGpus <- MCKnownGpus
    TTL = 2
SPECIFICATION FairSpec
PROPERTIES
    ImplementsContract
    EveryRequestFinishes
    StaleEntryExpires
CHECK_DEADLOCK FALSE
