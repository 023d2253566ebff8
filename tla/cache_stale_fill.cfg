\* One read and one ingest are enough for the fill to land behind the sweep.
CONSTANTS
    Segments <- MCSegments
    Reads = {r1}
    Ingests = {i1}
    Queries <- OneKeyEach
    KnownGpus <- MCKnownGpus
    TTL = 1
SPECIFICATION Spec
INVARIANT IngestInvalidates
CHECK_DEADLOCK FALSE
