\* Two reads whose filters share a key.
CONSTANTS
    Segments <- MCSegments
    Reads = {r1, r2}
    Ingests = {i1}
    Queries <- Literals
    KnownGpus <- MCKnownGpus
    TTL = 1
SPECIFICATION Spec
INVARIANT AnswerMatchesRequest
CHECK_DEADLOCK FALSE
