\* Two workers, one key.
CONSTANTS
    Requests = {r1, r2}
    Workers = {w1, w2}
    ApiKeys = {k1}
    BadKey = nokey
    BucketIds = {h1, h2}
    Limit = 1
    Window = 2
    Retries = 1
    MaxNow = 1
SPECIFICATION Spec
INVARIANT PerKeyLimit
CHECK_DEADLOCK FALSE
