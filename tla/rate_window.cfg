\* One key in two workers whose hashes of it may differ or not (other keys matter
\* only where they collide), each transaction resent once at most, and time for
\* a counter to expire (2 * Window seconds) under a request that still waits.
CONSTANTS
    Requests = {r1, r2, r3}
    Workers = {w1, w2}
    ApiKeys = {k1}
    BadKey = nokey
    BucketIds = {h1, h2}
    Limit = 1
    Window = 2
    Retries = 1
    MaxNow = 4
SPECIFICATION Spec
INVARIANTS
    TypeOK
    WindowBound
    KeyBound
    ThrottledOnlyWhenSpent
SYMMETRY Symmetry
CHECK_DEADLOCK FALSE
