CONSTANTS
    Requests = {r1, r2}
    Probe = probe
    Connections = {c1}
    Nobody = nobody
    HealthyThreshold = 2
    UnhealthyThreshold = 3
SPECIFICATION FairSpec
INVARIANTS TypeOK PoolMoves RedisOutageContained
PROPERTIES CutOffForCause EveryRequestEnds ServiceRecovers
CHECK_DEADLOCK FALSE
