---------------------------- MODULE ServiceProofs ----------------------------
(***************************************************************************)
(* Proofs about Service, for any set of requests, any pool and any         *)
(* thresholds.                                                             *)
(***************************************************************************)
EXTENDS Service, TLAPS

USE DEF Handlers, Routes, Statements, RedisCalls, Ended

Places == {"idle", "connect"} \cup Statements \cup RedisCalls \cup Ended

\* The probe is no request, and nobody is neither.
LEMMA Names == Probe \in Handlers /\ Nobody \notin Handlers /\ \A r \in Requests : r \in Handlers /\ r # Probe
BY ProbeAssumption, NobodyAssumption

\* A step of a request, or of the handler of readyz, moves that one alone.
LEMMA RequestMoves ==
  ASSUME TypeOK, NEW r \in Requests, Arrive(r) \/ Step(r)
  PROVE  /\ pc' \in [Handlers -> Places]
         /\ \A h \in Handlers : h # r => pc'[h] = pc[h]
         /\ route' \in [Requests -> Routes \cup {"none"}]
         /\ \A s \in Requests : s # r => route'[s] = route[s]
         /\ UNCHANGED <<redis, postgres, ready>>
<1>1. TypeOK /\ r \in Handlers
  BY Names
<1>2. CASE Arrive(r)
  <2>1. PICK kind \in Routes, place \in Places :
          route' = [route EXCEPT ![r] = kind] /\ pc' = [pc EXCEPT ![r] = place]
    BY <1>2 DEF Arrive, Goto, Places
  <2>2. UNCHANGED <<redis, postgres, ready>>
    BY <1>2 DEF Arrive
  <2>3. QED
    BY <1>1, <2>1, <2>2 DEF TypeOK, WorkerTypeOK, Places
<1>3. CASE RateLimit(r) \/ Lookup(r) \/ QueryRows(r)
  BY <1>1, <1>3 DEF RateLimit, Lookup, QueryRows, End, Pass, Goto, TypeOK, WorkerTypeOK, Places
<1>4. CASE Connect(r)
  <2>1. PICK place \in First(r) : pc' = [pc EXCEPT ![r] = place]
    BY <1>4 DEF Connect, Goto
  <2>2. place \in Places
    BY <2>1 DEF First, Places
  <2>3. QED
    BY <1>1, <1>4, <2>1, <2>2 DEF Connect, TypeOK, WorkerTypeOK, Places
<1>5. CASE Fail(r) \/ WriteBatch(r)
  BY <1>1, <1>5 DEF Fail, WriteBatch, End, Goto, TypeOK, WorkerTypeOK, Places
<1>6. CASE Hit(r) \/ Miss(r) \/ Fill(r) \/ Sweep(r)
  BY <1>1, <1>6 DEF Hit, Miss, Fill, Sweep, End, Pass, Goto, TypeOK, WorkerTypeOK, Places
<1>7. QED
  BY <1>2, <1>3, <1>4, <1>5, <1>6 DEF Step

LEMMA ProbeMoves ==
  ASSUME TypeOK, AskReady \/ Connect(Probe) \/ Unready \/ SelectOne \/ Ping
  PROVE  /\ pc' \in [Handlers -> Places]
         /\ \A r \in Requests : pc'[r] = pc[r]
         /\ ready' \in BOOLEAN
         /\ UNCHANGED <<redis, postgres, route>>
<1>1. /\ \E place \in {"connect", "select", "ping", "idle"} : pc' = [pc EXCEPT ![Probe] = place]
      /\ ready' \in {ready, TRUE, FALSE}
      /\ UNCHANGED <<redis, postgres, route>>
  <2>1. CASE Connect(Probe)
    BY <2>1 DEF Connect, First, Goto
  <2>2. CASE AskReady \/ Unready \/ SelectOne \/ Ping
    BY <2>2 DEF AskReady, Unready, SelectOne, Ping, Goto
  <2>3. QED
    BY <2>1, <2>2
<1>2. pc \in [Handlers -> Places] /\ Probe \in Handlers
  BY DEF TypeOK, WorkerTypeOK, Places
<1>3. pc' \in [Handlers -> Places] /\ \A h \in Handlers : h # Probe => pc'[h] = pc[h]
  BY <1>1, <1>2 DEF Places
<1>4. ready' \in BOOLEAN
  BY <1>1, Zenon DEF TypeOK, WorkerTypeOK
<1>5. QED
  BY <1>1, <1>3, <1>4, Names

-----------------------------------------------------------------------------
\* Nothing has been asked when the process starts.
LEMMA TypeInit == Init => TypeOK
<1> SUFFICES ASSUME Init PROVE TypeOK
  OBVIOUS
<1>1. WorkerTypeOK
  BY DEF Init, WorkerInit, WorkerTypeOK, NoConnectionOut
<1>2. 0 \in 0 .. (UnhealthyThreshold - 1)
  BY ThresholdsAssumption
<1>3. QED
  BY <1>1, <1>2 DEF Init, TypeOK

\* What the pool and the history may become.
LEMMA SharedTypes ==
  ASSUME TypeOK, NEW h \in Handlers
  PROVE  /\ Released(h) \in [Connections -> Handlers \cup {Nobody}]
         /\ Blame(h) => trouble' \in BOOLEAN
<1>1. Released(h) \in [Connections -> Handlers \cup {Nobody}]
  BY DEF Released, TypeOK, WorkerTypeOK
<1>2. Blame(h) => trouble' \in BOOLEAN
  BY DEF Blame, TypeOK, WorkerTypeOK
<1>3. QED
  BY <1>1, <1>2

\* A probe that counts keeps the streak below the threshold it works towards.
LEMMA CountTypes ==
  ASSUME TypeOK, NEW ok \in BOOLEAN, Count(ok)
  PROVE  /\ target' \in {"initial", "healthy", "unhealthy"}
         /\ streak' \in 0 .. (IF target' = "unhealthy" THEN HealthyThreshold ELSE UnhealthyThreshold) - 1
<1> DEFINE bound == IF ok THEN HealthyThreshold ELSE UnhealthyThreshold
<1>1. 0 \in 0 .. (HealthyThreshold - 1) /\ 0 \in 0 .. (UnhealthyThreshold - 1)
  BY ThresholdsAssumption
<1>2. \/ streak' = 0 /\ target' \in {target, "healthy", "unhealthy"}
      \/ /\ ok # (target # "unhealthy")
         /\ streak + 1 # bound
         /\ target' = target
         /\ streak' = streak + 1
  BY DEF Count
<1>3. CASE streak' = 0 /\ target' \in {target, "healthy", "unhealthy"}
  BY <1>1, <1>3 DEF TypeOK
<1>4. CASE /\ ok # (target # "unhealthy")
           /\ streak + 1 # bound
           /\ target' = target
           /\ streak' = streak + 1
  <2>1. bound = IF target = "unhealthy" THEN HealthyThreshold ELSE UnhealthyThreshold
    BY <1>4
  <2>2. bound \in Nat /\ streak \in 0 .. (bound - 1)
    BY <2>1, ThresholdsAssumption DEF TypeOK
  <2>3. streak' \in 0 .. (bound - 1)
    BY <1>4, <2>2
  <2>4. QED
    BY <1>4, <2>1, <2>3 DEF TypeOK
<1>5. QED
  BY <1>2, <1>3, <1>4

LEMMA DoubtType ==
  ASSUME TypeOK, [Next]_vars
  PROVE  doubt' \in BOOLEAN
<1>1. doubt' = doubt \/ doubt' = TRUE \/ doubt' = Outage
  BY DEF Next, vars, balancer, StartProbe, ProbeStep, EndProbe, Timeout, Replace
<1>2. Outage \in BOOLEAN /\ doubt \in BOOLEAN
  BY DEF Outage, TypeOK
<1>3. QED
  BY <1>1, <1>2, Zenon

\* Every step keeps the types.
LEMMA TypeStep == TypeOK /\ [Next]_vars => TypeOK'
<1> SUFFICES ASSUME TypeOK, [Next]_vars PROVE TypeOK'
  OBVIOUS
<1>0. doubt' \in BOOLEAN
  BY DoubtType
<1>1. ASSUME NEW r \in Requests, Arrive(r) \/ Step(r), UNCHANGED balancer PROVE TypeOK'
  <2>1. r \in Handlers
    OBVIOUS
  <2>2. owner' \in [Connections -> Handlers \cup {Nobody}]
    <3>1. owner' \in {owner, Released(r)} \/ \E c \in Connections : owner' = [owner EXCEPT ![c] = r]
      BY <1>1 DEF Arrive, Step, RateLimit, Connect, Fail, Lookup, QueryRows, WriteBatch,
                  Hit, Miss, Fill, Sweep, End, Pass
    <3>2. owner \in [Connections -> Handlers \cup {Nobody}]
      BY DEF TypeOK, WorkerTypeOK
    <3>3. Released(r) \in [Connections -> Handlers \cup {Nobody}]
      BY <2>1, SharedTypes
    <3>4. QED
      BY <2>1, <3>1, <3>2, <3>3
  <2>3. trouble' \in BOOLEAN
    <3>1. trouble' = trouble \/ Blame(r)
      BY <1>1 DEF Arrive, Step, RateLimit, Connect, Fail, Lookup, QueryRows, WriteBatch,
                  Hit, Miss, Fill, Sweep
    <3>2. QED
      BY <2>1, <3>1, SharedTypes DEF TypeOK, WorkerTypeOK
  <2>4. QED
    BY <1>0, <1>1, <2>2, <2>3, RequestMoves DEF TypeOK, WorkerTypeOK, balancer, Places
<1>2. ASSUME AskReady \/ Connect(Probe) \/ Unready \/ SelectOne \/ Ping PROVE WorkerTypeOK'
  <2>1. owner' \in [Connections -> Handlers \cup {Nobody}]
    <3>1. owner' \in {owner, Released(Probe)} \/ \E c \in Connections : owner' = [owner EXCEPT ![c] = Probe]
      BY <1>2 DEF AskReady, Connect, Unready, SelectOne, Ping
    <3>2. Probe \in Handlers
      OBVIOUS
    <3>3. Released(Probe) \in [Connections -> Handlers \cup {Nobody}]
      BY <3>2, SharedTypes
    <3>4. owner \in [Connections -> Handlers \cup {Nobody}]
      BY DEF TypeOK, WorkerTypeOK
    <3>5. QED
      BY <3>1, <3>2, <3>3, <3>4
  <2>2. trouble' \in BOOLEAN
    <3>1. trouble' = trouble \/ Blame(Probe)
      BY <1>2 DEF AskReady, Connect, Unready, SelectOne, Ping
    <3>2. QED
      BY <3>1, SharedTypes, Names DEF TypeOK, WorkerTypeOK
  <2>3. QED
    BY <1>2, <2>1, <2>2, ProbeMoves DEF TypeOK, WorkerTypeOK, Places
<1>3. CASE StartProbe
  BY <1>0, <1>2, <1>3 DEF StartProbe, TypeOK
<1>4. CASE ProbeStep
  <2>1. CASE (Connect(Probe) \/ Unready \/ SelectOne) /\ UNCHANGED <<awaited, target, streak>>
    BY <1>0, <1>2, <2>1 DEF TypeOK
  <2>2. CASE EndProbe
    <3>1. WorkerTypeOK' /\ awaited' = FALSE
      BY <1>2, <2>2 DEF EndProbe
    <3>2. Healthy \in BOOLEAN
      BY DEF Healthy
    <3>3. CASE Count(Healthy)
      BY <1>0, <3>1, <3>2, <3>3, CountTypes DEF TypeOK
    <3>4. CASE UNCHANGED <<target, streak>>
      BY <1>0, <3>1, <3>4 DEF TypeOK
    <3>5. QED
      BY <2>2, <3>3, <3>4 DEF EndProbe
  <2>3. QED
    BY <1>4, <2>1, <2>2 DEF ProbeStep, balancer
<1>5. CASE Timeout
  <2>1. Count(FALSE) /\ Blame(Probe) /\ awaited' = FALSE /\ UNCHANGED <<redis, postgres, handling>>
    BY <1>5 DEF Timeout
  <2>2. /\ target' \in {"initial", "healthy", "unhealthy"}
        /\ streak' \in 0 .. (IF target' = "unhealthy" THEN HealthyThreshold ELSE UnhealthyThreshold) - 1
    BY <2>1, CountTypes
  <2>3. trouble' \in BOOLEAN
    BY <2>1, SharedTypes, Names
  <2>4. QED
    BY <1>0, <2>1, <2>2, <2>3 DEF handling, TypeOK, WorkerTypeOK
<1>6. CASE Replace
  <2>1. WorkerTypeOK'
    BY <1>6 DEF Replace, Restart, NoConnectionOut, TypeOK, WorkerTypeOK
  <2>2. QED
    <3>1. 0 \in 0 .. (UnhealthyThreshold - 1)
      BY ThresholdsAssumption
    <3>2. QED
      BY <1>0, <1>6, <2>1, <3>1 DEF Replace, TypeOK
<1>7. CASE (RedisChanges \/ PostgresChanges) /\ UNCHANGED <<awaited, target, streak>>
  BY <1>0, <1>7 DEF RedisChanges, PostgresChanges, handling, balancer, TypeOK, WorkerTypeOK
<1>8. CASE UNCHANGED vars
  BY <1>8 DEF vars, worker, handling, balancer, TypeOK, WorkerTypeOK
<1>9. QED
  BY <1>1, <1>3, <1>4, <1>5, <1>6, <1>7, <1>8 DEF Next

\* The process, the load balancer and the histories keep their types, and the
\* balancer's count stays under the thresholds of the target group.
THEOREM TypeCorrect == Spec => []TypeOK
BY TypeInit, TypeStep, PTL DEF Spec

-----------------------------------------------------------------------------
\* PoolMoves needs to know that the index asks Redis without a connection: a
\* miss sends it to wait for one.
PoolFree == {"idle", "limit", "connect", "ping"} \cup Ended
Owns(h) == \E c \in Connections : owner[c] = h

IndexFree == \A r \in Requests : route[r] = "index" /\ pc[r] = "get" => ~ Owns(r)

PoolInv == TypeOK /\ PoolMoves /\ IndexFree

\* Every connection is free when the process starts.
LEMMA PoolInit == Init => PoolInv
BY TypeInit DEF Init, WorkerInit, PoolInv, PoolMoves, IndexFree, NoConnectionOut

\* A handler may keep what it has, give it back, or take a connection when it
\* has none.
LEMMA PoolChange ==
  ASSUME PoolInv, NEW h \in Handlers,
         \A g \in Handlers : g # h => pc'[g] = pc[g],
         \A s \in Requests : s # h => route'[s] = route[s],
         \/ owner' = owner /\ ~ Owns(h)
         \/ /\ owner' = owner /\ pc'[h] \notin PoolFree
            /\ h \in Requests /\ pc'[h] = "get" => route'[h] # "index"
         \/ owner' = Released(h)
         \/ /\ \E c \in Connections : owner[c] = Nobody /\ owner' = [owner EXCEPT ![c] = h]
            /\ ~ Owns(h) /\ pc'[h] \notin PoolFree \cup {"get"}
  PROVE  PoolMoves' /\ IndexFree'
<1>1. owner \in [Connections -> Handlers \cup {Nobody}] /\ PoolMoves /\ IndexFree
  BY DEF PoolInv, TypeOK, WorkerTypeOK
<1>2. CASE owner' = owner /\ ~ Owns(h)
  BY <1>1, <1>2 DEF PoolMoves, IndexFree, Owns
<1>3. CASE /\ owner' = owner /\ pc'[h] \notin PoolFree
           /\ h \in Requests /\ pc'[h] = "get" => route'[h] # "index"
  BY <1>1, <1>3 DEF PoolMoves, IndexFree, Owns, PoolFree
<1>4. CASE owner' = Released(h)
  <2>1. \A c \in Connections : owner'[c] # Nobody => owner'[c] = owner[c] /\ owner[c] # h
    BY <1>4 DEF Released
  <2>2. \A c \in Connections : owner'[c] # h
    BY <1>4, Names DEF Released
  <2>3. PoolMoves'
    BY <1>1, <2>1 DEF PoolMoves
  <2>4. IndexFree'
    BY <1>1, <2>1, <2>2, Names DEF IndexFree, Owns
  <2>5. QED
    BY <2>3, <2>4
<1>5. CASE /\ \E c \in Connections : owner[c] = Nobody /\ owner' = [owner EXCEPT ![c] = h]
           /\ ~ Owns(h) /\ pc'[h] \notin PoolFree \cup {"get"}
  <2>1. PICK c \in Connections : owner[c] = Nobody /\ owner' = [owner EXCEPT ![c] = h]
    BY <1>5
  <2>2. owner'[c] = h /\ \A d \in Connections : d # c => owner'[d] = owner[d] /\ owner[d] # h
    BY <1>1, <1>5, <2>1 DEF Owns
  <2>3. PoolMoves'
    BY <1>1, <1>5, <2>2 DEF PoolMoves, PoolFree
  <2>4. IndexFree'
    BY <1>1, <1>5, <2>2 DEF IndexFree, Owns
  <2>5. QED
    BY <2>3, <2>4
<1>6. QED
  BY <1>2, <1>3, <1>4, <1>5

\* Every step keeps the pool as it should be.
LEMMA PoolStep == PoolInv /\ [Next]_vars => PoolInv'
<1> SUFFICES ASSUME PoolInv, [Next]_vars PROVE PoolMoves' /\ IndexFree'
  BY TypeStep DEF PoolInv
<1>1. TypeOK /\ PoolMoves /\ IndexFree
  BY DEF PoolInv
<1>2. \A h \in Handlers : pc[h] \in PoolFree => ~ Owns(h)
  BY <1>1, Names DEF PoolMoves, PoolFree, Owns
<1>3. ASSUME NEW r \in Requests, Arrive(r) \/ Step(r) PROVE PoolMoves' /\ IndexFree'
  <2>1. /\ r \in Handlers /\ pc[r] \in Places
        /\ \A g \in Handlers : g # r => pc'[g] = pc[g]
        /\ \A s \in Requests : s # r => route'[s] = route[s]
    BY <1>1, <1>3, RequestMoves DEF TypeOK, WorkerTypeOK, Places
  <2>2. CASE Arrive(r) \/ RateLimit(r)
    <3>1. ~ Owns(r) /\ (owner' = owner \/ owner' = Released(r))
      BY <1>2, <2>1, <2>2 DEF Arrive, RateLimit, End, Pass, PoolFree
    <3>2. QED
      BY <2>1, <3>1, PoolChange
  <2>3. CASE Connect(r)
    <3>1. ~ Owns(r) /\ \E c \in Connections : owner[c] = Nobody /\ owner' = [owner EXCEPT ![c] = r]
      BY <1>2, <2>1, <2>3 DEF Connect, PoolFree
    <3>2. PICK place \in First(r) : pc' = [pc EXCEPT ![r] = place]
      BY <2>3 DEF Connect, Goto
    <3>3. pc'[r] \in {"select", "lookup", "query"}
      BY <1>1, <2>1, <3>2 DEF First, TypeOK, WorkerTypeOK
    <3>4. QED
      BY <2>1, <3>1, <3>3, PoolChange DEF PoolFree
  <2>4. CASE Fail(r) \/ WriteBatch(r) \/ Hit(r) \/ Fill(r)
    <3>1. owner' = Released(r)
      BY <2>4 DEF Fail, WriteBatch, Hit, Fill, End
    <3>2. QED
      BY <2>1, <3>1, PoolChange
  <2>5. CASE Lookup(r) \/ QueryRows(r) \/ Sweep(r)
    <3>1. \/ owner' = Released(r)
          \/ /\ owner' = owner
             /\ pc'[r] \in {"query", "get", "write", "sweep prices", "set", "sweep index"}
             /\ pc'[r] = "get" => route'[r] = "prices"
      BY <1>1, <2>1, <2>5 DEF Lookup, QueryRows, Sweep, End, Pass, Goto, TypeOK, WorkerTypeOK
    <3>2. QED
      BY <2>1, <3>1, PoolChange DEF PoolFree
  <2>6. CASE Miss(r)
    <3>1. /\ pc[r] = "get" /\ owner' = owner /\ route' = route
          /\ pc'[r] = IF route[r] = "index" THEN "connect" ELSE "query"
      BY <1>1, <2>1, <2>6 DEF Miss, Goto, TypeOK, WorkerTypeOK
    <3>2. CASE route[r] = "index"
      BY <1>1, <2>1, <3>1, <3>2, PoolChange DEF IndexFree
    <3>3. CASE route[r] # "index"
      BY <2>1, <3>1, <3>3, PoolChange DEF PoolFree
    <3>4. QED
      BY <3>2, <3>3
  <2>7. QED
    BY <1>3, <2>2, <2>3, <2>4, <2>5, <2>6 DEF Step
<1>4. ASSUME AskReady \/ Connect(Probe) \/ Unready \/ SelectOne \/ Ping PROVE PoolMoves' /\ IndexFree'
  <2>1. /\ Probe \in Handlers /\ pc[Probe] \in Places
        /\ \A g \in Handlers : g # Probe => pc'[g] = pc[g]
        /\ \A s \in Requests : s # Probe => route'[s] = route[s]
    BY <1>1, <1>4, ProbeMoves DEF TypeOK, WorkerTypeOK, Places
  <2>2. CASE AskReady \/ Ping
    <3>1. ~ Owns(Probe) /\ owner' = owner
      BY <1>2, <2>1, <2>2 DEF AskReady, Ping, PoolFree
    <3>2. QED
      BY <2>1, <3>1, PoolChange
  <2>3. CASE Connect(Probe)
    <3>1. ~ Owns(Probe) /\ \E c \in Connections : owner[c] = Nobody /\ owner' = [owner EXCEPT ![c] = Probe]
      BY <1>2, <2>1, <2>3 DEF Connect, PoolFree
    <3>2. pc'[Probe] = "select"
      BY <1>1, <2>1, <2>3 DEF Connect, Goto, First, TypeOK, WorkerTypeOK
    <3>3. QED
      BY <2>1, <3>1, <3>2, PoolChange DEF PoolFree
  <2>4. CASE Unready \/ SelectOne
    <3>1. owner' = Released(Probe)
      BY <2>4 DEF Unready, SelectOne
    <3>2. QED
      BY <2>1, <3>1, PoolChange
  <2>5. QED
    BY <1>4, <2>2, <2>3, <2>4
<1>5. CASE StartProbe \/ ProbeStep
  BY <1>4, <1>5 DEF StartProbe, ProbeStep, EndProbe
<1>6. CASE Replace
  BY <1>6 DEF Replace, Restart, NoConnectionOut, PoolMoves, IndexFree, Owns
<1>7. ASSUME UNCHANGED handling PROVE PoolMoves' /\ IndexFree'
  BY <1>1, <1>7 DEF handling, PoolMoves, IndexFree, Owns
<1>8. Timeout \/ RedisChanges \/ PostgresChanges \/ UNCHANGED vars => UNCHANGED handling
  BY DEF Timeout, RedisChanges, PostgresChanges, vars, worker
<1>9. QED
  BY <1>3, <1>5, <1>6, <1>7, <1>8 DEF Next

\* However requests interleave and whatever raises or hangs, nobody waits for a
\* connection with one in hand, and none is left with a request that has ended.
THEOREM PoolMovesHolds == Spec => []PoolMoves
<1>1. PoolInv => PoolMoves
  BY DEF PoolInv
<1>2. QED
  BY <1>1, PoolInit, PoolStep, PTL DEF Spec

-----------------------------------------------------------------------------
\* What the histories remember: Postgres does not stop without being blamed, and
\* whatever speaks against the target has come up since it was last healthy.
Remembered == postgres = "down" => trouble
Doubted ==
    \/ Outage
    \/ ready = FALSE
    \/ streak > 0
    \/ target = "unhealthy"
    => doubt

CauseInv == TypeOK /\ Remembered /\ RedisOutageContained /\ Doubted

LEMMA CauseInit == Init => CauseInv
BY TypeInit DEF Init, WorkerInit, CauseInv, Remembered, RedisOutageContained, Doubted, Outage

\* A cause is not forgotten.
LEMMA NotForgotten ==
  ASSUME [Next]_vars, trouble
  PROVE  trouble'
<1>1. \A h : Blame(h) => trouble'
  BY DEF Blame
<1>2. ASSUME NEW r \in Requests, Arrive(r) \/ Step(r) PROVE trouble'
  BY <1>1, <1>2 DEF Arrive, Step, RateLimit, Connect, Fail, Lookup, QueryRows, WriteBatch, Hit, Miss, Fill, Sweep
<1>3. StartProbe \/ ProbeStep \/ Timeout \/ Replace => trouble'
  BY <1>1 DEF StartProbe, AskReady, ProbeStep, Connect, Unready, SelectOne, EndProbe, Ping, Timeout, Replace, Restart
<1>4. RedisChanges \/ PostgresChanges => trouble'
  BY DEF RedisChanges, PostgresChanges
<1>5. UNCHANGED vars => trouble'
  BY DEF vars, worker
<1>6. QED
  BY <1>2, <1>3, <1>4, <1>5 DEF Next

\* Only what raises fails a request, and Redis raises nothing.
LEMMA BlameStep ==
  ASSUME TypeOK, Remembered, RedisOutageContained, [Next]_vars
  PROVE  Remembered' /\ RedisOutageContained'
<1>1. ASSUME UNCHANGED postgres, \A r \in Requests : pc'[r] = "failed" => pc[r] = "failed" \/ trouble'
      PROVE  Remembered' /\ RedisOutageContained'
  BY <1>1, NotForgotten DEF Remembered, RedisOutageContained
<1>2. ASSUME NEW r \in Requests, Arrive(r) \/ Step(r)
      PROVE  Remembered' /\ RedisOutageContained'
  <2>1. /\ \A s \in Requests : s # r => pc'[s] = pc[s]
        /\ UNCHANGED postgres
    BY <1>2, RequestMoves
  <2>2. pc'[r] = "failed" => trouble'
    <3>1. r \in Handlers /\ pc \in [Handlers -> Places]
      BY DEF TypeOK, WorkerTypeOK, Places
    <3>2. CASE Fail(r)
      BY <3>2, NotForgotten DEF Fail, Raises, Blame, Remembered
    <3>3. CASE Connect(r)
      <4>1. PICK place \in First(r) : pc' = [pc EXCEPT ![r] = place]
        BY <3>3 DEF Connect, Goto
      <4>2. place \in {"select", "lookup", "query"}
        BY <4>1 DEF First
      <4>3. QED
        BY <3>1, <4>1, <4>2
    <3>4. CASE Arrive(r) \/ RateLimit(r) \/ Lookup(r) \/ QueryRows(r) \/ WriteBatch(r)
      BY <3>1, <3>4 DEF Arrive, RateLimit, Lookup, QueryRows, WriteBatch, End, Pass, Goto
    <3>5. CASE Hit(r) \/ Miss(r) \/ Fill(r) \/ Sweep(r)
      BY <3>1, <3>5 DEF Hit, Miss, Fill, Sweep, End, Pass, Goto
    <3>6. QED
      BY <1>2, <3>2, <3>3, <3>4, <3>5 DEF Step
  <2>3. QED
    BY <1>1, <2>1, <2>2
<1>3. CASE StartProbe \/ ProbeStep
  <2>1. AskReady \/ Connect(Probe) \/ Unready \/ SelectOne \/ Ping
    BY <1>3 DEF StartProbe, ProbeStep, EndProbe
  <2>2. UNCHANGED postgres /\ \A r \in Requests : pc'[r] = pc[r]
    BY <2>1, ProbeMoves
  <2>3. QED
    BY <1>1, <2>2
<1>4. CASE Timeout \/ RedisChanges \/ UNCHANGED vars
  <2>1. UNCHANGED <<postgres, pc>>
    BY <1>4 DEF Timeout, RedisChanges, handling, worker, vars
  <2>2. QED
    BY <1>1, <2>1
<1>5. CASE PostgresChanges
  BY <1>5 DEF PostgresChanges, Remembered, RedisOutageContained
<1>6. CASE Replace
  <2>1. UNCHANGED postgres /\ \A r \in Requests : pc'[r] \in {pc[r], "dropped"}
    BY <1>6, Names DEF Replace, Restart
  <2>2. QED
    BY <1>1, <2>1
<1>7. QED
  BY <1>2, <1>3, <1>4, <1>5, <1>6 DEF Next

\* A probe that passes leaves a target healthy, or leaves it as it was found.
LEMMA CountHealthy ==
  ASSUME TypeOK, Count(TRUE)
  PROVE  \/ target' = "healthy" /\ streak' = 0
         \/ target' = "unhealthy" /\ target = "unhealthy"
<1>1. target \in {"initial", "healthy", "unhealthy"}
  BY DEF TypeOK
<1>2. CASE target # "unhealthy"
  <2>1. (TRUE = (target # "unhealthy")) = TRUE
    BY <1>2
  <2>2. QED
    BY <1>1, <1>2, <2>1 DEF Count
<1>3. CASE target = "unhealthy"
  <2>1. (TRUE = (target # "unhealthy")) = FALSE
    BY <1>3
  <2>2. QED
    BY <1>3, <2>1 DEF Count
<1>4. QED
  BY <1>2, <1>3

\* Doubt goes only when a probe finds nothing to doubt, and comes with every
\* fault.
LEMMA DoubtStep ==
  ASSUME TypeOK, Doubted, [Next]_vars
  PROVE  Doubted'
<1>0. ASSUME UNCHANGED <<redis, postgres>>, doubt' = Outage,
             ready' = TRUE, streak' = 0, target' # "unhealthy"
      PROVE  Doubted'
  <2>1. CASE Outage
    <3>1. doubt'
      BY <1>0, <2>1
    <3>2. QED
      BY <3>1, Zenon DEF Doubted
  <2>2. CASE ~ Outage
    <3>1. ~ Outage'
      BY <1>0, <2>2 DEF Outage
    <3>2. ready' # FALSE /\ ~ (streak' > 0)
      BY <1>0
    <3>3. QED
      BY <1>0, <3>1, <3>2 DEF Doubted
  <2>3. QED
    BY <2>1, <2>2
<1>1. ASSUME UNCHANGED <<redis, postgres, target, streak, doubt>>, ready' = ready \/ ready' = TRUE
      PROVE  Doubted'
  BY <1>1 DEF Doubted, Outage
<1>2. ASSUME doubt' = TRUE PROVE Doubted'
  BY <1>2 DEF Doubted
<1>3. ASSUME NEW r \in Requests, Arrive(r) \/ Step(r), UNCHANGED balancer PROVE Doubted'
  BY <1>1, <1>3, RequestMoves DEF balancer
<1>4. CASE StartProbe \/ ((Connect(Probe) \/ SelectOne) /\ UNCHANGED balancer)
  <2>1. AskReady \/ Connect(Probe) \/ SelectOne
    BY <1>4 DEF StartProbe
  <2>2. UNCHANGED <<redis, postgres>>
    BY <2>1, ProbeMoves
  <2>3. ready' = ready \/ ready' = TRUE
    BY <2>1 DEF AskReady, Connect, SelectOne
  <2>4. UNCHANGED <<target, streak, doubt>>
    BY <1>4 DEF StartProbe, balancer
  <2>5. QED
    BY <1>1, <2>2, <2>3, <2>4
<1>5. CASE Timeout
  BY <1>2, <1>5 DEF Timeout
<1>6. CASE EndProbe
  <2>1. UNCHANGED <<redis, postgres>> /\ ready' = TRUE
    BY <1>6 DEF EndProbe, Ping
  <2>2. CASE awaited /\ Healthy
    <3>1. Count(TRUE)
      BY <1>6, <2>2 DEF EndProbe, Healthy
    <3>2. CASE target' = "healthy" /\ streak' = 0
      <4>1. doubt' = Outage
        BY <1>6, <2>2, <3>2 DEF EndProbe
      <4>2. QED
        BY <1>0, <2>1, <3>2, <4>1
    <3>3. CASE target' = "unhealthy" /\ target = "unhealthy"
      <4>1. doubt' = doubt
        BY <1>6, <3>3 DEF EndProbe
      <4>2. doubt
        BY <3>3 DEF Doubted
      <4>3. QED
        BY <4>1, <4>2, Zenon DEF Doubted
    <3>4. QED
      BY <3>1, <3>2, <3>3, CountHealthy
  <2>3. CASE awaited /\ ~ Healthy
    <3>1. doubt' = doubt
      BY <1>6, <2>3 DEF EndProbe
    <3>2. ready = FALSE \/ redis # "up"
      BY <2>3 DEF Healthy, TypeOK, WorkerTypeOK
    <3>3. doubt
      BY <3>2, Zenon DEF Doubted, Outage
    <3>4. QED
      BY <3>1, <3>3 DEF Doubted
  <2>4. CASE ~ awaited
    <3>1. UNCHANGED <<target, streak, doubt>>
      BY <1>6, <2>4 DEF EndProbe
    <3>2. QED
      BY <1>1, <2>1, <3>1
  <2>5. QED
    BY <2>2, <2>3, <2>4
<1>7. CASE Replace
  BY <1>0, <1>7 DEF Replace, Restart
<1>8. CASE UNCHANGED vars
  BY <1>1, <1>8 DEF vars, worker, handling, balancer
<1>9. CASE \E r \in Requests : (Arrive(r) \/ Step(r)) /\ UNCHANGED balancer
  BY <1>3, <1>9
<1>10. CASE (RedisChanges \/ PostgresChanges) /\ doubt' = TRUE
  BY <1>2, <1>10
<1>11. CASE ProbeStep
  BY <1>2, <1>4, <1>6, <1>11 DEF ProbeStep
<1>12. CASE StartProbe
  BY <1>4, <1>12
<1>13. CASE Next
  BY <1>5, <1>7, <1>9, <1>10, <1>11, <1>12, <1>13 DEF Next
<1>14. QED
  BY <1>8, <1>13

LEMMA CauseStep == CauseInv /\ [Next]_vars => CauseInv'
<1> SUFFICES ASSUME CauseInv, [Next]_vars PROVE CauseInv'
  OBVIOUS
<1>1. TypeOK'
  BY TypeStep DEF CauseInv
<1>2. Remembered' /\ RedisOutageContained'
  BY BlameStep DEF CauseInv
<1>3. Doubted'
  BY DoubtStep DEF CauseInv
<1>4. QED
  BY <1>1, <1>2, <1>3 DEF CauseInv

\* No request fails for Redis alone, whatever the routes were doing when it
\* refused or hung, as long as the pool has a connection for each.
THEOREM RedisOutageContainedHolds == Spec => []RedisOutageContained
<1>1. CauseInv => RedisOutageContained
  BY DEF CauseInv
<1>2. QED
  BY <1>1, CauseInit, CauseStep, PTL DEF Spec

\* Nobody is cut off but by the replacement of a task.
LEMMA OnlyReplaceDrops ==
  ASSUME TypeOK, [Next]_vars, NEW r \in Requests, pc[r] # "dropped", pc'[r] = "dropped"
  PROVE  Replace
<1>1. ASSUME NEW s \in Requests, Arrive(s) \/ Step(s) PROVE FALSE
  <2>1. s = r /\ r \in Handlers /\ pc \in [Handlers -> Places]
    <3>1. r # s => pc'[r] = pc[r]
      BY <1>1, RequestMoves
    <3>2. QED
      BY <3>1 DEF TypeOK, WorkerTypeOK, Places
  <2>2. CASE Connect(s)
    <3>1. PICK place \in First(s) : pc' = [pc EXCEPT ![s] = place]
      BY <2>2 DEF Connect, Goto
    <3>2. place \in {"select", "lookup", "query"}
      BY <3>1 DEF First
    <3>3. QED
      BY <2>1, <3>1, <3>2
  <2>3. CASE Arrive(s) \/ RateLimit(s) \/ Lookup(s) \/ QueryRows(s) \/ WriteBatch(s)
    BY <2>1, <2>3 DEF Arrive, RateLimit, Lookup, QueryRows, WriteBatch, End, Pass, Goto
  <2>4. CASE Fail(s) \/ Hit(s) \/ Miss(s) \/ Fill(s) \/ Sweep(s)
    BY <2>1, <2>4 DEF Fail, Hit, Miss, Fill, Sweep, End, Pass, Goto
  <2>5. QED
    BY <1>1, <2>2, <2>3, <2>4 DEF Step
<1>2. CASE StartProbe \/ ProbeStep
  <2>1. AskReady \/ Connect(Probe) \/ Unready \/ SelectOne \/ Ping
    BY <1>2 DEF StartProbe, ProbeStep, EndProbe
  <2>2. QED
    BY <2>1, ProbeMoves
<1>3. ASSUME UNCHANGED pc PROVE FALSE
  BY <1>3
<1>4. Timeout \/ RedisChanges \/ PostgresChanges \/ UNCHANGED vars => UNCHANGED pc
  BY DEF Timeout, RedisChanges, PostgresChanges, handling, worker, vars
<1>5. QED
  BY <1>1, <1>2, <1>3, <1>4 DEF Next

\* For any thresholds, a task that is replaced has met a fault since it began or
\* was last found healthy: no fault that is over, and no count of late answers,
\* cuts clients off.
THEOREM CutOffForCauseHolds == Spec => CutOffForCause
<1>1. CauseInv /\ [Next]_vars =>
        [\A r \in Requests : pc[r] # "dropped" /\ pc'[r] = "dropped" => doubt]_vars
  <2>1. CauseInv /\ Replace => doubt
    BY DEF CauseInv, Replace, Doubted
  <2>2. QED
    BY <2>1, OnlyReplaceDrops DEF CauseInv
<1>2. QED
  BY <1>1, CauseInit, CauseStep, PTL DEF Spec, CutOffForCause
=============================================================================
