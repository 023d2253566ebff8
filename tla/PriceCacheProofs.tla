-------------------------- MODULE PriceCacheProofs ---------------------------
(***************************************************************************)
(* Proofs about PriceCache, for any requests, queries and TTL.             *)
(***************************************************************************)
EXTENDS PriceCache, TLAPS

\* Every key lies under one of the two prefixes that an ingest sweeps.
LEMMA KeyPrefix == \A k \in Keys : k.prefix \in Stages
<1>1. \A q \in Queries : KeyOf(q).prefix \in Stages
  BY QueriesAssumption DEF PriceQuery, IndexQuery, KeyOf, PriceKey, IndexKey, Stages
<1>2. QED
  BY <1>1 DEF Keys

-----------------------------------------------------------------------------
\* Type correctness needs to know that a read about to SET, or answered, has
\* a value, and that the value of a read about to SET is its own.
ReadFlow ==
    /\ \A r \in Reads : rpc[r] \in {"fill", "answered"} => r \in DOMAIN val
    /\ \A r \in Reads : rpc[r] = "fill" => val[r].by = r /\ val[r].of = query[r]

Typed == TypeOK /\ ReadFlow

\* Nothing has arrived when the system starts.
LEMMA TypedInit == Init => Typed
BY DEF Init, Typed, TypeOK, ReadFlow, ReadOver, IngestOver, Stages

\* No action of an ingest touches what belongs to the reads.
LEMMA TypedStep == Typed /\ [Next]_vars => Typed'
<1> SUFFICES ASSUME Typed, [Next]_vars PROVE Typed'
  OBVIOUS
<1> USE DEF Typed
<1>1. ASSUME NEW r \in Reads, Arrive(r) PROVE Typed'
  <2>1. PICK q \in Queries : /\ query' = With(query, r, q)
                             /\ Goto(r, IF q.route = "prices" THEN "load" ELSE "lookup")
    BY <1>1 DEF Arrive
  <2>2. UNCHANGED <<val, cache, must, ipc, stage, buf, db, clean, racing>>
    BY <1>1 DEF Arrive, ingestVars
  <2>3. rpc[r] = "idle" /\ r \notin DOMAIN query /\ r \notin DOMAIN val
    BY <1>1 DEF Arrive, TypeOK
  <2>4. /\ rpc' \in [Reads -> {"idle", "load", "lookup", "query", "fill"} \cup ReadOver]
        /\ rpc'[r] \in {"load", "lookup"}
        /\ \A s \in Reads : s # r => rpc'[s] = rpc[s]
    BY <2>1 DEF Goto, TypeOK
  <2>5. /\ DOMAIN query' = DOMAIN query \cup {r}
        /\ query'[r] = q
        /\ \A s \in DOMAIN query : query'[s] = query[s]
    BY <2>1, <2>3 DEF With
  <2>6. DOMAIN query' = {s \in Reads : rpc'[s] # "idle"}
    BY <2>4, <2>5 DEF TypeOK
  <2>7. \A s \in DOMAIN query' : query'[s] \in Queries
    BY <2>1, <2>5 DEF TypeOK
  <2>8. after' \in [Reads -> SUBSET Ingests]
    BY <1>1 DEF Arrive, TypeOK
  <2>9. TypeOK'
    BY <2>2, <2>4, <2>5, <2>6, <2>7, <2>8 DEF TypeOK, Value, Entry, Keys
  <2>10. ReadFlow'
    BY <2>2, <2>3, <2>4, <2>5 DEF ReadFlow, TypeOK
  <2>11. QED
    BY <2>9, <2>10
<1>2. ASSUME NEW r \in Reads, LoadGpu(r) \/ Miss(r) \/ LoseRead(r) PROVE Typed'
  <2>1. /\ rpc[r] # "idle"
        /\ \E where \in {"lookup", "notfound", "failed", "query"} :
              rpc' = [rpc EXCEPT ![r] = where]
    BY <1>2 DEF LoadGpu, Miss, LoseRead, Goto
  <2>2. UNCHANGED <<query, val, after, cache, must, ipc, stage, buf, db, clean, racing>>
    BY <1>2 DEF LoadGpu, Miss, LoseRead, ingestVars
  <2>3. TypeOK'
    BY <2>1, <2>2 DEF TypeOK, Value, Entry, Keys, ReadOver
  <2>4. ReadFlow'
    BY <2>1, <2>2 DEF ReadFlow, TypeOK
  <2>5. QED
    BY <2>3, <2>4
<1>3. ASSUME NEW r \in Reads, Hit(r) PROVE Typed'
  <2> DEFINE v == cache[KeyOf(query[r])].value
  <2>1. /\ rpc[r] = "lookup" /\ rpc' = [rpc EXCEPT ![r] = "answered"]
        /\ UNCHANGED <<query, after, cache, must, ipc, stage, buf, db, clean, racing>>
    BY <1>3 DEF Hit, Goto, ingestVars
  <2>2. v \in Value /\ r \in DOMAIN query
    BY <1>3, <2>1 DEF Hit, TypeOK, Entry
  <2>3. /\ DOMAIN val' = DOMAIN val \cup {r}
        /\ val'[r] = v
        /\ \A s \in DOMAIN val : s # r => val'[s] = val[s]
    BY <1>3 DEF With, Hit
  <2>4. TypeOK'
    BY <2>1, <2>2, <2>3 DEF TypeOK, Value, Entry, Keys, ReadOver
  <2>5. ReadFlow'
    BY <2>1, <2>3 DEF ReadFlow, TypeOK
  <2>6. QED
    BY <2>4, <2>5
<1>4. ASSUME NEW r \in Reads, Produce(r) PROVE Typed'
  <2>1. /\ rpc[r] = "query"
        /\ UNCHANGED <<query, after, cache, must, ipc, stage, buf, db, clean, racing>>
    BY <1>4 DEF Produce, ingestVars
  <2>2. CASE rpc' = [rpc EXCEPT ![r] = "failed"] /\ UNCHANGED val
    <3>1. TypeOK'
      BY <2>1, <2>2 DEF TypeOK, Value, Entry, Keys, ReadOver
    <3>2. ReadFlow'
      BY <2>1, <2>2 DEF ReadFlow, TypeOK
    <3>3. QED
      BY <3>1, <3>2
  <2>3. CASE /\ val' = With(val, r, [of |-> query[r], seen |-> db, by |-> r])
             /\ rpc' = [rpc EXCEPT ![r] = "fill"]
    <3>1. /\ DOMAIN val' = DOMAIN val \cup {r}
          /\ val'[r] = [of |-> query[r], seen |-> db, by |-> r]
          /\ \A s \in DOMAIN val : s # r => val'[s] = val[s]
      BY <2>3 DEF With
    <3>2. r \in DOMAIN query /\ val'[r] \in Value
      BY <2>1, <3>1 DEF TypeOK, Value
    <3>3. TypeOK'
      BY <2>1, <2>3, <3>1, <3>2 DEF TypeOK, Value, Entry, Keys, ReadOver
    <3>4. ReadFlow'
      BY <2>1, <2>3, <3>1 DEF ReadFlow, TypeOK
    <3>5. QED
      BY <3>3, <3>4
  <2>4. QED
    BY <1>4, <2>2, <2>3 DEF Produce, Goto
<1>5. ASSUME NEW r \in Reads, Fill(r) \/ ResendFill(r) PROVE Typed'
  <2>1. /\ rpc[r] = "fill" /\ (rpc' = [rpc EXCEPT ![r] = "answered"] \/ rpc' = rpc)
        /\ UNCHANGED <<query, val, after, must, ipc, stage, buf, db, clean, racing>>
    BY <1>5 DEF Fill, ResendFill, Goto, ingestVars
  <2>2. /\ DOMAIN cache' \subseteq Keys
        /\ \A k \in DOMAIN cache' : cache'[k] \in Entry
    <3>1. CASE UNCHANGED cache
      BY <3>1 DEF TypeOK
    <3>2. CASE Store(KeyOf(query[r]), val[r])
      <4>1. r \in DOMAIN query /\ KeyOf(query[r]) \in Keys
        BY <2>1 DEF TypeOK, Keys
      <4>2. [value |-> val[r], left |-> TTL] \in Entry
        BY <2>1, TTLAssumption DEF ReadFlow, TypeOK, Entry
      <4>3. QED
        BY <3>2, <4>1, <4>2 DEF With, Store, TypeOK
    <3>3. QED
      BY <1>5, <3>1, <3>2 DEF Fill, ResendFill
  <2>3. TypeOK'
    BY <2>1, <2>2 DEF TypeOK, Value, Entry, Keys, ReadOver
  <2>4. ReadFlow'
    BY <2>1 DEF ReadFlow, TypeOK
  <2>5. QED
    BY <2>3, <2>4
<1>6. ASSUME NEW i \in Ingests, Receive(i) \/ Resolve(i) \/ Write(i) PROVE Typed'
  <2>1. UNCHANGED <<rpc, query, val, after, cache, must, stage, buf>>
    BY <1>6 DEF Receive, Resolve, Write, readVars
  <2>2. ipc' \in [Ingests -> {"idle", "resolve", "write", "sweep", "scan"} \cup IngestOver]
    BY <1>6 DEF Receive, Resolve, Write, Proceed, TypeOK, IngestOver
  <2>3. /\ db' \subseteq Ingests
        /\ clean' \in [Ingests -> BOOLEAN]
        /\ racing' \in [Ingests -> SUBSET Reads]
    <3>1. CASE Receive(i) \/ Resolve(i)
      BY <3>1 DEF Receive, Resolve, TypeOK
    <3>2. CASE Write(i)
      <4>1. /\ UNCHANGED <<db, racing>> \/ Commit(i)
            /\ clean' \in {clean, [clean EXCEPT ![i] = FALSE]}
        BY <3>2 DEF Write
      <4>2. Commit(i) => db' \subseteq Ingests /\ racing' \in [Ingests -> SUBSET Reads]
        BY DEF Commit, TypeOK
      <4>3. clean' \in [Ingests -> BOOLEAN]
        BY <4>1 DEF TypeOK
      <4>4. QED
        BY <4>1, <4>2, <4>3 DEF TypeOK
    <3>3. QED
      BY <1>6, <3>1, <3>2
  <2>4. TypeOK'
    BY <2>1, <2>2, <2>3 DEF TypeOK, Value, Entry, Keys
  <2>5. ReadFlow'
    BY <2>1 DEF ReadFlow
  <2>6. QED
    BY <2>4, <2>5
<1>7. ASSUME NEW i \in Ingests, BeginScan(i) \/ Page(i) \/ EndScan(i) PROVE Typed'
  <2>1. UNCHANGED <<rpc, query, val, after, cache, db, clean, racing>>
    BY <1>7 DEF BeginScan, Page, EndScan, readVars
  <2>2. /\ ipc' \in [Ingests -> {"idle", "resolve", "write", "sweep", "scan"} \cup IngestOver]
        /\ stage' \in [Ingests -> Stages]
    BY <1>7 DEF BeginScan, Page, EndScan, NextStage, Proceed, TypeOK, IngestOver, Stages
  <2>3. Present(stage[i]) \subseteq Keys
    BY DEF Present, TypeOK
  <2>4. /\ must' \in [Ingests -> SUBSET Keys]
        /\ buf' \in [Ingests -> SUBSET Keys]
    BY <1>7, <2>3 DEF BeginScan, Page, EndScan, TypeOK
  <2>5. TypeOK'
    BY <2>1, <2>2, <2>4 DEF TypeOK, Value, Entry, Keys
  <2>6. ReadFlow'
    BY <2>1 DEF ReadFlow
  <2>7. QED
    BY <2>5, <2>6
<1>8. ASSUME NEW i \in Ingests, Delete(i) \/ SweepError(i) \/ LoseIngest(i) PROVE Typed'
  <2>1. UNCHANGED <<rpc, query, val, after, db, racing>>
    BY <1>8 DEF Delete, SweepError, LoseIngest, readVars
  <2>2. /\ ipc' \in [Ingests -> {"idle", "resolve", "write", "sweep", "scan"} \cup IngestOver]
        /\ stage' \in [Ingests -> Stages]
        /\ clean' \in [Ingests -> BOOLEAN]
    <3>1. CASE Delete(i)
      BY <3>1 DEF Delete, TypeOK
    <3>2. CASE SweepError(i)
      BY <3>2 DEF SweepError, NextStage, Proceed, TypeOK, IngestOver, Stages
    <3>3. CASE LoseIngest(i)
      BY <3>3 DEF LoseIngest, Proceed, TypeOK, IngestOver
    <3>4. QED
      BY <1>8, <3>1, <3>2, <3>3
  <2>3. /\ must' \in [Ingests -> SUBSET Keys]
        /\ buf' \in [Ingests -> SUBSET Keys]
    <3>1. CASE Delete(i)
      BY <3>1 DEF Delete, Drop, TypeOK
    <3>2. CASE SweepError(i)
      BY <3>2 DEF SweepError, TypeOK
    <3>3. CASE LoseIngest(i)
      BY <3>3 DEF LoseIngest, TypeOK
    <3>4. QED
      BY <1>8, <3>1, <3>2, <3>3
  <2>4. cache' = cache \/ \E S : cache' = Without(cache, S)
    BY <1>8 DEF Delete, SweepError, LoseIngest, Drop
  <2>5. /\ DOMAIN cache' \subseteq Keys
        /\ \A k \in DOMAIN cache' : cache'[k] \in Entry
    BY <2>4 DEF Without, TypeOK
  <2>6. TypeOK'
    BY <2>1, <2>2, <2>3, <2>5 DEF TypeOK, Value, Entry, Keys
  <2>7. ReadFlow'
    BY <2>1 DEF ReadFlow
  <2>8. QED
    BY <2>6, <2>7
<1>9. CASE Tick
  <2> DEFINE live == {k \in DOMAIN cache : cache[k].left # 1}
  <2>1. /\ UNCHANGED <<rpc, query, val, after, ipc, stage, buf, db, clean, racing>>
        /\ cache' = [k \in live |-> [value |-> cache[k].value, left |-> Aged(cache[k].left)]]
        /\ must' = [i \in Ingests |-> must[i] \cap live]
    BY <1>9 DEF Tick, readVars, ingestVars
  <2>2. \A k \in live : [value |-> cache[k].value, left |-> Aged(cache[k].left)] \in Entry
    BY TTLAssumption DEF TypeOK, Entry, Aged
  <2>3. TypeOK'
    BY <2>1, <2>2 DEF TypeOK, Value, Entry, Keys
  <2>4. ReadFlow'
    BY <2>1 DEF ReadFlow
  <2>5. QED
    BY <2>3, <2>4
<1>10. CASE Evict
  <2>1. UNCHANGED <<rpc, query, val, after, ipc, stage, buf, db, clean, racing>>
    BY <1>10 DEF Evict, readVars, ingestVars
  <2>2. PICK k \in DOMAIN cache : /\ cache' = Without(cache, {k})
                                  /\ must' = [i \in Ingests |-> must[i] \ {k}]
    BY <1>10 DEF Evict, Drop
  <2>3. /\ DOMAIN cache' \subseteq Keys
        /\ \A x \in DOMAIN cache' : cache'[x] \in Entry
    BY <2>2 DEF Without, TypeOK
  <2>4. TypeOK'
    BY <2>1, <2>2, <2>3 DEF TypeOK, Value, Entry, Keys
  <2>5. ReadFlow'
    BY <2>1 DEF ReadFlow
  <2>6. QED
    BY <2>4, <2>5
<1>11. CASE UNCHANGED vars
  BY <1>11 DEF vars, TypeOK, ReadFlow, Value, Entry, Keys
<1>12. QED
  BY <1>1, <1>2, <1>3, <1>4, <1>5, <1>6, <1>7, <1>8, <1>9, <1>10, <1>11
     DEF Next, ReadStep, IngestStep

\* The variables of the reads, the ingests and Redis keep their types.
THEOREM TypeCorrect == Spec => []TypeOK
<1>1. Typed => TypeOK
  BY DEF Typed
<1>2. QED
  BY <1>1, TypedInit, TypedStep, PTL DEF Spec

-----------------------------------------------------------------------------
\* StaleOnlyByRace is not inductive: between the commit and the answer the
\* stale entries are still there.  What holds throughout is that the sweep
\* still owes their deletion.
SweepOwes(i, k) ==
    \/ ipc[i] = "sweep" /\ (stage[i] = "prices" \/ k.prefix = "index")
    \/ ipc[i] = "scan" /\ (k \in must[i] \cup buf[i] \/ (stage[i] = "prices" /\ k.prefix = "index"))

\* A clean ingest's commit is missing from an entry only if a racing read
\* wrote it or the sweep has yet to come to it.
StaleAccounted ==
    \A i \in Ingests, k \in DOMAIN cache :
        clean[i] /\ Stale(k, i) =>
            cache[k].value.by \in racing[i] \/ SweepOwes(i, k)

\* A read about to SET a value without a committed batch is one of its racers.
FillsAccounted ==
    \A i \in db, r \in Reads :
        rpc[r] = "fill" /\ i \notin val[r].seen => r \in racing[i]

\* A sweep starts at the first prefix.
SweepsAhead ==
    \A i \in Ingests : ipc[i] \in {"idle", "resolve", "write"} => stage[i] = "prices"

SweepInv == Typed /\ StaleAccounted /\ FillsAccounted /\ SweepsAhead

\* No ingest has been answered when the system starts.
LEMMA SweepInvInit == Init => SweepInv
BY TypedInit DEF Init, SweepInv, StaleAccounted, FillsAccounted, SweepsAhead

\* A step that leaves the ingests and db alone and only takes entries away, or
\* takes them off the SCANs' lists as well, keeps every entry accounted for.
LEMMA FewerEntries ==
  ASSUME StaleAccounted,
         UNCHANGED <<ipc, stage, buf, db, clean, racing>>,
         DOMAIN cache' \subseteq DOMAIN cache,
         \A k \in DOMAIN cache' : cache'[k].value = cache[k].value,
         \A i \in Ingests, k \in DOMAIN cache' : k \in must[i] => k \in must'[i]
  PROVE  StaleAccounted'
BY DEF StaleAccounted, Stale, SweepOwes

\* Every step keeps a running sweep ahead of what it has yet to delete.
LEMMA SweepsAheadStep == TypeOK /\ SweepsAhead /\ [Next]_vars => SweepsAhead'
<1> SUFFICES ASSUME TypeOK, SweepsAhead, [Next]_vars, NEW i \in Ingests,
                    ipc'[i] \in {"idle", "resolve", "write"}
             PROVE  stage'[i] = "prices"
  BY DEF SweepsAhead
<1>1. CASE UNCHANGED <<ipc, stage>>
  BY <1>1 DEF SweepsAhead
<1>2. ASSUME NEW j \in Ingests, Receive(j) \/ IngestStep(j) \/ LoseIngest(j)
      PROVE  stage'[i] = "prices"
  <2>1. \/ UNCHANGED stage /\ (ipc'[i] = ipc[i] \/ ipc[i] \in {"idle", "resolve"})
        \/ i # j /\ ipc'[i] = ipc[i] /\ stage'[i] = stage[i]
    <3>1. CASE Receive(j) \/ Resolve(j)
      BY <3>1 DEF Receive, Resolve, Proceed, TypeOK
    <3>2. CASE Write(j) \/ BeginScan(j) \/ LoseIngest(j)
      BY <3>2 DEF Write, BeginScan, LoseIngest, Proceed, TypeOK
    <3>3. CASE Page(j) \/ Delete(j)
      BY <3>3 DEF Page, Delete
    <3>4. CASE EndScan(j) \/ SweepError(j)
      BY <3>4 DEF EndScan, SweepError, NextStage, Proceed, TypeOK
    <3>5. QED
      BY <1>2, <3>1, <3>2, <3>3, <3>4 DEF IngestStep
  <2>2. QED
    BY <2>1 DEF SweepsAhead
<1>3. ASSUME NEW r \in Reads, Arrive(r) \/ ReadStep(r) \/ ResendFill(r) \/ LoseRead(r)
      PROVE  UNCHANGED <<ipc, stage>>
  BY <1>3 DEF Arrive, ReadStep, LoadGpu, Hit, Miss, Produce, Fill, ResendFill, LoseRead, ingestVars
<1>4. CASE Tick \/ Evict
  BY <1>1, <1>4 DEF Tick, Evict, ingestVars
<1>5. QED
  BY <1>1, <1>2, <1>3, <1>4 DEF Next, vars

\* Every step keeps the invariant of the sweeps.
LEMMA SweepInvStep == SweepInv /\ [Next]_vars => SweepInv'
<1> SUFFICES ASSUME SweepInv, [Next]_vars PROVE StaleAccounted' /\ FillsAccounted' /\ SweepsAhead'
  BY TypedStep DEF SweepInv
<1>0. TypeOK /\ ReadFlow /\ StaleAccounted /\ FillsAccounted /\ SweepsAhead
  BY DEF SweepInv, Typed
<1>a. SweepsAhead'
  BY <1>0, SweepsAheadStep
<1>1. ASSUME NEW r \in Reads, Arrive(r) \/ LoadGpu(r) \/ Hit(r) \/ Miss(r) \/ LoseRead(r)
      PROVE  StaleAccounted' /\ FillsAccounted'
  <2>1. UNCHANGED <<cache, must, ipc, stage, buf, db, clean, racing>>
    BY <1>1 DEF Arrive, LoadGpu, Hit, Miss, LoseRead, ingestVars
  <2>2. StaleAccounted'
    BY <1>0, <2>1, FewerEntries
  <2>3. \A s \in Reads : rpc'[s] = "fill" => rpc[s] = "fill" /\ s # r
    BY <1>0, <1>1 DEF Arrive, LoadGpu, Hit, Miss, LoseRead, Goto, TypeOK
  <2>4. \A s \in Reads : s # r /\ rpc[s] = "fill" => val'[s] = val[s]
    BY <1>0, <1>1 DEF Arrive, LoadGpu, Hit, Miss, LoseRead, With, ReadFlow
  <2>5. FillsAccounted'
    BY <1>0, <2>1, <2>3, <2>4 DEF FillsAccounted
  <2>6. QED
    BY <2>2, <2>5
<1>2. ASSUME NEW r \in Reads, Produce(r) PROVE StaleAccounted' /\ FillsAccounted'
  <2>1. UNCHANGED <<cache, must, ipc, stage, buf, db, clean, racing>>
    BY <1>2 DEF Produce, ingestVars
  <2>2. StaleAccounted'
    BY <1>0, <2>1, FewerEntries
  <2>3. rpc'[r] = "fill" => val'[r].seen = db
    BY <1>0, <1>2 DEF Produce, Goto, With, TypeOK
  <2>4. \A s \in Reads : s # r /\ rpc'[s] = "fill" => rpc[s] = "fill" /\ val'[s] = val[s]
    BY <1>0, <1>2 DEF Produce, Goto, With, ReadFlow, TypeOK
  <2>5. FillsAccounted'
    BY <1>0, <2>1, <2>3, <2>4 DEF FillsAccounted
  <2>6. QED
    BY <2>2, <2>5
<1>3. ASSUME NEW r \in Reads, Fill(r) \/ ResendFill(r) PROVE StaleAccounted' /\ FillsAccounted'
  <2>1. /\ rpc[r] = "fill" /\ (rpc' = [rpc EXCEPT ![r] = "answered"] \/ rpc' = rpc)
        /\ UNCHANGED <<val, must, ipc, stage, buf, db, clean, racing>>
    BY <1>3 DEF Fill, ResendFill, Goto, readVars, ingestVars
  <2>2. FillsAccounted'
    BY <1>0, <2>1 DEF FillsAccounted, TypeOK
  <2>3. CASE UNCHANGED cache
    BY <1>0, <2>1, <2>2, <2>3, FewerEntries
  <2>4. CASE Store(KeyOf(query[r]), val[r])
    <3> DEFINE key == KeyOf(query[r])
    <3>1. /\ DOMAIN cache' = DOMAIN cache \cup {key}
          /\ cache'[key].value = val[r]
          /\ \A k \in DOMAIN cache : k # key => cache'[k] = cache[k]
      BY <2>4 DEF Store, With
    <3>2. val[r].by = r /\ \A i \in db : i \notin val[r].seen => r \in racing[i]
      BY <1>0, <2>1 DEF FillsAccounted, ReadFlow
    <3> HIDE DEF key
    <3>3. StaleAccounted'
      BY <1>0, <2>1, <3>1, <3>2 DEF StaleAccounted, Stale, SweepOwes
    <3>4. QED
      BY <2>2, <3>3
  <2>5. QED
    BY <1>3, <2>3, <2>4 DEF Fill, ResendFill
<1>4. ASSUME NEW i \in Ingests, Receive(i) \/ Resolve(i) PROVE StaleAccounted' /\ FillsAccounted'
  <2>1. /\ ipc[i] \in {"idle", "resolve"}
        /\ \A j \in Ingests : j # i => ipc'[j] = ipc[j]
        /\ UNCHANGED <<rpc, val, cache, must, stage, buf, db, clean, racing>>
    BY <1>0, <1>4 DEF Receive, Resolve, Proceed, TypeOK, readVars
  <2>2. StaleAccounted'
    BY <1>0, <2>1 DEF StaleAccounted, Stale, SweepOwes
  <2>3. FillsAccounted'
    BY <1>0, <2>1 DEF FillsAccounted
  <2>4. QED
    BY <2>2, <2>3
<1>5. ASSUME NEW i \in Ingests, Write(i) PROVE StaleAccounted' /\ FillsAccounted'
  <2>1. /\ ipc[i] = "write"
        /\ \A j \in Ingests : j # i => ipc'[j] = ipc[j] /\ clean'[j] = clean[j] /\ racing'[j] = racing[j]
        /\ UNCHANGED <<rpc, val, cache, must, stage, buf>>
        /\ clean'[i] => ipc'[i] = "sweep"
    BY <1>0, <1>5 DEF Write, Commit, Proceed, TypeOK, readVars
  <2>2. \/ db' = db \cup {i} /\ racing'[i] = {r \in Reads : rpc[r] = "fill"}
        \/ db' = db /\ racing' = racing
    BY <1>0, <1>5 DEF Write, Commit, TypeOK
  <2>3. FillsAccounted'
    BY <1>0, <2>1, <2>2 DEF FillsAccounted, TypeOK
  <2>4. stage[i] = "prices"
    BY <1>0, <2>1 DEF SweepsAhead
  <2>5. StaleAccounted'
    BY <1>0, <2>1, <2>2, <2>4 DEF StaleAccounted, Stale, SweepOwes
  <2>6. QED
    BY <2>3, <2>5
<1>6. ASSUME NEW i \in Ingests, BeginScan(i) \/ Page(i) PROVE StaleAccounted' /\ FillsAccounted'
  <2>1. UNCHANGED <<rpc, val, cache, stage, db, clean, racing>>
    BY <1>6 DEF BeginScan, Page, readVars
  <2>2. FillsAccounted'
    BY <1>0, <2>1 DEF FillsAccounted
  <2>3. \A j \in Ingests, k \in DOMAIN cache : SweepOwes(j, k) => SweepOwes(j, k)'
    <3>1. CASE BeginScan(i)
      <4>1. \A k \in DOMAIN cache : k.prefix \in Stages
        BY <1>0, KeyPrefix DEF TypeOK
      <4>2. QED
        BY <1>0, <3>1, <4>1 DEF BeginScan, Proceed, Present, SweepOwes, TypeOK, Stages
    <3>2. CASE Page(i)
      BY <1>0, <3>2 DEF Page, SweepOwes, TypeOK
    <3>3. QED
      BY <1>6, <3>1, <3>2
  <2>4. StaleAccounted'
    BY <1>0, <2>1, <2>3 DEF StaleAccounted, Stale
  <2>5. QED
    BY <2>2, <2>4
<1>7. ASSUME NEW i \in Ingests, EndScan(i) PROVE StaleAccounted' /\ FillsAccounted'
  <2>1. UNCHANGED <<rpc, val, cache, must, buf, db, clean, racing>>
    BY <1>7 DEF EndScan, readVars
  <2>2. FillsAccounted'
    BY <1>0, <2>1 DEF FillsAccounted
  <2>3. \A j \in Ingests, k \in DOMAIN cache : SweepOwes(j, k) => SweepOwes(j, k)'
    BY <1>0, <1>7 DEF EndScan, NextStage, Proceed, SweepOwes, TypeOK, Stages
  <2>4. StaleAccounted'
    BY <1>0, <2>1, <2>3 DEF StaleAccounted, Stale
  <2>5. QED
    BY <2>2, <2>4
<1>8. ASSUME NEW i \in Ingests, Delete(i) PROVE StaleAccounted' /\ FillsAccounted'
  <2>1. PICK k \in buf[i] : /\ cache' = Without(cache, {k})
                            /\ must' = [j \in Ingests |-> must[j] \ {k}]
                            /\ buf' = [buf EXCEPT ![i] = @ \ {k}]
    BY <1>8 DEF Delete, Drop
  <2>2. UNCHANGED <<rpc, val, ipc, stage, db, clean, racing>>
    BY <1>8 DEF Delete, readVars
  <2>3. FillsAccounted'
    BY <1>0, <2>2 DEF FillsAccounted
  <2>4. \A j \in Ingests, x \in DOMAIN cache' : SweepOwes(j, x) => SweepOwes(j, x)'
    BY <1>0, <2>1, <2>2 DEF Without, SweepOwes, TypeOK
  <2>5. StaleAccounted'
    BY <1>0, <2>1, <2>2, <2>4 DEF Without, StaleAccounted, Stale
  <2>6. QED
    BY <2>3, <2>5
<1>9. ASSUME NEW i \in Ingests, SweepError(i) \/ LoseIngest(i)
      PROVE  StaleAccounted' /\ FillsAccounted'
  <2>1. /\ UNCHANGED <<rpc, val, db, racing>>
        /\ clean' = [clean EXCEPT ![i] = FALSE]
    BY <1>9 DEF SweepError, LoseIngest, readVars
  <2>2. FillsAccounted'
    BY <1>0, <2>1 DEF FillsAccounted
  <2>3. /\ DOMAIN cache' \subseteq DOMAIN cache
        /\ \A k \in DOMAIN cache' : cache'[k] = cache[k]
    BY <1>9 DEF SweepError, LoseIngest, Without
  <2>4. \A j \in Ingests : j # i => /\ ipc'[j] = ipc[j] /\ stage'[j] = stage[j] /\ buf'[j] = buf[j]
                                    /\ \A k \in DOMAIN cache' : k \in must[j] => k \in must'[j]
    <3>1. CASE SweepError(i)
      BY <1>0, <3>1 DEF SweepError, NextStage, Proceed, Without, TypeOK
    <3>2. CASE LoseIngest(i)
      BY <1>0, <3>2 DEF LoseIngest, Proceed, TypeOK
    <3>3. QED
      BY <1>9, <3>1, <3>2
  <2>5. StaleAccounted'
    BY <1>0, <2>1, <2>3, <2>4 DEF StaleAccounted, Stale, SweepOwes, TypeOK
  <2>6. QED
    BY <2>2, <2>5
<1>10. ASSUME Tick \/ Evict PROVE StaleAccounted' /\ FillsAccounted'
  <2>1. UNCHANGED <<rpc, val, ipc, stage, buf, db, clean, racing>>
    BY <1>10 DEF Tick, Evict, readVars, ingestVars
  <2>2. FillsAccounted'
    BY <1>0, <2>1 DEF FillsAccounted
  <2>3. /\ DOMAIN cache' \subseteq DOMAIN cache
        /\ \A k \in DOMAIN cache' : cache'[k].value = cache[k].value
        /\ \A i \in Ingests, k \in DOMAIN cache' : k \in must[i] => k \in must'[i]
    <3>1. CASE Tick
      BY <3>1 DEF Tick
    <3>2. CASE Evict
      BY <3>2 DEF Evict, Drop, Without
    <3>3. QED
      BY <1>10, <3>1, <3>2
  <2>4. StaleAccounted'
    BY <1>0, <2>1, <2>3, FewerEntries
  <2>5. QED
    BY <2>2, <2>4
<1>11. ASSUME UNCHANGED vars PROVE StaleAccounted' /\ FillsAccounted'
  <2>1. UNCHANGED <<rpc, val, cache, must, ipc, stage, buf, db, clean, racing>>
    BY <1>11 DEF vars
  <2>2. StaleAccounted'
    BY <1>0, <2>1, FewerEntries
  <2>3. FillsAccounted'
    BY <1>0, <2>1 DEF FillsAccounted
  <2>4. QED
    BY <2>2, <2>3
<1>12. QED
  BY <1>a, <1>1, <1>2, <1>3, <1>4, <1>5, <1>6, <1>7, <1>8, <1>9, <1>10, <1>11
     DEF Next, ReadStep, IngestStep

\* After an ingest's clean answer only a racing read's entry lacks its batch.
THEOREM StaleOnlyByRaceHolds == Spec => []StaleOnlyByRace
<1>1. SweepInv => StaleOnlyByRace
  BY DEF SweepInv, StaleAccounted, StaleOnlyByRace, CleanlyAnswered, SweepOwes, Stale
<1>2. QED
  BY <1>1, SweepInvInit, SweepInvStep, PTL DEF Spec
-----------------------------------------------------------------------------
\* Of an entry without a committed batch: it was there and no further from its
\* expiry, or a racing read has just SET it.
Fades(k, i) ==
    \/ Stale(k, i) /\ cache'[k].left <= cache[k].left
    \/ \E r \in racing[i] : rpc[r] = "fill" /\ KeyOf(query[r]) = k /\ cache'[k].value = val[r]

\* A step that only takes entries away, or ages them, lets the stale ones fade.
LEMMA FewerFade ==
    ASSUME TypeOK, NEW k \in Keys, NEW i \in db, Stale(k, i)',
           DOMAIN cache' \subseteq DOMAIN cache,
           \A x \in DOMAIN cache' :
              cache'[x].value = cache[x].value /\ cache'[x].left <= cache[x].left
    PROVE  Fades(k, i)
BY DEF Stale, Fades

\* A SET puts a stale entry only where the read that sends it is a racing one.
LEMMA SetFades ==
    ASSUME SweepInv, NEW r \in Reads, rpc[r] = "fill", Store(KeyOf(query[r]), val[r]),
           NEW k \in Keys, NEW i \in db, Stale(k, i)'
    PROVE  Fades(k, i)
<1>1. /\ DOMAIN cache' = DOMAIN cache \cup {KeyOf(query[r])}
      /\ cache'[KeyOf(query[r])].value = val[r]
      /\ \A x \in DOMAIN cache \ {KeyOf(query[r])} : cache'[x] = cache[x]
  BY DEF Store, With
<1>2. CASE k = KeyOf(query[r])
  <2>1. i \notin val[r].seen
    BY <1>1, <1>2 DEF Stale
  <2>2. r \in racing[i]
    BY <2>1 DEF SweepInv, FillsAccounted
  <2>3. QED
    BY <1>1, <1>2, <2>2 DEF Fades
<1>3. CASE k # KeyOf(query[r])
  <2>1. k \in DOMAIN cache /\ cache'[k] = cache[k]
    BY <1>1, <1>3 DEF Stale
  <2>2. cache[k].left \in Nat
    BY <2>1, TTLAssumption DEF SweepInv, Typed, TypeOK, Entry
  <2>3. QED
    BY <2>1, <2>2 DEF Stale, Fades
<1>4. QED
  BY <1>2, <1>3

\* Every step lets the entries without a committed batch fade.
LEMMA StepFades ==
    ASSUME SweepInv, [Next]_vars, NEW k \in Keys, NEW i \in db, Stale(k, i)'
    PROVE  Fades(k, i)
<1>0. TypeOK /\ \A x \in DOMAIN cache : cache[x].left \in Nat
  BY TTLAssumption DEF SweepInv, Typed, TypeOK, Entry
<1>1. ASSUME UNCHANGED cache PROVE Fades(k, i)
  BY <1>0, <1>1, FewerFade
<1>2. ASSUME NEW gone, cache' = Without(cache, gone) PROVE Fades(k, i)
  BY <1>0, <1>2, FewerFade DEF Without
<1>3. ASSUME NEW r \in Reads,
             Arrive(r) \/ LoadGpu(r) \/ Hit(r) \/ Miss(r) \/ Produce(r) \/ LoseRead(r)
      PROVE  Fades(k, i)
  BY <1>1, <1>3 DEF Arrive, LoadGpu, Hit, Miss, Produce, LoseRead
<1>4. ASSUME NEW r \in Reads, Fill(r) \/ ResendFill(r) PROVE Fades(k, i)
  <2>1. rpc[r] = "fill" /\ (Store(KeyOf(query[r]), val[r]) \/ UNCHANGED cache)
    BY <1>4 DEF Fill, ResendFill
  <2>2. QED
    BY <2>1, <1>1, SetFades
<1>5. ASSUME NEW j \in Ingests,
             \/ Receive(j) \/ Resolve(j) \/ Write(j) \/ BeginScan(j) \/ Page(j)
             \/ EndScan(j) \/ LoseIngest(j)
      PROVE  Fades(k, i)
  BY <1>1, <1>5 DEF Receive, Resolve, Write, BeginScan, Page, EndScan, LoseIngest
<1>6. ASSUME NEW j \in Ingests, Delete(j) \/ SweepError(j) PROVE Fades(k, i)
  BY <1>2, <1>6 DEF Delete, SweepError, Drop
<1>7. CASE Evict
  BY <1>2, <1>7 DEF Evict, Drop
<1>8. CASE Tick
  <2>1. DOMAIN cache' \subseteq DOMAIN cache
    BY <1>8 DEF Tick
  <2>2. \A x \in DOMAIN cache' :
           cache'[x].value = cache[x].value /\ cache'[x].left = Aged(cache[x].left)
    BY <1>8 DEF Tick
  <2>3. \A x \in DOMAIN cache' : cache'[x].left <= cache[x].left
    BY <1>0, <2>1, <2>2 DEF Aged
  <2>4. QED
    BY <1>0, <2>1, <2>2, <2>3, FewerFade
<1>9. CASE UNCHANGED vars
  BY <1>1, <1>9 DEF vars
<1>10. QED
  BY <1>3, <1>4, <1>5, <1>6, <1>7, <1>8, <1>9 DEF Next, ReadStep, IngestStep

\* Whatever becomes of its sweep, no entry without a committed batch is made or
\* made to last by anything but the SET of a read that raced the commit.
THEOREM StaleOnlyFadesHolds == Spec => StaleOnlyFades
<1>1. SweepInv /\ [Next]_vars =>
          [\A k \in Keys, i \in db : Stale(k, i)' => Fades(k, i)]_vars
  BY StepFades
<1>2. [\A k \in Keys, i \in db : Stale(k, i)' => Fades(k, i)]_vars =>
      [\A k \in Keys, i \in db : Stale(k, i)' =>
          \/ Stale(k, i) /\ cache'[k].left <= cache[k].left
          \/ \E r \in racing[i] : rpc[r] = "fill" /\ KeyOf(query[r]) = k /\ cache'[k].value = val[r]]_vars
  BY DEF Fades
<1>3. QED
  BY <1>1, <1>2, SweepInvInit, SweepInvStep, PTL DEF Spec, StaleOnlyFades

-----------------------------------------------------------------------------
\* What the reads answer: never older than an ingest answered before they came,
\* but for its racers; and a result of the question asked.

\* The ingests answered before a read came stay answered, and the value the
\* read ends up with holds their batches unless a racer of theirs made it.
FollowsInv ==
    /\ \A r \in Reads : \A i \in after[r] : CleanlyAnswered(i)
    /\ \A r \in Reads : rpc[r] \in {"fill", "answered"} =>
          \A i \in after[r] \cap db : i \in val[r].seen \/ val[r].by \in racing[i]

\* No read has been answered when the system starts.
LEMMA FollowsInit == Init => FollowsInv
BY DEF Init, FollowsInv

\* An answered ingest takes no further step.
LEMMA AnsweredIsFinal ==
  ASSUME TypeOK, [Next]_vars, NEW i \in Ingests, CleanlyAnswered(i)
  PROVE  CleanlyAnswered(i)' /\ (i \in db' <=> i \in db) /\ racing'[i] = racing[i]
<1>1. ASSUME NEW j \in Ingests, Receive(j) \/ Resolve(j) \/ Write(j)
      PROVE  CleanlyAnswered(i)' /\ (i \in db' <=> i \in db) /\ racing'[i] = racing[i]
  <2>1. i # j
    BY <1>1 DEF Receive, Resolve, Write, CleanlyAnswered
  <2>2. QED
    BY <1>1, <2>1 DEF Receive, Resolve, Write, Commit, Proceed, CleanlyAnswered, TypeOK
<1>2. ASSUME NEW j \in Ingests, BeginScan(j) \/ Page(j) \/ Delete(j) \/ EndScan(j)
      PROVE  CleanlyAnswered(i)' /\ (i \in db' <=> i \in db) /\ racing'[i] = racing[i]
  <2>1. i # j
    BY <1>2 DEF BeginScan, Page, Delete, EndScan, CleanlyAnswered
  <2>2. QED
    BY <1>2, <2>1 DEF BeginScan, Page, Delete, EndScan, NextStage, Proceed, CleanlyAnswered, TypeOK
<1>3. ASSUME NEW j \in Ingests, SweepError(j) \/ LoseIngest(j)
      PROVE  CleanlyAnswered(i)' /\ (i \in db' <=> i \in db) /\ racing'[i] = racing[i]
  <2>1. i # j
    BY <1>3 DEF SweepError, LoseIngest, CleanlyAnswered, IngestOver
  <2>2. ipc'[i] = ipc[i] /\ clean'[i] = clean[i]
    BY <1>3, <2>1 DEF SweepError, LoseIngest, NextStage, Proceed, TypeOK
  <2>3. QED
    BY <1>3, <2>2 DEF SweepError, LoseIngest, CleanlyAnswered
<1>4. ASSUME NEW r \in Reads, Arrive(r) \/ ReadStep(r) \/ ResendFill(r) \/ LoseRead(r)
      PROVE  UNCHANGED ingestVars
  BY <1>4 DEF Arrive, ReadStep, LoadGpu, Hit, Miss, Produce, Fill, ResendFill, LoseRead, ingestVars
<1>5. ASSUME Tick \/ Evict PROVE UNCHANGED ingestVars
  BY <1>5 DEF Tick, Evict, ingestVars
<1>6. ASSUME UNCHANGED ingestVars
      PROVE  CleanlyAnswered(i)' /\ (i \in db' <=> i \in db) /\ racing'[i] = racing[i]
  BY <1>6 DEF ingestVars, CleanlyAnswered
<1>7. UNCHANGED vars => UNCHANGED ingestVars
  BY DEF vars, ingestVars
<1>8. QED
  BY <1>1, <1>2, <1>3, <1>4, <1>5, <1>6, <1>7 DEF Next, IngestStep

\* Every step keeps what arrived reads know of the answered ingests.
LEMMA FollowsStep == SweepInv /\ FollowsInv /\ [Next]_vars => FollowsInv'
<1> SUFFICES ASSUME SweepInv, FollowsInv, [Next]_vars PROVE FollowsInv'
  OBVIOUS
<1>1. TypeOK /\ ReadFlow /\ StaleOnlyByRace
  BY DEF SweepInv, Typed, StaleAccounted, StaleOnlyByRace, CleanlyAnswered, SweepOwes, Stale
\* It is enough to look at the reads: what is known of an ingest answered
\* before a read came does not change.
<1>2. ASSUME \A r \in Reads : \A i \in after'[r] : i \in Ingests /\ CleanlyAnswered(i),
             \A r \in Reads : rpc'[r] \in {"fill", "answered"} =>
                 \A i \in after'[r] \cap db : i \in val'[r].seen \/ val'[r].by \in racing[i]
      PROVE  FollowsInv'
  <2>1. \A r \in Reads : \A i \in after'[r] :
            CleanlyAnswered(i)' /\ (i \in db' <=> i \in db) /\ racing'[i] = racing[i]
    BY <1>1, <1>2, AnsweredIsFinal
  <2>2. QED
    BY <1>2, <2>1 DEF FollowsInv
<1>3. \A r \in Reads : \A i \in after[r] : i \in Ingests /\ CleanlyAnswered(i)
  BY <1>1 DEF FollowsInv, TypeOK
<1>4. ASSUME NEW r \in Reads, Arrive(r) PROVE FollowsInv'
  <2>1. /\ rpc'[r] \in {"load", "lookup"}
        /\ \A s \in Reads : s # r => rpc'[s] = rpc[s]
        /\ val' = val
    BY <1>1, <1>4 DEF Arrive, Goto, TypeOK
  <2>2. after' = [after EXCEPT ![r] = {i \in Ingests : ipc[i] = "answered" /\ clean[i]}]
    BY <1>4 DEF Arrive
  <2>3. QED
    BY <1>1, <1>2, <1>3, <2>1, <2>2 DEF FollowsInv, TypeOK, CleanlyAnswered
<1>5. ASSUME NEW r \in Reads, LoadGpu(r) \/ Miss(r) \/ LoseRead(r) \/ Fill(r) \/ ResendFill(r) PROVE FollowsInv'
  <2>1. /\ \A s \in Reads : rpc'[s] \in {"fill", "answered"} => rpc[s] \in {"fill", "answered"}
        /\ UNCHANGED <<val, after>>
    BY <1>1, <1>5 DEF LoadGpu, Miss, LoseRead, Fill, ResendFill, Goto, TypeOK
  <2>2. QED
    BY <1>2, <1>3, <2>1 DEF FollowsInv
<1>6. ASSUME NEW r \in Reads, Hit(r) PROVE FollowsInv'
  <2> DEFINE key == KeyOf(query[r])
  <2>1. /\ key \in DOMAIN cache
        /\ val'[r] = cache[key].value
        /\ \A s \in Reads : s # r /\ rpc'[s] \in {"fill", "answered"} =>
              rpc[s] \in {"fill", "answered"} /\ val'[s] = val[s]
        /\ after' = after
    BY <1>1, <1>6 DEF Hit, Goto, With, TypeOK, ReadFlow
  <2>2. key \in Keys
    BY <1>1, <2>1 DEF TypeOK
  <2> HIDE DEF key
  <2>3. \A i \in after[r] \cap db : i \in val'[r].seen \/ val'[r].by \in racing[i]
    BY <1>1, <1>3, <2>1, <2>2 DEF StaleOnlyByRace, Stale
  <2>4. QED
    BY <1>2, <1>3, <2>1, <2>3 DEF FollowsInv
<1>7. ASSUME NEW r \in Reads, Produce(r) PROVE FollowsInv'
  <2>1. /\ rpc'[r] = "fill" => val'[r].seen = db
        /\ rpc'[r] # "answered"
        /\ \A s \in Reads : s # r /\ rpc'[s] \in {"fill", "answered"} =>
              rpc[s] \in {"fill", "answered"} /\ val'[s] = val[s]
        /\ after' = after
    BY <1>1, <1>7 DEF Produce, Goto, With, TypeOK, ReadFlow
  <2>2. QED
    BY <1>2, <1>3, <2>1 DEF FollowsInv
<1>8. ASSUME UNCHANGED readVars PROVE FollowsInv'
  BY <1>2, <1>3, <1>8 DEF FollowsInv, readVars
<1>9. ASSUME NEW i \in Ingests, Receive(i) \/ IngestStep(i) \/ LoseIngest(i)
      PROVE  UNCHANGED readVars
  BY <1>9 DEF Receive, IngestStep, Resolve, Write, BeginScan, Page, Delete, EndScan, SweepError, LoseIngest
<1>10. Tick \/ Evict \/ UNCHANGED vars => UNCHANGED readVars
  BY DEF Tick, Evict, vars, readVars
<1>11. QED
  BY <1>4, <1>5, <1>6, <1>7, <1>8, <1>9, <1>10 DEF Next, ReadStep

\* A read that arrives after an ingest's clean answer sees its batch, or rows
\* of a read that raced with its commit.
THEOREM ReadsFollowIngestsHolds == Spec => []ReadsFollowIngests
<1>1. FollowsInv => ReadsFollowIngests
  BY DEF FollowsInv, ReadsFollowIngests
<1>2. QED
  BY <1>1, SweepInvInit, SweepInvStep, FollowsInit, FollowsStep, PTL DEF Spec

-----------------------------------------------------------------------------
\* Every value that is cached or answered is the result of some read's own
\* query, kept under the key of the question that read asked.
Traced(v) == v.by \in DOMAIN val /\ val[v.by] = v

ValuesTraced ==
    /\ \A r \in Reads : rpc[r] \in {"idle", "load", "lookup", "query"} => r \notin DOMAIN val
    /\ \A k \in DOMAIN cache : Traced(cache[k].value) /\ KeyOf(cache[k].value.of) = k
    /\ \A r \in Reads : rpc[r] = "answered" => Traced(val[r]) /\ Alike(val[r].of, query[r])

AnswerInv == Typed /\ ValuesTraced

\* Nothing has been computed or cached when the system starts.
LEMMA AnswerInvInit == Init => AnswerInv
BY TypedInit DEF Init, AnswerInv, ValuesTraced

\* Every step keeps each value traced to a query it answers.
LEMMA AnswerInvStep ==
  ASSUME KeysFaithful(Queries)
  PROVE  AnswerInv /\ [Next]_vars => AnswerInv'
<1> SUFFICES ASSUME AnswerInv, [Next]_vars PROVE ValuesTraced'
  BY TypedStep DEF AnswerInv
<1>1. TypeOK /\ ReadFlow /\ ValuesTraced
  BY DEF AnswerInv, Typed
<1>2. ASSUME NEW r \in Reads, Arrive(r) PROVE ValuesTraced'
  <2>1. PICK q \in Queries : /\ query' = With(query, r, q)
                             /\ Goto(r, IF q.route = "prices" THEN "load" ELSE "lookup")
    BY <1>2 DEF Arrive
  <2>2. rpc[r] = "idle" /\ UNCHANGED <<val, cache>>
    BY <1>2 DEF Arrive
  <2>3. rpc'[r] \in {"load", "lookup"} /\ \A s \in Reads : s # r => rpc'[s] = rpc[s]
    BY <1>1, <2>1 DEF Goto, TypeOK
  <2>4. \A s \in Reads : rpc'[s] = "answered" => query'[s] = query[s] /\ rpc[s] = "answered"
    BY <1>1, <2>1, <2>3 DEF With, TypeOK
  <2>5. QED
    BY <1>1, <2>2, <2>3, <2>4 DEF ValuesTraced, Traced
<1>3. ASSUME NEW r \in Reads, LoadGpu(r) \/ Miss(r) \/ LoseRead(r) PROVE ValuesTraced'
  <2>1. /\ rpc[r] # "idle" /\ (rpc[r] = "fill" => rpc'[r] = "failed")
        /\ rpc'[r] \in {"lookup", "notfound", "failed", "query"}
        /\ rpc'[r] \in {"lookup", "query"} => rpc[r] \in {"load", "lookup"}
        /\ \A s \in Reads : s # r => rpc'[s] = rpc[s]
        /\ UNCHANGED <<val, cache, query>>
    BY <1>1, <1>3 DEF LoadGpu, Miss, LoseRead, Goto, TypeOK
  <2>2. QED
    BY <1>1, <2>1 DEF ValuesTraced, Traced
<1>4. ASSUME NEW r \in Reads, Hit(r) PROVE ValuesTraced'
  <2> DEFINE v == cache[KeyOf(query[r])].value
  <2>1. /\ rpc[r] = "lookup" /\ rpc' = [rpc EXCEPT ![r] = "answered"]
        /\ KeyOf(query[r]) \in DOMAIN cache
        /\ UNCHANGED <<cache, query>>
    BY <1>4 DEF Hit, Goto
  <2>2. /\ r \notin DOMAIN val
        /\ DOMAIN val' = DOMAIN val \cup {r}
        /\ val'[r] = v
        /\ \A s \in DOMAIN val : val'[s] = val[s]
    BY <1>1, <1>4, <2>1 DEF Hit, With, ValuesTraced
  <2>3. v.of \in Queries /\ query[r] \in Queries
    BY <1>1, <2>1 DEF TypeOK, Entry, Value
  <2>4. Traced(v) /\ Alike(v.of, query[r])
    BY <1>1, <2>1, <2>3, KeysFaithful(Queries) DEF ValuesTraced, KeysFaithful
  <2> HIDE DEF v
  <2>5. \A x : x.by \in DOMAIN val /\ val[x.by] = x => x.by \in DOMAIN val' /\ val'[x.by] = x
    BY <2>2
  <2>6. \A s \in Reads : rpc'[s] \in {"idle", "load", "lookup", "query"} => s \notin DOMAIN val'
    BY <1>1, <2>1, <2>2 DEF ValuesTraced, TypeOK
  <2>7. (\A k \in DOMAIN cache : Traced(cache[k].value) /\ KeyOf(cache[k].value.of) = k)'
    BY <1>1, <2>1, <2>5 DEF ValuesTraced, Traced
  <2>8. ASSUME NEW s \in Reads, rpc'[s] = "answered"
        PROVE  Traced(val[s])' /\ Alike(val'[s].of, query'[s])
    <3>1. CASE s = r
      BY <2>1, <2>2, <2>4, <2>5, <3>1 DEF Traced
    <3>2. CASE s # r
      <4>1. rpc[s] = "answered" /\ val'[s] = val[s] /\ query'[s] = query[s]
        BY <1>1, <2>1, <2>2, <2>8, <3>2 DEF TypeOK, ReadFlow
      <4>2. Traced(val[s]) /\ Alike(val[s].of, query[s])
        BY <1>1, <4>1 DEF ValuesTraced
      <4>3. Traced(val[s])'
        BY <2>5, <4>1, <4>2 DEF Traced
      <4>4. QED
        BY <4>1, <4>2, <4>3
    <3>3. QED
      BY <3>1, <3>2
  <2>9. QED
    BY <2>6, <2>7, <2>8 DEF ValuesTraced
<1>5. ASSUME NEW r \in Reads, Produce(r) PROVE ValuesTraced'
  <2>1. /\ rpc[r] = "query" /\ rpc'[r] \in {"fill", "failed"}
        /\ \A s \in Reads : s # r => rpc'[s] = rpc[s]
        /\ UNCHANGED <<cache, query>>
    BY <1>1, <1>5 DEF Produce, Goto, TypeOK
  <2>2. /\ DOMAIN val \subseteq DOMAIN val'
        /\ DOMAIN val' \subseteq DOMAIN val \cup {r}
        /\ \A s \in DOMAIN val : val'[s] = val[s]
    BY <1>1, <1>5, <2>1 DEF Produce, With, ValuesTraced
  <2>3. \A v : Traced(v) => Traced(v)'
    BY <2>2 DEF Traced
  <2>4. QED
    BY <1>1, <2>1, <2>2 DEF ValuesTraced, Traced, TypeOK, ReadFlow
<1>6. ASSUME NEW r \in Reads, Fill(r) \/ ResendFill(r) PROVE ValuesTraced'
  <2>1. /\ rpc[r] = "fill" /\ (rpc' = [rpc EXCEPT ![r] = "answered"] \/ rpc' = rpc)
        /\ UNCHANGED <<val, query>>
    BY <1>6 DEF Fill, ResendFill, Goto, readVars
  <2>2. /\ r \in DOMAIN val /\ val[r].by = r /\ val[r].of = query[r]
        /\ Traced(val[r])
    BY <1>1, <2>1 DEF ReadFlow, Traced
  <2>3. \A k \in DOMAIN cache' : Traced(cache'[k].value) /\ KeyOf(cache'[k].value.of) = k
    <3>1. CASE UNCHANGED cache
      BY <1>1, <3>1 DEF ValuesTraced
    <3>2. CASE Store(KeyOf(query[r]), val[r])
      BY <1>1, <2>2, <3>2 DEF Store, With, ValuesTraced
    <3>3. QED
      BY <1>6, <3>1, <3>2 DEF Fill, ResendFill
  <2>4. QED
    BY <1>1, <2>1, <2>2, <2>3 DEF ValuesTraced, Traced, TypeOK, Alike
<1>7. ASSUME UNCHANGED <<rpc, query, val>>,
             DOMAIN cache' \subseteq DOMAIN cache,
             \A k \in DOMAIN cache' : cache'[k].value = cache[k].value
      PROVE  ValuesTraced'
  BY <1>1, <1>7 DEF ValuesTraced, Traced
<1>8. ASSUME NEW i \in Ingests, Receive(i) \/ Resolve(i) \/ Write(i) \/ BeginScan(i) \/ Page(i) \/ EndScan(i) \/ LoseIngest(i)
      PROVE  UNCHANGED <<rpc, query, val, cache>>
  BY <1>8 DEF Receive, Resolve, Write, BeginScan, Page, EndScan, LoseIngest, readVars
<1>9. ASSUME NEW i \in Ingests, Delete(i) \/ SweepError(i)
      PROVE  /\ UNCHANGED <<rpc, query, val>>
             /\ \E S : cache' = Without(cache, S)
  BY <1>9 DEF Delete, SweepError, Drop, readVars
<1>10. Evict => UNCHANGED <<rpc, query, val>> /\ \E S : cache' = Without(cache, S)
  BY DEF Evict, Drop, readVars
<1>11. Tick => /\ UNCHANGED <<rpc, query, val>>
               /\ DOMAIN cache' \subseteq DOMAIN cache
               /\ \A k \in DOMAIN cache' : cache'[k].value = cache[k].value
  BY DEF Tick, readVars
<1>12. \A S : cache' = Without(cache, S) =>
               /\ DOMAIN cache' \subseteq DOMAIN cache
               /\ \A k \in DOMAIN cache' : cache'[k].value = cache[k].value
  BY DEF Without
<1>13. UNCHANGED vars => UNCHANGED <<rpc, query, val, cache>>
  BY DEF vars
<1>14. QED
  BY <1>2, <1>3, <1>4, <1>5, <1>6, <1>7, <1>8, <1>9, <1>10, <1>11, <1>12, <1>13
     DEF Next, ReadStep, IngestStep

\* When the keys keep the queries apart, an answer's rows were selected for
\* what its request asked.
THEOREM AnswersMatch == KeysFaithful(Queries) /\ Spec => []AnswerMatchesRequest
<1>1. AnswerInv => AnswerMatchesRequest
  BY DEF AnswerInv, ValuesTraced, AnswerMatchesRequest
<1>2. CASE KeysFaithful(Queries)
  <2>1. AnswerInv /\ [Next]_vars => AnswerInv'
    BY <1>2, AnswerInvStep
  <2>2. QED
    BY <1>1, <2>1, AnswerInvInit, PTL DEF Spec
<1>3. QED
  BY <1>2

-----------------------------------------------------------------------------
\* The refinement.  A step that computes and answers nothing leaves the
\* contract's variables alone.
LEMMA Stutter ==
  ASSUME UNCHANGED <<db, query, val>>, Answered' = Answered
  PROVE  UNCHANGED Contract!vars
BY DEF Contract!vars, Produced, Answers, OwnResults

\* The contract's reading of a query is the model's.
LEMMA SameQuestion == \A q1, q2 : Contract!Alike(q1, q2) <=> Alike(q1, q2)
<1>1. \A q : Contract!PriceMeaning(q) = PriceMeaning(q)
  BY DEF Contract!PriceMeaning, PriceMeaning, Contract!Falsy, Falsy,
         Contract!Missing, Missing, Contract!EmptyText, EmptyText
<1>2. \A q : Contract!IndexMeaning(q) = IndexMeaning(q)
  BY DEF Contract!IndexMeaning, IndexMeaning
<1>3. \A q : Contract!Meaning(q) = Meaning(q)
  BY <1>1, <1>2 DEF Contract!Meaning, Meaning
<1>4. QED
  BY <1>3 DEF Contract!Alike, Alike

\* The initial states are initial states of the contract.
LEMMA RefineInit == Init => Contract!Init
<1> SUFFICES ASSUME Init PROVE Contract!Init
  OBVIOUS
<1>1. OwnResults = {} /\ Answered = {}
  BY DEF Init, OwnResults, Answered
<1>2. QED
  BY <1>1 DEF Init, Contract!Init, Produced, Answers

\* Every step is a step of the contract or leaves its variables alone.
LEMMA RefineStep == AnswerInv /\ AnswerInv' /\ [Next]_vars => [Contract!Next]_(Contract!vars)
<1> SUFFICES ASSUME AnswerInv, AnswerInv', [Next]_vars
             PROVE  Contract!Next \/ UNCHANGED Contract!vars
  OBVIOUS
<1>1. TypeOK /\ ReadFlow /\ ValuesTraced /\ ValuesTraced'
  BY DEF AnswerInv, Typed
<1>2. ASSUME NEW r \in Reads, Arrive(r) PROVE Contract!Ask(r)
  <2>1. r \notin DOMAIN query /\ \E q \in Queries : query' = With(query, r, q)
    BY <1>1, <1>2 DEF Arrive, TypeOK
  <2>2. UNCHANGED <<db, val>>
    BY <1>2 DEF Arrive, ingestVars
  <2>3. Answered' = Answered
    BY <1>1, <1>2 DEF Arrive, Goto, Answered, TypeOK
  <2>4. QED
    BY <2>1, <2>2, <2>3 DEF Contract!Ask, Contract!Set, With, Produced, Answers, OwnResults
<1>3. ASSUME NEW r \in Reads, LoadGpu(r) \/ Miss(r) \/ LoseRead(r) PROVE UNCHANGED Contract!vars
  <2>1. UNCHANGED <<db, query, val>>
    BY <1>3 DEF LoadGpu, Miss, LoseRead, ingestVars
  <2>2. Answered' = Answered
    BY <1>1, <1>3 DEF LoadGpu, Miss, LoseRead, Goto, Answered, TypeOK, ReadOver
  <2>3. QED
    BY <2>1, <2>2, Stutter
\* A hit replies with what some read's own query returned.
<1>4. ASSUME NEW r \in Reads, Hit(r) PROVE Contract!Reply(r)
  <2> DEFINE v == cache[KeyOf(query[r])].value
  <2>1. /\ rpc[r] = "lookup" /\ rpc' = [rpc EXCEPT ![r] = "answered"]
        /\ KeyOf(query[r]) \in DOMAIN cache
        /\ val' = With(val, r, v)
        /\ UNCHANGED <<query, cache, db>>
    BY <1>4 DEF Hit, Goto, ingestVars
  <2>2. /\ r \in DOMAIN query /\ r \notin DOMAIN val /\ r \notin Answered
        /\ Answered' = Answered \cup {r}
        /\ \A s \in Answered : s \in DOMAIN val
    BY <1>1, <2>1 DEF Answered, TypeOK, ValuesTraced, ReadFlow
  <2>3. v.by \in DOMAIN val /\ val[v.by] = v
    BY <1>1, <2>1 DEF ValuesTraced, Traced
  <2>4. Alike(v.of, query[r])
    <3>1. rpc'[r] = "answered" /\ val'[r] = v
      BY <1>1, <2>1 DEF With, TypeOK
    <3>2. Alike(val'[r].of, query'[r])
      BY <1>1, <3>1 DEF ValuesTraced
    <3>3. QED
      BY <2>1, <3>1, <3>2
  <2> HIDE DEF v
  <2>5. /\ DOMAIN val' = DOMAIN val \cup {r}
        /\ val'[r] = v
        /\ \A s \in DOMAIN val : val'[s] = val[s]
    BY <2>1, <2>2 DEF With
  <2>6. v.by \in OwnResults /\ OwnResults' = OwnResults
    BY <2>2, <2>3, <2>5 DEF OwnResults
  <2>7. Produced' = Produced /\ v.by \in DOMAIN Produced /\ Produced[v.by] = Result(v)
    BY <2>3, <2>5, <2>6 DEF Produced, OwnResults
  <2>8. Produced[v.by].of = v.of
    BY <2>7 DEF Result
  <2>9. Answers' = Contract!Set(Answers, r, Produced[v.by])
    BY <2>2, <2>5, <2>7 DEF Answers, Contract!Set
  <2>10. DOMAIN Answers = Answered
    BY DEF Answers
  <2>11. QED
    BY <2>1, <2>2, <2>4, <2>7, <2>8, <2>9, <2>10, SameQuestion DEF Contract!Reply
<1>5. ASSUME NEW r \in Reads, Produce(r) PROVE Contract!Compute(r) \/ UNCHANGED Contract!vars
  <2>1. /\ rpc[r] = "query" /\ UNCHANGED <<query, db>>
        /\ Answered' = Answered
    BY <1>1, <1>5 DEF Produce, Goto, Answered, TypeOK, ingestVars
  <2>2. CASE UNCHANGED val
    BY <2>1, <2>2, Stutter
  <2>3. CASE val' = With(val, r, [of |-> query[r], seen |-> db, by |-> r])
    <3>1. /\ r \in DOMAIN query /\ r \notin DOMAIN val /\ r \notin Answered
          /\ \A s \in Answered : s \in DOMAIN val
      BY <1>1, <2>1 DEF Answered, TypeOK, ValuesTraced, ReadFlow
    <3>2. /\ DOMAIN val' = DOMAIN val \cup {r}
          /\ val'[r] = [of |-> query[r], seen |-> db, by |-> r]
          /\ \A s \in DOMAIN val : val'[s] = val[s]
      BY <2>3, <3>1 DEF With
    <3>3. r \notin OwnResults /\ OwnResults' = OwnResults \cup {r}
      BY <3>1, <3>2 DEF OwnResults
    <3>4. Produced' = Contract!Set(Produced, r, [of |-> query[r], seen |-> db])
      BY <3>2, <3>3 DEF Produced, OwnResults, Result, Contract!Set
    <3>5. Answers' = Answers
      BY <2>1, <3>1, <3>2 DEF Answers
    <3>6. DOMAIN Produced = OwnResults /\ DOMAIN Answers = Answered
      BY DEF Produced, Answers
    <3>7. QED
      BY <2>1, <3>1, <3>3, <3>4, <3>5, <3>6 DEF Contract!Compute
  <2>4. QED
    BY <1>5, <2>2, <2>3 DEF Produce
\* After its SET a read replies with what its own query returned.
<1>6. ASSUME NEW r \in Reads, Fill(r) PROVE Contract!Reply(r)
  <2>1. /\ rpc[r] = "fill" /\ rpc' = [rpc EXCEPT ![r] = "answered"]
        /\ UNCHANGED <<val, query, db>>
    BY <1>6 DEF Fill, Goto, ingestVars
  <2>2. /\ r \in DOMAIN query /\ r \in OwnResults /\ val[r].of = query[r]
        /\ r \notin Answered /\ Answered' = Answered \cup {r}
    BY <1>1, <2>1 DEF Answered, OwnResults, TypeOK, ReadFlow
  <2>3. Produced' = Produced /\ r \in DOMAIN Produced /\ Produced[r] = Result(val[r])
    BY <2>1, <2>2 DEF Produced, OwnResults
  <2>4. Alike(Produced[r].of, query[r])
    BY <2>2, <2>3 DEF Result, Alike
  <2>5. Answers' = Contract!Set(Answers, r, Produced[r]) /\ DOMAIN Answers = Answered
    BY <2>1, <2>2, <2>3 DEF Answers, Contract!Set
  <2>6. QED
    BY <2>1, <2>2, <2>3, <2>4, <2>5, SameQuestion DEF Contract!Reply
<1>7. ASSUME NEW i \in Ingests, Write(i) PROVE Contract!CommitBatch(i) \/ UNCHANGED Contract!vars
  <2>1. UNCHANGED <<rpc, query, val>> /\ (db' = db \cup {i} \/ db' = db)
    BY <1>7 DEF Write, Commit, readVars
  <2>2. Produced' = Produced /\ Answers' = Answers /\ Answered' = Answered
    BY <2>1 DEF Produced, Answers, OwnResults, Answered
  <2>3. QED
    BY <2>1, <2>2 DEF Contract!CommitBatch, Contract!vars
<1>8. ASSUME UNCHANGED <<rpc, query, val, db>> PROVE UNCHANGED Contract!vars
  BY <1>8, Stutter DEF Answered
<1>9. ASSUME NEW i \in Ingests,
             Receive(i) \/ Resolve(i) \/ BeginScan(i) \/ Page(i) \/ Delete(i) \/ EndScan(i)
                \/ SweepError(i) \/ LoseIngest(i)
      PROVE  UNCHANGED <<rpc, query, val, db>>
  BY <1>9 DEF Receive, Resolve, BeginScan, Page, Delete, EndScan, SweepError, LoseIngest, readVars
<1>10. ASSUME Tick \/ Evict \/ (\E r \in Reads : ResendFill(r)) \/ UNCHANGED vars
       PROVE  UNCHANGED <<rpc, query, val, db>>
  BY <1>10 DEF Tick, Evict, ResendFill, vars, readVars, ingestVars
<1>11. QED
  BY <1>2, <1>3, <1>4, <1>5, <1>6, <1>7, <1>8, <1>9, <1>10
     DEF Next, ReadStep, IngestStep, Contract!Next

\* The cached routes implement ReadThroughContract: every answer is one result
\* of one query that asked the same.
THEOREM ContractImplemented == KeysFaithful(Queries) /\ Spec => ImplementsContract
<1>1. CASE KeysFaithful(Queries)
  <2>1. AnswerInv /\ [Next]_vars => AnswerInv'
    BY <1>1, AnswerInvStep
  <2>2. QED
    BY <2>1, AnswerInvInit, RefineInit, RefineStep, PTL DEF Spec, ImplementsContract, Contract!Spec
<1>2. QED
  BY <1>1
=============================================================================
