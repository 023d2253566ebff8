------------------------------ MODULE PriceCache -----------------------------
(***************************************************************************)
(* The read-through cache in front of Postgres and the ingests that sweep  *)
(* it: GET /v1/gpus/{id}/prices, GET /v1/index/{workload} and              *)
(* POST /v1/ingest/prices, as the handlers of any number of workers run    *)
(* them.  One action is what happens between two awaits.                   *)
(*                                                                         *)
(* The database is the set of ingests that have committed, a value         *)
(* computed by a producer is the set its query saw.  Whether a new batch   *)
(* concerns a given key is not modelled: every batch concerns every key,   *)
(* as the sweep of both prefixes assumes.                                  *)
(***************************************************************************)
EXTENDS CacheKeys

CONSTANTS Reads,      \* the GET requests
          Ingests,    \* the POST /ingest/prices requests
          Queries,    \* what the GET requests may ask
          KnownGpus,  \* the ids in gpu_models
          TTL         \* cache_ttl_seconds, in clock ticks

ASSUME QueriesAssumption == Queries \subseteq PriceQuery \cup IndexQuery
ASSUME TTLAssumption == TTL \in Nat \ {0}

VARIABLES
    rpc,     \* where each read is
    query,   \* what each read that has arrived asks
    val,     \* the value each read has got, once it has one
    cache,   \* Redis: the entries under the two prefixes
    ipc,     \* where each ingest is
    stage,   \* which prefix each ingest's sweep is at
    must,    \* keys a running SCAN has yet to return
    buf,     \* keys a SCAN returned that are not yet deleted
    db,      \* the ingests that have committed
    clean,   \* ingests whose calls have all succeeded so far
    racing,  \* history: per ingest, the reads between their query and their SET when it committed
    after    \* history: per read, the ingests cleanly answered before it arrived

readVars   == <<rpc, query, val, after>>
ingestVars == <<ipc, stage, buf, db, clean, racing>>
vars == <<rpc, query, val, cache, ipc, stage, must, buf, db, clean, racing, after>>

Keys == {KeyOf(q) : q \in Queries}

\* `seen` and the query's meaning are the payload; `by` names the read whose
\* producer made it and is read by no action.
Value == [of: Queries, seen: SUBSET Ingests, by: Reads]
Entry == [value: Value, left: 1..TTL]

ReadOver   == {"answered", "notfound", "failed"}
IngestOver == {"answered", "rejected", "failed"}
Stages     == {"prices", "index"}

Init ==
    /\ rpc = [r \in Reads |-> "idle"]
    /\ query = [r \in {} |-> r]
    /\ val = [r \in {} |-> r]
    /\ cache = [k \in {} |-> k]
    /\ ipc = [i \in Ingests |-> "idle"]
    /\ stage = [i \in Ingests |-> "prices"]
    /\ must = [i \in Ingests |-> {}]
    /\ buf = [i \in Ingests |-> {}]
    /\ db = {}
    /\ clean = [i \in Ingests |-> TRUE]
    /\ racing = [i \in Ingests |-> {}]
    /\ after = [r \in Reads |-> {}]

-----------------------------------------------------------------------------
\* Redis.

With(f, x, v) == [y \in DOMAIN f \cup {x} |-> IF y = x THEN v ELSE f[y]]
Without(f, S) == [y \in DOMAIN f \ S |-> f[y]]

\* Slip: a SET without EX, of a key that does not expire.
StoreForever(k, v) == cache' = With(cache, k, [value |-> v, left |-> 0])

\* SET k v EX ttl.
Store(k, v) == cache' = With(cache, k, [value |-> v, left |-> TTL])

\* A key that leaves Redis, for whatever reason, is one that no running SCAN
\* has to return any more.
Drop(gone) ==
    /\ cache' = Without(cache, gone)
    /\ must' = [i \in Ingests |-> must[i] \ gone]

Present(s) == {k \in DOMAIN cache : k.prefix = s}

-----------------------------------------------------------------------------
\* The reads.

Goto(r, where) == rpc' = [rpc EXCEPT ![r] = where]

\* The request reaches a handler.
Arrive(r) ==
    /\ rpc[r] = "idle"
    /\ \E q \in Queries :
          /\ query' = With(query, r, q)
          /\ Goto(r, IF q.route = "prices" THEN "load" ELSE "lookup")
    /\ after' = [after EXCEPT ![r] = {i \in Ingests : ipc[i] = "answered" /\ clean[i]}]
    /\ UNCHANGED <<val, cache, must, ingestVars>>

\* _load_gpu: the row, the 404, or a database error that fails the request.
LoadGpu(r) ==
    /\ rpc[r] = "load"
    /\ \/ query[r].gpu \in KnownGpus /\ Goto(r, "lookup")
       \/ query[r].gpu \notin KnownGpus /\ Goto(r, "notfound")
       \/ Goto(r, "failed")
    /\ UNCHANGED <<query, val, after, cache, must, ingestVars>>

\* Slip: a hit renews the expiry of its entry.
HitRenewing(r) ==
    /\ rpc[r] = "lookup"
    /\ KeyOf(query[r]) \in DOMAIN cache
    /\ Store(KeyOf(query[r]), cache[KeyOf(query[r])].value)
    /\ val' = With(val, r, cache[KeyOf(query[r])].value)
    /\ Goto(r, "answered")
    /\ UNCHANGED <<query, after, must, ingestVars>>

\* read_through, GET: a hit is the answer.
Hit(r) ==
    /\ rpc[r] = "lookup"
    /\ KeyOf(query[r]) \in DOMAIN cache
    /\ val' = With(val, r, cache[KeyOf(query[r])].value)
    /\ Goto(r, "answered")
    /\ UNCHANGED <<query, after, cache, must, ingestVars>>

\* read_through, GET: the key is not there; or it may be, and the call or the
\* decoding raised, which is counted and otherwise treated as a miss.
Miss(r) ==
    /\ rpc[r] = "lookup"
    /\ Goto(r, "query")
    /\ UNCHANGED <<query, val, after, cache, must, ingestVars>>

\* read_through, await producer(): one SELECT, which sees what has committed,
\* or an error that fails the request.
Produce(r) ==
    /\ rpc[r] = "query"
    /\ \/ /\ val' = With(val, r, [of |-> query[r], seen |-> db, by |-> r])
          /\ Goto(r, "fill")
       \/ Goto(r, "failed") /\ UNCHANGED val
    /\ UNCHANGED <<query, after, cache, must, ingestVars>>

\* read_through, SET: carried out (whether or not its reply arrives), or not;
\* the value is returned either way.
Fill(r) ==
    /\ rpc[r] = "fill"
    /\ \/ Store(KeyOf(query[r]), val[r])
       \/ UNCHANGED cache
    /\ Goto(r, "answered")
    /\ UNCHANGED <<query, val, after, must, ingestVars>>

\* redis-py sends the SET again after a connection error, with the first one
\* carried out; it gives up in the end.
ResendFill(r) ==
    /\ rpc[r] = "fill"
    /\ Store(KeyOf(query[r]), val[r])
    /\ UNCHANGED <<query, rpc, val, after, must, ingestVars>>

\* The worker dies under the request.
LoseRead(r) ==
    /\ rpc[r] \notin ReadOver \cup {"idle"}
    /\ Goto(r, "failed")
    /\ UNCHANGED <<query, val, after, cache, must, ingestVars>>

ReadStep(r) == LoadGpu(r) \/ Hit(r) \/ Miss(r) \/ Produce(r) \/ Fill(r)

-----------------------------------------------------------------------------
\* The ingests.

Proceed(i, where) == ipc' = [ipc EXCEPT ![i] = where]

\* The request reaches the handler: over 5000 observations is a 413, no
\* observation goes straight to the sweep, which runs all the same.
Receive(i) ==
    /\ ipc[i] = "idle"
    /\ \/ Proceed(i, "rejected")
       \/ Proceed(i, "sweep")
       \/ Proceed(i, "resolve")
    /\ UNCHANGED <<stage, buf, db, clean, racing, cache, must, readVars>>

\* _resolve_lookup and the loop over the payload: with no row left the insert
\* is skipped, the sweep is not.  A database error fails the request.
Resolve(i) ==
    /\ ipc[i] = "resolve"
    /\ \/ Proceed(i, "write")
       \/ Proceed(i, "sweep")
       \/ Proceed(i, "failed")
    /\ UNCHANGED <<stage, buf, db, clean, racing, cache, must, readVars>>

\* The commit takes effect; every read that has run its query and not yet its
\* SET holds a value without the batch.
Commit(i) ==
    /\ db' = db \cup {i}
    /\ racing' = [racing EXCEPT ![i] = {r \in Reads : rpc[r] = "fill"}]

\* INSERT ... ON CONFLICT DO NOTHING and COMMIT.  An error fails the request,
\* and the commit may have taken effect all the same.
Write(i) ==
    /\ ipc[i] = "write"
    /\ \/ Proceed(i, "sweep") /\ Commit(i) /\ UNCHANGED clean
       \/ /\ Proceed(i, "failed")
          /\ Commit(i) \/ UNCHANGED <<db, racing>>
          /\ clean' = [clean EXCEPT ![i] = FALSE]
    /\ UNCHANGED <<stage, buf, cache, must, readVars>>

\* invalidate_prefix, first SCAN: what is there now and stays must be returned
\* before the cursor comes back as zero.
BeginScan(i) ==
    /\ ipc[i] = "sweep"
    /\ Proceed(i, "scan")
    /\ must' = [must EXCEPT ![i] = Present(stage[i])]
    /\ UNCHANGED <<stage, buf, db, clean, racing, cache, readVars>>

\* A page of the SCAN with at least one key (scan_iter asks on past an empty
\* one).  Keys set since the scan began may or may not be among them, and a
\* key may be returned twice.
Page(i) ==
    /\ ipc[i] = "scan" /\ buf[i] = {}
    /\ \E page \in SUBSET Present(stage[i]) \ {{}} :
          /\ buf' = [buf EXCEPT ![i] = page]
          /\ must' = [must EXCEPT ![i] = @ \ page]
    /\ UNCHANGED <<ipc, stage, db, clean, racing, cache, readVars>>

\* client.delete(key) for a key of the page.
Delete(i) ==
    /\ ipc[i] = "scan"
    /\ \E k \in buf[i] :
          /\ Drop({k})
          /\ buf' = [buf EXCEPT ![i] = @ \ {k}]
    /\ UNCHANGED <<ipc, stage, db, clean, racing, readVars>>

\* Slip: the sweep of "index:" is forgotten.
PricesOnly(i) == Proceed(i, "answered") /\ UNCHANGED stage

\* The route sweeps "prices:", then "index:", then answers 202.
NextStage(i) ==
    IF stage[i] = "prices"
    THEN stage' = [stage EXCEPT ![i] = "index"] /\ Proceed(i, "sweep")
    ELSE Proceed(i, "answered") /\ UNCHANGED stage

\* Slip: one SCAN call, its cursor ignored.
EndScanAtOnce(i) ==
    /\ ipc[i] = "scan" /\ buf[i] = {}
    /\ NextStage(i)
    /\ UNCHANGED <<buf, must, db, clean, racing, cache, readVars>>

\* The cursor is zero and the last page is deleted.
EndScan(i) ==
    /\ ipc[i] = "scan" /\ buf[i] = {} /\ must[i] = {}
    /\ NextStage(i)
    /\ UNCHANGED <<buf, must, db, clean, racing, cache, readVars>>

\* Slip: an error starts the sweep again.
SweepRetry(i) ==
    /\ ipc[i] \in {"sweep", "scan"}
    /\ Proceed(i, "sweep")
    /\ must' = [must EXCEPT ![i] = {}]
    /\ buf' = [buf EXCEPT ![i] = {}]
    /\ clean' = [clean EXCEPT ![i] = FALSE]
    /\ UNCHANGED <<stage, db, racing, cache, readVars>>

\* A Redis error anywhere in invalidate_prefix ends that sweep and nothing
\* else; the DELETE whose reply was lost may have been carried out.
SweepError(i) ==
    /\ ipc[i] \in {"sweep", "scan"}
    /\ NextStage(i)
    /\ \E gone \in {{}} \cup {{k} : k \in buf[i]} :
          /\ cache' = Without(cache, gone)
          /\ must' = [j \in Ingests |-> IF j = i THEN {} ELSE must[j] \ gone]
    /\ buf' = [buf EXCEPT ![i] = {}]
    /\ clean' = [clean EXCEPT ![i] = FALSE]
    /\ UNCHANGED <<db, racing, readVars>>

\* The worker dies under the request, perhaps after its commit and before or
\* amid its sweep.
LoseIngest(i) ==
    /\ ipc[i] \notin IngestOver \cup {"idle"}
    /\ Proceed(i, "failed")
    /\ buf' = [buf EXCEPT ![i] = {}]
    /\ must' = [must EXCEPT ![i] = {}]
    /\ clean' = [clean EXCEPT ![i] = FALSE]
    /\ UNCHANGED <<stage, db, racing, cache, readVars>>

IngestStep(i) ==
    \/ Resolve(i) \/ Write(i)
    \/ BeginScan(i) \/ Page(i) \/ Delete(i) \/ EndScan(i) \/ SweepError(i)

-----------------------------------------------------------------------------
\* Redis on its own.

\* Zero stands for a key without an expiry, which Redis keeps.
Aged(left) == IF left = 0 THEN 0 ELSE left - 1

\* One tick of the clock ages every entry; the oldest expire.
Tick ==
    /\ DOMAIN cache # {}
    /\ LET live == {k \in DOMAIN cache : cache[k].left # 1} IN
          /\ cache' = [k \in live |-> [value |-> cache[k].value, left |-> Aged(cache[k].left)]]
          /\ must' = [i \in Ingests |-> must[i] \cap live]
    /\ UNCHANGED <<readVars, ingestVars>>

\* An eviction under memory pressure; a restart is one of every key.
Evict ==
    /\ \E k \in DOMAIN cache : Drop({k})
    /\ UNCHANGED <<readVars, ingestVars>>

Next ==
    \/ \E r \in Reads : Arrive(r) \/ ReadStep(r) \/ ResendFill(r) \/ LoseRead(r)
    \/ \E i \in Ingests : Receive(i) \/ IngestStep(i) \/ LoseIngest(i)
    \/ Tick
    \/ Evict

Spec == Init /\ [][Next]_vars

\* Time passes, and redis-py sends a command again only so many times.  No call
\* need ever return: the client of cache.py has no timeout, and a Redis that
\* hangs keeps a handler for as long as it does.
FairSpec ==
    /\ Spec
    /\ WF_vars(Tick)
    /\ \A r \in Reads : <>[][~ ResendFill(r)]_vars

-----------------------------------------------------------------------------
\* The types; a read has a query from its arrival on, and the entries of Redis
\* lie under keys that some query builds.
TypeOK ==
    /\ rpc \in [Reads -> {"idle", "load", "lookup", "query", "fill"} \cup ReadOver]
    /\ DOMAIN query = {r \in Reads : rpc[r] # "idle"}
    /\ \A r \in DOMAIN query : query[r] \in Queries
    /\ DOMAIN val \subseteq DOMAIN query
    /\ \A r \in DOMAIN val : val[r] \in Value
    /\ DOMAIN cache \subseteq Keys
    /\ \A k \in DOMAIN cache : cache[k] \in Entry
    /\ ipc \in [Ingests -> {"idle", "resolve", "write", "sweep", "scan"} \cup IngestOver]
    /\ stage \in [Ingests -> Stages]
    /\ must \in [Ingests -> SUBSET Keys]
    /\ buf \in [Ingests -> SUBSET Keys]
    /\ db \subseteq Ingests
    /\ clean \in [Ingests -> BOOLEAN]
    /\ racing \in [Ingests -> SUBSET Reads]
    /\ after \in [Reads -> SUBSET Ingests]

\* The entry under k was computed without the committed batch i.
Stale(k, i) == k \in DOMAIN cache /\ i \in db /\ i \notin cache[k].value.seen

CleanlyAnswered(i) == ipc[i] = "answered" /\ clean[i]

\* Once an ingest has been answered and none of its Redis calls failed, the
\* only entries without its batch are those of reads that had run their query
\* before the commit and sent their SET after it.  No order of sweep,
\* evictions, expiries, refills and other ingests' sweeps leaves another.
StaleOnlyByRace ==
    \A i \in Ingests, k \in Keys :
        CleanlyAnswered(i) /\ Stale(k, i) => cache[k].value.by \in racing[i]

\* What a client sees of it: a read that arrives after such an answer returns
\* rows with the batch, unless they are the rows of one of those racing reads.
ReadsFollowIngests ==
    \A r \in Reads : rpc[r] = "answered" =>
        \A i \in after[r] \cap db :
            i \in val[r].seen \/ val[r].by \in racing[i]

\* After a commit, whatever becomes of its sweep, an entry without the batch only
\* comes closer to its expiry, unless one of the racing reads SETs it: no hit, no
\* other read and no other ingest makes one, or makes one last.
StaleOnlyFades ==
    [][\A k \in Keys, i \in db : Stale(k, i)' =>
          \/ Stale(k, i) /\ cache'[k].left <= cache[k].left
          \/ \E r \in racing[i] : rpc[r] = "fill" /\ KeyOf(query[r]) = k /\ cache'[k].value = val[r]]_vars

\* What tests/integration/test_api.py states of an ingest without naming the
\* race: an answered ingest has invalidated the cached price reads.
IngestInvalidates ==
    \A i \in Ingests, k \in Keys : CleanlyAnswered(i) => ~ Stale(k, i)

\* The rows of an answer were selected for what its request asked.
AnswerMatchesRequest ==
    \A r \in Reads : rpc[r] = "answered" => Alike(val[r].of, query[r])

\* If no call hangs for good, but each returns or raises, every request is
\* answered or refused, though all of them raise and never stop to: read_through
\* and invalidate_prefix give up, they do not retry.
CallsEnd ==
    /\ \A r \in Reads : WF_vars(ReadStep(r))
    /\ \A i \in Ingests : WF_vars(IngestStep(i))
EveryRequestFinishes == CallsEnd =>
    /\ \A r \in Reads : (rpc[r] # "idle") ~> (rpc[r] \in ReadOver)
    /\ \A i \in Ingests : (ipc[i] # "idle") ~> (ipc[i] \in IngestOver)

\* A stale entry does not stay: whatever was lost (the sweep, the worker, the
\* race) and whichever handler hangs, the expiry set with the entry ends it.
StaleEntryExpires ==
    \A k \in Keys, i \in Ingests : Stale(k, i) ~> ~ Stale(k, i)

-----------------------------------------------------------------------------
\* The refinement: a result is what a read's own producer returned, and an
\* answer is the value an answered read holds, without its ghost field.
Result(v) == [of |-> v.of, seen |-> v.seen]
OwnResults == {r \in DOMAIN val : val[r].by = r}
Answered   == {r \in Reads : rpc[r] = "answered"}

Produced == [r \in OwnResults |-> Result(val[r])]
Answers  == [r \in Answered |-> Result(val[r])]

Contract == INSTANCE ReadThroughContract WITH
    asked <- query, produced <- Produced, answer <- Answers

\* Through hits, misses, errors, lost replies and sweeps, every answer is one
\* result of one database query for the same question.
ImplementsContract == Contract!Spec
=============================================================================
