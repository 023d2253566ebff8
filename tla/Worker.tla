-------------------------------- MODULE Worker -------------------------------
(***************************************************************************)
(* One worker process between its clients, its connection pool and Redis:  *)
(* every route of the service, await by await, and the handler of /readyz. *)
(*                                                                         *)
(* Redis and Postgres are only up or not.  A statement on Postgres         *)
(* succeeds or raises; a call to Redis succeeds, raises, or, as the client *)
(* has no timeout, stays without an answer while Redis hangs.  What a      *)
(* route answers is left to PriceCache, Paging, Queries and IngestTx, and  *)
(* what the limiter counts to RateLimit.  Requests are such as the code    *)
(* can serve: what it cannot (a cursor it did not hand out, a batch of     *)
(* more parameters than a statement takes) is left out, and so are the     *)
(* counters behind /metrics.                                               *)
(***************************************************************************)
EXTENDS Naturals

CONSTANTS Requests,
          Probe,        \* the load balancer's request for /readyz
          Connections,  \* db_pool_size + db_max_overflow of them
          Nobody        \* the owner of a connection that is free

ASSUME ConnectionsAssumption == Connections # {}
ASSUME ProbeAssumption == Probe \notin Requests
ASSUME NobodyAssumption == Nobody \notin Requests \cup {Probe}

VARIABLES
    redis,     \* whether Redis answers, refuses or hangs
    postgres,  \* whether Postgres is up or down
    route,     \* the route of each request under way
    pc,        \* the await each request is at, or how it ended
    owner,     \* the request that has checked out each connection of the pool
    ready,     \* the local variable healthy of readyz
    trouble    \* history: Postgres or the pool has failed, not Redis alone

handling == <<route, pc, owner, ready>>
worker == <<redis, postgres, handling, trouble>>

Handlers == Requests \cup {Probe}
Routes == {"rows", "prices", "index", "ingest"}
Statements == {"lookup", "query", "write", "select"}
RedisCalls == {"limit", "get", "set", "sweep prices", "sweep index", "ping"}
Ended == {"answered", "failed", "dropped"}

\* What a process starts with.
NoConnectionOut == [c \in Connections |-> Nobody]

WorkerInit ==
    /\ redis = "up"
    /\ postgres = "up"
    /\ route = [r \in Requests |-> "none"]
    /\ pc = [h \in Handlers |-> "idle"]
    /\ owner = NoConnectionOut
    /\ ready = TRUE
    /\ trouble = FALSE

-----------------------------------------------------------------------------
(* The pool.  A session takes a connection at its first statement and gives *)
(* it back when it closes, however the request ends.                        *)

Exhausted == \A c \in Connections : owner[c] # Nobody

Goto(h, place) == pc' = [pc EXCEPT ![h] = place]
Released(h) == [c \in Connections |-> IF owner[c] = h THEN Nobody ELSE owner[c]]

\* A request ends, as it was meant to (2xx or 4xx) or not (500).
End(r, how) ==
    /\ Goto(r, how)
    /\ owner' = Released(r)
    /\ route' = [route EXCEPT ![r] = "none"]

\* It goes on, with the connection it has or without one.
Pass(r, place) == Goto(r, place) /\ UNCHANGED <<owner, route>>

\* The first statement: that of readyz, of a route that looks something up, or
\* of one that does not (list_gpus, the index).
First(h) == IF h = Probe THEN {"select"}
            ELSE IF route[h] = "rows" THEN {"lookup", "query"}
            ELSE IF route[h] = "index" THEN {"query"}
            ELSE {"lookup"}

Connect(h) ==
    /\ pc[h] = "connect"
    /\ \E c \in Connections : owner[c] = Nobody /\ owner' = [owner EXCEPT ![c] = h]
    /\ \E place \in First(h) : Goto(h, place)
    /\ UNCHANGED <<redis, postgres, route, ready, trouble>>

\* The pool's timeout, or a statement that raises.
Raises(h) == \/ pc[h] = "connect" /\ Exhausted
             \/ pc[h] \in Statements /\ postgres = "down"

Blame(h) == trouble' = (trouble \/ pc[h] = "connect")

\* A route lets the exception through.
Fail(r) ==
    /\ Raises(r)
    /\ End(r, "failed")
    /\ Blame(r)
    /\ UNCHANGED <<redis, postgres, ready>>

-----------------------------------------------------------------------------
(* The routes.                                                              *)

\* A request comes with a valid key; without one it is answered at once.
Arrive(r) ==
    /\ pc[r] = "idle"
    /\ \E d \in Routes : route' = [route EXCEPT ![r] = d]
    /\ Goto(r, "limit")
    /\ UNCHANGED <<redis, postgres, owner, ready, trouble>>

\* The limiter throttles, or passes, as it always does when Redis raises.  A
\* request may still be refused for its parameters or a batch over 5000 rows;
\* an empty batch has nothing to write, and the index looks in the cache before
\* it needs Postgres.
RateLimit(r) ==
    /\ pc[r] = "limit"
    /\ redis # "hanging"
    /\ \/ End(r, "answered")
       \/ route[r] = "index" /\ Pass(r, "get")
       \/ route[r] = "ingest" /\ Pass(r, "sweep prices")
       \/ route[r] # "index" /\ Pass(r, "connect")
    /\ UNCHANGED <<redis, postgres, ready, trouble>>

\* _load_gpu, which may find nothing, or the names of a batch, of which none
\* may be known; the connection stays with the request.
Lookup(r) ==
    /\ pc[r] = "lookup"
    /\ postgres = "up"
    /\ \/ route[r] # "ingest" /\ End(r, "answered")
       \/ route[r] = "rows" /\ Pass(r, "query")
       \/ route[r] = "prices" /\ Pass(r, "get")
       \/ route[r] = "ingest" /\ Pass(r, "write")
       \/ route[r] = "ingest" /\ Pass(r, "sweep prices")
    /\ UNCHANGED <<redis, postgres, ready, trouble>>

\* The statement that finds the rows.
QueryRows(r) ==
    /\ pc[r] = "query"
    /\ postgres = "up"
    /\ \/ route[r] = "rows" /\ End(r, "answered")
       \/ route[r] # "rows" /\ Pass(r, "set")
    /\ UNCHANGED <<redis, postgres, ready, trouble>>

\* The insert and its commit, which gives the connection back.
WriteBatch(r) ==
    /\ pc[r] = "write"
    /\ postgres = "up"
    /\ Goto(r, "sweep prices")
    /\ owner' = Released(r)
    /\ UNCHANGED <<redis, postgres, route, ready, trouble>>

-----------------------------------------------------------------------------
(* The cache.  An exception of Redis goes no further.                       *)

\* The value is there and decodes.
Hit(r) ==
    /\ pc[r] = "get"
    /\ redis = "up"
    /\ End(r, "answered")
    /\ UNCHANGED <<redis, postgres, ready, trouble>>

\* Slip: the producer of the prices opens a session of its own.
MissReconnecting(r) ==
    /\ pc[r] = "get"
    /\ redis # "hanging"
    /\ Goto(r, "connect")
    /\ UNCHANGED <<redis, postgres, route, owner, ready, trouble>>

\* The key is not there, the GET raised, or its value does not decode.  The
\* producer of the prices has its connection from _load_gpu; that of the index
\* takes one now.
Miss(r) ==
    /\ pc[r] = "get"
    /\ redis # "hanging"
    /\ Goto(r, IF route[r] = "index" THEN "connect" ELSE "query")
    /\ UNCHANGED <<redis, postgres, route, owner, ready, trouble>>

\* Slip: the SET stands outside the try.
FillUnguarded(r) ==
    /\ pc[r] = "set"
    /\ redis # "hanging"
    /\ End(r, IF redis = "up" THEN "answered" ELSE "failed")
    /\ UNCHANGED <<redis, postgres, ready, trouble>>

\* The connection stays with the request until the SET is over.
Fill(r) ==
    /\ pc[r] = "set"
    /\ redis # "hanging"
    /\ End(r, "answered")
    /\ UNCHANGED <<redis, postgres, ready, trouble>>

\* Slip: a sweep that Redis failed is tried again.
SweepRetrying(r) ==
    /\ redis # "hanging"
    /\ \/ pc[r] = "sweep prices" /\ Pass(r, IF redis = "up" THEN "sweep index" ELSE "sweep prices")
       \/ pc[r] = "sweep index" /\ End(r, "answered")
    /\ UNCHANGED <<redis, postgres, ready, trouble>>

\* An ingest sweeps both prefixes; an error ends one sweep, not the ingest.
Sweep(r) ==
    /\ redis # "hanging"
    /\ \/ pc[r] = "sweep prices" /\ Pass(r, "sweep index")
       \/ pc[r] = "sweep index" /\ End(r, "answered")
    /\ UNCHANGED <<redis, postgres, ready, trouble>>

Step(r) ==
    \/ RateLimit(r) \/ Connect(r) \/ Fail(r) \/ Lookup(r) \/ QueryRows(r)
    \/ WriteBatch(r) \/ Hit(r) \/ Miss(r) \/ Fill(r) \/ Sweep(r)

-----------------------------------------------------------------------------
(* readyz.                                                                  *)

AskReady ==
    /\ pc[Probe] = "idle"
    /\ Goto(Probe, "connect")
    /\ ready' = TRUE
    /\ UNCHANGED <<redis, postgres, route, owner, trouble>>

\* Slip: the session is open until the handler ends.
SelectHolding ==
    /\ pc[Probe] = "select"
    /\ postgres = "up"
    /\ Goto(Probe, "ping")
    /\ UNCHANGED <<redis, postgres, route, owner, ready, trouble>>

\* SELECT 1, in a session that closes before Redis is asked.
SelectOne ==
    /\ pc[Probe] = "select"
    /\ postgres = "up"
    /\ Goto(Probe, "ping")
    /\ owner' = Released(Probe)
    /\ UNCHANGED <<redis, postgres, route, ready, trouble>>

\* The handler catches the exception, and goes on to Redis.
Unready ==
    /\ Raises(Probe)
    /\ Goto(Probe, "ping")
    /\ owner' = Released(Probe)
    /\ ready' = FALSE
    /\ Blame(Probe)
    /\ UNCHANGED <<redis, postgres, route>>

Ping ==
    /\ pc[Probe] = "ping"
    /\ redis # "hanging"
    /\ Goto(Probe, "idle")
    /\ ready' = TRUE
    /\ UNCHANGED <<redis, postgres, route, owner, trouble>>

\* The handler's answer, 200 or 503.
Healthy == ready /\ redis = "up"

-----------------------------------------------------------------------------
(* Outages, and the end of the process.                                     *)

RedisChanges ==
    /\ redis' \in {"up", "refusing", "hanging"} \ {redis}
    /\ UNCHANGED <<postgres, handling, trouble>>

PostgresChanges ==
    /\ postgres' \in {"up", "down"} \ {postgres}
    /\ trouble' = TRUE
    /\ UNCHANGED <<redis, handling>>

\* Another process takes this one's place: its clients are cut off, its
\* connections closed, its counters gone.
Restart ==
    /\ pc' = [h \in Handlers |->
                IF h = Probe THEN "idle"
                ELSE IF pc[h] \in {"idle"} \cup Ended THEN pc[h] ELSE "dropped"]
    /\ owner' = NoConnectionOut
    /\ ready' = TRUE
    /\ route' = [r \in Requests |-> "none"]
    /\ UNCHANGED <<redis, postgres, trouble>>

-----------------------------------------------------------------------------
(* Properties of the process.                                               *)

WorkerTypeOK ==
    /\ redis \in {"up", "refusing", "hanging"}
    /\ postgres \in {"up", "down"}
    /\ route \in [Requests -> Routes \cup {"none"}]
    /\ pc \in [Handlers -> {"idle", "connect"} \cup Statements \cup RedisCalls \cup Ended]
    /\ owner \in [Connections -> Handlers \cup {Nobody}]
    /\ ready \in BOOLEAN
    /\ trouble \in BOOLEAN

\* Nobody has more than one connection, or keeps one while it waits for
\* another or after it has ended: the pool cannot deadlock and does not leak,
\* whatever raises on the way.  Of routes.py, ingestion.py and readyz.
PoolMoves ==
    \A c \in Connections :
        owner[c] # Nobody =>
            /\ pc[owner[c]] \notin {"idle", "limit", "connect", "ping"} \cup Ended
            /\ \A d \in Connections : owner[d] = owner[c] => d = c

\* An outage of Redis alone turns no request into an error: its callers degrade
\* as the docstring of read_through and rate_limit say, unless requests that
\* wait for Redis keep the last connection from others.
RedisOutageContained ==
    \A r \in Requests : pc[r] = "failed" => trouble
=============================================================================
