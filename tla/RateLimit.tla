------------------------------- MODULE RateLimit -----------------------------
(***************************************************************************)
(* The API-key check and the fixed-window counter in Redis that every /v1  *)
(* request passes first, as any number of worker processes run them.       *)
(*                                                                         *)
(* A bucket is a pair of a bucket id (the key's hash as the worker that    *)
(* serves the request computes it) and a window number.                    *)
(***************************************************************************)
EXTENDS Integers, FiniteSets

CONSTANTS Requests,
          Workers,    \* the uvicorn processes
          ApiKeys,    \* settings.api_key_set
          BadKey,     \* a missing or unknown key
          BucketIds,  \* the 32-bit values
          Limit,      \* rate_limit_requests
          Window,     \* rate_limit_window_seconds
          Retries,    \* how often redis-py resends a transaction
          MaxNow      \* bound on the clock, for TLC

ASSUME RequestsAssumption == IsFiniteSet(Requests) /\ IsFiniteSet(Workers)
ASSUME BadKeyAssumption == BadKey \notin ApiKeys
ASSUME LimitAssumption == Limit \in Nat /\ Window \in Nat \ {0} /\ MaxNow \in Nat
ASSUME RetriesAssumption == Retries \in Nat

VARIABLES
    now,       \* time.time(), in seconds
    hash,      \* Python's hash of each key in each worker, fixed when it starts
    apikey,    \* the key each request brought, once it has come
    pc,        \* where each request is
    bucket,    \* the bucket of each request that passed the key check
    counters,  \* Redis: count and expiry of the live buckets
    lost,      \* history: buckets Redis lost before they expired
    tries,     \* the transactions each request has resent
    log        \* history: in which window each INCR was carried out, and whether it was answered

vars == <<now, hash, apikey, pc, bucket, counters, lost, tries, log>>

\* int(time.time()) // window
WindowOf(t) == t \div Window

Buckets == BucketIds \X Nat
Counter == [count: Nat \ {0}, expires: Nat]
Decided == {"unauthorized", "passed", "throttled"}

\* The transactions of a request, numbered from the first.
Transactions == Requests \X (0 .. Retries)

Init ==
    /\ now = 0
    /\ hash \in [Workers -> [ApiKeys -> BucketIds]]
    /\ apikey = [r \in {} |-> r]
    /\ pc = [r \in Requests |-> "idle"]
    /\ bucket = [r \in {} |-> r]
    /\ counters = [b \in {} |-> b]
    /\ lost = {}
    /\ tries = [r \in Requests |-> 0]
    /\ log = [r \in {} |-> r]

Put(f, x, v) == [y \in DOMAIN f \cup {x} |-> IF y = x THEN v ELSE f[y]]

\* A request comes to a worker.  require_api_key refuses it before Redis is
\* asked; otherwise rate_limit works out its bucket.
Authenticate(r) ==
    /\ pc[r] = "idle"
    /\ \E w \in Workers, key \in ApiKeys \cup {BadKey} :
          /\ apikey' = Put(apikey, r, key)
          /\ \/ /\ key \notin ApiKeys
                /\ pc' = [pc EXCEPT ![r] = "unauthorized"]
                /\ UNCHANGED bucket
             \/ /\ key \in ApiKeys
                /\ pc' = [pc EXCEPT ![r] = "counting"]
                /\ bucket' = Put(bucket, r, <<hash[w][key], WindowOf(now)>>)
    /\ UNCHANGED <<now, hash, counters, lost, tries, log>>

\* What INCR would return.
CountOf(b) == IF b \in DOMAIN counters THEN counters[b].count ELSE 0

\* Slips: an INCR by nothing; an EXPIRE shorter than the window.
IncrementByZero(r, answered) ==
    /\ counters' = Put(counters, bucket[r],
                       [count |-> CountOf(bucket[r]), expires |-> now + 2 * Window])
    /\ log' = Put(log, <<r, tries[r]>>, [window |-> WindowOf(now), answered |-> answered])
IncrementBriefly(r, answered) ==
    /\ counters' = Put(counters, bucket[r],
                       [count |-> CountOf(bucket[r]) + 1, expires |-> now + Window \div 2])
    /\ log' = Put(log, <<r, tries[r]>>, [window |-> WindowOf(now), answered |-> answered])

\* MULTI, INCR, EXPIRE 2 * window, EXEC: one step of Redis.
Increment(r, answered) ==
    /\ counters' = Put(counters, bucket[r],
                       [count |-> CountOf(bucket[r]) + 1, expires |-> now + 2 * Window])
    /\ log' = Put(log, <<r, tries[r]>>, [window |-> WindowOf(now), answered |-> answered])

\* Slips: the limit itself is refused; one more is let through.
RefusedAtLimit(count) == count >= Limit
RefusedLate(count) == count > Limit + 1

Refused(count) == count > Limit

\* pipe.execute() returns the new count, which decides.
Count(r) ==
    /\ pc[r] = "counting"
    /\ Increment(r, TRUE)
    /\ pc' = [pc EXCEPT ![r] =
                 IF Refused(CountOf(bucket[r]) + 1) THEN "throttled" ELSE "passed"]
    /\ UNCHANGED <<now, hash, apikey, bucket, lost, tries>>

\* The transaction was carried out and its reply lost: redis-py sends it again.
\* One that was not carried out is resent without a trace.
Resend(r) ==
    /\ pc[r] = "counting"
    /\ tries[r] < Retries
    /\ Increment(r, FALSE)
    /\ tries' = [tries EXCEPT ![r] = @ + 1]
    /\ UNCHANGED <<now, hash, apikey, pc, bucket, lost>>

\* pipe.execute() raises, carried out or not: the request passes.
FailOpen(r) ==
    /\ pc[r] = "counting"
    /\ pc' = [pc EXCEPT ![r] = "passed"]
    /\ \/ Increment(r, FALSE)
       \/ UNCHANGED <<counters, log>>
    /\ UNCHANGED <<now, hash, apikey, bucket, lost, tries>>

\* A second passes; what has reached its expiry is gone.
Tick ==
    /\ now < MaxNow
    /\ now' = now + 1
    /\ counters' = [b \in {x \in DOMAIN counters : counters[x].expires > now + 1} |-> counters[b]]
    /\ UNCHANGED <<hash, apikey, pc, bucket, lost, tries, log>>

\* Redis evicts a bucket, or restarts (one of every bucket).
Evict ==
    /\ \E b \in DOMAIN counters :
          /\ counters' = [x \in DOMAIN counters \ {b} |-> counters[x]]
          /\ lost' = lost \cup {b}
    /\ UNCHANGED <<now, hash, apikey, pc, bucket, tries, log>>

Next ==
    \/ \E r \in Requests : Authenticate(r) \/ Count(r) \/ Resend(r) \/ FailOpen(r)
    \/ Tick
    \/ Evict

Spec == Init /\ [][Next]_vars

-----------------------------------------------------------------------------
\* The types; a request has a key once it has come, and an INCR only with a
\* bucket to count in.
TypeOK ==
    /\ now \in 0..MaxNow
    /\ hash \in [Workers -> [ApiKeys -> BucketIds]]
    /\ DOMAIN apikey = {r \in Requests : pc[r] # "idle"}
    /\ \A r \in DOMAIN apikey : apikey[r] \in ApiKeys \cup {BadKey}
    /\ pc \in [Requests -> {"idle", "counting"} \cup Decided]
    /\ DOMAIN bucket \subseteq Requests
    /\ \A r \in DOMAIN bucket : bucket[r] \in Buckets
    /\ DOMAIN counters \subseteq Buckets
    /\ \A b \in DOMAIN counters : counters[b] \in Counter
    /\ lost \subseteq Buckets
    /\ tries \in [Requests -> 0 .. Retries]
    /\ DOMAIN log \subseteq {e \in Transactions : e[1] \in DOMAIN bucket}
    /\ \A e \in DOMAIN log : log[e] \in [window: Nat, answered: BOOLEAN]

\* The transactions on bucket b that were carried out, and those of them that
\* came within the window b is for and on whose count their request passed.
Counted(b) == {e \in DOMAIN log : bucket[e[1]] = b}
PassedInWindow(b) ==
    {e \in Counted(b) : /\ pc[e[1]] = "passed" /\ log[e].answered
                        /\ log[e].window = b[2]}

\* However requests interleave and fail, at most Limit requests
\* pass on the counter of a bucket within its window, unless Redis lost it:
\* the counter cannot expire while its window lasts.
WindowBound ==
    \A b \in {bucket[r] : r \in DOMAIN bucket} \ lost : Cardinality(PassedInWindow(b)) <= Limit

\* A request is throttled only after Limit other transactions on its bucket were
\* carried out, also when counters expire, are lost, or are reached late.  Those
\* it resent itself are among them.
ThrottledOnlyWhenSpent ==
    \A r \in Requests :
        pc[r] = "throttled" => Cardinality(Counted(bucket[r]) \ {<<r, tries[r]>>}) >= Limit

\* Of the requests with one API key, those that passed on the count of a window
\* within that window.
PassedWithKey(key, n) ==
    {e \in DOMAIN log : /\ apikey[e[1]] = key /\ pc[e[1]] = "passed" /\ log[e].answered
                        /\ bucket[e[1]][2] = n /\ log[e].window = n}

\* What the limit comes to for one API key: Limit requests for each value that
\* the hashes of the workers give the key.
HashesOf(key) == {hash[w][key] : w \in Workers}
KeyBound ==
    lost = {} => \A key \in ApiKeys, n \in 0..WindowOf(MaxNow) :
                    Cardinality(PassedWithKey(key, n)) <= Limit * Cardinality(HashesOf(key))

\* README.md, "rate limited per key": at most Limit of them, whichever workers
\* serve them.
PerKeyLimit ==
    lost = {} => \A key \in ApiKeys, n \in 0..WindowOf(MaxNow) :
                    Cardinality(PassedWithKey(key, n)) <= Limit
=============================================================================
