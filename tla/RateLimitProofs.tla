--------------------------- MODULE RateLimitProofs ---------------------------
(***************************************************************************)
(* Proofs about RateLimit, for any requests, workers, keys, limit, window  *)
(* and clock bound.                                                        *)
(***************************************************************************)
EXTENDS RateLimit, FiniteSetTheorems, WellFoundedInduction, TLAPS

\* Windows follow each other, each Window seconds long, and an expiry two
\* windows on lies past the end of the bucket's own window.
LEMMA WindowArithmetic ==
    \A t \in Nat :
        /\ WindowOf(t) \in Nat
        /\ WindowOf(t) <= WindowOf(t + 1)
        /\ \A e \in Nat : e >= (WindowOf(t) + 2) * Window => e > t
        /\ \A n \in Nat : n <= WindowOf(t) => t + 2 * Window >= (n + 2) * Window
<1> TAKE t \in Nat
<1>0. Window \in Nat \ {0}
  BY LimitAssumption
<1>1. WindowOf(t) \in Nat
  BY <1>0 DEF WindowOf
<1>2. WindowOf(t) <= WindowOf(t + 1)
  BY <1>0 DEF WindowOf
<1>3. \A e \in Nat : e >= (WindowOf(t) + 2) * Window => e > t
  BY <1>0 DEF WindowOf
<1>4. \A n \in Nat : n <= WindowOf(t) => t + 2 * Window >= (n + 2) * Window
  BY <1>0 DEF WindowOf
<1>5. QED
  BY <1>1, <1>2, <1>3, <1>4

-----------------------------------------------------------------------------
\* The inductive invariant.  A request has a bucket once it passed the key
\* check; what it resent had no answer, and its last transaction is carried out no
\* later than it is decided.
Flow ==
    /\ DOMAIN bucket = {r \in Requests : pc[r] \in {"counting", "passed", "throttled"}}
    /\ \A e \in DOMAIN log : \/ e[2] < tries[e[1]] /\ ~ log[e].answered
                             \/ e[2] = tries[e[1]] /\ pc[e[1]] \in {"passed", "throttled"}

\* No bucket is of a window to come.
Past == \A r \in DOMAIN bucket : bucket[r][2] <= WindowOf(now)

\* A counter expires after the window of its bucket.
Outlives == \A b \in DOMAIN counters : counters[b].expires >= (b[2] + 2) * Window

\* The counter never counts more than was carried out, and in its window
\* it counts all of them unless Redis lost it.
CountSound == \A b \in Buckets : CountOf(b) <= Cardinality(Counted(b))
CountExact ==
    \A b \in Buckets \ lost : b[2] = WindowOf(now) => CountOf(b) = Cardinality(Counted(b))

PassedBound == \A b \in Buckets \ lost : Cardinality(PassedInWindow(b)) <= Limit

CountInv == /\ TypeOK /\ Flow /\ Past /\ Outlives
            /\ CountSound /\ CountExact /\ PassedBound /\ ThrottledOnlyWhenSpent

-----------------------------------------------------------------------------
\* The transactions of the requests are finitely many.
LEMMA TransactionsFinite == IsFiniteSet(Transactions)
<1>1. IsFiniteSet(0 .. Retries)
  BY RetriesAssumption, FS_Interval
<1>2. QED
  BY <1>1, RequestsAssumption, FS_Product DEF Transactions

\* The sets of transactions counted are finite, their cardinalities numbers.
LEMMA CountedFinite ==
    ASSUME TypeOK
    PROVE  \A b : /\ IsFiniteSet(Counted(b)) /\ Cardinality(Counted(b)) \in Nat
                  /\ IsFiniteSet(PassedInWindow(b)) /\ Cardinality(PassedInWindow(b)) \in Nat
                  /\ PassedInWindow(b) \subseteq Counted(b)
<1> TAKE b
<1>1. Counted(b) \in SUBSET Transactions /\ PassedInWindow(b) \in SUBSET Counted(b)
  BY DEF TypeOK, Counted, PassedInWindow
<1>2. IsFiniteSet(Counted(b))
  BY <1>1, TransactionsFinite, FS_Subset
<1>3. IsFiniteSet(PassedInWindow(b))
  BY <1>1, <1>2, FS_Subset
<1>4. QED
  BY <1>1, <1>2, <1>3, FS_CardinalityType

\* One transaction more does not make the others fewer.
LEMMA MoreCounted ==
    TypeOK => \A b, e, x, D : /\ D = Counted(b) \/ D = Counted(b) \cup {e}
                              /\ Cardinality(Counted(b) \ {x}) >= Limit
                              => Cardinality(D \ {x}) >= Limit
<1> SUFFICES ASSUME TypeOK, NEW b, NEW e, NEW x, NEW D,
                    D = Counted(b) \/ D = Counted(b) \cup {e},
                    Cardinality(Counted(b) \ {x}) >= Limit
             PROVE  Cardinality(D \ {x}) >= Limit
  OBVIOUS
<1>1. IsFiniteSet(Counted(b)) /\ IsFiniteSet(Counted(b) \cup {e})
  BY CountedFinite, FS_AddElement
<1>2. IsFiniteSet(D \ {x})
  BY <1>1, FS_RemoveElement
<1>3. Counted(b) \ {x} \subseteq D \ {x}
  OBVIOUS
<1>4. /\ Cardinality(Counted(b) \ {x}) <= Cardinality(D \ {x})
      /\ Cardinality(D \ {x}) \in Nat /\ Cardinality(Counted(b) \ {x}) \in Nat
  BY <1>2, <1>3, FS_Subset, FS_CardinalityType
<1>5. QED
  BY <1>4, LimitAssumption

\* A counter is a number.
LEMMA CountIsNat == TypeOK => \A b : CountOf(b) \in Nat
BY DEF TypeOK, CountOf, Counter

\* Nothing is counted when the system starts.
LEMMA CountInit == Init => CountInv
<1> SUFFICES ASSUME Init PROVE CountInv
  OBVIOUS
<1>1. TypeOK /\ Flow /\ Past /\ Outlives
  <2>1. tries \in [Requests -> 0 .. Retries]
    BY RetriesAssumption DEF Init
  <2>2. QED
    BY <2>1, LimitAssumption DEF Init, TypeOK, Flow, Past, Outlives, Decided
<1>2. \A b : Counted(b) = {} /\ PassedInWindow(b) = {} /\ CountOf(b) = 0
  BY DEF Init, Counted, PassedInWindow, CountOf
<1>3. CountSound /\ CountExact /\ PassedBound
  BY <1>2, FS_EmptySet, LimitAssumption DEF CountSound, CountExact, PassedBound
<1>4. ThrottledOnlyWhenSpent
  BY DEF Init, ThrottledOnlyWhenSpent
<1>5. QED
  BY <1>1, <1>3, <1>4 DEF CountInv

-----------------------------------------------------------------------------
\* The transaction a request is at.
At(r) == <<r, tries[r]>>

\* What the step of Redis does to the counters and to the transactions counted.
Effect(r, a) ==
    /\ DOMAIN counters' = DOMAIN counters \cup {bucket[r]}
    /\ \A b \in DOMAIN counters' : counters'[b] \in Counter
    /\ DOMAIN log' = DOMAIN log \cup {At(r)}
    /\ log'[At(r)] = [window |-> WindowOf(now), answered |-> a]
    /\ \A e \in DOMAIN log : log'[e] = log[e]
    /\ At(r) \notin DOMAIN log /\ r \in DOMAIN bucket /\ bucket[r] \in Buckets
    /\ At(r) \in Transactions /\ At(r)[1] = r /\ At(r)[2] = tries[r]
    /\ Outlives'
    /\ \A b : CountOf(b)' = IF b = bucket[r] THEN CountOf(b) + 1 ELSE CountOf(b)
    /\ \A b : Counted(b)' = IF b = bucket[r] THEN Counted(b) \cup {At(r)} ELSE Counted(b)
    /\ \A b : At(r) \notin Counted(b)

LEMMA IncrementEffect ==
    ASSUME CountInv, NEW r \in Requests, pc[r] = "counting", NEW a \in BOOLEAN,
           Increment(r, a), UNCHANGED <<now, bucket, lost>>
    PROVE  Effect(r, a)
<1>0. At(r) \in Transactions /\ At(r)[1] = r /\ At(r)[2] = tries[r] /\ tries[r] \in Int
  BY RetriesAssumption DEF CountInv, TypeOK, At, Transactions
<1>1. At(r) \notin DOMAIN log /\ r \in DOMAIN bucket /\ bucket[r] \in Buckets
  <2>1. r \in DOMAIN bucket /\ bucket[r] \in Buckets
    BY DEF CountInv, TypeOK, Flow
  <2>2. ASSUME At(r) \in DOMAIN log PROVE FALSE
    BY <2>2, <1>0 DEF CountInv, Flow
  <2>3. QED
    BY <2>1, <2>2
<1>2. /\ DOMAIN log' = DOMAIN log \cup {At(r)}
      /\ log'[At(r)] = [window |-> WindowOf(now), answered |-> a]
      /\ \A e \in DOMAIN log : log'[e] = log[e]
  BY <1>1 DEF Increment, Put, At
<1>3. /\ DOMAIN counters' = DOMAIN counters \cup {bucket[r]}
      /\ counters'[bucket[r]] = [count |-> CountOf(bucket[r]) + 1, expires |-> now + 2 * Window]
      /\ \A b \in DOMAIN counters \ {bucket[r]} : counters'[b] = counters[b]
  BY DEF Increment, Put
<1>4. \A b \in DOMAIN counters' : counters'[b] \in Counter
  BY <1>3, CountIsNat, LimitAssumption DEF CountInv, TypeOK, Counter
<1>5. Outlives'
  <2>1. bucket[r][2] <= WindowOf(now) /\ bucket[r][2] \in Nat /\ now \in Nat
    BY <1>1, LimitAssumption DEF CountInv, Past, Buckets, TypeOK
  <2>2. now + 2 * Window >= (bucket[r][2] + 2) * Window
    BY <2>1, WindowArithmetic
  <2>3. QED
    BY <1>3, <2>2 DEF CountInv, Outlives
<1>6. \A b : CountOf(b)' = IF b = bucket[r] THEN CountOf(b) + 1 ELSE CountOf(b)
  BY <1>3 DEF CountOf
<1>7. \A b : Counted(b)' = IF b = bucket[r] THEN Counted(b) \cup {At(r)} ELSE Counted(b)
  BY <1>0, <1>1, <1>2 DEF Counted
<1>8. QED
  BY <1>0, <1>1, <1>2, <1>3, <1>4, <1>5, <1>6, <1>7 DEF Counted, Effect

\* The counter and what was carried out go up together.
LEMMA CountsAgree ==
    ASSUME CountInv, NEW r \in Requests, pc[r] = "counting", NEW a \in BOOLEAN,
           Increment(r, a), UNCHANGED <<now, bucket, lost>>
    PROVE  CountSound' /\ CountExact'
<1> USE DEF CountInv
<1>i. Effect(r, a)
  BY IncrementEffect
<1>e. /\ bucket[r] \in Buckets
      /\ \A b : CountOf(b)' = IF b = bucket[r] THEN CountOf(b) + 1 ELSE CountOf(b)
      /\ \A b : Counted(b)' = IF b = bucket[r] THEN Counted(b) \cup {At(r)} ELSE Counted(b)
      /\ \A b : At(r) \notin Counted(b)
  BY <1>i DEF Effect
<1>g. \A b : IsFiniteSet(Counted(b)) /\ Cardinality(Counted(b)) \in Nat
  BY CountedFinite
<1>5. \A b : Cardinality(Counted(b)') =
             IF b = bucket[r] THEN Cardinality(Counted(b)) + 1 ELSE Cardinality(Counted(b))
  BY <1>e, <1>g, FS_AddElement
<1>6. CountSound'
  <2> SUFFICES ASSUME NEW b \in Buckets PROVE CountOf(b)' <= Cardinality(Counted(b)')
    BY DEF CountSound
  <2>1. CountOf(b) <= Cardinality(Counted(b)) /\ CountOf(b) \in Nat
    BY CountIsNat DEF CountSound
  <2>2. QED
    BY <2>1, <1>5, <1>e, <1>g
<1>7. CountExact'
  <2> SUFFICES ASSUME NEW b \in Buckets \ lost, b[2] = WindowOf(now)
               PROVE  CountOf(b)' = Cardinality(Counted(b)')
    BY DEF CountExact
  <2>1. CountOf(b) = Cardinality(Counted(b))
    BY DEF CountExact
  <2>2. QED
    BY <2>1, <1>5, <1>e
<1>8. QED
  BY <1>6, <1>7

\* An INCR that is carried out keeps the invariant when its request is decided
\* by the count it returned, or passes without having seen it.
LEMMA DecideStep ==
    ASSUME CountInv, NEW r \in Requests, pc[r] = "counting", NEW a \in BOOLEAN,
           Increment(r, a), UNCHANGED <<now, hash, apikey, bucket, lost, tries>>,
           NEW verdict \in {"passed", "throttled"}, pc' = [pc EXCEPT ![r] = verdict],
           verdict = "throttled" => Refused(CountOf(bucket[r]) + 1),
           verdict = "passed" /\ a => ~ Refused(CountOf(bucket[r]) + 1)
    PROVE  CountInv'
<1> USE DEF CountInv
<1>0. /\ Limit \in Nat /\ CountOf(bucket[r]) \in Nat
      /\ pc'[r] = verdict /\ \A s \in Requests : s # r => pc'[s] = pc[s]
  BY CountIsNat, LimitAssumption DEF TypeOK
<1>i. Effect(r, a)
  BY IncrementEffect
<1>e. /\ At(r) \notin DOMAIN log /\ bucket[r] \in Buckets
      /\ \A b : CountOf(b)' = IF b = bucket[r] THEN CountOf(b) + 1 ELSE CountOf(b)
      /\ \A b : Counted(b)' = IF b = bucket[r] THEN Counted(b) \cup {At(r)} ELSE Counted(b)
      /\ \A b : At(r) \notin Counted(b)
  BY <1>i DEF Effect
<1>f. /\ r \in DOMAIN bucket
      /\ DOMAIN counters' = DOMAIN counters \cup {bucket[r]}
      /\ \A b \in DOMAIN counters' : counters'[b] \in Counter
      /\ DOMAIN log' = DOMAIN log \cup {At(r)}
      /\ log'[At(r)] = [window |-> WindowOf(now), answered |-> a]
      /\ \A e \in DOMAIN log : log'[e] = log[e]
      /\ At(r) \in Transactions /\ At(r)[1] = r /\ At(r)[2] = tries[r]
  BY <1>i DEF Effect
<1>g. \A b : /\ IsFiniteSet(Counted(b)) /\ Cardinality(Counted(b)) \in Nat
             /\ IsFiniteSet(PassedInWindow(b)) /\ Cardinality(PassedInWindow(b)) \in Nat
  BY CountedFinite
<1>1. TypeOK'
  <2>1. WindowOf(now) \in Nat
    <3>1. now \in Nat
      BY LimitAssumption DEF TypeOK
    <3>2. QED
      BY <3>1, WindowArithmetic
  <2>2. DOMAIN counters' \subseteq Buckets /\ \A b \in DOMAIN counters' : counters'[b] \in Counter
    BY <1>e, <1>f DEF TypeOK
  <2>3. DOMAIN log' \subseteq {e \in Transactions : e[1] \in DOMAIN bucket}
        /\ \A e \in DOMAIN log' : log'[e] \in [window: Nat, answered: BOOLEAN]
    BY <2>1, <1>e, <1>f DEF TypeOK
  <2>4. pc' \in [Requests -> {"idle", "counting"} \cup Decided]
        /\ DOMAIN apikey = {s \in Requests : pc'[s] # "idle"}
    BY <1>0 DEF TypeOK, Decided
  <2>5. QED
    BY <2>2, <2>3, <2>4 DEF TypeOK
<1>2. Flow'
  BY <1>0, <1>f DEF Flow, TypeOK
<1>3. Past'
  BY DEF Past
<1>4. Outlives'
  BY <1>i DEF Effect
<1>6. CountSound' /\ CountExact'
  BY CountsAgree
<1>8. PassedBound'
  <2> SUFFICES ASSUME NEW b \in Buckets, b \notin lost
               PROVE  Cardinality(PassedInWindow(b)') <= Limit
    BY DEF PassedBound
  <2>1. CASE b = bucket[r] /\ verdict = "passed" /\ a /\ b[2] = WindowOf(now)
    <3>1. PassedInWindow(b)' \subseteq Counted(b) \cup {At(r)}
      BY <2>1, <1>e DEF PassedInWindow
    <3>2. Cardinality(Counted(b) \cup {At(r)}) <= Limit
      <4>1. CountOf(b) = Cardinality(Counted(b))
        BY <2>1 DEF CountExact
      <4>2. Cardinality(Counted(b) \cup {At(r)}) = CountOf(b) + 1
        BY <4>1, <1>e, <1>g, FS_AddElement
      <4>3. QED
        BY <4>2, <2>1, <1>0 DEF Refused
    <3>3. IsFiniteSet(Counted(b) \cup {At(r)})
      BY <1>g, FS_AddElement
    <3>4. Cardinality(PassedInWindow(b)') <= Cardinality(Counted(b) \cup {At(r)})
      BY <3>1, <3>3, FS_Subset
    <3>5. Cardinality(PassedInWindow(b)') \in Nat /\ Cardinality(Counted(b) \cup {At(r)}) \in Nat
      BY <3>1, <3>3, FS_Subset, FS_CardinalityType
    <3>6. QED
      BY <3>2, <3>4, <3>5, <1>0
  <2>2. CASE ~ (b = bucket[r] /\ verdict = "passed" /\ a /\ b[2] = WindowOf(now))
    <3>1. ASSUME NEW e \in PassedInWindow(b)' PROVE e \in PassedInWindow(b)
      <4>1. e \in Counted(b)' /\ pc'[e[1]] = "passed" /\ log'[e].answered
            /\ log'[e].window = b[2]
        BY <3>1 DEF PassedInWindow
      <4>2. e # At(r)
        <5>1. SUFFICES ASSUME e = At(r) PROVE FALSE
          OBVIOUS
        <5>2. b = bucket[r]
          BY <4>1, <5>1, <1>e
        <5>3. QED
          BY <4>1, <5>1, <5>2, <1>f, <2>2, <1>0
      <4>3. e \in Counted(b)
        BY <4>1, <4>2, <1>e
      <4>4. e \in DOMAIN log /\ e[1] \in Requests
        BY <4>3 DEF Counted, TypeOK, Transactions
      <4>5. pc[e[1]] = "passed"
        <5>1. CASE e[1] # r
          BY <5>1, <4>1, <4>4, <1>0
        <5>2. CASE e[1] = r
          BY <5>2, <4>1, <4>3, <4>4, <1>f, <1>0, <4>2 DEF Flow, At, TypeOK, Transactions
        <5>3. QED
          BY <5>1, <5>2
      <4>6. QED
        BY <4>1, <4>3, <4>4, <4>5, <1>f DEF PassedInWindow
    <3>2. PassedInWindow(b)' \in SUBSET PassedInWindow(b)
      BY <3>1
    <3>3. /\ Cardinality(PassedInWindow(b)') <= Cardinality(PassedInWindow(b))
          /\ Cardinality(PassedInWindow(b)') \in Nat
      BY <3>2, <1>g, FS_Subset, FS_CardinalityType
    <3>4. Cardinality(PassedInWindow(b)) <= Limit
      BY DEF PassedBound
    <3>5. QED
      BY <3>3, <3>4, <1>0, <1>g
  <2>3. QED
    BY <2>1, <2>2
<1>9. ThrottledOnlyWhenSpent'
  <2> SUFFICES ASSUME NEW s \in Requests, pc'[s] = "throttled"
               PROVE  Cardinality(Counted(bucket[s])' \ {At(s)}) >= Limit
    BY DEF ThrottledOnlyWhenSpent, At
  <2>1. CASE s = r
    <3>1. Counted(bucket[s])' \ {At(s)} = Counted(bucket[r])
      BY <2>1, <1>e
    <3>2. CountOf(bucket[r]) <= Cardinality(Counted(bucket[r]))
      BY <1>e DEF CountSound
    <3>3. CountOf(bucket[r]) + 1 > Limit
      BY <2>1, <1>0 DEF Refused
    <3>4. QED
      BY <3>1, <3>2, <3>3, <1>0, <1>g
  <2>2. CASE s # r
    <3>1. Cardinality(Counted(bucket[s]) \ {At(s)}) >= Limit
      BY <2>2, <1>0 DEF ThrottledOnlyWhenSpent, At
    <3>2. Counted(bucket[s])' = Counted(bucket[s]) \/ Counted(bucket[s])' = Counted(bucket[s]) \cup {At(r)}
      BY <1>e
    <3>3. QED
      BY <3>1, <3>2, MoreCounted
  <2>3. QED
    BY <2>1, <2>2
<1>10. QED
  BY <1>1, <1>2, <1>3, <1>4, <1>6, <1>8, <1>9

\* A transaction that is carried out without an answer and resent: the counter
\* goes up, and no request is decided.
LEMMA ResendStep ==
    ASSUME CountInv, NEW r \in Requests, Resend(r)
    PROVE  CountInv'
<1> USE DEF CountInv
<1>0. /\ pc[r] = "counting" /\ Increment(r, FALSE) /\ tries[r] < Retries
      /\ UNCHANGED <<now, hash, apikey, pc, bucket, lost>>
      /\ tries' = [tries EXCEPT ![r] = @ + 1]
  BY DEF Resend
<1>t. /\ tries' \in [Requests -> 0 .. Retries] /\ tries'[r] = tries[r] + 1
      /\ \A q \in Requests : q # r => tries'[q] = tries[q]
      /\ \A q \in Requests : tries[q] \in Int
  BY <1>0, RetriesAssumption DEF TypeOK
<1>i. Effect(r, FALSE)
  BY <1>0, IncrementEffect
<1>e. /\ \A b : Counted(b)' = IF b = bucket[r] THEN Counted(b) \cup {At(r)} ELSE Counted(b)
      /\ \A b : At(r) \notin Counted(b)
  BY <1>i DEF Effect
<1>f. /\ r \in DOMAIN bucket /\ bucket[r] \in Buckets
      /\ DOMAIN counters' = DOMAIN counters \cup {bucket[r]}
      /\ \A b \in DOMAIN counters' : counters'[b] \in Counter
      /\ DOMAIN log' = DOMAIN log \cup {At(r)}
      /\ log'[At(r)] = [window |-> WindowOf(now), answered |-> FALSE]
      /\ \A e \in DOMAIN log : log'[e] = log[e]
      /\ At(r) \in Transactions /\ At(r)[1] = r /\ At(r)[2] = tries[r]
  BY <1>i DEF Effect
<1>1. TypeOK'
  <2>1. WindowOf(now) \in Nat
    <3>1. now \in Nat
      BY LimitAssumption DEF TypeOK
    <3>2. QED
      BY <3>1, WindowArithmetic
  <2>2. DOMAIN counters' \subseteq Buckets /\ \A b \in DOMAIN counters' : counters'[b] \in Counter
    BY <1>f DEF TypeOK
  <2>3. DOMAIN log' \subseteq {e \in Transactions : e[1] \in DOMAIN bucket}
        /\ \A e \in DOMAIN log' : log'[e] \in [window: Nat, answered: BOOLEAN]
    <3>1. At(r) \in {e \in Transactions : e[1] \in DOMAIN bucket}
      BY <1>f
    <3>2. log'[At(r)] \in [window: Nat, answered: BOOLEAN]
      BY <2>1, <1>f
    <3>3. QED
      BY <3>1, <3>2, <1>f DEF TypeOK
  <2>4. QED
    BY <2>2, <2>3, <1>0, <1>t DEF TypeOK
<1>2. Flow'
  <2>1. DOMAIN bucket' = {q \in Requests : pc'[q] \in {"counting", "passed", "throttled"}}
    BY <1>0 DEF Flow
  <2> SUFFICES ASSUME NEW e \in DOMAIN log'
               PROVE  \/ e[2] < tries'[e[1]] /\ ~ log'[e].answered
                      \/ e[2] = tries'[e[1]] /\ pc'[e[1]] \in {"passed", "throttled"}
    BY <2>1 DEF Flow
  <2>2. CASE e = At(r)
    BY <2>2, <1>f, <1>t
  <2>3. CASE e # At(r)
    <3>1. e \in DOMAIN log /\ e[1] \in Requests /\ e[2] \in Int /\ log'[e] = log[e]
      BY <2>3, <1>f, RetriesAssumption DEF TypeOK, Transactions
    <3>2. CASE e[1] = r
      BY <3>1, <3>2, <1>0, <1>t DEF Flow
    <3>3. CASE e[1] # r
      BY <3>1, <3>3, <1>0, <1>t DEF Flow
    <3>4. QED
      BY <3>2, <3>3
  <2>4. QED
    BY <2>2, <2>3
<1>3. Past'
  BY <1>0 DEF Past
<1>4. Outlives'
  BY <1>i DEF Effect
<1>5. CountSound' /\ CountExact'
  BY <1>0, CountsAgree
<1>6. PassedBound'
  <2>1. \A b : PassedInWindow(b)' = PassedInWindow(b)
    <3> TAKE b
    <3>1. ASSUME NEW e \in PassedInWindow(b)' PROVE e \in PassedInWindow(b)
      <4>1. e \in Counted(b)' /\ pc[e[1]] = "passed"
        BY <3>1, <1>0 DEF PassedInWindow
      <4>2. e # At(r)
        BY <4>1, <1>0, <1>f
      <4>3. e \in Counted(b) /\ e \in DOMAIN log
        BY <4>1, <4>2, <1>e DEF Counted
      <4>4. QED
        BY <3>1, <4>3, <1>f, <1>0 DEF PassedInWindow
    <3>2. ASSUME NEW e \in PassedInWindow(b) PROVE e \in PassedInWindow(b)'
      <4>1. e \in Counted(b) /\ e \in DOMAIN log
        BY <3>2 DEF PassedInWindow, Counted
      <4>2. QED
        BY <3>2, <4>1, <1>e, <1>f, <1>0 DEF PassedInWindow
    <3>3. QED
      BY <3>1, <3>2
  <2>2. QED
    BY <2>1, <1>0 DEF PassedBound
<1>7. ThrottledOnlyWhenSpent'
  <2> SUFFICES ASSUME NEW s \in Requests, pc'[s] = "throttled"
               PROVE  Cardinality(Counted(bucket[s])' \ {<<s, tries[s]>>}) >= Limit
    <3>1. ASSUME NEW s \in Requests, pc'[s] = "throttled" PROVE tries'[s] = tries[s] /\ bucket'[s] = bucket[s]
      BY <3>1, <1>0, <1>t
    <3>2. QED
      BY <3>1 DEF ThrottledOnlyWhenSpent
  <2>1. Cardinality(Counted(bucket[s]) \ {<<s, tries[s]>>}) >= Limit
    BY <1>0 DEF ThrottledOnlyWhenSpent
  <2>2. Counted(bucket[s])' = Counted(bucket[s]) \/ Counted(bucket[s])' = Counted(bucket[s]) \cup {At(r)}
    BY <1>e, <1>0
  <2>3. QED
    BY <2>1, <2>2, MoreCounted
<1>8. QED
  BY <1>1, <1>2, <1>3, <1>4, <1>5, <1>6, <1>7

\* The key check changes nothing that is counted.
LEMMA AuthenticateStep ==
    ASSUME CountInv, NEW r \in Requests, Authenticate(r)
    PROVE  CountInv'
<1> USE DEF CountInv
<1>1. PICK w \in Workers, key \in ApiKeys \cup {BadKey} :
         /\ apikey' = Put(apikey, r, key)
         /\ \/ /\ key \notin ApiKeys
               /\ pc' = [pc EXCEPT ![r] = "unauthorized"]
               /\ UNCHANGED bucket
            \/ /\ key \in ApiKeys
               /\ pc' = [pc EXCEPT ![r] = "counting"]
               /\ bucket' = Put(bucket, r, <<hash[w][key], WindowOf(now)>>)
  BY DEF Authenticate
<1>2. /\ UNCHANGED <<now, hash, counters, lost, tries, log>>
      /\ now \in Nat /\ WindowOf(now) \in Nat
      /\ r \notin DOMAIN bucket /\ \A e \in DOMAIN log : e[1] \in Requests /\ e[1] # r
  <2>1. now \in Nat
    BY LimitAssumption DEF TypeOK
  <2>2. UNCHANGED <<now, hash, counters, lost, tries, log>> /\ pc[r] = "idle"
    BY DEF Authenticate
  <2>3. QED
    BY <2>1, <2>2, WindowArithmetic DEF TypeOK, Flow, Transactions
<1>3. /\ \A s \in Requests : s # r => pc'[s] = pc[s]
      /\ pc'[r] \in {"unauthorized", "counting"}
      /\ pc' \in [Requests -> {"idle", "counting"} \cup Decided]
  BY <1>1 DEF TypeOK, Decided
<1>4. /\ \A s \in DOMAIN bucket : s \in DOMAIN bucket' /\ bucket'[s] = bucket[s]
      /\ DOMAIN bucket' = {s \in Requests : pc'[s] \in {"counting", "passed", "throttled"}}
      /\ \A s \in DOMAIN bucket' : bucket'[s] \in Buckets /\ bucket'[s][2] <= WindowOf(now)
  <2>1. CASE key \notin ApiKeys /\ bucket' = bucket /\ pc' = [pc EXCEPT ![r] = "unauthorized"]
    BY <2>1, <1>2, <1>3 DEF TypeOK, Flow, Past
  <2>2. CASE /\ key \in ApiKeys /\ pc' = [pc EXCEPT ![r] = "counting"]
             /\ bucket' = Put(bucket, r, <<hash[w][key], WindowOf(now)>>)
    <3>1. /\ DOMAIN bucket' = DOMAIN bucket \cup {r}
          /\ bucket'[r] = <<hash[w][key], WindowOf(now)>>
          /\ \A s \in DOMAIN bucket : s # r => bucket'[s] = bucket[s]
      BY <2>2 DEF Put
    <3>2. bucket'[r] \in Buckets /\ bucket'[r][2] <= WindowOf(now)
      BY <3>1, <2>2, <1>2 DEF TypeOK, Buckets
    <3>3. pc'[r] = "counting"
      BY <2>2 DEF TypeOK
    <3>4. QED
      BY <3>1, <3>2, <3>3, <1>2, <1>3 DEF TypeOK, Flow, Past
  <2>3. QED
    BY <1>1, <2>1, <2>2
<1>5. DOMAIN apikey' = DOMAIN apikey \cup {r}
      /\ \A s \in DOMAIN apikey' : apikey'[s] \in ApiKeys \cup {BadKey}
  BY <1>1 DEF Put, TypeOK
<1>6. TypeOK'
  BY <1>2, <1>3, <1>4, <1>5 DEF TypeOK
<1>7. Flow' /\ Past' /\ Outlives'
  BY <1>2, <1>3, <1>4 DEF Flow, Past, Outlives, TypeOK
<1>8. \A b : Counted(b)' = Counted(b) /\ CountOf(b)' = CountOf(b)
  BY <1>2, <1>4 DEF Counted, CountOf, TypeOK
<1>9. \A b : PassedInWindow(b)' = PassedInWindow(b)
  <2> TAKE b
  <2>1. \A e \in Counted(b) : e[1] \in Requests /\ e[1] # r
    BY <1>2 DEF Counted
  <2>2. QED
    BY <2>1, <1>2, <1>3, <1>8 DEF PassedInWindow
<1>10. CountSound' /\ CountExact' /\ PassedBound'
  BY <1>2, <1>8, <1>9 DEF CountSound, CountExact, PassedBound
<1>11. ThrottledOnlyWhenSpent'
  <2> SUFFICES ASSUME NEW s \in Requests, pc'[s] = "throttled"
               PROVE  Cardinality(Counted(bucket[s])' \ {<<s, tries'[s]>>}) >= Limit
    BY DEF ThrottledOnlyWhenSpent
  <2>1. pc[s] = "throttled" /\ s \in DOMAIN bucket /\ bucket'[s] = bucket[s]
    BY <1>3, <1>4 DEF Flow
  <2>2. Counted(bucket[s])' = Counted(bucket[s]) /\ tries'[s] = tries[s]
    BY <2>1, <1>2, <1>8 DEF Counted
  <2>3. QED
    BY <2>1, <2>2 DEF ThrottledOnlyWhenSpent
<1>12. QED
  BY <1>6, <1>7, <1>10, <1>11

\* A request that passes without its INCR having been carried out.
LEMMA UncountedStep ==
    ASSUME CountInv, NEW r \in Requests, pc[r] = "counting",
           pc' = [pc EXCEPT ![r] = "passed"],
           UNCHANGED <<now, hash, apikey, bucket, counters, lost, tries, log>>
    PROVE  CountInv'
<1> USE DEF CountInv
<1>1. /\ pc'[r] = "passed"
      /\ \A e \in DOMAIN log : e[1] = r => ~ log[e].answered
      /\ \A s \in Requests : s # r => pc'[s] = pc[s]
  BY DEF TypeOK, Flow
<1>2. TypeOK' /\ Flow' /\ Past' /\ Outlives'
  BY <1>1 DEF TypeOK, Decided, Flow, Past, Outlives
<1>3. \A b : Counted(b)' = Counted(b) /\ CountOf(b)' = CountOf(b)
  BY DEF Counted, CountOf
<1>4. \A b : PassedInWindow(b)' = PassedInWindow(b)
  <2> TAKE b
  <2>1. \A e \in Counted(b) : e \in DOMAIN log /\ e[1] \in Requests
    BY DEF Counted, TypeOK, Transactions
  <2>2. \A e \in Counted(b) : log[e].answered => pc'[e[1]] = pc[e[1]]
    BY <2>1, <1>1
  <2>3. QED
    BY <2>2, <1>3 DEF PassedInWindow
<1>5. CountSound' /\ CountExact' /\ PassedBound'
  BY <1>3, <1>4 DEF CountSound, CountExact, PassedBound
<1>6. ThrottledOnlyWhenSpent'
  BY <1>1, <1>3 DEF ThrottledOnlyWhenSpent
<1>7. QED
  BY <1>2, <1>5, <1>6

\* The clock: in the same window no counter of it expires; a new window has no
\* bucket and no counter yet.
LEMMA TickStep ==
    ASSUME CountInv, Tick
    PROVE  CountInv'
<1> USE DEF CountInv
<1>1. /\ UNCHANGED <<hash, apikey, pc, bucket, lost, tries, log>>
      /\ now' = now + 1 /\ now < MaxNow
      /\ DOMAIN counters' = {b \in DOMAIN counters : counters[b].expires > now + 1}
      /\ \A b \in DOMAIN counters' : counters'[b] = counters[b]
  BY DEF Tick
<1>2. now \in Nat /\ now' \in 0..MaxNow /\ now' \in Nat
  <2>1. now \in Nat
    BY LimitAssumption DEF TypeOK
  <2>2. QED
    BY <2>1, <1>1, LimitAssumption
<1>3. WindowOf(now) \in Nat /\ WindowOf(now') \in Nat /\ WindowOf(now) <= WindowOf(now')
  BY <1>1, <1>2, WindowArithmetic
<1>4. TypeOK'
  BY <1>1, <1>2 DEF TypeOK
<1>5. \A r \in DOMAIN bucket : bucket[r][2] \in Nat
  BY DEF TypeOK, Buckets
<1>6. Flow' /\ Past' /\ Outlives'
  BY <1>1, <1>3, <1>5 DEF Flow, Past, Outlives
<1>7. \A b : Counted(b)' = Counted(b) /\ PassedInWindow(b)' = PassedInWindow(b)
  BY <1>1 DEF Counted, PassedInWindow
<1>8. \A b : CountOf(b)' = IF b \in DOMAIN counters' THEN CountOf(b) ELSE 0
  BY <1>1 DEF CountOf
<1>9. CountSound'
  BY <1>7, <1>8, CountIsNat, CountedFinite DEF CountSound
<1>10. CountExact'
  <2> SUFFICES ASSUME NEW b \in Buckets \ lost, b[2] = WindowOf(now')
               PROVE  CountOf(b)' = Cardinality(Counted(b)')
    BY <1>1 DEF CountExact
  <2>1. b[2] \in Nat /\ CountOf(b) \in Nat /\ Cardinality(Counted(b)) \in Nat
    BY CountIsNat, CountedFinite DEF Buckets
  <2>2. CASE WindowOf(now) = WindowOf(now')
    <3>1. CountOf(b) = Cardinality(Counted(b))
      BY <2>2 DEF CountExact
    <3>2. ASSUME b \in DOMAIN counters PROVE b \in DOMAIN counters'
      <4>1. counters[b].expires \in Nat /\ counters[b].expires >= (b[2] + 2) * Window
        BY <3>2 DEF TypeOK, Counter, Outlives
      <4>2. counters[b].expires > now'
        BY <4>1, <1>2, WindowArithmetic
      <4>3. QED
        BY <4>2, <3>2, <1>1
    <3>3. CountOf(b)' = CountOf(b)
      BY <3>2, <1>8 DEF CountOf
    <3>4. QED
      BY <3>1, <3>3, <1>7
  <2>3. CASE WindowOf(now) # WindowOf(now')
    <3>1. \A r \in DOMAIN bucket : bucket[r] # b
      BY <2>3, <1>3, <1>5 DEF Past
    <3>2. Counted(b) = {}
      BY <3>1 DEF Counted, TypeOK
    <3>3. Cardinality(Counted(b)) = 0
      BY <3>2, FS_EmptySet
    <3>4. CountOf(b) = 0
      BY <3>3, <2>1 DEF CountSound
    <3>5. QED
      BY <3>3, <3>4, <1>7, <1>8
  <2>4. QED
    BY <2>2, <2>3
<1>11. PassedBound' /\ ThrottledOnlyWhenSpent'
  BY <1>1, <1>7 DEF PassedBound, ThrottledOnlyWhenSpent
<1>12. QED
  BY <1>4, <1>6, <1>9, <1>10, <1>11

\* A lost counter starts again at zero; its bucket is no longer bounded.
LEMMA EvictStep ==
    ASSUME CountInv, Evict
    PROVE  CountInv'
<1> USE DEF CountInv
<1>1. PICK gone \in DOMAIN counters :
         /\ counters' = [x \in DOMAIN counters \ {gone} |-> counters[x]]
         /\ lost' = lost \cup {gone}
  BY DEF Evict
<1>2. UNCHANGED <<now, hash, apikey, pc, bucket, tries, log>>
  BY DEF Evict
<1>3. TypeOK' /\ Flow' /\ Past' /\ Outlives'
  BY <1>1, <1>2 DEF TypeOK, Flow, Past, Outlives
<1>4. \A b : Counted(b)' = Counted(b) /\ PassedInWindow(b)' = PassedInWindow(b)
  BY <1>2 DEF Counted, PassedInWindow
<1>5. \A b : CountOf(b)' = IF b = gone THEN 0 ELSE CountOf(b)
  BY <1>1 DEF CountOf
<1>6. CountSound'
  BY <1>4, <1>5, CountIsNat, CountedFinite DEF CountSound
<1>7. CountExact' /\ PassedBound'
  BY <1>1, <1>2, <1>4, <1>5 DEF CountExact, PassedBound
<1>8. ThrottledOnlyWhenSpent'
  BY <1>2, <1>4 DEF ThrottledOnlyWhenSpent
<1>9. QED
  BY <1>3, <1>6, <1>7, <1>8

\* Every step keeps the invariant.
LEMMA CountStep == CountInv /\ [Next]_vars => CountInv'
<1> SUFFICES ASSUME CountInv, [Next]_vars PROVE CountInv'
  OBVIOUS
<1>1. ASSUME NEW r \in Requests, Authenticate(r) PROVE CountInv'
  BY <1>1, AuthenticateStep
<1>2. ASSUME NEW r \in Requests, Count(r) PROVE CountInv'
  <2>1. CASE Refused(CountOf(bucket[r]) + 1)
    BY <2>1, <1>2, DecideStep DEF Count
  <2>2. CASE ~ Refused(CountOf(bucket[r]) + 1)
    BY <2>2, <1>2, DecideStep DEF Count
  <2>3. QED
    BY <2>1, <2>2
<1>r. ASSUME NEW r \in Requests, Resend(r) PROVE CountInv'
  BY <1>r, ResendStep
<1>3. ASSUME NEW r \in Requests, FailOpen(r) PROVE CountInv'
  <2>1. CASE Increment(r, FALSE)
    BY <2>1, <1>3, DecideStep DEF FailOpen
  <2>2. CASE UNCHANGED <<counters, log>>
    BY <2>2, <1>3, UncountedStep DEF FailOpen
  <2>3. QED
    BY <2>1, <2>2, <1>3 DEF FailOpen
<1>4. CASE Tick
  BY <1>4, TickStep
<1>5. CASE Evict
  BY <1>5, EvictStep
<1>6. CASE UNCHANGED vars
  <2>1. UNCHANGED <<now, hash, apikey, pc, bucket, counters, lost, tries, log>>
    BY <1>6 DEF vars
  <2>2. \A b : /\ Counted(b)' = Counted(b) /\ PassedInWindow(b)' = PassedInWindow(b)
               /\ CountOf(b)' = CountOf(b)
    BY <2>1 DEF Counted, PassedInWindow, CountOf
  <2>3. TypeOK' /\ Flow' /\ Past' /\ Outlives'
    BY <2>1 DEF CountInv, TypeOK, Flow, Past, Outlives
  <2>4. CountSound' /\ CountExact' /\ PassedBound' /\ ThrottledOnlyWhenSpent'
    BY <2>1, <2>2 DEF CountInv, CountSound, CountExact, PassedBound, ThrottledOnlyWhenSpent
  <2>5. QED
    BY <2>3, <2>4 DEF CountInv
<1>7. QED
  BY <1>1, <1>2, <1>r, <1>3, <1>4, <1>5, <1>6 DEF Next

\* The invariant holds throughout.
LEMMA CountInvariant == Spec => []CountInv
BY CountInit, CountStep, PTL DEF Spec

-----------------------------------------------------------------------------
\* Type correctness.
THEOREM TypeCorrect == Spec => []TypeOK
<1>1. CountInv => TypeOK
  BY DEF CountInv
<1>2. QED
  BY <1>1, CountInvariant, PTL

\* At most Limit requests pass on a counter within its window, for any number
\* of requests, workers and keys, unless Redis loses the counter.
THEOREM WindowBoundHolds == Spec => []WindowBound
<1>1. CountInv => WindowBound
  BY DEF CountInv, PassedBound, WindowBound, TypeOK
<1>2. QED
  BY <1>1, CountInvariant, PTL

\* No request is throttled before Limit other INCRs of its bucket were done,
\* whatever Redis expires or loses.
THEOREM ThrottledOnlyWhenSpentHolds == Spec => []ThrottledOnlyWhenSpent
<1>1. CountInv => ThrottledOnlyWhenSpent
  BY DEF CountInv
<1>2. QED
  BY <1>1, CountInvariant, PTL

-----------------------------------------------------------------------------
\* A nonempty collection of finite sets has a smallest member.
LEMMA SmallestSet ==
    ASSUME NEW C, C # {}, \A S \in C : IsFiniteSet(S)
    PROVE  \E S \in C : \A T \in C : Cardinality(S) <= Cardinality(T)
<1> DEFINE R == {ss \in Nat \X Nat : ss[1] < ss[2]}
           sizes == {Cardinality(S) : S \in C}
<1>1. sizes \in SUBSET Nat /\ sizes # {}
  BY FS_CardinalityType
<1>2. IsWellFoundedOn(R, Nat)
  BY NatLessThanWellFounded, Zenon DEF OpToRel
<1>3. PICK n \in sizes : \A m \in sizes : <<m, n>> \notin R
  <2> HIDE DEF R, sizes
  <2> QED
    BY <1>1, <1>2, WFMin
<1>4. \A m \in sizes : n <= m
  <2> SUFFICES ASSUME NEW m \in sizes, m < n PROVE FALSE
    BY <1>1
  <2>1. m \in Nat /\ n \in Nat
    BY <1>1
  <2>2. <<m, n>> \in R
    BY <2>1
  <2> QED
    BY <1>3, <2>2
<1>5. PICK S \in C : n = Cardinality(S)
  OBVIOUS
<1>6. ASSUME NEW T \in C PROVE Cardinality(S) <= Cardinality(T)
  BY <1>4, <1>5
<1> QED
  BY <1>6

\* The members of the sets that F gives to the elements of K.
Over(F, K) == UNION {F[h] : h \in K}

\* A union of finite sets of at most L elements each has at most L elements for
\* each of the sets.
LEMMA UnionBound ==
    ASSUME NEW H, IsFiniteSet(H), NEW F, NEW L \in Nat,
           \A h \in H : IsFiniteSet(F[h]) /\ Cardinality(F[h]) <= L
    PROVE  IsFiniteSet(Over(F, H)) /\ Cardinality(Over(F, H)) <= L * Cardinality(H)
<1> DEFINE Good(K) == /\ IsFiniteSet(Over(F, K))
                      /\ Cardinality(Over(F, K)) <= L * Cardinality(K)
           C == {K \in SUBSET H : ~ Good(K)}
<1> SUFFICES ASSUME C # {} PROVE FALSE
  OBVIOUS
<1>1. \A K \in SUBSET H : IsFiniteSet(K) /\ Cardinality(K) \in Nat
  BY FS_Subset, FS_CardinalityType
<1>2. PICK K \in C : \A T \in C : Cardinality(K) <= Cardinality(T)
  <2>1. \A S \in C : IsFiniteSet(S)
    BY <1>1
  <2> HIDE DEF C
  <2> QED
    BY <2>1, SmallestSet
<1>3. CASE K = {}
  <2>1. Over(F, K) = {} /\ Cardinality(K) = 0
    BY <1>3, FS_EmptySet DEF Over
  <2>2. Good(K)
    BY <2>1, FS_EmptySet
  <2> QED
    BY <2>2
<1>4. CASE K # {}
  <2>1. PICK h \in K : TRUE
    BY <1>4
  <2> DEFINE T == K \ {h}
             A == Over(F, T)
             m == Cardinality(T)
  <2>2. T \in SUBSET H /\ Cardinality(K) = m + 1 /\ m \in Nat
    BY <1>1, <2>1, FS_RemoveElement
  <2>3. Good(T)
    <3> SUFFICES ASSUME ~ Good(T) PROVE FALSE
      OBVIOUS
    <3>1. T \in C
      BY <2>2
    <3>2. m + 1 <= m
      <4> HIDE DEF C, T
      <4>1. QED
        BY <1>2, <2>2, <3>1
    <3>3. QED
      BY <2>2, <3>2
  <2>4. Over(F, K) = A \cup F[h]
    BY <2>1 DEF Over
  <2>5. IsFiniteSet(F[h]) /\ Cardinality(F[h]) <= L /\ Cardinality(F[h]) \in Nat
    BY <2>1, FS_CardinalityType
  <2>6. IsFiniteSet(A) /\ Cardinality(A) <= L * m /\ Cardinality(A) \in Nat
    BY <2>3, FS_CardinalityType
  <2>7. /\ IsFiniteSet(A \cup F[h])
        /\ Cardinality(A \cup F[h]) <= Cardinality(A) + Cardinality(F[h])
    <3>1. /\ IsFiniteSet(A \cup F[h]) /\ IsFiniteSet(A \cap F[h])
          /\ Cardinality(A \cup F[h])
                = Cardinality(A) + Cardinality(F[h]) - Cardinality(A \cap F[h])
      BY <2>5, <2>6, FS_Union, FS_Intersection
    <3>2. Cardinality(A \cap F[h]) \in Nat
      BY <3>1, FS_CardinalityType
    <3> HIDE DEF A
    <3> QED
      BY <2>5, <2>6, <3>1, <3>2
  <2>8. Cardinality(A \cup F[h]) \in Nat
    BY <2>7, FS_CardinalityType
  <2>9. Cardinality(A \cup F[h]) <= L * (m + 1)
    <3> HIDE DEF A, m
    <3>1. L * (m + 1) = L * m + L /\ L * m \in Nat
      BY <2>2
    <3> QED
      BY <2>5, <2>6, <2>7, <2>8, <3>1
  <2>10. Good(K)
    BY <2>2, <2>4, <2>7, <2>9
  <2> QED
    BY <2>10
<1> QED
  BY <1>3, <1>4

-----------------------------------------------------------------------------
\* A request is counted in the bucket that some worker's hash gives its key.
Filed ==
    \A r \in DOMAIN bucket : apikey[r] \in ApiKeys /\ bucket[r][1] \in HashesOf(apikey[r])

\* A worker keeps its hash, and a request its key and its bucket.
LEMMA FiledStep == CountInv /\ Filed /\ [Next]_vars => Filed'
<1> SUFFICES ASSUME CountInv, Filed, [Next]_vars PROVE Filed'
  OBVIOUS
<1>1. ASSUME NEW r \in Requests, Authenticate(r) PROVE Filed'
  <2>1. PICK w \in Workers, key \in ApiKeys \cup {BadKey} :
           /\ apikey' = Put(apikey, r, key)
           /\ \/ UNCHANGED bucket
              \/ key \in ApiKeys /\ bucket' = Put(bucket, r, <<hash[w][key], WindowOf(now)>>)
    BY <1>1 DEF Authenticate
  <2>2. pc[r] = "idle" /\ hash' = hash
    BY <1>1 DEF Authenticate
  <2>3. r \notin DOMAIN bucket /\ DOMAIN bucket \subseteq DOMAIN apikey
    BY <2>2 DEF CountInv, TypeOK, Flow
  <2>4. apikey'[r] = key /\ \A s \in DOMAIN bucket : apikey'[s] = apikey[s]
    BY <2>1, <2>3 DEF Put
  <2> SUFFICES ASSUME NEW s \in DOMAIN bucket'
               PROVE  /\ apikey'[s] \in ApiKeys
                      /\ bucket'[s][1] \in {hash[v][apikey'[s]] : v \in Workers}
    BY <2>2 DEF Filed, HashesOf
  <2>5. CASE s \in DOMAIN bucket
    <3>1. bucket'[s] = bucket[s]
      BY <2>1, <2>3, <2>5 DEF Put
    <3>2. apikey'[s] = apikey[s]
      BY <2>4, <2>5
    <3>3. QED
      BY <2>5, <3>1, <3>2 DEF Filed, HashesOf
  <2>6. CASE s \notin DOMAIN bucket
    <3>1. s = r /\ key \in ApiKeys /\ bucket'[s] = <<hash[w][key], WindowOf(now)>>
      BY <2>1, <2>6 DEF Put
    <3>2. QED
      BY <2>4, <3>1
  <2>7. QED
    BY <2>5, <2>6
<1>2. CASE UNCHANGED <<hash, apikey, bucket>>
  BY <1>2 DEF Filed, HashesOf
<1>3. ASSUME NEW r \in Requests, Count(r) \/ Resend(r) \/ FailOpen(r) PROVE Filed'
  BY <1>3, <1>2 DEF Count, Resend, FailOpen
<1>4. CASE Tick \/ Evict \/ UNCHANGED vars
  BY <1>4, <1>2 DEF Tick, Evict, vars
<1>5. QED
  BY <1>1, <1>3, <1>4 DEF Next

\* The requests with one key that pass in a window are those that pass on the
\* buckets its hashes give, at most Limit on each.
LEMMA KeyBoundFollows ==
    ASSUME CountInv, Filed, lost = {}, NEW key \in ApiKeys, NEW n \in Nat
    PROVE  Cardinality(PassedWithKey(key, n)) <= Limit * Cardinality(HashesOf(key))
<1> DEFINE H == HashesOf(key)
           F == [h \in H |-> PassedInWindow(<<h, n>>)]
<1>1. IsFiniteSet(H) /\ H \subseteq BucketIds
  <2> DEFINE f == [w \in Workers |-> hash[w][key]]
  <2>1. f \in Surjection(Workers, H)
    BY DEF HashesOf, Surjection
  <2>2. IsFiniteSet(H)
    BY <2>1, RequestsAssumption, FS_Surjection
  <2>3. QED
    BY <2>2 DEF HashesOf, CountInv, TypeOK
<1>2. \A h \in H : IsFiniteSet(F[h]) /\ Cardinality(F[h]) <= Limit
  <2> SUFFICES ASSUME NEW h \in H PROVE IsFiniteSet(F[h]) /\ Cardinality(F[h]) <= Limit
    OBVIOUS
  <2>1. <<h, n>> \in Buckets \ lost /\ F[h] = PassedInWindow(<<h, n>>)
    BY <1>1 DEF Buckets
  <2>2. QED
    BY <2>1, CountedFinite DEF CountInv, PassedBound
<1>3. PassedWithKey(key, n) \subseteq Over(F, H)
  <2> SUFFICES ASSUME NEW e \in PassedWithKey(key, n)
               PROVE  \E h \in H : e \in PassedInWindow(<<h, n>>)
    BY DEF Over
  <2>1. /\ e \in DOMAIN log /\ apikey[e[1]] = key /\ pc[e[1]] = "passed" /\ log[e].answered
        /\ bucket[e[1]][2] = n /\ log[e].window = n
    BY DEF PassedWithKey
  <2>2. e[1] \in DOMAIN bucket /\ bucket[e[1]] \in Buckets
    BY <2>1 DEF CountInv, TypeOK
  <2>3. bucket[e[1]][1] \in H
    BY <2>1, <2>2 DEF Filed
  <2>4. bucket[e[1]] = <<bucket[e[1]][1], n>>
    BY <2>1, <2>2 DEF Buckets
  <2>5. e \in PassedInWindow(<<bucket[e[1]][1], n>>)
    BY <2>1, <2>4 DEF PassedInWindow, Counted
  <2>6. QED
    BY <2>3, <2>5
<1>4. IsFiniteSet(Over(F, H)) /\ Cardinality(Over(F, H)) <= Limit * Cardinality(H)
  <2> HIDE DEF F, H
  <2>1. QED
    BY <1>1, <1>2, LimitAssumption, UnionBound
<1>5. /\ Cardinality(PassedWithKey(key, n)) <= Cardinality(Over(F, H))
      /\ Cardinality(PassedWithKey(key, n)) \in Nat /\ Cardinality(Over(F, H)) \in Nat
      /\ Limit * Cardinality(H) \in Nat
  <2>1. IsFiniteSet(PassedWithKey(key, n))
    BY <1>3, <1>4, FS_Subset
  <2>2. Cardinality(H) \in Nat
    BY <1>1, FS_CardinalityType
  <2>3. QED
    BY <1>3, <1>4, <2>1, <2>2, LimitAssumption, FS_Subset, FS_CardinalityType
<1>6. QED
  BY <1>4, <1>5

\* While Redis loses no counter, the requests with one API key that pass in a
\* window are at most Limit for each value that the workers' hashes give the key:
\* what README.md's "per key" comes to with several workers.
THEOREM KeyBoundHolds == Spec => []KeyBound
<1>1. Init => Filed
  BY DEF Init, Filed
<1>2. CountInv /\ Filed => KeyBound
  <2>1. 0 .. WindowOf(MaxNow) \subseteq Nat
    OBVIOUS
  <2>2. QED
    BY <2>1, KeyBoundFollows DEF KeyBound
<1>3. QED
  BY <1>1, <1>2, FiledStep, CountInvariant, PTL DEF Spec
=============================================================================
