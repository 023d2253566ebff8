---------------------------- MODULE QueriesProofs -----------------------------
(***************************************************************************)
(* Proofs about Queries, for any rows, any clock and any limits.           *)
(***************************************************************************)
EXTENDS Queries, FiniteSetTheorems, WellFoundedInduction, TLAPS

\* Every step keeps the types, and the natural keys apart.
LEMMA TypeStep == TypeOK /\ [Next]_vars => TypeOK'
<1> SUFFICES ASSUME TypeOK, [Next]_vars PROVE TypeOK'
  OBVIOUS
<1>1. CASE \E p \in Observations \ points : Observe(p)
  BY <1>1 DEF Observe, TypeOK
<1>2. CASE \E b \in Benchmarks \ runs : Benchmark(b)
  BY <1>2 DEF Benchmark, TypeOK
<1>3. CASE NextDay
  BY <1>3, QueriesNumbers DEF NextDay, TypeOK
<1>4. CASE UNCHANGED vars
  BY <1>4 DEF vars, TypeOK
<1>5. QED
  BY <1>1, <1>2, <1>3, <1>4 DEF Next

\* Whatever is observed and seeded, the natural keys in the table are unique.
THEOREM TypeCorrect == Spec => []TypeOK
<1>1. Init => TypeOK
  BY QueriesNumbers DEF Init, TypeOK
<1>2. QED
  BY <1>1, TypeStep, PTL DEF Spec

-----------------------------------------------------------------------------
\* A set of natural numbers has a least element, which Min is.
LEMMA LeastIsMin ==
  ASSUME NEW S \in SUBSET Nat, S # {}
  PROVE  Min(S) \in S /\ \A y \in S : Min(S) <= y
<1> DEFINE R == {ss \in Nat \X Nat : ss[1] < ss[2]}
<1>1. IsWellFoundedOn(R, Nat)
  BY NatLessThanWellFounded, Zenon DEF OpToRel
<1>2. PICK x \in S : \A y \in S : <<y, x>> \notin R
  <2> HIDE DEF R
  <2>1. QED
    BY <1>1, WFMin
<1>3. ASSUME NEW y \in S PROVE x <= y
  <2>1. CASE y < x
    <3>1. <<y, x>> \in R
      BY <2>1
    <3>2. QED
      BY <1>2, <3>1
  <2>2. QED
    BY <2>1
<1>4. QED
  BY <1>3 DEF Min

\* An answer cut short has as many rows as the limit.
LEMMA CutShort ==
  ASSUME NEW rows, IsFiniteSet(rows), NEW n \in Nat, NEW T \in SUBSET rows,
         Cardinality(T) = Min({n, Cardinality(rows)}), T # rows
  PROVE  Cardinality(T) = n
<1>1. Cardinality(rows) \in Nat
  BY FS_CardinalityType
<1>2. Min({n, Cardinality(rows)}) \in {n, Cardinality(rows)}
  BY <1>1, LeastIsMin
<1>3. Cardinality(rows) # Cardinality(T)
  BY FS_Subset
<1>4. QED
  BY <1>2, <1>3

\* What the rows of the tables are.
LEMMA Rows ==
  ASSUME TypeOK
  PROVE  /\ IsFiniteSet(points) /\ IsFiniteSet(runs)
         /\ \A p \in points : p.price \in Nat /\ p.at \in Int
         /\ \A b \in runs : b.throughput \in Int
<1>1. points \in SUBSET Observations /\ runs \in SUBSET Benchmarks
  BY DEF TypeOK
<1>2. QED
  BY <1>1, QueriesRows, FS_Subset

-----------------------------------------------------------------------------
\* The join of finite tables is finite.
LEMMA JoinIsFinite ==
  ASSUME NEW prices, NEW benches, IsFiniteSet(prices), IsFiniteSet(benches)
  PROVE  IsFiniteSet(Entries(prices, benches))
<1> DEFINE pairs == {pb \in prices \X benches : pb[1].gpu = pb[2].gpu /\ pb[2].throughput > 0}
           joined(pb) == [gpu |-> pb[1].gpu, price |-> pb[1].price, throughput |-> pb[2].throughput]
           f == [pb \in pairs |-> joined(pb)]
<1>1. IsFiniteSet(pairs)
  <2>1. IsFiniteSet(prices \X benches)
    BY FS_Product
  <2>2. pairs \in SUBSET (prices \X benches)
    OBVIOUS
  <2>3. QED
    BY <2>1, <2>2, FS_Subset
<1>2. Entries(prices, benches) = {joined(pb) : pb \in pairs}
  BY DEF Entries
<1>3. f \in Surjection(pairs, {joined(pb) : pb \in pairs})
  BY DEF Surjection
<1>4. QED
  BY <1>1, <1>2, <1>3, FS_Surjection

\* What it says that an entry is not beaten.
LEMMA NotBeaten ==
  ASSUME NEW d, NEW e, d.price \in Nat, d.throughput \in Nat, e.price \in Nat, e.throughput \in Nat
  PROVE  ~ Beats(d, e) <=> e.price * d.throughput <= d.price * e.throughput
<1> DEFINE m == d.price * e.throughput
           n == e.price * d.throughput
<1>1. m \in Nat /\ n \in Nat
  OBVIOUS
<1> HIDE DEF m, n
<1>2. ~ (m < n) <=> n <= m
  BY <1>1
<1>3. QED
  BY <1>2 DEF Beats, m, n

\* No worse than is transitive.
LEMMA NotBeatenTransitive ==
  ASSUME NEW p1 \in Nat, NEW p2 \in Nat, NEW p3 \in Nat,
         NEW t1 \in Nat \ {0}, NEW t2 \in Nat \ {0}, NEW t3 \in Nat \ {0},
         p2 * t1 <= p1 * t2, p3 * t2 <= p2 * t3
  PROVE  p3 * t1 <= p1 * t3
<1>1. (p3 * t2) * t1 <= (p2 * t3) * t1
  OBVIOUS
<1>2. (p2 * t1) * t3 <= (p1 * t2) * t3
  OBVIOUS
<1>3. (p2 * t3) * t1 = (p2 * t1) * t3
  OBVIOUS
<1>4. (p3 * t1) * t2 <= (p1 * t3) * t2
  BY <1>1, <1>2, <1>3
<1>5. QED
  BY <1>4

\* The entry of a GPU is no worse than any price of it over any throughput.
LEMMA BestEntry ==
  ASSUME TypeOK, NEW precision, NEW prices \in BestPrices, NEW benches \in BestRuns(precision),
         NEW gpu, NEW offer \in Offers(gpu, precision)
  PROVE  \E e \in Entries(prices, benches) : e.gpu = gpu /\ ~ Beats(offer, e)
<1> DEFINE live == {p \in points : p.at >= now - IndexWindow /\ p.availability = "available"}
           asked == {b \in runs : precision = Null \/ b.precision = precision}
<1>1. PICK p \in live, b \in asked :
        /\ p.gpu = gpu /\ b.gpu = gpu /\ b.throughput > 0
        /\ offer.price = p.price /\ offer.throughput = b.throughput
  BY DEF Offers, Entries
<1>2. PICK q \in prices : q \in live /\ q.gpu = gpu /\ ~ (p.price < q.price)
  BY <1>1 DEF BestPrices, DistinctOn, Gpu, LowerPrice
<1>3. PICK c \in benches : c \in asked /\ c.gpu = gpu /\ ~ (b.throughput > c.throughput)
  BY <1>1 DEF BestRuns, DistinctOn, Gpu, Faster
<1>4. /\ p.price \in Nat /\ q.price \in Nat /\ q.price <= p.price
      /\ b.throughput \in Nat /\ c.throughput \in Nat /\ b.throughput <= c.throughput
      /\ c.throughput > 0
  BY <1>1, <1>2, <1>3, Rows
<1>5. q.price * b.throughput <= p.price * c.throughput
  <2>1. q.price * b.throughput <= p.price * b.throughput
    BY <1>4
  <2>2. p.price * b.throughput <= p.price * c.throughput
    BY <1>4
  <2>3. q.price * b.throughput \in Nat /\ p.price * b.throughput \in Nat /\ p.price * c.throughput \in Nat
    BY <1>4
  <2>4. QED
    BY <2>1, <2>2, <2>3
<1> DEFINE e == [gpu |-> q.gpu, price |-> q.price, throughput |-> c.throughput]
<1>6. e \in Entries(prices, benches)
  <2>1. <<q, c>> \in {pb \in prices \X benches : pb[1].gpu = pb[2].gpu /\ pb[2].throughput > 0}
    BY <1>2, <1>3, <1>4
  <2>2. QED
    BY <2>1 DEF Entries
<1>7. ~ Beats(offer, e)
  BY <1>1, <1>4, <1>5, NotBeaten
<1>8. QED
  BY <1>2, <1>6, <1>7

\* What is joined has a price and a throughput.
LEMMA EntryTypes ==
  ASSUME TypeOK, NEW prices \in SUBSET points, NEW benches \in SUBSET runs,
         NEW e \in Entries(prices, benches)
  PROVE  e.price \in Nat /\ e.throughput \in Nat \ {0}
<1>1. PICK p \in prices, b \in benches :
        e.price = p.price /\ e.throughput = b.throughput /\ b.throughput > 0
  BY DEF Entries
<1>2. QED
  BY <1>1, Rows

\* INDEX_SQL answers with the best offers, whatever the tables hold.
LEMMA OptimalIndex == TypeOK => IndexIsOptimal
<1> SUFFICES ASSUME TypeOK, NEW precision \in PrecisionFilters, NEW limit \in Limits,
                    NEW rows \in Index(precision, limit)
             PROVE  /\ \A e \in rows : e \in Offers(e.gpu, precision)
                    /\ \A gpu \in Gpus : \A offer \in Offers(gpu, precision) :
                          \/ \E e \in rows : e.gpu = gpu /\ ~ Beats(offer, e)
                          \/ Cardinality(rows) = limit /\ \A e \in rows : ~ Beats(offer, e)
  BY DEF IndexIsOptimal
<1>a. PICK prices \in BestPrices, benches \in BestRuns(precision) :
        rows \in Limited(Entries(prices, benches), Beats, limit)
  BY DEF Index
<1>1. prices \in SUBSET points /\ benches \in SUBSET runs
  BY DEF BestPrices, BestRuns, DistinctOn
<1>2. rows \in SUBSET Entries(prices, benches)
  BY <1>a DEF Limited
<1>3. ASSUME NEW e \in rows PROVE e \in Offers(e.gpu, precision)
  <2>1. PICK pb \in prices \X benches :
          /\ pb[1].gpu = pb[2].gpu /\ pb[2].throughput > 0
          /\ e = [gpu |-> pb[1].gpu, price |-> pb[1].price, throughput |-> pb[2].throughput]
    BY <1>2 DEF Entries
  <2>2. /\ pb[1] \in {p \in points : p.gpu = e.gpu /\ p.at >= now - IndexWindow /\ p.availability = "available"}
        /\ pb[2] \in {b \in runs : precision = Null \/ b.precision = precision}
    BY <2>1 DEF BestPrices, BestRuns, DistinctOn
  <2>3. QED
    BY <2>1, <2>2 DEF Offers, Entries
<1>4. ASSUME NEW gpu \in Gpus, NEW offer \in Offers(gpu, precision)
      PROVE  \/ \E e \in rows : e.gpu = gpu /\ ~ Beats(offer, e)
             \/ Cardinality(rows) = limit /\ \A e \in rows : ~ Beats(offer, e)
  <2>1. PICK best \in Entries(prices, benches) : best.gpu = gpu /\ ~ Beats(offer, best)
    BY BestEntry
  <2>2. CASE best \in rows
    BY <2>1, <2>2
  <2>3. CASE best \notin rows
    <3>1. Cardinality(rows) = limit
      <4>1. IsFiniteSet(Entries(prices, benches))
        BY <1>1, Rows, FS_Subset, JoinIsFinite
      <4>2. limit \in Nat /\ Cardinality(rows) = Min({limit, Cardinality(Entries(prices, benches))})
        BY <1>a, QueriesNumbers DEF Limited
      <4>3. QED
        BY <1>2, <2>3, <4>1, <4>2, CutShort
    <3>2. ASSUME NEW e \in rows PROVE ~ Beats(offer, e)
      <4>1. ~ Beats(best, e)
        BY <1>a, <2>1, <2>3 DEF Limited
      <4>2. offer.price \in Nat /\ offer.throughput \in Nat \ {0}
        <5>1. /\ {p \in points : p.gpu = gpu /\ p.at >= now - IndexWindow /\ p.availability = "available"}
                 \in SUBSET points
              /\ {b \in runs : precision = Null \/ b.precision = precision} \in SUBSET runs
          OBVIOUS
        <5>2. QED
          BY <5>1, EntryTypes DEF Offers
      <4>3. /\ best.price \in Nat /\ best.throughput \in Nat \ {0}
            /\ e.price \in Nat /\ e.throughput \in Nat \ {0}
        BY <1>1, <1>2, EntryTypes
      <4>4. /\ best.price * offer.throughput <= offer.price * best.throughput
            /\ e.price * best.throughput <= best.price * e.throughput
        BY <2>1, <4>1, <4>2, <4>3, NotBeaten
      <4>5. e.price * offer.throughput <= offer.price * e.throughput
        BY <4>2, <4>3, <4>4, NotBeatenTransitive
      <4>6. QED
        BY <4>2, <4>3, <4>5, NotBeaten
    <3>3. QED
      BY <3>1, <3>2
  <2>4. QED
    BY <2>2, <2>3
<1>5. QED
  BY <1>3, <1>4

\* The index ranks the best offer of every GPU, however large the tables, and
\* whichever rows Postgres chooses among equals.
THEOREM IndexIsOptimalHolds == Spec => []IndexIsOptimal
<1>1. QED
  BY TypeCorrect, OptimalIndex, PTL

-----------------------------------------------------------------------------
\* The rows chosen by LATEST_PRICES_SQL, before the limit, are current and
\* stand for every place.
LEMMA OnePerPlace ==
  ASSUME TypeOK, NEW gpu, NEW days, NEW availability,
         NEW latest \in SUBSET Wanted(gpu, days, availability),
         \A p \in Wanted(gpu, days, availability) : \E q \in latest : Place(q) = Place(p),
         \A p \in latest, q \in Wanted(gpu, days, availability) : Place(p) = Place(q) => ~ Newer(q, p)
  PROVE  /\ latest \in SUBSET Current(gpu, days, availability)
         /\ \A p \in Current(gpu, days, availability) : \E q \in latest : Place(q) = Place(p)
<1> DEFINE rows == Wanted(gpu, days, availability)
<1>1. rows \in SUBSET points
  BY DEF Wanted, Window
<1>2. \A p \in latest, q \in rows : Place(q) = Place(p) => q.at <= p.at
  BY <1>1, Rows DEF Newer
<1>3. QED
  BY <1>2 DEF Current

\* The summary's cheapest, seen from the whole table.
LEMMA CurrentCheapest == TypeOK => CheapestIsCurrent
<1> SUFFICES ASSUME TypeOK, NEW gpu \in Gpus, NEW days \in Windows, NEW availability \in AvailabilityFilters,
                    NEW rows \in LatestPrices(gpu, days, availability)
             PROVE  LET current == Current(gpu, days, availability)
                        prices == {p.price : p \in current}
                        tied == \E p, q \in current : Place(p) = Place(q) /\ p.price # q.price
                    IN  IF rows = {} THEN current = {}
                        ELSE LET cheapest == Summary(gpu, days, rows).cheapest
                             IN  cheapest \in prices /\ (tied \/ cheapest = Min(prices))
  BY DEF CheapestIsCurrent
<1> DEFINE current == Current(gpu, days, availability)
           prices == {p.price : p \in current}
           tied == \E p, q \in current : Place(p) = Place(q) /\ p.price # q.price
           asked == {p.price : p \in rows}
           least == Min(asked)
<1>1. PICK latest \in DistinctOn(Wanted(gpu, days, availability), Place, Newer) :
        rows \in Limited(latest, Cheaper, PriceLimit)
  BY DEF LatestPrices
<1>2. latest \in SUBSET current /\ \A p \in current : \E q \in latest : Place(q) = Place(p)
  <2>1. /\ latest \in SUBSET Wanted(gpu, days, availability)
        /\ \A p \in Wanted(gpu, days, availability) : \E q \in latest : Place(q) = Place(p)
        /\ \A p \in latest, q \in Wanted(gpu, days, availability) : Place(p) = Place(q) => ~ Newer(q, p)
    BY <1>1 DEF DistinctOn
  <2>2. QED
    BY <2>1, OnePerPlace
<1>3. /\ rows \in SUBSET latest
      /\ Cardinality(rows) = Min({PriceLimit, Cardinality(latest)})
      /\ \A x \in rows, y \in latest \ rows : ~ (y.price < x.price)
  <2>1. /\ rows \in SUBSET latest
        /\ Cardinality(rows) = Min({PriceLimit, Cardinality(latest)})
        /\ \A x \in rows, y \in latest \ rows : ~ Cheaper(y, x)
    BY <1>1 DEF Limited
  <2>2. QED
    BY <2>1 DEF Cheaper
<1>4. /\ current \in SUBSET points
      /\ \A p \in current : p.price \in Nat
  BY Rows DEF Current, Wanted, Window
<1>5. IsFiniteSet(latest)
  BY <1>2, <1>4, Rows, FS_Subset
<1> HIDE DEF current
<1>6. CASE rows = {}
  <2>1. latest = {}
    BY <1>3, <1>5, <1>6, CutShort, FS_EmptySet, QueriesNumbers
  <2>2. QED
    BY <1>2, <1>6, <2>1 DEF current
<1>7. CASE rows # {}
  <2>1. /\ least \in asked
        /\ \A p \in rows : least <= p.price
    <3>1. \A p \in rows : p.price \in Nat
      BY <1>2, <1>3, <1>4
    <3>2. asked \in SUBSET Nat /\ asked # {}
      BY <1>7, <3>1
    <3>3. least \in asked /\ \A v \in asked : least <= v
      <4> HIDE DEF asked
      <4>1. QED
        BY <3>2, LeastIsMin
    <3>4. QED
      BY <3>3
  <2>2. least \in prices
    BY <1>2, <1>3, <2>1
  <2>3. ASSUME ~ tied PROVE least = Min(prices)
    <3>1. ASSUME NEW p \in current PROVE least <= p.price
      <4>1. PICK q \in latest : Place(q) = Place(p)
        BY <1>2
      <4>2. q.price = p.price
        BY <1>2, <2>3, <4>1
      <4>3. least <= q.price
        <5>1. CASE q \in rows
          BY <2>1, <5>1
        <5>2. CASE q \notin rows
          <6>1. PICK x \in rows : least = x.price
            BY <2>1
          <6>2. ~ (q.price < x.price) /\ x \in current /\ q \in current
            BY <1>2, <1>3, <5>2
          <6>3. QED
            BY <1>4, <6>1, <6>2
        <5>3. QED
          BY <5>1, <5>2
      <4>4. QED
        BY <4>2, <4>3
    <3>2. prices \in SUBSET Nat
      BY <1>4
    <3>3. Min(prices) \in prices /\ Min(prices) <= least
      BY <2>2, <3>2, LeastIsMin
    <3>4. least <= Min(prices)
      BY <3>1, <3>3
    <3>5. QED
      BY <2>2, <3>2, <3>3, <3>4
  <2>4. Summary(gpu, days, rows).cheapest = least
    BY DEF Summary
  <2>5. QED
    BY <1>7, <2>2, <2>3, <2>4 DEF current
<1>8. QED
  BY <1>6, <1>7

\* However large the table, the summary of the rows the limit leaves names the
\* lowest current price, but for ties within a place.
THEOREM CheapestIsCurrentHolds == Spec => []CheapestIsCurrent
<1>1. QED
  BY TypeCorrect, CurrentCheapest, PTL
-----------------------------------------------------------------------------
\* A sequence of all the rows, once each, by price.
SortedBy(s, rows) ==
  /\ s \in [1..Cardinality(rows) -> rows]
  /\ \A i, j \in 1..Cardinality(rows) : s[i] = s[j] => i = j
  /\ \A i, j \in 1..Cardinality(rows) : i <= j => s[i].price <= s[j].price

\* Put before a sorted sequence of the others, a row of the least price gives a
\* sorted sequence of all.
LEMMA LeastFirst ==
  ASSUME NEW rows, IsFiniteSet(rows), \A p \in rows : p.price \in Nat,
         NEW x \in rows, \A p \in rows : x.price <= p.price,
         NEW t, SortedBy(t, rows \ {x})
  PROVE  \E s : SortedBy(s, rows)
<1> DEFINE n == Cardinality(rows)
           rest == rows \ {x}
           s == [i \in 1..n |-> IF i = 1 THEN x ELSE t[i - 1]]
<1>1. n \in Nat /\ n > 0 /\ Cardinality(rest) = n - 1
  <2>1. n \in Nat /\ Cardinality(rest) \in Nat
    BY FS_CardinalityType, FS_RemoveElement
  <2>2. n # 0
    BY FS_EmptySet
  <2>3. Cardinality(rest) = n - 1
    BY FS_RemoveElement
  <2>4. QED
    BY <2>1, <2>2, <2>3
<1>2. /\ t \in [1..(n - 1) -> rest]
      /\ \A i, j \in 1..(n - 1) : t[i] = t[j] => i = j
      /\ \A i, j \in 1..(n - 1) : i <= j => t[i].price <= t[j].price
  BY <1>1 DEF SortedBy
<1> HIDE DEF n
<1>3. \A i \in 1..n : i = 1 \/ (i # 1 /\ i - 1 \in 1..(n - 1))
  BY <1>1
<1>4. \A i \in 1..n : s[i] = IF i = 1 THEN x ELSE t[i - 1]
  OBVIOUS
<1>5. \A i \in 1..n : i # 1 => t[i - 1] \in rest
  BY <1>2, <1>3
<1>6. s \in [1..n -> rows]
  BY <1>5
<1> HIDE DEF s
<1>7. ASSUME NEW i \in 1..n, NEW j \in 1..n, s[i] = s[j] PROVE i = j
  <2>1. CASE i = 1 \/ j = 1
    BY <1>4, <1>5, <1>7, <2>1
  <2>2. CASE i # 1 /\ j # 1
    <3>1. i - 1 \in 1..(n - 1) /\ j - 1 \in 1..(n - 1) /\ t[i - 1] = t[j - 1]
      BY <1>3, <1>4, <1>7, <2>2
    <3>2. i - 1 = j - 1
      BY <1>2, <3>1
    <3>3. QED
      BY <1>1, <3>2
  <2>3. QED
    BY <2>1, <2>2
<1>8. ASSUME NEW i \in 1..n, NEW j \in 1..n, i <= j PROVE s[i].price <= s[j].price
  <2>1. CASE i = 1
    BY <1>4, <1>6, <2>1
  <2>2. CASE i # 1
    <3>1. i - 1 \in 1..(n - 1) /\ j - 1 \in 1..(n - 1) /\ i - 1 <= j - 1 /\ j # 1
      BY <1>1, <1>8, <2>2
    <3>2. t[i - 1].price <= t[j - 1].price
      BY <1>2, <3>1
    <3>3. QED
      BY <1>4, <2>2, <3>1, <3>2
  <2>3. QED
    BY <2>1, <2>2
<1>9. QED
  BY <1>6, <1>7, <1>8 DEF SortedBy, n

\* Finitely many rows can be sorted: of the sets of rows that could not, a
\* smallest would be left without its cheapest row.
LEMMA Sortable ==
  ASSUME NEW rows, IsFiniteSet(rows), \A p \in rows : p.price \in Nat
  PROVE  \E s : SortedBy(s, rows)
<1> DEFINE Bad(T) == ~ \E s : SortedBy(s, T)
           sizes == {Cardinality(T) : T \in {T \in SUBSET rows : Bad(T)}}
<1>1. SUFFICES ASSUME Bad(rows) PROVE FALSE
  OBVIOUS
<1>2. \A T \in SUBSET rows : IsFiniteSet(T) /\ Cardinality(T) \in Nat
  BY FS_Subset, FS_CardinalityType
<1>3. Min(sizes) \in sizes /\ \A m \in sizes : Min(sizes) <= m
  <2>1. sizes \in SUBSET Nat /\ sizes # {}
    BY <1>1, <1>2
  <2> HIDE DEF sizes
  <2>2. QED
    BY <2>1, LeastIsMin
<1>4. PICK T \in SUBSET rows : Bad(T) /\ Cardinality(T) = Min(sizes)
  BY <1>3
<1>5. T # {}
  <2>1. SUFFICES ASSUME T = {} PROVE FALSE
    OBVIOUS
  <2>2. Cardinality(T) = 0
    BY <2>1, FS_EmptySet
  <2>3. SortedBy([i \in 1..0 |-> i], T)
    BY <2>2 DEF SortedBy
  <2>4. QED
    BY <1>4, <2>3
<1>6. PICK x \in T : \A p \in T : x.price <= p.price
  <2> DEFINE prices == {p.price : p \in T}
  <2>1. prices \in SUBSET Nat /\ prices # {}
    BY <1>5
  <2>2. Min(prices) \in prices /\ \A v \in prices : Min(prices) <= v
    <3> HIDE DEF prices
    <3>1. QED
      BY <2>1, LeastIsMin
  <2>3. QED
    BY <2>2
<1>7. ~ Bad(T \ {x})
  <2>1. Cardinality(T \ {x}) < Cardinality(T)
    <3>1. Cardinality(T) \in Nat /\ Cardinality(T \ {x}) = Cardinality(T) - 1
      BY <1>2, FS_RemoveElement
    <3>2. QED
      BY <3>1
  <2>2. Cardinality(T \ {x}) \notin sizes
    <3>1. Cardinality(T) \in Nat /\ Cardinality(T \ {x}) \in Nat
      BY <1>2
    <3> HIDE DEF sizes
    <3>2. QED
      BY <1>3, <1>4, <2>1, <3>1
  <2>3. T \ {x} \in SUBSET rows
    OBVIOUS
  <2> HIDE DEF Bad
  <2>4. QED
    BY <2>2, <2>3
<1>8. PICK t : SortedBy(t, T \ {x})
  BY <1>7
<1>9. QED
  BY <1>2, <1>4, <1>6, <1>8, LeastFirst

\* ByPrice sorts the rows.
LEMMA ByPriceSorts ==
  ASSUME NEW rows, IsFiniteSet(rows), \A p \in rows : p.price \in Nat
  PROVE  SortedBy(ByPrice(rows), rows)
<1> DEFINE Sorts(s) == \A i, j \in DOMAIN s : i <= j => s[i].price <= s[j].price
<1>1. PICK s : SortedBy(s, rows)
  BY Sortable
<1>2. s \in SetToSeqs(rows) /\ Sorts(s)
  BY <1>1 DEF SortedBy, SetToSeqs
<1>3. ByPrice(rows) \in SetToSeqs(rows) /\ Sorts(ByPrice(rows))
  BY <1>2 DEF ByPrice
<1>4. QED
  BY <1>3 DEF SortedBy, SetToSeqs
\* A sorted sequence of the rows has them all.
LEMMA SortedOnto ==
  ASSUME NEW rows, IsFiniteSet(rows), NEW s, SortedBy(s, rows)
  PROVE  \A p \in rows : \E i \in 1..Cardinality(rows) : s[i] = p
<1> DEFINE n == Cardinality(rows)
<1>1. n \in Nat
  BY FS_CardinalityType
<1>2. s \in Injection(1..n, rows)
  BY DEF SortedBy, Injection, IsInjective
<1>3. Cardinality(1..n) = n
  BY <1>1, FS_Interval
<1>4. s \in Surjection(1..n, rows)
  BY <1>2, <1>3, FS_Injection
<1>5. QED
  BY <1>4 DEF Surjection

\* The rows at the places a to b of a sequence.
Places(s, a, b) == {s[i] : i \in a..b}

\* A stretch of a sorted sequence has as many rows as places.
LEMMA Stretch ==
  ASSUME NEW rows, IsFiniteSet(rows), NEW s, SortedBy(s, rows),
         NEW a \in Nat \ {0}, NEW b \in Nat, b <= Cardinality(rows), a <= b + 1
  PROVE  IsFiniteSet(Places(s, a, b)) /\ Cardinality(Places(s, a, b)) = b - a + 1
<1> DEFINE n == Cardinality(rows)
           T == {s[i] : i \in a..b}
           f == [i \in a..b |-> s[i]]
<1>1. n \in Nat /\ \A i \in a..b : i \in 1..n
  BY FS_CardinalityType
<1>2. f \in Bijection(a..b, T)
  BY <1>1 DEF SortedBy, Bijection, Injection, IsInjective, Surjection
<1>3. IsFiniteSet(a..b) /\ Cardinality(a..b) = b - a + 1
  <2>1. a \in Int /\ b \in Int /\ (a > b => 0 = b - a + 1)
    BY <1>1
  <2>2. IsFiniteSet(a..b) /\ Cardinality(a..b) = IF a > b THEN 0 ELSE b - a + 1
    BY <2>1, FS_Interval
  <2>3. QED
    BY <2>1, <2>2
<1>4. QED
  BY <1>2, <1>3, FS_Bijection DEF ExistsBijection, Places

\* How many rows are below and above a price of a sorted sequence: up to the
\* price at a place there are as many rows as places, and below it fewer.
LEMMA CountUpTo ==
  ASSUME NEW rows, IsFiniteSet(rows), \A p \in rows : p.price \in Nat,
         NEW s, SortedBy(s, rows), NEW m \in 1..Cardinality(rows)
  PROVE  /\ Cardinality({p \in rows : p.price <= s[m].price}) >= m
         /\ \A v \in Nat : v < s[m].price =>
               Cardinality({p \in rows : p.price <= v}) <= m - 1
<1> DEFINE n == Cardinality(rows)
           UpTo(v) == {p \in rows : p.price <= v}
<1>1. n \in Nat /\ m \in Nat /\ m # 0 /\ m <= n
  BY FS_CardinalityType
<1>2. \A i \in 1..n : s[i] \in rows /\ s[i].price \in Nat
  BY DEF SortedBy
<1>3. \A v : IsFiniteSet(UpTo(v)) /\ Cardinality(UpTo(v)) \in Nat
  <2>1. \A v : UpTo(v) \in SUBSET rows
    OBVIOUS
  <2>2. QED
    BY <2>1, FS_Subset, FS_CardinalityType
<1>4. Cardinality(UpTo(s[m].price)) >= m
  <2> DEFINE T == Places(s, 1, m)
  <2>1. Cardinality(T) = m - 1 + 1
    BY <1>1, Stretch
  <2>2. T \in SUBSET UpTo(s[m].price)
    BY <1>1, <1>2 DEF SortedBy, Places
  <2>3. Cardinality(T) <= Cardinality(UpTo(s[m].price))
    BY <1>3, <2>2, FS_Subset
  <2>4. QED
    BY <1>1, <1>3, <2>1, <2>3
<1>5. ASSUME NEW v \in Nat, v < s[m].price PROVE Cardinality(UpTo(v)) <= m - 1
  <2> DEFINE T == Places(s, 1, m - 1)
  <2>1. IsFiniteSet(T) /\ Cardinality(T) = m - 1
    <3>1. m - 1 \in Nat /\ m - 1 <= n /\ 1 <= (m - 1) + 1 /\ (m - 1) - 1 + 1 = m - 1
      BY <1>1
    <3>2. QED
      BY <1>1, <3>1, Stretch
  <2>2. UpTo(v) \in SUBSET T
    <3>1. SUFFICES ASSUME NEW p \in rows, p.price <= v PROVE p \in T
      OBVIOUS
    <3>2. PICK i \in 1..n : s[i] = p
      BY SortedOnto
    <3>3. ~ (m <= i)
      <4>1. m <= i => s[m].price <= s[i].price
        BY <1>1, <3>2 DEF SortedBy
      <4>2. p.price \in Nat /\ s[m].price \in Nat
        BY <1>1, <1>2
      <4>3. QED
        BY <1>5, <3>1, <3>2, <4>1, <4>2
    <3>4. i \in 1..(m - 1)
      BY <1>1, <3>3
    <3>5. QED
      BY <3>2, <3>4 DEF Places
  <2>3. QED
    BY <2>1, <2>2, FS_Subset
<1>6. QED
  BY <1>4, <1>5

\* The same from the other end.
LEMMA CountFrom ==
  ASSUME NEW rows, IsFiniteSet(rows), \A p \in rows : p.price \in Nat,
         NEW s, SortedBy(s, rows), NEW m \in 1..Cardinality(rows)
  PROVE  /\ Cardinality({p \in rows : p.price >= s[m].price}) >= Cardinality(rows) - m + 1
         /\ \A v \in Nat : v > s[m].price =>
               Cardinality({p \in rows : p.price >= v}) <= Cardinality(rows) - m
<1> DEFINE n == Cardinality(rows)
           From(v) == {p \in rows : p.price >= v}
<1>1. n \in Nat /\ m \in Nat /\ m # 0 /\ m <= n
  BY FS_CardinalityType
<1>2. \A i \in 1..n : s[i] \in rows /\ s[i].price \in Nat
  BY DEF SortedBy
<1>3. \A v : IsFiniteSet(From(v)) /\ Cardinality(From(v)) \in Nat
  <2>1. \A v : From(v) \in SUBSET rows
    OBVIOUS
  <2>2. QED
    BY <2>1, FS_Subset, FS_CardinalityType
<1>4. Cardinality(From(s[m].price)) >= n - m + 1
  <2> DEFINE T == Places(s, m, n)
  <2>1. Cardinality(T) = n - m + 1
    BY <1>1, Stretch
  <2>2. T \in SUBSET From(s[m].price)
    BY <1>1, <1>2 DEF SortedBy, Places
  <2>3. Cardinality(T) <= Cardinality(From(s[m].price))
    BY <1>3, <2>2, FS_Subset
  <2>4. QED
    BY <1>1, <1>3, <2>1, <2>3
<1>5. ASSUME NEW v \in Nat, v > s[m].price PROVE Cardinality(From(v)) <= n - m
  <2> DEFINE T == Places(s, m + 1, n)
  <2>1. IsFiniteSet(T) /\ Cardinality(T) = n - m
    <3>1. m + 1 \in Nat \ {0} /\ m + 1 <= n + 1 /\ n - (m + 1) + 1 = n - m
      BY <1>1
    <3>2. QED
      BY <1>1, <3>1, Stretch
  <2>2. From(v) \in SUBSET T
    <3>1. SUFFICES ASSUME NEW p \in rows, p.price >= v PROVE p \in T
      OBVIOUS
    <3>2. PICK i \in 1..n : s[i] = p
      BY SortedOnto
    <3>3. ~ (i <= m)
      <4>1. i <= m => s[i].price <= s[m].price
        BY <1>1, <3>2 DEF SortedBy
      <4>2. p.price \in Nat /\ s[m].price \in Nat
        BY <1>1, <1>2
      <4>3. QED
        BY <1>5, <3>1, <3>2, <4>1, <4>2
    <3>4. i \in (m + 1)..n
      BY <1>1, <3>3
    <3>5. QED
      BY <3>2, <3>4 DEF Places
  <2>3. QED
    BY <2>1, <2>2, FS_Subset
<1>6. QED
  BY <1>4, <1>5

\* Min of a set with a least element is that element.
LEMMA LeastIsThe ==
  ASSUME NEW S \in SUBSET Nat, NEW x \in S, \A y \in S : x <= y
  PROVE  Min(S) = x
<1>1. Min(S) \in S /\ Min(S) <= x
  BY LeastIsMin
<1>2. Min(S) \in Nat /\ x <= Min(S)
  BY <1>1
<1>3. QED
  BY <1>1, <1>2

\* Max of a set with a greatest element is that element.
LEMMA GreatestIsMax ==
  ASSUME NEW S \in SUBSET Nat, NEW x \in S, \A y \in S : y <= x
  PROVE  Max(S) = x
<1>1. Max(S) \in S /\ \A y \in S : Max(S) >= y
  BY DEF Max
<1>2. Max(S) \in Nat /\ Max(S) >= x /\ Max(S) <= x
  BY <1>1
<1>3. QED
  BY <1>2

\* The two middle rows are where the halves meet.
LEMMA MedianMeets ==
  ASSUME TypeOK, NEW rows \in SUBSET points, rows # {}
  PROVE  LET prices == {p.price : p \in rows}
             UpTo(v) == Cardinality({p \in rows : p.price <= v})
             From(v) == Cardinality({p \in rows : p.price >= v})
         IN  TwiceMedian(rows) = Min({v \in prices : 2 * UpTo(v) >= Cardinality(rows)})
                               + Max({v \in prices : 2 * From(v) >= Cardinality(rows)})
<1> DEFINE prices == {p.price : p \in rows}
           n == Cardinality(rows)
           s == ByPrice(rows)
           UpTo(v) == Cardinality({p \in rows : p.price <= v})
           From(v) == Cardinality({p \in rows : p.price >= v})
           lo == (n + 1) \div 2
           hi == n \div 2 + 1
           Lows == {v \in prices : 2 * UpTo(v) >= n}
           Highs == {v \in prices : 2 * From(v) >= n}
<1>1. IsFiniteSet(rows) /\ \A p \in rows : p.price \in Nat
  BY Rows, FS_Subset
<1>2. n \in Nat /\ n > 0
  BY <1>1, FS_CardinalityType, FS_EmptySet
<1>3. SortedBy(s, rows)
  BY <1>1, ByPriceSorts
<1>4. prices \in SUBSET Nat /\ \A v : UpTo(v) \in Nat /\ From(v) \in Nat
  <2>1. \A v : {p \in rows : p.price <= v} \in SUBSET rows /\ {p \in rows : p.price >= v} \in SUBSET rows
    OBVIOUS
  <2>2. QED
    BY <1>1, <2>1, FS_Subset, FS_CardinalityType
<1>5. TwiceMedian(rows) = s[lo].price + s[hi].price
  BY DEF TwiceMedian
<1>6. \A m \in 1..n : s[m].price \in prices
  BY <1>3 DEF SortedBy
<1> HIDE DEF prices, n, s, UpTo, From
<1>7. /\ lo \in 1..n /\ 2 * lo >= n /\ 2 * (lo - 1) < n
      /\ hi \in 1..n /\ 2 * (n - hi + 1) >= n /\ 2 * (n - hi) < n
  BY <1>2
<1> HIDE DEF lo, hi
<1>8. /\ UpTo(s[lo].price) >= lo
      /\ \A v \in Nat : v < s[lo].price => UpTo(v) <= lo - 1
  BY <1>1, <1>3, <1>7, CountUpTo DEF UpTo, n
<1>9. /\ From(s[hi].price) >= n - hi + 1
      /\ \A v \in Nat : v > s[hi].price => From(v) <= n - hi
  BY <1>1, <1>3, <1>7, CountFrom DEF From, n
<1>10. Min(Lows) = s[lo].price
  <2>1. s[lo].price \in Lows /\ Lows \in SUBSET Nat
    <3>1. UpTo(s[lo].price) \in Nat /\ lo \in Nat
      BY <1>2, <1>4, <1>7
    <3>2. 2 * UpTo(s[lo].price) >= n
      BY <1>2, <1>7, <1>8, <3>1
    <3>3. QED
      BY <1>4, <1>6, <1>7, <3>2
  <2>2. \A v \in Lows : ~ (v < s[lo].price)
    BY <1>2, <1>4, <1>7, <1>8
  <2>3. \A v \in Lows : s[lo].price <= v
    BY <2>1, <2>2
  <2> HIDE DEF Lows
  <2>4. QED
    BY <2>1, <2>3, LeastIsThe
<1>11. Max(Highs) = s[hi].price
  <2>1. s[hi].price \in Highs /\ Highs \in SUBSET Nat
    <3>1. From(s[hi].price) \in Nat /\ n - hi + 1 \in Nat
      BY <1>2, <1>4, <1>7
    <3>2. 2 * From(s[hi].price) >= n
      BY <1>2, <1>7, <1>9, <3>1
    <3>3. QED
      BY <1>4, <1>6, <1>7, <3>2
  <2>2. \A v \in Highs : ~ (v > s[hi].price)
    BY <1>2, <1>4, <1>7, <1>9
  <2>3. \A v \in Highs : v <= s[hi].price
    BY <2>1, <2>2
  <2> HIDE DEF Highs
  <2>4. QED
    BY <2>1, <2>3, GreatestIsMax
<1>12. QED
  BY <1>5, <1>10, <1>11 DEF prices, n, UpTo, From

\* The window of the SQL is the one the client asked for, to its very first
\* moment, and an answer that is not empty has something in it.
LEMMA AnswerInWindow ==
  ASSUME TypeOK, NEW gpu \in Gpus, NEW days \in Windows, NEW availability \in AvailabilityFilters,
         NEW rows \in LatestPrices(gpu, days, availability) \ {{}}
  PROVE  /\ Window(gpu, days) = {p \in points : p.gpu = gpu /\ now - p.at <= days}
         /\ Window(gpu, days) \in (SUBSET points) \ {{}}
<1>1. now \in Int /\ days \in Int /\ \A p \in points : p.at \in Int
  BY QueriesNumbers, QueriesRows DEF TypeOK
<1>2. rows \subseteq Wanted(gpu, days, availability)
  BY DEF LatestPrices, Limited, DistinctOn
<1>3. rows \subseteq Window(gpu, days) /\ rows # {}
  BY <1>2 DEF Wanted
<1>4. \A p \in points : p.at >= now - days <=> now - p.at <= days
  BY <1>1
<1>5. Window(gpu, days) = {p \in points : p.gpu = gpu /\ now - p.at <= days}
  BY <1>4, Zenon DEF Window
<1>6. Window(gpu, days) \in (SUBSET points) \ {{}}
  BY <1>3 DEF Window
<1>7. QED
  BY <1>5, <1>6

\* However many observations the window has, whatever ties among them and whatever
\* filter and limit the rows went through, the median of the summary is where the
\* lower and the upper half of the window asked for meet.
THEOREM MedianSplitsHolds == Spec => []MedianSplits
<1>1. TypeOK => MedianSplits
  <2> SUFFICES ASSUME TypeOK, NEW gpu \in Gpus, NEW days \in Windows,
                      NEW availability \in AvailabilityFilters,
                      NEW rows \in LatestPrices(gpu, days, availability) \ {{}}
               PROVE  LET asked == {p \in points : p.gpu = gpu /\ now - p.at <= days}
                          prices == {p.price : p \in asked}
                          UpTo(v) == Cardinality({p \in asked : p.price <= v})
                          From(v) == Cardinality({p \in asked : p.price >= v})
                      IN  Summary(gpu, days, rows).twice_median =
                              Min({v \in prices : 2 * UpTo(v) >= Cardinality(asked)})
                            + Max({v \in prices : 2 * From(v) >= Cardinality(asked)})
    BY DEF MedianSplits
  <2>1. Summary(gpu, days, rows).twice_median = TwiceMedian(Window(gpu, days))
    BY DEF Summary
  <2> DEFINE asked == {p \in points : p.gpu = gpu /\ now - p.at <= days}
  <2>2. Window(gpu, days) = asked /\ asked \in SUBSET points /\ asked # {}
    BY AnswerInWindow
  <2> HIDE DEF asked
  <2>3. LET prices == {p.price : p \in asked}
            UpTo(v) == Cardinality({p \in asked : p.price <= v})
            From(v) == Cardinality({p \in asked : p.price >= v})
        IN  TwiceMedian(asked) = Min({v \in prices : 2 * UpTo(v) >= Cardinality(asked)})
                               + Max({v \in prices : 2 * From(v) >= Cardinality(asked)})
    BY <2>2, MedianMeets
  <2>4. Summary(gpu, days, rows).twice_median = TwiceMedian(asked)
    BY <2>1, <2>2
  <2>5. QED
    BY <2>3, <2>4 DEF asked
<1>2. QED
  BY <1>1, TypeCorrect, PTL
=============================================================================
