------------------------------ MODULE Queries --------------------------------
(***************************************************************************)
(* What the two SQL statements behind the cached routes select, and the    *)
(* summary gpu_prices makes of its rows, as observations and benchmarks    *)
(* come in and the window moves on.  Where the SQL leaves a tie open, an   *)
(* answer is any that Postgres may give: answers are sets of sets of rows, *)
(* and the order within an answer is that of its ORDER BY.                 *)
(***************************************************************************)
EXTENDS Integers, FiniteSets, FiniteSetsExt, SequencesExt

CONSTANTS
    Observations,   \* the price_points that may be ingested
    Benchmarks,     \* the benchmark_runs that may be seeded
    MaxRows,        \* how many of each (a bound)
    LastDay,        \* how long the clock runs (a bound), in days
    Windows,        \* values of window_days
    IndexWindow,    \* the window of the index, which its route leaves at the default
    PriceLimit,     \* the limit gpu_prices asks for
    Limits          \* values of the index route's limit

ASSUME QueriesNumbers ==
    /\ {MaxRows, LastDay, IndexWindow, PriceLimit} \cup Windows \cup Limits \subseteq Nat
    /\ PriceLimit > 0

ASSUME QueriesRows ==
    /\ IsFiniteSet(Observations) /\ IsFiniteSet(Benchmarks)
    /\ \A p \in Observations : p.price \in Nat /\ p.at \in Int
    /\ \A b \in Benchmarks : b.throughput \in Int

VARIABLES points, runs, now

vars == <<points, runs, now>>

NoFilter == ""    \* no `availability`, or an empty one, which counts as none
Null == "null"    \* no `precision`; an empty one is a filter like any other
Gpus == {p.gpu : p \in Observations}
AvailabilityFilters == {NoFilter} \cup {p.availability : p \in Observations}
PrecisionFilters == {Null, ""} \cup {b.precision : b \in Benchmarks}

Init == points = {} /\ runs = {} /\ now = 0

Natural(p) == <<p.gpu, p.provider, p.region, p.type, p.at>>

\* Slip: no natural key.
ObserveAgain(p) ==
    /\ Cardinality(points) < MaxRows
    /\ points' = points \cup {p}
    /\ UNCHANGED <<runs, now>>

\* An ingested row with a new natural key, of whatever date.
Observe(p) ==
    /\ Cardinality(points) < MaxRows
    /\ Natural(p) \notin {Natural(q) : q \in points}
    /\ points' = points \cup {p}
    /\ UNCHANGED <<runs, now>>

Benchmark(b) ==
    /\ Cardinality(runs) < MaxRows
    /\ runs' = runs \cup {b}
    /\ UNCHANGED <<points, now>>

NextDay == now < LastDay /\ now' = now + 1 /\ UNCHANGED <<points, runs>>

Next ==
    \/ \E p \in Observations \ points : Observe(p)
    \/ \E b \in Benchmarks \ runs : Benchmark(b)
    \/ NextDay

Spec == Init /\ [][Next]_vars

-----------------------------------------------------------------------------
\* SQL.

\* DISTINCT ON (Group) ... ORDER BY Group, Before: of each group a row that no
\* other comes before.
DistinctOn(rows, Group(_), Before(_, _)) ==
    {T \in SUBSET rows :
        /\ \A x, y \in T : Group(x) = Group(y) => x = y
        /\ \A x \in rows : \E y \in T : Group(y) = Group(x)
        /\ \A y \in T, x \in rows : Group(x) = Group(y) => ~ Before(x, y)}

\* ORDER BY Before LIMIT n.
Limited(rows, Before(_, _), n) ==
    {T \in SUBSET rows :
        /\ Cardinality(T) = Min({n, Cardinality(rows)})
        /\ \A x \in T, y \in rows \ T : ~ Before(y, x)}

-----------------------------------------------------------------------------
\* LATEST_PRICES_SQL.

Window(gpu, days) == {p \in points : p.gpu = gpu /\ p.at >= now - days}
Wanted(gpu, days, availability) ==
    {p \in Window(gpu, days) : availability \in {NoFilter, p.availability}}

Place(p) == <<p.provider, p.region>>
Newer(p, q) == p.at > q.at

\* Slip: by region first.
CheaperInRegion(p, q) == p.region < q.region \/ (p.region = q.region /\ p.price < q.price)
Cheaper(p, q) == p.price < q.price \/ (p.price = q.price /\ p.region < q.region)

LatestPrices(gpu, days, availability) ==
    UNION {Limited(latest, Cheaper, PriceLimit) :
              latest \in DistinctOn(Wanted(gpu, days, availability), Place, Newer)}

\* The rows by price, equal ones in either order.
ByPrice(rows) ==
    CHOOSE s \in SetToSeqs(rows) : \A i, j \in DOMAIN s : i <= j => s[i].price <= s[j].price

\* Slip: the upper of two middle rows only.
TwiceUpperMedian(rows) == 2 * ByPrice(rows)[Cardinality(rows) \div 2 + 1].price

\* percentile_cont(0.5), doubled: the middle row, or half way between two.  It
\* is taken over the whole window, whatever the filter.
TwiceMedian(rows) ==
    LET n == Cardinality(rows)
    IN  ByPrice(rows)[(n + 1) \div 2].price + ByPrice(rows)[n \div 2 + 1].price

\* Slip: the median of the rows of the answer.
SummaryOfAnswer(gpu, days, rows) ==
    [region_count |-> Cardinality({p.region : p \in rows}),
     provider_count |-> Cardinality({p.provider : p \in rows}),
     cheapest |-> Min({p.price : p \in rows}),
     twice_median |-> TwiceMedian(rows)]

\* gpu_prices: PriceSummaryOut of a non-empty answer.
Summary(gpu, days, rows) ==
    [region_count |-> Cardinality({p.region : p \in rows}),
     provider_count |-> Cardinality({p.provider : p \in rows}),
     cheapest |-> Min({p.price : p \in rows}),
     twice_median |-> TwiceMedian(Window(gpu, days))]

-----------------------------------------------------------------------------
\* INDEX_SQL.

Gpu(row) == row.gpu
LowerPrice(p, q) == p.price < q.price
BestPrices ==
    DistinctOn({p \in points : p.at >= now - IndexWindow /\ p.availability = "available"},
               Gpu, LowerPrice)

\* Slip: ORDER BY throughput, ascending.
Slower(b, c) == b.throughput < c.throughput
Faster(b, c) == b.throughput > c.throughput
BestRuns(precision) ==
    DistinctOn({b \in runs : precision = Null \/ b.precision = precision}, Gpu, Faster)

\* The join on the GPU, WHERE throughput > 0.
Entries(prices, benches) ==
    {[gpu |-> pb[1].gpu, price |-> pb[1].price, throughput |-> pb[2].throughput] :
        pb \in {pb \in prices \X benches : pb[1].gpu = pb[2].gpu /\ pb[2].throughput > 0}}

\* Fewer dollars per unit.
Beats(d, e) == d.price * e.throughput < e.price * d.throughput

Index(precision, limit) ==
    UNION {Limited(Entries(prices, benches), Beats, limit) :
              prices \in BestPrices, benches \in BestRuns(precision)}

-----------------------------------------------------------------------------
\* The types; natural keys are unique.
TypeOK ==
    /\ points \subseteq Observations /\ runs \subseteq Benchmarks /\ now \in 0..LastDay
    /\ \A p, q \in points : Natural(p) = Natural(q) => p = q

\* The observations no newer one of their place stands before.
Current(gpu, days, availability) ==
    LET rows == Wanted(gpu, days, availability)
    IN  {p \in rows : \A q \in rows : Place(q) = Place(p) => q.at <= p.at}

\* The summary of the prices route, which sees at most PriceLimit rows and one
\* instance type of each place, is about the same market as the whole table:
\* it is empty only when nothing is current, its cheapest is a current price,
\* and the lowest of all unless two instance types of one place were observed
\* at the same moment at different prices.
CheapestIsCurrent ==
    \A gpu \in Gpus, days \in Windows, availability \in AvailabilityFilters :
        LET current == Current(gpu, days, availability)
            prices == {p.price : p \in current}
            tied == \E p, q \in current : Place(p) = Place(q) /\ p.price # q.price
        IN  \A rows \in LatestPrices(gpu, days, availability) :
                IF rows = {} THEN current = {}
                ELSE LET cheapest == Summary(gpu, days, rows).cheapest
                     IN  cheapest \in prices /\ (tied \/ cheapest = Min(prices))

\* The median of a price answer, by counting: half way between the least price
\* that half of the observations do not exceed and the greatest that half of them
\* reach, also with ties and with few of them.  They are all that the GPU has had
\* in the window the client asked for, whatever filter and limit the answer went
\* through.  That is a median of 30 days only when the client leaves window_days at
\* its default: the name of the field and the docs do not say so.
MedianSplits ==
    \A gpu \in Gpus, days \in Windows, availability \in AvailabilityFilters :
        LET asked == {p \in points : p.gpu = gpu /\ now - p.at <= days}
            prices == {p.price : p \in asked}
            UpTo(v) == Cardinality({p \in asked : p.price <= v})
            From(v) == Cardinality({p \in asked : p.price >= v})
        IN  \A rows \in LatestPrices(gpu, days, availability) \ {{}} :
              Summary(gpu, days, rows).twice_median =
                  Min({v \in prices : 2 * UpTo(v) >= Cardinality(asked)})
                + Max({v \in prices : 2 * From(v) >= Cardinality(asked)})

\* What a GPU could cost per unit: any available price over any throughput.
Offers(gpu, precision) ==
    Entries({p \in points : p.gpu = gpu /\ p.at >= now - IndexWindow /\ p.availability = "available"},
            {b \in runs : precision = Null \/ b.precision = precision})

\* INDEX_SQL picks a price and a throughput apart from each other, and that is
\* the best offer of each GPU; a GPU with an offer is left out only when the
\* answer is full of others that are no worse.
IndexIsOptimal ==
    \A precision \in PrecisionFilters, limit \in Limits : \A rows \in Index(precision, limit) :
        /\ \A e \in rows : e \in Offers(e.gpu, precision)
        /\ \A gpu \in Gpus : \A offer \in Offers(gpu, precision) :
              \/ \E e \in rows : e.gpu = gpu /\ ~ Beats(offer, e)
              \/ (Cardinality(rows) = limit /\ \A e \in rows : ~ Beats(offer, e))
=============================================================================
