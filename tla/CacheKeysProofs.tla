--------------------------- MODULE CacheKeysProofs ---------------------------
(***************************************************************************)
(* Which requests share a cache key that the database would be asked       *)
(* different questions for, exactly, and for which requests there are none.*)
(***************************************************************************)
EXTENDS CacheKeys, SequenceTheorems, TLAPS

\* Two texts joined, under a name that the provers do not take apart.
Cat(a, b) == a \o b
\* Joining three texts in either order gives one text.
LEMMA CatAssociative ==
  \A a, b, c \in Optional :
      Cat(a, b) \in Optional /\ Cat(Cat(a, b), c) = Cat(a, Cat(b, c))
BY ConcatAssociative, ConcatProperties DEF Cat, Optional

\* Texts joined at the same place are the same texts.
LEMMA SameCut ==
  ASSUME NEW s \in Optional, NEW t \in Optional, NEW x \in Optional, NEW y \in Optional,
         Cat(s, t) = Cat(x, y), Len(s) = Len(x)
  PROVE  s = x /\ t = y
<1>0. s \o t = x \o y
  BY DEF Cat
<1>1. Len(s) \in Nat /\ Len(t) \in Nat /\ Len(x) \in Nat /\ Len(y) \in Nat
  BY LenProperties DEF Optional
<1>2. Len(t) = Len(y)
  <2>1. Len(s \o t) = Len(s) + Len(t) /\ Len(x \o y) = Len(x) + Len(y)
    BY ConcatProperties, Zenon DEF Optional
  <2>2. QED
    BY <1>0, <1>1, <2>1
<1>3. \A i \in 1..(Len(s) + Len(t)) : (s \o t)[i] = IF i <= Len(s) THEN s[i] ELSE t[i - Len(s)]
  BY ConcatProperties, Zenon DEF Optional
<1>a. \A i \in 1..(Len(x) + Len(y)) : (x \o y)[i] = IF i <= Len(x) THEN x[i] ELSE y[i - Len(x)]
  BY ConcatProperties, Zenon DEF Optional
<1>4. \A i \in 1..Len(s) : s[i] = x[i]
  <2>1. SUFFICES ASSUME NEW i \in 1..Len(s) PROVE s[i] = x[i]
    OBVIOUS
  <2>2. /\ i \in 1..(Len(s) + Len(t)) /\ i <= Len(s)
        /\ i \in 1..(Len(x) + Len(y)) /\ i <= Len(x)
    BY <1>1
  <2>3. (s \o t)[i] = s[i]
    BY <1>3, <2>2, Zenon
  <2>4. (x \o y)[i] = x[i]
    BY <1>a, <2>2, Zenon
  <2>5. QED
    BY <1>0, <2>3, <2>4, Zenon
<1>5. \A i \in 1..Len(t) : t[i] = y[i]
  <2>1. SUFFICES ASSUME NEW i \in 1..Len(t) PROVE t[i] = y[i]
    OBVIOUS
  <2> DEFINE k == i + Len(s)
  <2>2. /\ k \in 1..(Len(s) + Len(t)) /\ ~ (k <= Len(s)) /\ k - Len(s) = i
        /\ k \in 1..(Len(x) + Len(y)) /\ ~ (k <= Len(x)) /\ k - Len(x) = i
    BY <1>1, <1>2
  <2> HIDE DEF k
  <2>3. (s \o t)[k] = t[i]
    BY <1>3, <2>2, Zenon
  <2>4. (x \o y)[k] = y[i]
    BY <1>a, <2>2, Zenon
  <2>5. QED
    BY <1>0, <2>3, <2>4, Zenon
<1>6. QED
  BY <1>2, <1>4, <1>5, SeqEqual DEF Optional

\* A longer text with the same beginning is that beginning and a rest.
LEMMA LaterCut ==
  ASSUME NEW s \in Optional, NEW t \in Optional, NEW x \in Optional, NEW y \in Optional,
         Cat(s, t) = Cat(x, y), Len(x) < Len(s)
  PROVE  \E r \in Optional : Len(r) > 0 /\ s = Cat(x, r) /\ y = Cat(r, t)
<1> DEFINE p == SubSeq(s, 1, Len(x))
           r == SubSeq(s, Len(x) + 1, Len(s))
<1>1. Len(s) \in Nat /\ Len(x) \in Nat
  BY LenProperties DEF Optional
<1>2. s = Cat(p, r)
  <2>1. 1 \in 1..(Len(s) + 1) /\ Len(x) \in (1 - 1)..Len(s) /\ Len(s) \in Len(x)..Len(s)
    BY <1>1
  <2>2. p \o r = SubSeq(s, 1, Len(s))
    BY <2>1, ConcatAdjacentSubSeq DEF Optional
  <2>3. QED
    BY <2>2, SubSeqFull, Zenon DEF Cat, Optional
<1>3. p \in Optional /\ Len(p) = Len(x)
  <2>1. \A i \in 1..Len(x) : s[i] \in Segments
    BY <1>1, ElementOfSeq DEF Optional
  <2>2. p \in Optional /\ Len(p) = IF 1 <= Len(x) THEN Len(x) - 1 + 1 ELSE 0
    BY <1>1, <2>1, SubSeqProperties DEF Optional
  <2>3. QED
    BY <1>1, <2>2
<1>4. r \in Optional /\ Len(r) > 0
  <2>1. \A i \in (Len(x) + 1)..Len(s) : s[i] \in Segments
    BY <1>1, ElementOfSeq DEF Optional
  <2>2. r \in Optional /\ Len(r) = IF Len(x) + 1 <= Len(s) THEN Len(s) - (Len(x) + 1) + 1 ELSE 0
    BY <1>1, <2>1, SubSeqProperties DEF Optional
  <2>3. QED
    BY <1>1, <2>2
<1> HIDE DEF p, r
<1>5. Cat(p, Cat(r, t)) = Cat(x, y) /\ Cat(r, t) \in Optional
  BY <1>2, <1>3, <1>4, CatAssociative
<1>6. p = x /\ Cat(r, t) = y
  BY <1>3, <1>5, SameCut
<1>7. QED
  BY <1>2, <1>4, <1>6

\* The last segment of a key is its number, and the rest the texts before it.
LEMMA LastCut ==
  ASSUME NEW s \in Optional, NEW t \in Optional, NEW u \in Optional,
         NEW x \in Optional, NEW y \in Optional, NEW z \in Optional,
         Join(s, t, u) = Join(x, y, z), Len(u) = 1, Len(z) = 1
  PROVE  Cat(s, t) = Cat(x, y) /\ u = z
<1> DEFINE st == Cat(s, t)
           xy == Cat(x, y)
<1>0. st \in Optional /\ xy \in Optional
  BY CatAssociative
<1>1. /\ st \in Optional /\ xy \in Optional
      /\ st \o u = xy \o z /\ Cat(st, u) = Cat(xy, z)
  BY <1>0, Zenon DEF Join, Cat
<1> HIDE DEF st, xy
<1>2. Len(st) = Len(xy)
  <2>1. Len(st \o u) = Len(st) + Len(u) /\ Len(xy \o z) = Len(xy) + Len(z)
    BY <1>1, ConcatProperties, Zenon DEF Optional
  <2>2. Len(st) \in Nat /\ Len(xy) \in Nat
    BY <1>1, LenProperties DEF Optional
  <2>3. Len(st) + 1 = Len(xy) + 1
    BY <1>1, <2>1, Zenon
  <2>4. QED
    BY <2>2, <2>3
<1>3. st = xy /\ u = z
  BY <1>1, <1>2, SameCut
<1>4. QED
  BY <1>3 DEF st, xy

-----------------------------------------------------------------------------
\* What the fields of the queries are.
LEMMA QueryFields ==
  /\ \A q \in PriceQuery :
        /\ q.route = "prices" /\ q.gpu \in Optional /\ q.availability \in Optional
        /\ q.window \in Optional /\ Len(q.gpu) = 1 /\ Len(q.window) = 1
  /\ \A q \in IndexQuery :
        /\ q.route = "index" /\ q.workload \in Optional /\ q.precision \in Optional
        /\ q.limit \in Optional /\ Len(q.limit) = 1
BY DEF PriceQuery, IndexQuery, Number, Text, Optional

\* The literals and the empty text are three different texts.
LEMMA Literals ==
  /\ <<"all">> \in Optional /\ <<"any">> \in Optional
  /\ Missing # EmptyText
  /\ ~ Falsy(<<"all">>) /\ ~ Falsy(<<"any">>)
<1>1. \A u \in Segments : <<u>> \in Optional
  BY DEF Optional
<1>2. "all" \in Segments /\ "any" \in Segments
  BY SegmentsAssumption
<1>3. QED
  BY <1>1, <1>2 DEF Missing, EmptyText, Falsy, Optional

\* Two price requests for one GPU and window: one leaves availability out, the
\* other asks for the literal that stands for that.
PriceConfused(q1, q2) ==
  /\ q1.gpu = q2.gpu /\ q1.window = q2.window
  /\ \/ Falsy(q1.availability) /\ q2.availability = <<"all">>
     \/ Falsy(q2.availability) /\ q1.availability = <<"all">>

\* Two price requests share a key (routes.py, latest_prices) exactly when the
\* database would be asked the same for both, or one of them asks for the
\* availability "all", which no observation has, and the other for any.
THEOREM PriceKeysCollide ==
  \A q1, q2 \in PriceQuery :
      /\ KeyOf(q1) = KeyOf(q2) <=> (Alike(q1, q2) \/ PriceConfused(q1, q2))
      /\ ~ (Alike(q1, q2) /\ PriceConfused(q1, q2))
<1> SUFFICES ASSUME NEW q1 \in PriceQuery, NEW q2 \in PriceQuery
             PROVE  /\ KeyOf(q1) = KeyOf(q2) <=> (Alike(q1, q2) \/ PriceConfused(q1, q2))
                    /\ ~ (Alike(q1, q2) /\ PriceConfused(q1, q2))
  OBVIOUS
<1> DEFINE g1 == q1.gpu
           g2 == q2.gpu
           w1 == q1.window
           w2 == q2.window
           a1 == OrElse(q1.availability, <<"all">>)
           a2 == OrElse(q2.availability, <<"all">>)
<1>1. /\ q1.route = "prices" /\ q2.route = "prices"
      /\ q1.availability \in Optional /\ q2.availability \in Optional
  BY QueryFields
<1>2. /\ g1 \in Optional /\ g2 \in Optional /\ Len(g1) = Len(g2)
      /\ w1 \in Optional /\ w2 \in Optional /\ Len(w1) = 1 /\ Len(w2) = 1
      /\ a1 \in Optional /\ a2 \in Optional
  BY QueryFields, Literals DEF OrElse
<1>3. KeyOf(q1) = KeyOf(q2) <=> g1 = g2 /\ a1 = a2 /\ w1 = w2
  <2>1. KeyOf(q1) = KeyOf(q2) <=> Join(g1, a1, w1) = Join(g2, a2, w2)
    BY <1>1 DEF KeyOf, PriceKey
  <2> HIDE DEF g1, g2, w1, w2, a1, a2
  <2>2. ASSUME Join(g1, a1, w1) = Join(g2, a2, w2)
        PROVE  g1 = g2 /\ a1 = a2 /\ w1 = w2
    <3>1. Cat(g1, a1) = Cat(g2, a2) /\ w1 = w2
      BY <1>2, <2>2, LastCut
    <3>2. g1 = g2 /\ a1 = a2
      BY <1>2, <3>1, SameCut
    <3>3. QED
      BY <3>1, <3>2
  <2>3. QED
    BY <2>1, <2>2
<1>4. a1 = a2 <=> \/ q1.availability = q2.availability
                  \/ Falsy(q1.availability) /\ Falsy(q2.availability)
                  \/ Falsy(q1.availability) /\ q2.availability = <<"all">>
                  \/ Falsy(q2.availability) /\ q1.availability = <<"all">>
  BY Literals DEF OrElse
<1>5. Alike(q1, q2) <=> /\ q1.gpu = q2.gpu /\ q1.window = q2.window
                        /\ \/ q1.availability = q2.availability
                           \/ Falsy(q1.availability) /\ Falsy(q2.availability)
  <2>1. Alike(q1, q2) <=> PriceMeaning(q1) = PriceMeaning(q2)
    BY <1>1 DEF Alike, Meaning
  <2>2. Falsy(Missing)
    BY DEF Falsy
  <2>3. QED
    BY <2>1, <2>2 DEF PriceMeaning
<1>6. QED
  BY <1>3, <1>4, <1>5, Literals DEF PriceConfused

\* A text w and a filter p, joined, read as a shorter text v and a filter o.
Begins(w, p, v, o) == \E r \in Text : w = v \o r /\ o = r \o p

\* When joined texts are the same, the longer first one begins so.
LEMMA LongerBegins ==
  ASSUME NEW w \in Optional, NEW p \in Optional, NEW v \in Optional, NEW o \in Optional,
         Cat(w, p) = Cat(v, o), Len(v) < Len(w)
  PROVE  Begins(w, p, v, o)
<1>1. PICK r \in Optional : Len(r) > 0 /\ w = Cat(v, r) /\ o = Cat(r, p)
  BY LaterCut
<1>2. r \in Text
  <2>1. Len(<<>>) = 0
    BY EmptySeq DEF Optional
  <2>2. QED
    BY <1>1, <2>1 DEF Text, Missing, Optional
<1>3. QED
  BY <1>1, <1>2, Zenon DEF Begins, Cat

\* Texts that begin so are the same when joined, the first one longer.
LEMMA BeginsJoins ==
  ASSUME NEW w \in Optional, NEW p \in Optional, NEW v \in Optional, NEW o \in Optional,
         Begins(w, p, v, o)
  PROVE  Cat(w, p) = Cat(v, o) /\ Len(v) < Len(w)
<1>1. PICK r \in Text : w = Cat(v, r) /\ o = Cat(r, p)
  BY Zenon DEF Begins, Cat
<1>2. r \in Optional /\ Len(r) \in Nat /\ Len(r) # 0
  <2>1. r \in Optional /\ r # <<>>
    BY DEF Text, Missing, Optional
  <2>2. QED
    BY <2>1, EmptySeq DEF Optional
<1>3. Cat(w, p) = Cat(v, o)
  BY <1>1, <1>2, CatAssociative
<1>4. Len(w) = Len(v) + Len(r) /\ Len(v) \in Nat
  <2>1. Len(v \o r) = Len(v) + Len(r) /\ Len(v) \in Nat
    BY <1>2, ConcatProperties, LenProperties, Zenon DEF Optional
  <2>2. QED
    BY <1>1, <2>1, Zenon DEF Cat
<1>5. QED
  BY <1>2, <1>3, <1>4

\* Texts that are the same when joined are the same, or one begins the other.
LEMMA Cuts ==
  ASSUME NEW w \in Optional, NEW p \in Optional, NEW v \in Optional, NEW o \in Optional
  PROVE  Cat(w, p) = Cat(v, o) <=> \/ w = v /\ p = o
                                   \/ Begins(w, p, v, o)
                                   \/ Begins(v, o, w, p)
<1>1. Len(w) \in Nat /\ Len(v) \in Nat
  BY LenProperties DEF Optional
<1>2. CASE Len(w) = Len(v)
  <2>1. ~ Begins(w, p, v, o) /\ ~ Begins(v, o, w, p)
    BY <1>1, <1>2, BeginsJoins
  <2>2. QED
    BY <1>2, <2>1, SameCut
<1>3. CASE Len(v) < Len(w)
  BY <1>1, <1>3, LongerBegins, BeginsJoins
<1>4. CASE Len(w) < Len(v)
  BY <1>1, <1>4, LongerBegins, BeginsJoins
<1>5. QED
  BY <1>1, <1>2, <1>3, <1>4

\* Two index requests with one limit: for one workload, of two precisions among
\* none, the empty one and "any"; or for two workloads of which one is the other,
\* a colon and what the other request has before its own precision.
Blank(text) == Falsy(text) \/ text = <<"any">>
Swallows(q1, q2) ==
  Begins(q1.workload, OrElse(q1.precision, <<"any">>), q2.workload, OrElse(q2.precision, <<"any">>))
IndexConfused(q1, q2) ==
  /\ q1.limit = q2.limit
  /\ \/ /\ q1.workload = q2.workload
        /\ Blank(q1.precision) /\ Blank(q2.precision) /\ q1.precision # q2.precision
     \/ Swallows(q1, q2)
     \/ Swallows(q2, q1)

\* Two index requests share a key (routes.py, INDEX_SQL) exactly when the
\* database would be asked the same for both, or they are confused in one of
\* these ways.
THEOREM IndexKeysCollide ==
  \A q1, q2 \in IndexQuery :
      /\ KeyOf(q1) = KeyOf(q2) <=> (Alike(q1, q2) \/ IndexConfused(q1, q2))
      /\ ~ (Alike(q1, q2) /\ IndexConfused(q1, q2))
<1> SUFFICES ASSUME NEW q1 \in IndexQuery, NEW q2 \in IndexQuery
             PROVE  /\ KeyOf(q1) = KeyOf(q2) <=> (Alike(q1, q2) \/ IndexConfused(q1, q2))
                    /\ ~ (Alike(q1, q2) /\ IndexConfused(q1, q2))
  OBVIOUS
<1> DEFINE w1 == q1.workload
           w2 == q2.workload
           n1 == q1.limit
           n2 == q2.limit
           p1 == OrElse(q1.precision, <<"any">>)
           p2 == OrElse(q2.precision, <<"any">>)
<1>1. q1.route = "index" /\ q2.route = "index"
  BY QueryFields
<1>2. /\ w1 \in Optional /\ w2 \in Optional /\ p1 \in Optional /\ p2 \in Optional
      /\ n1 \in Optional /\ n2 \in Optional /\ Len(n1) = 1 /\ Len(n2) = 1
  BY QueryFields, Literals DEF OrElse
<1>3. KeyOf(q1) = KeyOf(q2) <=> Cat(w1, p1) = Cat(w2, p2) /\ n1 = n2
  <2>1. KeyOf(q1) = KeyOf(q2) <=> Join(w1, p1, n1) = Join(w2, p2, n2)
    BY <1>1 DEF KeyOf, IndexKey
  <2> HIDE DEF w1, w2, n1, n2, p1, p2
  <2>2. Cat(w1, p1) = Cat(w2, p2) /\ n1 = n2 => Join(w1, p1, n1) = Join(w2, p2, n2)
    BY Zenon DEF Join, Cat
  <2>3. Join(w1, p1, n1) = Join(w2, p2, n2) => Cat(w1, p1) = Cat(w2, p2) /\ n1 = n2
    BY <1>2, LastCut
  <2>4. QED
    BY <2>1, <2>2, <2>3
<1>4. p1 = p2 <=> q1.precision = q2.precision \/ (Blank(q1.precision) /\ Blank(q2.precision))
  BY Literals DEF OrElse, Blank
<1>5. Alike(q1, q2) <=> w1 = w2 /\ n1 = n2 /\ q1.precision = q2.precision
  <2>1. Alike(q1, q2) <=> IndexMeaning(q1) = IndexMeaning(q2)
    BY <1>1 DEF Alike, Meaning
  <2>2. QED
    BY <2>1 DEF IndexMeaning
<1>6. IndexConfused(q1, q2) <=>
        /\ n1 = n2
        /\ \/ w1 = w2 /\ Blank(q1.precision) /\ Blank(q2.precision) /\ q1.precision # q2.precision
           \/ Begins(w1, p1, w2, p2)
           \/ Begins(w2, p2, w1, p1)
  BY Zenon DEF IndexConfused, Swallows
<1> HIDE DEF w1, w2, n1, n2, p1, p2
<1>7. Cat(w1, p1) = Cat(w2, p2) <=> \/ w1 = w2 /\ p1 = p2
                                    \/ Begins(w1, p1, w2, p2)
                                    \/ Begins(w2, p2, w1, p1)
  BY <1>2, Cuts
<1>8. Begins(w1, p1, w2, p2) \/ Begins(w2, p2, w1, p1) => w1 # w2
  <2>1. Begins(w1, p1, w2, p2) => Len(w2) < Len(w1)
    BY <1>2, BeginsJoins
  <2>2. Begins(w2, p2, w1, p1) => Len(w1) < Len(w2)
    BY <1>2, BeginsJoins
  <2>3. Len(w1) \in Nat
    BY <1>2, LenProperties DEF Optional
  <2>4. QED
    BY <2>1, <2>2, <2>3
<1>9. QED
  BY <1>3, <1>4, <1>5, <1>6, <1>7, <1>8

-----------------------------------------------------------------------------
\* A plain filter is not blank but when it is left out.
LEMMA PlainIsNotBlank ==
  ASSUME NEW text, NEW default, default \in {<<"all">>, <<"any">>},
         PlainFilter(text, default), Falsy(text) \/ text = default
  PROVE  text = Missing
BY Literals DEF PlainFilter, Falsy

\* A workload of one segment begins no other of one segment.
LEMMA PlainDoesNotSwallow ==
  ASSUME NEW q1 \in IndexQuery, NEW q2 \in IndexQuery,
         q1.workload \in Number, q2.workload \in Number
  PROVE  ~ Swallows(q1, q2)
<1> DEFINE w1 == q1.workload
           w2 == q2.workload
           p1 == OrElse(q1.precision, <<"any">>)
           p2 == OrElse(q2.precision, <<"any">>)
<1>1. /\ w1 \in Optional /\ w2 \in Optional /\ p1 \in Optional /\ p2 \in Optional
      /\ Len(w1) = 1 /\ Len(w2) = 1
  BY QueryFields, Literals DEF OrElse, Number
<1>2. SUFFICES ~ Begins(w1, p1, w2, p2)
  BY DEF Swallows
<1> HIDE DEF w1, w2, p1, p2
<1>3. QED
  BY <1>1, BeginsJoins

\* Requests without colons, empty texts and the literals "all" and "any" never
\* share a cache key (app/api/v1/routes.py builds it) unless the database would
\* be asked the same for both.
THEOREM PlainKeysFaithful ==
  ASSUME NEW Q, \A q \in Q : Plain(q)
  PROVE  KeysFaithful(Q)
<1> SUFFICES ASSUME NEW q1 \in Q, NEW q2 \in Q, KeyOf(q1) = KeyOf(q2)
             PROVE  Alike(q1, q2)
  BY DEF KeysFaithful
<1>1. Plain(q1) /\ Plain(q2)
  OBVIOUS
<1>2. \/ q1 \in PriceQuery /\ q2 \in PriceQuery
      \/ q1 \in IndexQuery /\ q2 \in IndexQuery
  BY <1>1, QueryFields DEF Plain, KeyOf, PriceKey, IndexKey
<1>3. CASE q1 \in PriceQuery /\ q2 \in PriceQuery
  <2>1. PlainFilter(q1.availability, <<"all">>) /\ PlainFilter(q2.availability, <<"all">>)
    BY <1>1, <1>3, QueryFields DEF Plain
  <2>2. ~ PriceConfused(q1, q2)
    BY <2>1, PlainIsNotBlank, Literals DEF PriceConfused, PlainFilter, Falsy
  <2>3. QED
    BY <1>3, <2>2, PriceKeysCollide
<1>4. CASE q1 \in IndexQuery /\ q2 \in IndexQuery
  <2>1. /\ PlainFilter(q1.precision, <<"any">>) /\ PlainFilter(q2.precision, <<"any">>)
        /\ q1.workload \in Number /\ q2.workload \in Number
    BY <1>1, <1>4, QueryFields DEF Plain
  <2>2. ~ IndexConfused(q1, q2)
    <3>1. ~ Swallows(q1, q2) /\ ~ Swallows(q2, q1)
      BY <1>4, <2>1, PlainDoesNotSwallow
    <3>2. Blank(q1.precision) /\ Blank(q2.precision) => q1.precision = q2.precision
      BY <2>1, PlainIsNotBlank DEF Blank
    <3>3. QED
      BY <3>1, <3>2 DEF IndexConfused
  <2>3. QED
    BY <1>4, <2>2, IndexKeysCollide
<1>5. QED
  BY <1>2, <1>3, <1>4
=============================================================================
