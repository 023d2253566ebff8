------------------------------ MODULE CacheKeys ------------------------------
(***************************************************************************)
(* The Redis keys that the two cached routes build, and the database       *)
(* question each of them stands for.                                       *)
(*                                                                         *)
(* A text is the sequence of its colon-free segments, so that joining      *)
(* texts with ':' is concatenation: "a" is <<"a">>, "a:b" is <<"a", "b">>, *)
(* the empty string is <<"">>.  A query parameter the client left out      *)
(* (Python's None) is the empty sequence.                                  *)
(***************************************************************************)
EXTENDS Naturals, Sequences

CONSTANT Segments  \* the colon-free strings

ASSUME SegmentsAssumption == {"", "all", "any"} \subseteq Segments

Missing == <<>>
EmptyText == <<"">>
Text == Seq(Segments) \ {Missing}
Optional == Seq(Segments)
Number == {t \in Text : Len(t) = 1}

\* Python's truth value of a str | None, and `text or default`.
Falsy(text) == text \in {Missing, EmptyText}
OrElse(text, default) == IF Falsy(text) THEN default ELSE text

\* GET /v1/gpus/{gpu}/prices and GET /v1/index/{workload}.  The integers are
\* kept as the segment they are printed as.
PriceQuery == [route: {"prices"}, gpu: Number, availability: Optional, window: Number]
IndexQuery == [route: {"index"}, workload: Text, precision: Optional, limit: Number]

\* What follows the prefix, f"{a}:{b}:{c}".
Join(a, b, c) == a \o b \o c

\* Slip: a key that forgets window_days.
PriceKeyWithoutWindow(q) ==
    [prefix |-> "prices", rest |-> q.gpu \o OrElse(q.availability, <<"all">>)]

PriceKey(q) ==
    [prefix |-> "prices",
     rest   |-> Join(q.gpu, OrElse(q.availability, <<"all">>), q.window)]

IndexKey(q) ==
    [prefix |-> "index",
     rest   |-> Join(q.workload, OrElse(q.precision, <<"any">>), q.limit)]

KeyOf(q) == IF q.route = "prices" THEN PriceKey(q) ELSE IndexKey(q)

\* latest_prices adds its availability clause only when the parameter is truthy.
PriceMeaning(q) ==
    [gpu |-> q.gpu, window |-> q.window,
     filter |-> IF Falsy(q.availability) THEN Missing ELSE q.availability]

\* INDEX_SQL drops its precision filter only for NULL: '' filters for ''.
IndexMeaning(q) ==
    [workload |-> q.workload, limit |-> q.limit, filter |-> q.precision]

Meaning(q) ==
    [route |-> q.route,
     asks  |-> IF q.route = "prices" THEN PriceMeaning(q) ELSE IndexMeaning(q)]

\* Two requests that the database would be asked the same question for.
Alike(q1, q2) == Meaning(q1) = Meaning(q2)

\* No two of the queries share a key and differ in what they ask.
KeysFaithful(Q) == \A q1, q2 \in Q : KeyOf(q1) = KeyOf(q2) => Alike(q1, q2)

\* The requests the documentation shows: no text is empty, has a colon in it,
\* or is the literal that stands in the key for a filter left out.
PlainFilter(text, default) ==
    text = Missing \/ (text \in Number /\ text \notin {EmptyText, default})
Plain(q) ==
    \/ q \in PriceQuery /\ PlainFilter(q.availability, <<"all">>)
    \/ q \in IndexQuery /\ PlainFilter(q.precision, <<"any">>) /\ q.workload \in Number
=============================================================================
