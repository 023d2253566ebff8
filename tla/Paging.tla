------------------------------- MODULE Paging --------------------------------
(***************************************************************************)
(* The keyset walk of GET /v1/gpus/{id}/prices/history over the            *)
(* observations of one GPU, while ingests add observations of any date     *)
(* under it.  The server keeps nothing between pages: cursor is what the   *)
(* client was given, and a request that fails or whose answer is lost      *)
(* leaves the walk where it was.                                           *)
(***************************************************************************)
EXTENDS Integers, FiniteSets

CONSTANTS Walks,     \* the clients' walks
          Batches,   \* the ingests
          Times,     \* values of observed_at
          MaxLimit,  \* the largest limit a client may ask for
          MaxBatch   \* the largest number of rows of one ingest

ASSUME TimesAssumption == Times \subseteq Int
ASSUME SizesAssumption == MaxLimit \in Nat \ {0} /\ MaxBatch \in Nat \ {0}

VARIABLES
    seq,      \* the last id the table's sequence has handed out
    batch,    \* where each ingest is
    pending,  \* the rows each ingest has inserted and not committed
    table,    \* the committed rows
    cursor,   \* the next_cursor each walk holds: one row, or none
    phase,    \* whether each walk has begun, goes on or is over
    page,     \* the rows of the walk's last page
    earlier,  \* history: the rows of the walk's pages before that
    late      \* history: rows committed when the walk had passed their place

ingestVars == <<seq, batch, pending, table>>
walkVars   == <<cursor, phase, page, earlier>>
vars == <<seq, batch, pending, table, cursor, phase, page, earlier, late>>

Row == [at: Times, id: Nat]

\* ORDER BY observed_at DESC, id DESC.
Precedes(r, s) == r.at > s.at \/ (r.at = s.at /\ r.id > s.id)

Init ==
    /\ seq = 0
    /\ batch = [b \in Batches |-> "idle"]
    /\ pending = [b \in Batches |-> {}]
    /\ table = {}
    /\ cursor = [w \in Walks |-> {}]
    /\ phase = [w \in Walks |-> "new"]
    /\ page = [w \in Walks |-> {}]
    /\ earlier = [w \in Walks |-> {}]
    /\ late = [w \in Walks |-> {}]

-----------------------------------------------------------------------------
\* The ingests.

\* Slip: ids that go on from the highest one the ingest sees, with no sequence.
InsertReusing(b) ==
    /\ batch[b] = "idle"
    /\ \E n \in 1..MaxBatch, top \in 0..seq : \E at \in [1..n -> Times] :
          /\ top = 0 \/ top \in {r.id : r \in table}
          /\ \A r \in table : r.id <= top
          /\ pending' = [pending EXCEPT ![b] = {[at |-> at[k], id |-> top + k] : k \in 1..n}]
          /\ seq' = IF seq < top + n THEN top + n ELSE seq
    /\ batch' = [batch EXCEPT ![b] = "open"]
    /\ UNCHANGED <<table, walkVars, late>>

\* INSERT: each row gets the next id of the sequence.
Insert(b) ==
    /\ batch[b] = "idle"
    /\ \E n \in 1..MaxBatch : \E at \in [1..n -> Times] :
          /\ pending' = [pending EXCEPT ![b] = {[at |-> at[k], id |-> seq + k] : k \in 1..n}]
          /\ seq' = seq + n
    /\ batch' = [batch EXCEPT ![b] = "open"]
    /\ UNCHANGED <<table, walkVars, late>>

Served(w) == earlier[w] \cup page[w]

\* The walk will not come by r any more.
Passed(w, r) == phase[w] = "done" \/ \E s \in Served(w) : Precedes(r, s)

\* COMMIT: the rows become visible, in whatever order the ingests commit.
Commit(b) ==
    /\ batch[b] = "open"
    /\ table' = table \cup pending[b]
    /\ late' = [w \in Walks |-> late[w] \cup {r \in pending[b] : Passed(w, r)}]
    /\ pending' = [pending EXCEPT ![b] = {}]
    /\ batch' = [batch EXCEPT ![b] = "over"]
    /\ UNCHANGED <<seq, walkVars>>

\* The transaction fails; its ids are not used again.
Abort(b) ==
    /\ batch[b] = "open"
    /\ pending' = [pending EXCEPT ![b] = {}]
    /\ batch' = [batch EXCEPT ![b] = "over"]
    /\ UNCHANGED <<seq, table, walkVars, late>>

-----------------------------------------------------------------------------
\* The walks.

\* Slips in the cursor clause: `<=` for `<`, and the timestamp alone.
BeyondOrAt(c) == {r \in table : \A s \in c : Precedes(s, r) \/ r = s}
BeyondByTime(c) == {r \in table : \A s \in c : s.at > r.at}

\* WHERE (observed_at, id) < cursor, or the whole history without a cursor.
Beyond(c) == {r \in table : \A s \in c : Precedes(s, r)}

\* LIMIT: the first rows in the order, all of them if there are too few.
FirstRows(P, rows) == P \subseteq rows /\ \A r \in P, s \in rows \ P : Precedes(r, s)

Show(w, P) ==
    /\ page' = [page EXCEPT ![w] = P]
    /\ earlier' = [earlier EXCEPT ![w] = Served(w)]
    /\ UNCHANGED <<ingestVars, late>>

\* price_page with len(rows) == limit: the last row is the next cursor, also
\* when nothing lies beyond it.
FullPage(w) ==
    /\ phase[w] # "done"
    /\ \E limit \in 1..MaxLimit, P \in SUBSET Beyond(cursor[w]) :
          /\ Cardinality(P) = limit
          /\ FirstRows(P, Beyond(cursor[w]))
          /\ \E last \in P : /\ \A r \in P \ {last} : Precedes(r, last)
                             /\ cursor' = [cursor EXCEPT ![w] = {last}]
          /\ Show(w, P)
    /\ phase' = [phase EXCEPT ![w] = "more"]

\* price_page with fewer rows than the limit, perhaps none: no next cursor.
ShortPage(w) ==
    /\ phase[w] # "done"
    /\ \E limit \in 1..MaxLimit : Cardinality(Beyond(cursor[w])) < limit
    /\ Show(w, Beyond(cursor[w]))
    /\ cursor' = [cursor EXCEPT ![w] = {}]
    /\ phase' = [phase EXCEPT ![w] = "done"]

Next ==
    \/ \E b \in Batches : Insert(b) \/ Commit(b) \/ Abort(b)
    \/ \E w \in Walks : FullPage(w) \/ ShortPage(w)

Spec == Init /\ [][Next]_vars

-----------------------------------------------------------------------------
\* No two rows have one id, whichever ingests inserted them and whether or not
\* they are committed.
UniqueIds ==
    /\ \A r, s \in table : r.id = s.id => r = s
    /\ \A b \in Batches : \A r \in pending[b] :
          /\ \A s \in pending[b] : r.id = s.id => r = s
          /\ \A s \in table : r.id # s.id
          /\ \A c \in Batches \ {b} : \A s \in pending[c] : r.id # s.id

\* The types, and that no id is handed out twice.
TypeOK ==
    /\ seq \in Nat
    /\ batch \in [Batches -> {"idle", "open", "over"}]
    /\ pending \in [Batches -> SUBSET Row]
    /\ table \subseteq Row
    /\ \A r \in table \cup UNION {pending[b] : b \in Batches} : r.id \in 1..seq
    /\ UniqueIds
    /\ cursor \in [Walks -> SUBSET Row]
    /\ phase \in [Walks -> {"new", "more", "done"}]
    /\ page \in [Walks -> SUBSET Row]
    /\ earlier \in [Walks -> SUBSET Row]
    /\ late \in [Walks -> SUBSET Row]

\* price_page hands out pages that go strictly down the history, whatever is
\* committed between them and whatever limits they ask: no row comes back on a
\* later page, and none comes back out of order.
PagesDescend ==
    \A w \in Walks : \A s \in earlier[w], r \in page[w] : Precedes(s, r)

\* A walk that is over has returned the rows of the table, except those committed
\* at a place in the order that it had already passed: it skips none of the
\* others, and returns no row that came too late.
WalkExact == \A w \in Walks : phase[w] = "done" => Served(w) = table \ late[w]
=============================================================================
