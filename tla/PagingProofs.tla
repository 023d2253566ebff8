----------------------------- MODULE PagingProofs ----------------------------
(***************************************************************************)
(* Proofs about Paging, for any walks, ingests, dates and page sizes.      *)
(***************************************************************************)
EXTENDS Paging, TLAPS

\* The order of the history is a strict order, total on rows with distinct ids.
LEMMA StrictOrder ==
    \A r, s, u \in Row :
        /\ ~ Precedes(r, r)
        /\ Precedes(r, s) /\ Precedes(s, u) => Precedes(r, u)
        /\ r.id # s.id => Precedes(r, s) \/ Precedes(s, r)
<1> TAKE r, s, u \in Row
<1>1. /\ r.at \in Int /\ s.at \in Int /\ u.at \in Int
      /\ r.id \in Nat /\ s.id \in Nat /\ u.id \in Nat
  BY TimesAssumption DEF Row
<1>2. QED
  BY <1>1 DEF Precedes

-----------------------------------------------------------------------------
\* The inductive invariant.  The unique ids of TypeOK are what makes the order of
\* the rows total.

\* What a walk has been served is in the table, and its cursor is the last of it.
CursorLast ==
    \A w \in Walks :
        /\ Served(w) \subseteq table
        /\ phase[w] = "new" => cursor[w] = {} /\ Served(w) = {}
        /\ phase[w] = "more" => \E last \in Served(w) :
              /\ cursor[w] = {last}
              /\ \A r \in Served(w) \ {last} : Precedes(r, last)

\* What a walk has been neither served nor come too late for lies ahead of it.
Ahead ==
    \A w \in Walks : \A r \in table \ (Served(w) \cup late[w]) :
        phase[w] # "done" /\ \A s \in cursor[w] : Precedes(s, r)

\* A row that came too late for a walk lies behind it, and stays there.
Behind ==
    \A w \in Walks : \A r \in late[w] : r \in table /\ r \notin Served(w) /\ Passed(w, r)

WalkInv == TypeOK /\ CursorLast /\ Ahead /\ Behind /\ PagesDescend

\* Nothing has been inserted or served when the system starts.
LEMMA WalkInit == Init => WalkInv
BY DEF Init, WalkInv, TypeOK, UniqueIds, CursorLast, Ahead, Behind, PagesDescend, Served

-----------------------------------------------------------------------------
\* The rows an ingest inserts have ids nothing else has.
LEMMA InsertStep ==
    ASSUME WalkInv, NEW b \in Batches, Insert(b)
    PROVE  WalkInv'
<1> USE DEF WalkInv
<1>a. PICK n \in 1..MaxBatch : \E at \in [1..n -> Times] :
         /\ pending' = [pending EXCEPT ![b] = {[at |-> at[k], id |-> seq + k] : k \in 1..n}]
         /\ seq' = seq + n
  BY DEF Insert
<1>1. PICK at \in [1..n -> Times] :
         /\ pending' = [pending EXCEPT ![b] = {[at |-> at[k], id |-> seq + k] : k \in 1..n}]
         /\ seq' = seq + n
  BY <1>a
<1>2. /\ UNCHANGED <<table, cursor, phase, page, earlier, late>>
      /\ batch' \in [Batches -> {"idle", "open", "over"}]
  BY DEF Insert, walkVars, TypeOK
<1>3. n \in Nat \ {0} /\ seq \in Nat /\ seq' \in Nat /\ seq' >= seq
  BY <1>1, SizesAssumption DEF TypeOK
<1>4. \A r \in pending'[b] : r \in Row /\ r.id \in seq + 1 .. seq'
  <2> SUFFICES ASSUME NEW r \in pending'[b] PROVE r \in Row /\ r.id \in seq + 1 .. seq'
    OBVIOUS
  <2>1. PICK k \in 1..n : r = [at |-> at[k], id |-> seq + k]
    BY <1>1 DEF TypeOK
  <2>2. at[k] \in Times /\ seq + k \in Nat
    BY <1>3
  <2>3. QED
    BY <2>1, <2>2, <1>1, <1>3 DEF Row
<1>5. \A c \in Batches : c # b => pending'[c] = pending[c]
  BY <1>1 DEF TypeOK
<1>6. pending' \in [Batches -> SUBSET Row]
  BY <1>1, <1>4, <1>5 DEF TypeOK
<1>7. \A r \in table : r.id \in 1..seq /\ r.id \in 1..seq'
  BY <1>3 DEF TypeOK
<1>8. \A c \in Batches : c # b => \A r \in pending[c] : r.id \in 1..seq /\ r.id \in 1..seq'
  BY <1>3 DEF TypeOK
<1>9. ASSUME UniqueIds' PROVE TypeOK'
  <2>1. \A c \in Batches : \A r \in pending'[c] : r.id \in 1..seq'
    BY <1>3, <1>4, <1>5, <1>8
  <2>2. \A r \in table' \cup UNION {pending'[c] : c \in Batches} : r.id \in 1..seq'
    BY <2>1, <1>2, <1>7
  <2>3. QED
    BY <2>2, <1>2, <1>3, <1>6, <1>9 DEF TypeOK
<1>10. UniqueIds'
  <2> SUFFICES ASSUME NEW c \in Batches, NEW r \in pending'[c]
               PROVE  /\ \A s \in pending'[c] : r.id = s.id => r = s
                      /\ \A s \in table : r.id # s.id
                      /\ \A d \in Batches \ {c} : \A s \in pending'[d] : r.id # s.id
    BY <1>2 DEF UniqueIds, TypeOK
  <2>1. CASE c = b
    <3>1. \A s \in pending'[b] : r.id = s.id => r = s
      <4> SUFFICES ASSUME NEW s \in pending'[b], r.id = s.id PROVE r = s
        OBVIOUS
      <4>1. \E k \in 1..n : r = [at |-> at[k], id |-> seq + k]
        BY <2>1, <1>1 DEF TypeOK
      <4>2. \E k \in 1..n : s = [at |-> at[k], id |-> seq + k]
        BY <1>1 DEF TypeOK
      <4>3. QED
        BY <4>1, <4>2, <1>3
    <3>2. QED
      BY <2>1, <3>1, <1>3, <1>4, <1>5, <1>7, <1>8
  <2>2. CASE c # b
    BY <2>2, <1>3, <1>4, <1>5, <1>8 DEF UniqueIds, TypeOK
  <2>3. QED
    BY <2>1, <2>2
<1>11. CursorLast' /\ Ahead' /\ Behind' /\ PagesDescend'
  BY <1>2 DEF CursorLast, Ahead, Behind, Passed, PagesDescend, Served
<1>12. QED
  BY <1>9, <1>10, <1>11

\* A commit puts each new row ahead of a walk, or the walk is late for it.
LEMMA CommitStep ==
    ASSUME WalkInv, NEW b \in Batches, Commit(b)
    PROVE  WalkInv'
<1> USE DEF WalkInv
<1>1. /\ table' = table \cup pending[b]
      /\ late' = [w \in Walks |-> late[w] \cup {r \in pending[b] : Passed(w, r)}]
      /\ pending' = [pending EXCEPT ![b] = {}]
      /\ batch' = [batch EXCEPT ![b] = "over"]
      /\ UNCHANGED <<seq, cursor, phase, page, earlier>>
  BY DEF Commit, walkVars
<1>2. /\ pending'[b] = {} /\ \A c \in Batches : c # b => pending'[c] = pending[c]
      /\ pending' \in [Batches -> SUBSET Row] /\ pending[b] \subseteq Row /\ table \subseteq Row
  BY <1>1 DEF TypeOK
<1>3. UniqueIds'
  BY <1>1, <1>2 DEF UniqueIds, TypeOK
<1>4. TypeOK'
  <2>1. \A r \in table' \cup UNION {pending'[c] : c \in Batches} : r.id \in 1..seq
    BY <1>1, <1>2 DEF TypeOK
  <2>2. late' \in [Walks -> SUBSET Row]
    BY <1>1, <1>2 DEF TypeOK
  <2>3. QED
    BY <2>1, <2>2, <1>1, <1>2, <1>3 DEF TypeOK
<1>5. CursorLast' /\ PagesDescend'
  BY <1>1 DEF CursorLast, PagesDescend, Served
<1>6. Ahead'
  <2> SUFFICES ASSUME NEW w \in Walks, NEW r \in table' \ (Served(w) \cup late'[w])
               PROVE  phase[w] # "done" /\ \A s \in cursor[w] : Precedes(s, r)
    BY <1>1 DEF Ahead, Served
  <2>1. CASE r \in table
    BY <2>1, <1>1 DEF Ahead
  <2>2. CASE r \in pending[b]
    <3>1. phase[w] # "done" /\ \A s \in Served(w) : ~ Precedes(r, s)
      BY <2>2, <1>1 DEF Passed
    <3>2. cursor[w] \subseteq Served(w) /\ Served(w) \subseteq table
      BY <3>1 DEF CursorLast, TypeOK
    <3>3. \A s \in cursor[w] : s \in Row /\ s.id # r.id /\ r \in Row
      BY <3>2, <2>2, <1>2 DEF UniqueIds, TypeOK
    <3>4. \A s \in cursor[w] : Precedes(s, r)
      BY <3>1, <3>2, <3>3, StrictOrder
    <3>5. QED
      BY <3>1, <3>4
  <2>3. QED
    BY <2>1, <2>2, <1>1
<1>7. Behind'
  <2> SUFFICES ASSUME NEW w \in Walks, NEW r \in late'[w]
               PROVE  r \in table' /\ r \notin Served(w) /\ Passed(w, r)
    BY <1>1 DEF Behind, Served, Passed
  <2>1. CASE r \in late[w]
    BY <2>1, <1>1 DEF Behind
  <2>2. CASE r \in pending[b] /\ Passed(w, r)
    <3>1. r \notin table
      BY <2>2 DEF UniqueIds, TypeOK
    <3>2. QED
      BY <2>2, <3>1, <1>1 DEF CursorLast
  <2>3. QED
    BY <2>1, <2>2, <1>1
<1>8. QED
  BY <1>3, <1>4, <1>5, <1>6, <1>7

\* An aborted transaction takes its rows with it.
LEMMA AbortStep ==
    ASSUME WalkInv, NEW b \in Batches, Abort(b)
    PROVE  WalkInv'
<1> USE DEF WalkInv
<1>1. /\ pending' = [pending EXCEPT ![b] = {}]
      /\ batch' = [batch EXCEPT ![b] = "over"]
      /\ UNCHANGED <<seq, table, cursor, phase, page, earlier, late>>
  BY DEF Abort, walkVars
<1>2. /\ pending'[b] = {} /\ \A c \in Batches : c # b => pending'[c] = pending[c]
      /\ pending' \in [Batches -> SUBSET Row]
  BY <1>1 DEF TypeOK
<1>3. TypeOK'
  BY <1>1, <1>2 DEF TypeOK, UniqueIds
<1>4. CursorLast' /\ Ahead' /\ Behind' /\ PagesDescend'
  BY <1>1 DEF CursorLast, Ahead, Behind, Passed, PagesDescend, Served
<1>5. QED
  BY <1>3, <1>4

-----------------------------------------------------------------------------
\* Every row beyond the cursor comes after every row served.
LEMMA BeyondServed ==
    ASSUME WalkInv, NEW w \in Walks, phase[w] # "done"
    PROVE  \A r \in Beyond(cursor[w]), s \in Served(w) : Precedes(s, r)
<1> SUFFICES ASSUME NEW r \in Beyond(cursor[w]), NEW s \in Served(w) PROVE Precedes(s, r)
  OBVIOUS
<1> USE DEF WalkInv
<1>1. phase[w] = "more"
  BY DEF CursorLast, TypeOK
<1>2. PICK last \in Served(w) : /\ cursor[w] = {last}
                               /\ \A u \in Served(w) \ {last} : Precedes(u, last)
  BY <1>1 DEF CursorLast
<1>3. r \in Row /\ s \in Row /\ last \in Row /\ Precedes(last, r)
  BY <1>2 DEF CursorLast, TypeOK, Beyond
<1>4. CASE s = last
  BY <1>4, <1>3
<1>5. CASE s # last
  BY <1>5, <1>2, <1>3, StrictOrder
<1>6. QED
  BY <1>4, <1>5

\* What serving a page P of the rows beyond the cursor keeps, whatever the
\* next cursor is.
LEMMA ShowKeeps ==
    ASSUME WalkInv, NEW w \in Walks, phase[w] # "done",
           NEW P \in SUBSET Beyond(cursor[w]), Show(w, P)
    PROVE  /\ UNCHANGED <<seq, batch, pending, table, late>>
           /\ page' \in [Walks -> SUBSET Row] /\ earlier' \in [Walks -> SUBSET Row]
           /\ page'[w] = P /\ earlier'[w] = Served(w) /\ P \subseteq table
           /\ \A v \in Walks : v # w => page'[v] = page[v] /\ earlier'[v] = earlier[v]
           /\ \A r \in late[w] : r \notin P /\ \E s \in Served(w) : Precedes(r, s)
           /\ PagesDescend'
<1> USE DEF WalkInv
<1>1. P \subseteq table /\ table \subseteq Row /\ Served(w) \subseteq Row
  BY DEF Beyond, TypeOK, Served
<1>2. /\ UNCHANGED <<seq, batch, pending, table, late>>
      /\ page' \in [Walks -> SUBSET Row] /\ earlier' \in [Walks -> SUBSET Row]
      /\ page'[w] = P /\ earlier'[w] = Served(w)
      /\ \A v \in Walks : v # w => page'[v] = page[v] /\ earlier'[v] = earlier[v]
  BY <1>1 DEF Show, ingestVars, TypeOK
<1>3. PagesDescend'
  BY <1>2, BeyondServed DEF PagesDescend
<1>4. \A r \in late[w] : r \notin P /\ \E s \in Served(w) : Precedes(r, s)
  <2> SUFFICES ASSUME NEW r \in late[w]
               PROVE  r \notin P /\ \E s \in Served(w) : Precedes(r, s)
    OBVIOUS
  <2>1. PICK s \in Served(w) : Precedes(r, s)
    BY DEF Behind, Passed
  <2>2. r \in Row /\ s \in Row
    BY <1>1 DEF Behind
  <2>3. ~ Precedes(s, r)
    BY <2>1, <2>2, StrictOrder
  <2>4. r \notin P
    BY <2>3, BeyondServed
  <2>5. QED
    BY <2>1, <2>4
<1>5. QED
  BY <1>1, <1>2, <1>3, <1>4

\* A full page: its last row is the last of all served, and what is beyond the
\* old cursor and not on the page is beyond that row.
LEMMA FullPageStep ==
    ASSUME WalkInv, NEW w \in Walks, FullPage(w)
    PROVE  WalkInv'
<1> USE DEF WalkInv
<1>1. PICK P \in SUBSET Beyond(cursor[w]) :
         /\ FirstRows(P, Beyond(cursor[w]))
         /\ \E last \in P : /\ \A r \in P \ {last} : Precedes(r, last)
                            /\ cursor' = [cursor EXCEPT ![w] = {last}]
         /\ Show(w, P)
  BY DEF FullPage
<1>2. PICK last \in P : /\ \A r \in P \ {last} : Precedes(r, last)
                        /\ cursor' = [cursor EXCEPT ![w] = {last}]
  BY <1>1
<1>3. phase[w] # "done" /\ phase' = [phase EXCEPT ![w] = "more"]
  BY DEF FullPage
<1>4. /\ UNCHANGED <<seq, batch, pending, table, late>>
      /\ page' \in [Walks -> SUBSET Row] /\ earlier' \in [Walks -> SUBSET Row]
      /\ page'[w] = P /\ earlier'[w] = Served(w) /\ P \subseteq table
      /\ \A v \in Walks : v # w => page'[v] = page[v] /\ earlier'[v] = earlier[v]
      /\ \A r \in late[w] : r \notin P /\ \E s \in Served(w) : Precedes(r, s)
      /\ PagesDescend'
  BY <1>1, <1>3, ShowKeeps
<1>5. /\ last \in Row
      /\ cursor' \in [Walks -> SUBSET Row] /\ cursor'[w] = {last}
      /\ phase' \in [Walks -> {"new", "more", "done"}] /\ phase'[w] = "more"
      /\ \A v \in Walks : v # w => cursor'[v] = cursor[v] /\ phase'[v] = phase[v]
  <2>1. last \in Row
    BY <1>4 DEF TypeOK
  <2>2. QED
    BY <2>1, <1>2, <1>3 DEF TypeOK
<1>6. UniqueIds'
  BY <1>4 DEF UniqueIds, TypeOK
<1>7. TypeOK'
  BY <1>4, <1>5, <1>6 DEF TypeOK
<1>8. /\ Served(w)' = Served(w) \cup P
      /\ \A v \in Walks : v # w => Served(v)' = Served(v)
  BY <1>4 DEF Served
<1>9. CursorLast'
  <2> SUFFICES ASSUME NEW v \in Walks
               PROVE  /\ Served(v)' \subseteq table
                      /\ phase'[v] = "new" => cursor'[v] = {} /\ Served(v)' = {}
                      /\ phase'[v] = "more" => \E l \in Served(v)' :
                            /\ cursor'[v] = {l}
                            /\ \A r \in Served(v)' \ {l} : Precedes(r, l)
    BY <1>4 DEF CursorLast
  <2>1. CASE v = w
    <3>1. \A r \in Served(w) : Precedes(r, last)
      BY <1>3, BeyondServed
    <3>2. last \in Served(v)' /\ \A r \in Served(v)' \ {last} : Precedes(r, last)
      BY <2>1, <3>1, <1>2, <1>8
    <3>3. Served(v)' \subseteq table
      BY <2>1, <1>4, <1>8 DEF CursorLast
    <3>4. QED
      BY <2>1, <3>2, <3>3, <1>5
  <2>2. CASE v # w
    BY <2>2, <1>5, <1>8 DEF CursorLast
  <2>3. QED
    BY <2>1, <2>2
<1>10. Ahead'
  <2> SUFFICES ASSUME NEW v \in Walks, NEW r \in table \ (Served(v)' \cup late[v])
               PROVE  phase'[v] # "done" /\ \A s \in cursor'[v] : Precedes(s, r)
    BY <1>4 DEF Ahead
  <2>1. CASE v = w
    <3>1. r \in Beyond(cursor[w])
      BY <2>1, <1>8 DEF Ahead, Beyond
    <3>2. r \notin P
      BY <2>1, <1>8
    <3>3. Precedes(last, r)
      BY <3>1, <3>2, <1>1 DEF FirstRows
    <3>4. QED
      BY <2>1, <3>3, <1>5
  <2>2. CASE v # w
    BY <2>2, <1>5, <1>8 DEF Ahead
  <2>3. QED
    BY <2>1, <2>2
<1>11. Behind'
  <2> SUFFICES ASSUME NEW v \in Walks, NEW r \in late[v]
               PROVE  r \in table /\ r \notin Served(v)' /\ Passed(v, r)'
    BY <1>4 DEF Behind
  <2>1. CASE v = w
    BY <2>1, <1>4, <1>8 DEF Behind, Passed
  <2>2. CASE v # w
    BY <2>2, <1>5, <1>8 DEF Behind, Passed
  <2>3. QED
    BY <2>1, <2>2
<1>12. QED
  BY <1>4, <1>7, <1>9, <1>10, <1>11

\* A short page holds everything beyond the cursor.
LEMMA ShortPageStep ==
    ASSUME WalkInv, NEW w \in Walks, ShortPage(w)
    PROVE  WalkInv'
<1> USE DEF WalkInv
<1> DEFINE P == Beyond(cursor[w])
<1>1. /\ phase[w] # "done" /\ Show(w, P)
      /\ cursor' = [cursor EXCEPT ![w] = {}]
      /\ phase' = [phase EXCEPT ![w] = "done"]
  BY DEF ShortPage
<1>2. /\ UNCHANGED <<seq, batch, pending, table, late>>
      /\ page' \in [Walks -> SUBSET Row] /\ earlier' \in [Walks -> SUBSET Row]
      /\ page'[w] = P /\ earlier'[w] = Served(w) /\ P \subseteq table
      /\ \A v \in Walks : v # w => page'[v] = page[v] /\ earlier'[v] = earlier[v]
      /\ \A r \in late[w] : r \notin P /\ \E s \in Served(w) : Precedes(r, s)
      /\ PagesDescend'
  BY <1>1, ShowKeeps
<1>3. /\ cursor' \in [Walks -> SUBSET Row] /\ cursor'[w] = {}
      /\ phase' \in [Walks -> {"new", "more", "done"}] /\ phase'[w] = "done"
      /\ \A v \in Walks : v # w => cursor'[v] = cursor[v] /\ phase'[v] = phase[v]
  BY <1>1 DEF TypeOK
<1>4. UniqueIds'
  BY <1>2 DEF UniqueIds, TypeOK
<1>5. TypeOK'
  BY <1>2, <1>3, <1>4 DEF TypeOK
<1>6. /\ Served(w)' = Served(w) \cup P
      /\ \A v \in Walks : v # w => Served(v)' = Served(v)
  BY <1>2 DEF Served
<1>7. CursorLast'
  BY <1>2, <1>3, <1>6 DEF CursorLast
<1>8. Ahead'
  <2> SUFFICES ASSUME NEW v \in Walks, NEW r \in table \ (Served(v)' \cup late[v])
               PROVE  phase'[v] # "done" /\ \A s \in cursor'[v] : Precedes(s, r)
    BY <1>2 DEF Ahead
  <2>1. v # w
    BY <1>6 DEF Ahead, Beyond
  <2>2. QED
    BY <2>1, <1>3, <1>6 DEF Ahead
<1>9. Behind'
  <2> SUFFICES ASSUME NEW v \in Walks, NEW r \in late[v]
               PROVE  r \in table /\ r \notin Served(v)' /\ Passed(v, r)'
    BY <1>2 DEF Behind
  <2>1. CASE v = w
    BY <2>1, <1>2, <1>6 DEF Behind, Passed
  <2>2. CASE v # w
    BY <2>2, <1>3, <1>6 DEF Behind, Passed
  <2>3. QED
    BY <2>1, <2>2
<1>10. QED
  BY <1>2, <1>5, <1>7, <1>8, <1>9

\* Every step keeps the invariant.
LEMMA WalkStep == WalkInv /\ [Next]_vars => WalkInv'
<1> SUFFICES ASSUME WalkInv, [Next]_vars PROVE WalkInv'
  OBVIOUS
<1>1. ASSUME NEW b \in Batches, Insert(b) \/ Commit(b) \/ Abort(b) PROVE WalkInv'
  BY <1>1, InsertStep, CommitStep, AbortStep
<1>2. ASSUME NEW w \in Walks, FullPage(w) \/ ShortPage(w) PROVE WalkInv'
  BY <1>2, FullPageStep, ShortPageStep
<1>3. CASE UNCHANGED vars
  BY <1>3 DEF WalkInv, vars, TypeOK, UniqueIds, CursorLast, Ahead, Behind, Passed, PagesDescend, Served
<1>4. QED
  BY <1>1, <1>2, <1>3 DEF Next

\* The invariant holds throughout.
LEMMA WalkInvariant == Spec => []WalkInv
BY WalkInit, WalkStep, PTL DEF Spec

\* Type correctness, and with it that no id is handed out twice, in whatever order
\* ingests insert, commit and fail.
THEOREM TypeCorrect == Spec => []TypeOK
<1>1. WalkInv => TypeOK
  BY DEF WalkInv
<1>2. QED
  BY <1>1, WalkInvariant, PTL

\* The pages of a walk go strictly down the history: no overlap, no disorder.
THEOREM PagesDescendHolds == Spec => []PagesDescend
<1>1. WalkInv => PagesDescend
  BY DEF WalkInv
<1>2. QED
  BY <1>1, WalkInvariant, PTL

\* A finished walk has returned every row but those that came too late for it,
\* and none of those.
THEOREM WalkExactHolds == Spec => []WalkExact
<1>1. WalkInv => WalkExact
  BY DEF WalkInv, Ahead, Behind, CursorLast, WalkExact
<1>2. QED
  BY <1>1, WalkInvariant, PTL
=============================================================================
