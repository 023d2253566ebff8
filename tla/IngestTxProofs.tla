--------------------------- MODULE IngestTxProofs ----------------------------
(***************************************************************************)
(* Concurrent ingests have the effect of whole batches applied one at a    *)
(* time, for any ingests, keys and batches.                                *)
(***************************************************************************)
EXTENDS IngestTx, FiniteSetTheorems, WellFoundedInduction, TLAPS

\* Where an ingest is tells what is left of its batch.
Placed ==
    \A i \in Ingests :
        /\ ipc[i] = "idle" => done[i] = 0 /\ i \notin DOMAIN batch
        /\ ipc[i] \in {"empty", "insert", "commit"} => i \in DOMAIN batch
        /\ ipc[i] = "empty" => batch[i] = <<>>
        /\ ipc[i] = "insert" => done[i] < Len(batch[i])
        /\ ipc[i] = "commit" => done[i] = Len(batch[i])

\* A natural key is committed or held by one open transaction, not both.
Unique ==
    \A i \in Ingests :
        /\ DOMAIN holds[i] \cap DOMAIN table = {}
        /\ \A j \in Ingests \ {i} : DOMAIN holds[i] \cap DOMAIN holds[j] = {}

\* A row the INSERT has dealt with is committed or held.
Covered ==
    \A i \in Ingests : ipc[i] \in {"insert", "commit"} =>
        \A n \in 1..done[i] : batch[i][n].key \in DOMAIN table \cup DOMAIN holds[i]

\* What a transaction holds under a key comes from the first row of that key.
FirstRow(i, k) ==
    \E n \in 1..done[i] :
        /\ batch[i][n].key = k
        /\ batch[i][n].price = holds[i][k]
        /\ \A m \in 1..(n - 1) : batch[i][m].key # k
HoldsFirst ==
    \A i \in Ingests : ipc[i] \in {"insert", "commit"} =>
        \A k \in DOMAIN holds[i] : FirstRow(i, k)

IInv == TypeOK /\ Placed /\ Unique /\ Covered /\ HoldsFirst

-----------------------------------------------------------------------------
\* The rows of an admitted batch are rows.
LEMMA RowsOfBatch ==
    ASSUME TypeOK, NEW i \in DOMAIN batch
    PROVE  /\ batch[i] \in Seq(Row)
           /\ \A n \in 1..Len(batch[i]) : batch[i][n] \in Row
<1>1. batch[i] \in Seq(Row)
  BY BatchesAssumption DEF TypeOK
<1> QED
  BY <1>1

\* Before the first request nothing is there.
LEMMA InitHolds == Init => IInv
<1> SUFFICES ASSUME Init PROVE IInv
  OBVIOUS
<1>1. \A i \in Ingests : ipc[i] = "idle" /\ done[i] = 0 /\ DOMAIN holds[i] = {}
  BY DEF Init, Nothing
<1>2. DOMAIN table = {} /\ DOMAIN batch = {}
  BY DEF Init, Nothing
<1>3. TypeOK
  BY <1>1, <1>2 DEF TypeOK, Init, Nothing
<1> QED
  BY <1>1, <1>2, <1>3 DEF IInv, Placed, Unique, Covered, HoldsFirst

\* The first request of an ingest, refused or admitted.
LEMMA ReceiveKeeps ==
    ASSUME IInv, NEW i \in Ingests, Receive(i)
    PROVE  IInv'
<1> USE DEF IInv
<1>1. ipc[i] = "idle" /\ done[i] = 0 /\ i \notin DOMAIN batch /\ holds[i] = Nothing
  BY DEF Receive, Placed, TypeOK
<1>2. /\ done' = done /\ holds' = holds /\ table' = table
  BY DEF Receive
<1>3. \A j \in Ingests \ {i} : ipc'[j] = ipc[j]
  BY DEF Receive, Goto, TypeOK
<1>4. CASE ipc' = [ipc EXCEPT ![i] = "failed"] /\ batch' = batch
  <2>1. ipc'[i] = "failed"
    BY <1>4 DEF TypeOK
  <2>2. TypeOK'
    BY <1>1, <1>2, <1>3, <1>4, <2>1 DEF TypeOK, Over
  <2>3. Placed'
    BY <1>2, <1>3, <1>4, <2>1 DEF Placed
  <2>4. Unique'
    BY <1>2 DEF Unique
  <2>5. Covered' /\ HoldsFirst'
    BY <1>2, <1>3, <1>4, <2>1 DEF Covered, HoldsFirst, FirstRow
  <2> QED
    BY <2>2, <2>3, <2>4, <2>5
<1>5. ASSUME NEW b \in Batches,
             batch' = With(batch, i, b),
             ipc' = [ipc EXCEPT ![i] = IF b = <<>> THEN "empty" ELSE "insert"]
      PROVE  IInv'
  <2>1. /\ DOMAIN batch' = DOMAIN batch \cup {i} /\ batch'[i] = b
        /\ \A j \in DOMAIN batch : batch'[j] = batch[j]
    BY <1>1, <1>5 DEF With
  <2>2. ipc'[i] = IF b = <<>> THEN "empty" ELSE "insert"
    BY <1>5 DEF TypeOK
  <2>3. b \in Seq(Row)
    BY BatchesAssumption
  <2>4. TypeOK'
    <3>1. ipc' \in [Ingests -> {"idle", "empty", "insert", "commit"} \cup Over]
      BY <1>5 DEF TypeOK
    <3>2. DOMAIN batch' \subseteq Ingests /\ \A j \in DOMAIN batch' : batch'[j] \in Batches
      BY <2>1, <1>5 DEF TypeOK
    <3>3. \A j \in Ingests : holds'[j] # Nothing => ipc'[j] \in {"insert", "commit"}
      BY <1>1, <1>2, <1>3 DEF TypeOK
    <3> QED
      BY <3>1, <3>2, <3>3, <1>2 DEF TypeOK
  <2>5. Placed'
    <3> SUFFICES ASSUME NEW j \in Ingests
                 PROVE  /\ ipc'[j] = "idle" => done'[j] = 0 /\ j \notin DOMAIN batch'
                        /\ ipc'[j] \in {"empty", "insert", "commit"} => j \in DOMAIN batch'
                        /\ ipc'[j] = "empty" => batch'[j] = <<>>
                        /\ ipc'[j] = "insert" => done'[j] < Len(batch'[j])
                        /\ ipc'[j] = "commit" => done'[j] = Len(batch'[j])
      BY DEF Placed
    <3>1. CASE j = i
      <4>1. b # <<>> => 0 < Len(b)
        BY <2>3
      <4> QED
        BY <3>1, <4>1, <2>1, <2>2, <1>1, <1>2
    <3>2. CASE j # i
      BY <3>2, <2>1, <1>2, <1>3 DEF Placed
    <3> QED
      BY <3>1, <3>2
  <2>6. Unique'
    BY <1>2 DEF Unique
  <2>7. Covered' /\ HoldsFirst'
    <3>1. \A j \in Ingests \ {i} : ipc[j] \in {"insert", "commit"} => batch'[j] = batch[j]
      BY <2>1 DEF Placed
    <3>2. 1..done'[i] = {} /\ DOMAIN holds'[i] = {}
      BY <1>1, <1>2 DEF Nothing
    <3> QED
      BY <3>1, <3>2, <1>2, <1>3 DEF Covered, HoldsFirst, FirstRow
  <2> QED
    BY <2>4, <2>5, <2>6, <2>7
<1> QED
  BY <1>4, <1>5 DEF Receive, Goto

\* An ingest that ends without an effect: Skip, and every way to fail.
LEMMA EndKeeps ==
    ASSUME IInv, NEW i \in Ingests, NEW where \in Over,
           ipc' = [ipc EXCEPT ![i] = where],
           DOMAIN holds' = Ingests, holds'[i] = Nothing,
           \A j \in Ingests \ {i} : holds'[j] = holds[j],
           UNCHANGED <<batch, done, table>>,
           i \in DOMAIN batch
    PROVE  IInv'
<1> USE DEF IInv
<1>1. ipc'[i] = where /\ holds'[i] = Nothing /\ DOMAIN holds'[i] = {}
  BY DEF TypeOK, Nothing
<1>2. \A j \in Ingests \ {i} : ipc'[j] = ipc[j] /\ holds'[j] = holds[j]
  BY DEF TypeOK
<1>3. where \notin {"idle", "empty", "insert", "commit"}
  BY DEF Over
<1>4. TypeOK'
  BY <1>1, <1>2 DEF TypeOK, Nothing
<1>5. Placed'
  BY <1>1, <1>2, <1>3 DEF Placed
<1>6. Unique'
  BY <1>1, <1>2 DEF Unique
<1>7. Covered'
  BY <1>1, <1>2, <1>3 DEF Covered
<1>8. HoldsFirst'
  BY <1>1, <1>2, <1>3 DEF HoldsFirst, FirstRow
<1> QED
  BY <1>4, <1>5, <1>6, <1>7, <1>8

\* A row is inserted, or skipped because its key is taken.
LEMMA InsertRowKeeps ==
    ASSUME IInv, NEW i \in Ingests, InsertRow(i)
    PROVE  IInv'
<1> USE DEF IInv
<1> DEFINE rows == batch[i]
           key == KeyAt(i)
           price == rows[done[i] + 1].price
<1>1. /\ ipc[i] = "insert" /\ i \in DOMAIN batch /\ done[i] < Len(rows) /\ done[i] \in Nat
      /\ batch' = batch /\ table' = table
  BY DEF InsertRow, Placed, TypeOK
<1>2. /\ rows \in Seq(Row) /\ Len(rows) \in Nat
      /\ \A n \in 1..Len(rows) : rows[n] \in Row
  BY <1>1, RowsOfBatch
<1>3. key = rows[done[i] + 1].key /\ key \in Keys /\ price \in Prices
  <2>1. rows[done[i] + 1] \in Row
    BY <1>1, <1>2
  <2> QED
    BY <2>1 DEF KeyAt, Row
<1>4. /\ done'[i] = done[i] + 1 /\ done' \in [Ingests -> Nat]
      /\ \A j \in Ingests \ {i} : done'[j] = done[j]
  BY <1>1 DEF InsertRow, TypeOK
<1>5. /\ ipc'[i] = IF done[i] + 1 = Len(rows) THEN "commit" ELSE "insert"
      /\ \A j \in Ingests \ {i} : ipc'[j] = ipc[j]
      /\ ipc' \in [Ingests -> {"idle", "empty", "insert", "commit"} \cup Over]
  BY <1>4 DEF InsertRow, Goto, TypeOK
<1>6. /\ DOMAIN holds' = Ingests
      /\ \A j \in Ingests \ {i} : holds'[j] = holds[j]
      /\ DOMAIN holds'[i] = DOMAIN holds[i] \cup (IF Taken(i) THEN {} ELSE {key})
      /\ \A k \in DOMAIN holds[i] : holds'[i][k] = holds[i][k]
      /\ ~ Taken(i) => holds'[i][key] = price
  <2>1. CASE Taken(i)
    BY <2>1, <1>1 DEF InsertRow, TypeOK
  <2>2. CASE ~ Taken(i)
    <3>1. holds' = [holds EXCEPT ![i] = With(@, key, price)]
      BY <2>2 DEF InsertRow, KeyAt
    <3>2. holds'[i] = With(holds[i], key, price)
      BY <3>1 DEF TypeOK
    <3>3. key \notin DOMAIN holds[i]
      BY <2>2 DEF Taken
    <3> QED
      BY <2>2, <3>1, <3>2, <3>3 DEF With, TypeOK
  <2> QED
    BY <2>1, <2>2
<1>7. /\ ~ Taken(i) => key \notin DOMAIN table \cup DOMAIN holds[i]
      /\ Taken(i) => key \in DOMAIN table \cup DOMAIN holds[i]
      /\ \A j \in Ingests \ {i} : key \notin DOMAIN holds[j]
  BY DEF InsertRow, Blockers, Taken
<1>8. TypeOK'
  <2>1. \A j \in Ingests : \A k \in DOMAIN holds'[j] : k \in Keys /\ holds'[j][k] \in Prices
    BY <1>3, <1>6 DEF TypeOK
  <2>2. \A j \in Ingests : holds'[j] # Nothing => ipc'[j] \in {"insert", "commit"}
    BY <1>5, <1>6 DEF TypeOK
  <2> QED
    BY <2>1, <2>2, <1>1, <1>4, <1>5, <1>6 DEF TypeOK
<1>9. Placed'
  <2>1. ipc'[i] = "insert" => done'[i] < Len(rows)
    BY <1>1, <1>2, <1>4, <1>5
  <2>2. ipc'[i] = "commit" => done'[i] = Len(rows)
    BY <1>4, <1>5
  <2> QED
    BY <2>1, <2>2, <1>1, <1>4, <1>5 DEF Placed
<1>10. Unique'
  BY <1>1, <1>6, <1>7 DEF Unique
<1>11. Covered'
  <2>1. ASSUME NEW n \in 1..done'[i]
        PROVE  rows[n].key \in DOMAIN table \cup DOMAIN holds'[i]
    <3>1. n \in 1..done[i] \/ n = done[i] + 1
      BY <1>1, <1>4
    <3> QED
      BY <3>1, <1>1, <1>3, <1>6, <1>7 DEF Covered
  <2> QED
    BY <2>1, <1>1, <1>4, <1>5, <1>6 DEF Covered
<1>12. HoldsFirst'
  <2>1. ASSUME NEW k \in DOMAIN holds[i]
        PROVE  FirstRow(i, k)'
    <3>1. PICK n \in 1..done[i] :
             /\ rows[n].key = k /\ rows[n].price = holds[i][k]
             /\ \A m \in 1..(n - 1) : rows[m].key # k
      BY <2>1, <1>1 DEF HoldsFirst, FirstRow
    <3>2. n \in 1..done'[i]
      BY <1>1, <1>4
    <3> QED
      BY <3>1, <3>2, <1>1, <1>6 DEF FirstRow
  <2>2. ASSUME ~ Taken(i), NEW k, k = key
        PROVE  FirstRow(i, k)'
    <3>1. done[i] + 1 \in 1..done'[i]
      BY <1>1, <1>4
    <3>2. \A m \in 1..done[i] : rows[m].key # k
      BY <2>2, <1>1, <1>7 DEF Covered
    <3>3. \A m \in 1..((done[i] + 1) - 1) : rows[m].key # k
      BY <3>2, <1>1
    <3> QED
      BY <3>1, <3>3, <2>2, <1>1, <1>3, <1>6 DEF FirstRow
  <2>3. ASSUME NEW j \in Ingests \ {i}, ipc'[j] \in {"insert", "commit"},
               NEW k \in DOMAIN holds'[j]
        PROVE  FirstRow(j, k)'
    <3>1. FirstRow(j, k)
      BY <2>3, <1>5, <1>6 DEF HoldsFirst
    <3> QED
      BY <3>1, <1>1, <1>4, <1>6 DEF FirstRow
  <2>4. \A k \in DOMAIN holds'[i] : FirstRow(i, k)'
    BY <2>1, <2>2, <1>6
  <2> QED
    BY <2>3, <2>4 DEF HoldsFirst
<1> QED
  BY <1>8, <1>9, <1>10, <1>11, <1>12

\* The table after a COMMIT is what it was and the rows of the transaction.
LEMMA CommitTable ==
    ASSUME IInv, NEW i \in Ingests, Commit(i)
    PROVE  /\ DOMAIN table' = DOMAIN table \cup DOMAIN holds[i]
           /\ \A k \in DOMAIN table : table'[k] = table[k]
           /\ \A k \in DOMAIN holds[i] : table'[k] = holds[i][k]
BY DEF Commit, IInv, Unique

LEMMA CommitKeeps ==
    ASSUME IInv, NEW i \in Ingests, Commit(i)
    PROVE  IInv'
<1> USE DEF IInv
<1>1. /\ DOMAIN table' = DOMAIN table \cup DOMAIN holds[i]
      /\ \A k \in DOMAIN table : table'[k] = table[k]
      /\ \A k \in DOMAIN holds[i] : table'[k] = holds[i][k]
  BY CommitTable
<1>2. /\ ipc[i] = "commit" /\ i \in DOMAIN batch /\ batch' = batch /\ done' = done
  BY DEF Commit, Placed
<1>3. PICK where \in Over : ipc' = [ipc EXCEPT ![i] = where]
  BY DEF Commit, Goto, Over
<1>4. /\ ipc'[i] = where /\ where \notin {"idle", "empty", "insert", "commit"}
      /\ \A j \in Ingests \ {i} : ipc'[j] = ipc[j]
  BY <1>3 DEF TypeOK, Over
<1>5. /\ holds'[i] = Nothing /\ DOMAIN holds'[i] = {} /\ DOMAIN holds' = Ingests
      /\ \A j \in Ingests \ {i} : holds'[j] = holds[j]
  BY DEF Commit, TypeOK, Nothing
<1>6. TypeOK'
  <2>1. ipc' \in [Ingests -> {"idle", "empty", "insert", "commit"} \cup Over]
    BY <1>3 DEF TypeOK
  <2>2. \A k \in DOMAIN table' : k \in Keys /\ table'[k] \in Prices
    BY <1>1 DEF TypeOK
  <2> QED
    BY <2>1, <2>2, <1>2, <1>4, <1>5 DEF TypeOK
<1>7. Placed'
  BY <1>2, <1>4 DEF Placed
<1>8. Unique'
  BY <1>1, <1>5 DEF Unique
<1>9. Covered'
  BY <1>1, <1>2, <1>4, <1>5 DEF Covered
<1>10. HoldsFirst'
  BY <1>2, <1>4, <1>5 DEF HoldsFirst, FirstRow
<1> QED
  BY <1>6, <1>7, <1>8, <1>9, <1>10

LEMMA UndoKeeps ==
    ASSUME IInv, NEW i \in Ingests, Undo(i), ipc[i] \in {"empty", "insert", "commit"}
    PROVE  IInv'
<1>1. i \in DOMAIN batch
  BY DEF IInv, Placed
<1>2. /\ ipc' = [ipc EXCEPT ![i] = "failed"] /\ UNCHANGED <<batch, done, table>>
      /\ DOMAIN holds' = Ingests /\ holds'[i] = Nothing
      /\ \A j \in Ingests \ {i} : holds'[j] = holds[j]
  BY DEF Undo, Goto, IInv, TypeOK
<1>3. "failed" \in Over
  BY DEF Over
<1> QED
  BY <1>1, <1>2, <1>3, EndKeeps

LEMMA SkipKeeps ==
    ASSUME IInv, NEW i \in Ingests, Skip(i)
    PROVE  IInv'
<1>1. i \in DOMAIN batch /\ holds[i] = Nothing
  BY DEF IInv, Placed, TypeOK, Skip
<1>2. /\ DOMAIN holds' = Ingests /\ holds'[i] = Nothing
      /\ \A j \in Ingests \ {i} : holds'[j] = holds[j]
  BY <1>1 DEF Skip, IInv, TypeOK
<1>3. ipc' = [ipc EXCEPT ![i] = "stored"] /\ UNCHANGED <<batch, done, table>>
  BY DEF Skip, Goto
<1>4. "stored" \in Over
  BY DEF Over
<1> QED
  BY <1>1, <1>2, <1>3, <1>4, EndKeeps

LEMMA StepKeeps ==
    ASSUME IInv, [Next]_vars
    PROVE  IInv'
<1>1. ASSUME NEW i \in Ingests, Receive(i) PROVE IInv'
  BY <1>1, ReceiveKeeps
<1>2. ASSUME NEW i \in Ingests, Skip(i) PROVE IInv'
  BY <1>2, SkipKeeps
<1>3. ASSUME NEW i \in Ingests, InsertRow(i) PROVE IInv'
  BY <1>3, InsertRowKeeps
<1>4. ASSUME NEW i \in Ingests, Commit(i) PROVE IInv'
  BY <1>4, CommitKeeps
<1>5. ASSUME NEW i \in Ingests, Rollback(i) PROVE IInv'
  BY <1>5, UndoKeeps DEF Rollback
<1>6. ASSUME Detect PROVE IInv'
  <2>1. PICK i \in Ingests : Waits(i) /\ Undo(i)
    BY <1>6 DEF Detect, Cycle
  <2> QED
    BY <2>1, UndoKeeps DEF Waits
<1>7. CASE UNCHANGED vars
  BY <1>7 DEF vars, IInv, TypeOK, Placed, Unique, Covered, HoldsFirst, FirstRow
<1> QED
  BY <1>1, <1>2, <1>3, <1>4, <1>5, <1>6, <1>7 DEF Next

THEOREM InductiveInvariant == Spec => []IInv
<1>1. Init => IInv
  BY InitHolds
<1>2. IInv /\ [Next]_vars => IInv'
  BY StepKeeps
<1> QED
  BY <1>1, <1>2, PTL DEF Spec

\* The types, and that only open transactions hold rows, for any ingests, keys
\* and batches.
THEOREM TypeCorrect == Spec => []TypeOK
<1>1. IInv => TypeOK
  BY DEF IInv
<1> QED
  BY <1>1, InductiveInvariant, PTL

-----------------------------------------------------------------------------
\* What the outcomes do when an ingest goes on or ends.
LEMMA OutcomeOfStep ==
    ASSUME TypeOK, NEW i \in Ingests, ipc[i] \notin Over, NEW where,
           where \in {"idle", "empty", "insert", "commit"} \cup Over,
           ipc' = [ipc EXCEPT ![i] = where]
    PROVE  /\ Outcome[i] = "none"
           /\ where \in Over => Outcome' = [Outcome EXCEPT ![i] = where]
           /\ where \notin Over => Outcome' = Outcome
<1>1. ipc'[i] = where /\ \A j \in Ingests \ {i} : ipc'[j] = ipc[j]
  BY DEF TypeOK
<1>2. Outcome' = [j \in Ingests |-> IF ipc'[j] \in Over THEN ipc'[j] ELSE "none"]
  BY DEF Outcome
<1> QED
  BY <1>1, <1>2 DEF Outcome

\* A batch whose rows are all dealt with is merged into the table as a whole.
LEMMA CommitMerges ==
    ASSUME IInv, NEW i \in Ingests, Commit(i)
    PROVE  Contract!Merged(table, batch[i], table')
<1> DEFINE rows == batch[i]
<1>1. /\ DOMAIN table' = DOMAIN table \cup DOMAIN holds[i]
      /\ \A k \in DOMAIN table : table'[k] = table[k]
      /\ \A k \in DOMAIN holds[i] : table'[k] = holds[i][k]
  BY CommitTable
<1>2. ipc[i] = "commit" /\ i \in DOMAIN batch /\ done[i] = Len(rows)
  BY DEF Commit, IInv, Placed
<1>3. DOMAIN rows = 1..done[i]
  <2>1. rows \in Seq(Row)
    BY <1>2, RowsOfBatch DEF IInv
  <2> QED
    BY <2>1, <1>2
<1>4. \A n \in DOMAIN rows : rows[n].key \in DOMAIN table \cup DOMAIN holds[i]
  BY <1>2, <1>3 DEF IInv, Covered
<1>5. \A k \in DOMAIN holds[i] : \E n \in DOMAIN rows :
         /\ rows[n].key = k /\ rows[n].price = holds[i][k]
         /\ \A m \in 1..(n - 1) : rows[m].key # k
  BY <1>2, <1>3 DEF IInv, HoldsFirst, FirstRow
<1>6. DOMAIN table' = DOMAIN table \cup {rows[n].key : n \in DOMAIN rows}
  BY <1>1, <1>4, <1>5
<1>7. \A k \in DOMAIN table' \ DOMAIN table : \E n \in DOMAIN rows :
         /\ rows[n].key = k /\ rows[n].price = table'[k]
         /\ \A m \in 1..(n - 1) : rows[m].key # k
  BY <1>1, <1>5
<1> QED
  BY <1>1, <1>6, <1>7 DEF Contract!Merged

LEMMA FailMaps ==
    ASSUME IInv, NEW i \in Ingests, ipc[i] \notin Over,
           ipc' = [ipc EXCEPT ![i] = "failed"], UNCHANGED <<batch, table>>
    PROVE  Contract!Fail(i)
BY OutcomeOfStep DEF IInv, Over, Contract!Fail

LEMMA ReceiveMaps ==
    ASSUME IInv, NEW i \in Ingests, Receive(i)
    PROVE  Contract!Admit(i) \/ Contract!Fail(i)
<1>1. ipc[i] = "idle" /\ ipc[i] \notin Over /\ i \notin DOMAIN batch /\ table' = table
  BY DEF Receive, Over, IInv, Placed
<1>2. CASE ipc' = [ipc EXCEPT ![i] = "failed"] /\ batch' = batch
  BY <1>1, <1>2, FailMaps
<1>3. ASSUME NEW b \in Batches, batch' = With(batch, i, b),
             ipc' = [ipc EXCEPT ![i] = IF b = <<>> THEN "empty" ELSE "insert"]
      PROVE  Contract!Admit(i)
  <2> DEFINE where == IF b = <<>> THEN "empty" ELSE "insert"
  <2>1. where \in {"idle", "empty", "insert", "commit"} \cup Over /\ where \notin Over
    BY DEF Over
  <2>2. Outcome[i] = "none" /\ Outcome' = Outcome
    BY <1>1, <1>3, <2>1, OutcomeOfStep DEF IInv
  <2>3. batch' = [j \in DOMAIN batch \cup {i} |-> IF j = i THEN b ELSE batch[j]]
    BY <1>3 DEF With
  <2> QED
    BY <1>1, <2>2, <2>3 DEF Contract!Admit
<1> QED
  BY <1>2, <1>3 DEF Receive, Goto

\* An ingest without rows to write is the merge of no rows.
LEMMA SkipMaps ==
    ASSUME IInv, NEW i \in Ingests, Skip(i)
    PROVE  Contract!Apply(i)
<1>1. /\ ipc[i] = "empty" /\ ipc[i] \notin Over /\ i \in DOMAIN batch /\ batch[i] = <<>>
      /\ table' = table /\ batch' = batch /\ ipc' = [ipc EXCEPT ![i] = "stored"]
  BY DEF Skip, Goto, Over, IInv, Placed
<1>2. Outcome[i] = "none" /\ Outcome' = [Outcome EXCEPT ![i] = "stored"]
  BY <1>1, OutcomeOfStep DEF IInv, Over
<1>3. Contract!Merged(table, batch[i], table')
  <2>1. DOMAIN batch[i] = {}
    BY <1>1
  <2> QED
    BY <1>1, <2>1 DEF Contract!Merged
<1> QED
  BY <1>1, <1>2, <1>3 DEF Contract!Apply

LEMMA InsertRowMaps ==
    ASSUME IInv, NEW i \in Ingests, InsertRow(i)
    PROVE  UNCHANGED <<table, batch, Outcome>>
<1> DEFINE where == IF done'[i] = Len(batch[i]) THEN "commit" ELSE "insert"
<1>1. /\ ipc[i] \notin Over /\ table' = table /\ batch' = batch
      /\ ipc' = [ipc EXCEPT ![i] = where]
  BY DEF InsertRow, Goto, Over
<1>2. where \in {"idle", "empty", "insert", "commit"} \cup Over /\ where \notin Over
  BY DEF Over
<1> QED
  BY <1>1, <1>2, OutcomeOfStep DEF IInv

LEMMA CommitMaps ==
    ASSUME IInv, NEW i \in Ingests, Commit(i)
    PROVE  Contract!Apply(i)
<1>1. ipc[i] = "commit" /\ ipc[i] \notin Over /\ i \in DOMAIN batch /\ batch' = batch
  BY DEF Commit, Over, IInv, Placed
<1>2. PICK where \in Over : ipc' = [ipc EXCEPT ![i] = where]
  BY DEF Commit, Goto, Over
<1>3. Outcome[i] = "none" /\ Outcome' = [Outcome EXCEPT ![i] = where]
  BY <1>1, <1>2, OutcomeOfStep DEF IInv
<1>4. Contract!Merged(table, batch[i], table')
  BY CommitMerges
<1> QED
  BY <1>1, <1>3, <1>4 DEF Contract!Apply, Over

LEMMA UndoMaps ==
    ASSUME IInv, NEW i \in Ingests, Undo(i), ipc[i] \in {"empty", "insert", "commit"}
    PROVE  Contract!Fail(i)
<1>1. ipc[i] \notin Over
  BY DEF Over
<1> QED
  BY <1>1, FailMaps DEF Undo, Goto

LEMMA StepMaps ==
    ASSUME IInv, [Next]_vars
    PROVE  [Contract!Next]_(Contract!vars)
<1>1. ASSUME NEW i \in Ingests, Receive(i) PROVE Contract!Next
  BY <1>1, ReceiveMaps DEF Contract!Next
<1>2. ASSUME NEW i \in Ingests, Skip(i) PROVE Contract!Next
  BY <1>2, SkipMaps DEF Contract!Next
<1>3. ASSUME NEW i \in Ingests, InsertRow(i) PROVE UNCHANGED Contract!vars
  BY <1>3, InsertRowMaps DEF Contract!vars
<1>4. ASSUME NEW i \in Ingests, Commit(i) PROVE Contract!Next
  BY <1>4, CommitMaps DEF Contract!Next
<1>5. ASSUME NEW i \in Ingests, Rollback(i) PROVE Contract!Next
  BY <1>5, UndoMaps DEF Rollback, Contract!Next
<1>6. ASSUME Detect PROVE Contract!Next
  <2>1. PICK i \in Ingests : Waits(i) /\ Undo(i)
    BY <1>6 DEF Detect, Cycle
  <2> QED
    BY <2>1, UndoMaps DEF Waits, Contract!Next
<1>7. CASE UNCHANGED vars
  BY <1>7 DEF vars, Outcome, Contract!vars
<1> QED
  BY <1>1, <1>2, <1>3, <1>4, <1>5, <1>6, <1>7 DEF Next

\* Whatever the batches and however the INSERTs interleave, conflict, wait,
\* fail and lose their acknowledgement, the table is that of whole batches
\* applied one at a time by ingest_prices.
THEOREM ContractImplemented == Spec => ImplementsContract
<1>1. Init => Contract!Init
  BY DEF Init, Contract!Init, Nothing, Outcome, Over
<1>2. IInv /\ [Next]_vars => [Contract!Next]_(Contract!vars)
  BY StepMaps
<1> QED
  BY <1>1, <1>2, InductiveInvariant, PTL DEF Spec, ImplementsContract, Contract!Spec
-----------------------------------------------------------------------------
\* Among sets of ingests there is one with the fewest.
LEMMA SmallestMember ==
    ASSUME NEW C \in SUBSET SUBSET Ingests, C # {}
    PROVE  \E S \in C : \A T \in C : Cardinality(S) <= Cardinality(T)
<1> DEFINE R == {ss \in Nat \X Nat : ss[1] < ss[2]}
           sizes == {Cardinality(S) : S \in C}
<1>1. \A S \in C : Cardinality(S) \in Nat
  BY IngestsAssumption, FS_Subset, FS_CardinalityType
<1>2. sizes \in SUBSET Nat /\ sizes # {}
  BY <1>1
<1>3. IsWellFoundedOn(R, Nat)
  BY NatLessThanWellFounded, Zenon DEF OpToRel
<1>4. PICK n \in sizes : \A m \in sizes : <<m, n>> \notin R
  <2> HIDE DEF R, sizes
  <2> QED
    BY <1>2, <1>3, WFMin
<1>5. \A m \in sizes : n <= m
  <2> SUFFICES ASSUME NEW m \in sizes, m < n PROVE FALSE
    BY <1>2
  <2>1. m \in Nat /\ n \in Nat
    BY <1>2
  <2>2. <<m, n>> \in R
    BY <2>1
  <2> QED
    BY <1>4, <2>2
<1>6. PICK S \in C : n = Cardinality(S)
  OBVIOUS
<1>7. ASSUME NEW T \in C PROVE Cardinality(S) <= Cardinality(T)
  BY <1>5, <1>6
<1> QED
  BY <1>7

\* A key is held by one transaction at most, so an ingest that waits, waits for
\* one other.
LEMMA OneBlocker ==
    ASSUME IInv, NEW j \in Ingests, Waits(j)
    PROVE  \E b \in Ingests : Blockers(j) = {b}
BY DEF IInv, Unique, Waits, Blockers

\* The ingest that a waiting one waits for.
Blocker(j) == CHOOSE b \in Ingests : Blockers(j) = {b}

\* Ingests that wait only for each other have a cycle among them: the smallest
\* such set is one, since those its members wait for are such a set too.
LEMMA WaitsClose ==
    ASSUME IInv, NEW W \in SUBSET Ingests, W # {},
           \A j \in W : Waits(j) /\ Blockers(j) \subseteq W
    PROVE  \E S \in SUBSET W : Cycle(S)
<1> DEFINE Closed(S) == S # {} /\ \A j \in S : Waits(j) /\ Blockers(j) \subseteq S
           C == {S \in SUBSET W : Closed(S)}
<1>1. PICK S \in C : \A T \in C : Cardinality(S) <= Cardinality(T)
  <2>1. W \in C
    OBVIOUS
  <2>2. C \in SUBSET SUBSET Ingests
    OBVIOUS
  <2> HIDE DEF C
  <2> QED
    BY <2>1, <2>2, SmallestMember
<1>2. \A j \in S : Blockers(j) = {Blocker(j)} /\ Blocker(j) \in S
  <2> SUFFICES ASSUME NEW j \in S PROVE Blockers(j) = {Blocker(j)} /\ Blocker(j) \in S
    OBVIOUS
  <2>1. Waits(j) /\ Blockers(j) \subseteq S /\ j \in Ingests
    OBVIOUS
  <2>2. Blockers(j) = {Blocker(j)}
    BY <2>1, OneBlocker DEF Blocker
  <2> QED
    BY <2>1, <2>2
<1> DEFINE T == {Blocker(j) : j \in S}
<1>3. T \in SUBSET S
  BY <1>2
<1>4. T \in C
  <2>1. T # {}
    OBVIOUS
  <2>2. ASSUME NEW b \in T PROVE Waits(b) /\ Blockers(b) \subseteq T
    <3>1. b \in S
      BY <1>3
    <3>2. Blockers(b) = {Blocker(b)} /\ Blocker(b) \in T
      BY <1>2, <3>1
    <3> QED
      BY <3>1, <3>2
  <2> QED
    BY <1>3, <2>1, <2>2
<1>5. S = T
  <2>1. IsFiniteSet(S)
    BY IngestsAssumption, FS_Subset
  <2>2. Cardinality(S) \in Nat /\ Cardinality(T) \in Nat /\ Cardinality(T) <= Cardinality(S)
    BY <1>3, <2>1, FS_Subset, FS_CardinalityType
  <2>3. Cardinality(S) <= Cardinality(T)
    BY <1>1, <1>4
  <2> QED
    BY <1>3, <2>1, <2>2, <2>3, FS_Subset
<1>6. \A j \in S : \E k \in S : Blockers(k) = {j}
  BY <1>2, <1>5
<1> QED
  BY <1>6 DEF Cycle

\* Whatever the batches, ingests that cannot go on without a victim have a cycle
\* of waits among them: what Postgres looks for is all that can hold up an
\* ingest, so breaking cycles is enough.
THEOREM DeadlocksFound == Spec => []DeadlocksAreFound
<1>1. IInv => DeadlocksAreFound
  <2> SUFFICES ASSUME IInv, NEW W \in SUBSET Ingests, Stuck(W)
               PROVE  \E S \in SUBSET W : Cycle(S)
    BY DEF DeadlocksAreFound
  <2>1. ASSUME NEW j \in W PROVE Blockers(j) \subseteq W
    <3> SUFFICES ASSUME NEW k \in Blockers(j) \ W PROVE FALSE
      OBVIOUS
    <3>1. k \in Ingests /\ holds[k] # Nothing
      BY DEF Blockers, Nothing
    <3> QED
      BY <3>1 DEF Stuck, IInv, TypeOK
  <2> QED
    BY <2>1, WaitsClose DEF Stuck
<1> QED
  BY <1>1, InductiveInvariant, PTL

\* The numbers behind what is left to do.
LEMMA LeftOver ==
    ASSUME IInv, NEW i \in Ingests
    PROVE  /\ ipc[i] = "insert" =>
                 /\ i \in DOMAIN batch /\ done[i] \in Nat
                 /\ Len(batch[i]) \in Nat /\ done[i] < Len(batch[i])
                 /\ Left(i) = 1 + (Len(batch[i]) - done[i])
           /\ ipc[i] \in {"empty", "commit"} => Left(i) = 1
           /\ ipc[i] \in Over \cup {"idle"} => Left(i) = 0
<1>1. ASSUME ipc[i] = "insert"
      PROVE  i \in DOMAIN batch /\ Len(batch[i]) \in Nat
  BY <1>1, RowsOfBatch DEF IInv, Placed
<1> QED
  BY <1>1 DEF Left, Over, IInv, Placed, TypeOK

\* A step of one ingest leaves alone what the others have left.
LEMMA OthersKeep ==
    ASSUME NEW i \in Ingests, NEW j \in Ingests \ {i},
           ipc'[j] = ipc[j], done'[j] = done[j],
           ipc[j] = "insert" => batch'[j] = batch[j]
    PROVE  Left(j)' = Left(j)
BY DEF Left

\* What each action does to what is left.
LEMMA ReceiveWork ==
    ASSUME IInv, NEW i \in Ingests, Receive(i)
    PROVE  Admitting(i) /\ \A j \in Ingests \ {i} : Left(j)' = Left(j)
<1>1. ipc[i] = "idle" /\ ipc'[i] # "idle"
  BY DEF Receive, Goto, IInv, TypeOK
<1>2. ASSUME NEW j \in Ingests \ {i} PROVE Left(j)' = Left(j)
  <2>1. ipc'[j] = ipc[j] /\ done'[j] = done[j]
    BY DEF Receive, Goto, IInv, TypeOK
  <2>2. ipc[j] = "insert" => batch'[j] = batch[j]
    BY DEF Receive, With, IInv, Placed
  <2> QED
    BY <2>1, <2>2, OthersKeep
<1> QED
  BY <1>1, <1>2 DEF Admitting

\* An ingest that ends has nothing left.
LEMMA EndWork ==
    ASSUME IInv, NEW i \in Ingests, NEW where \in Over,
           ipc[i] \in {"empty", "insert", "commit"},
           ipc' = [ipc EXCEPT ![i] = where], UNCHANGED <<batch, done>>
    PROVE  Left(i)' < Left(i) /\ \A j \in Ingests \ {i} : Left(j)' = Left(j)
<1>1. ipc'[i] = where /\ \A j \in Ingests \ {i} : ipc'[j] = ipc[j]
  BY DEF IInv, TypeOK
<1>2. \A j \in Ingests \ {i} : Left(j)' = Left(j)
  BY <1>1, OthersKeep
<1>3. Left(i)' = 0
  <2>1. ipc'[i] # "insert" /\ ipc'[i] \notin {"empty", "commit"}
    BY <1>1 DEF Over
  <2> QED
    BY <2>1 DEF Left
<1>4. Left(i) \in Nat /\ Left(i) > 0
  BY LeftOver
<1> QED
  BY <1>2, <1>3, <1>4

\* A row dealt with is one less.
LEMMA InsertRowWork ==
    ASSUME IInv, NEW i \in Ingests, InsertRow(i)
    PROVE  Left(i)' < Left(i) /\ \A j \in Ingests \ {i} : Left(j)' = Left(j)
<1>1. /\ ipc[i] = "insert" /\ batch' = batch /\ done'[i] = done[i] + 1
      /\ ipc'[i] \in {"insert", "commit"}
      /\ \A j \in Ingests \ {i} : ipc'[j] = ipc[j] /\ done'[j] = done[j]
  BY DEF InsertRow, Goto, IInv, TypeOK
<1>2. \A j \in Ingests \ {i} : Left(j)' = Left(j)
  BY <1>1, OthersKeep
<1>3. /\ done[i] \in Nat /\ Len(batch[i]) \in Nat /\ done[i] < Len(batch[i])
      /\ Left(i) = 1 + (Len(batch[i]) - done[i])
  BY <1>1, LeftOver
<1>4. Left(i)' = IF ipc'[i] = "insert" THEN 1 + (Len(batch[i]) - (done[i] + 1)) ELSE 1
  <2>1. CASE ipc'[i] = "insert"
    BY <1>1, <2>1 DEF Left
  <2>2. CASE ipc'[i] = "commit"
    BY <1>1, <2>2 DEF Left
  <2> QED
    BY <1>1, <2>1, <2>2
<1> QED
  BY <1>2, <1>3, <1>4

\* Whatever the batches, an admitted ingest never has to start over, so it has
\* at most as many steps as rows, and one.
THEOREM WorkOnlyDecreases == Spec => WorkDecreases
<1> DEFINE Shorter(i) ==
               /\ Admitting(i) \/ Left(i)' < Left(i)
               /\ \A j \in Ingests \ {i} : Left(j)' = Left(j)
<1>1. ASSUME IInv, [Next]_vars PROVE [\E i \in Ingests : Shorter(i)]_vars
  <2>1. ASSUME NEW i \in Ingests, Receive(i) PROVE Shorter(i)
    BY <1>1, <2>1, ReceiveWork
  <2>2. ASSUME NEW i \in Ingests, InsertRow(i) PROVE Shorter(i)
    BY <1>1, <2>2, InsertRowWork
  <2>3. ASSUME NEW i \in Ingests, Skip(i) PROVE Shorter(i)
    BY <1>1, <2>3, EndWork DEF Skip, Goto, Over
  <2>4. ASSUME NEW i \in Ingests, Commit(i) PROVE Shorter(i)
    BY <1>1, <2>4, EndWork DEF Commit, Goto, Over
  <2>5. ASSUME NEW i \in Ingests, Undo(i), ipc[i] \in {"empty", "insert", "commit"}
        PROVE  Shorter(i)
    BY <1>1, <2>5, EndWork DEF Undo, Goto, Over
  <2>6. ASSUME NEW i \in Ingests, Rollback(i) PROVE Shorter(i)
    BY <2>5, <2>6 DEF Rollback
  <2>7. ASSUME Detect PROVE \E i \in Ingests : Shorter(i)
    <3>1. PICK i \in Ingests : Waits(i) /\ Undo(i)
      BY <2>7 DEF Detect, Cycle
    <3> QED
      BY <2>5, <3>1 DEF Waits
  <2> HIDE DEF Shorter
  <2> QED
    BY <1>1, <2>1, <2>2, <2>3, <2>4, <2>6, <2>7 DEF Next
<1> QED
  BY <1>1, InductiveInvariant, PTL DEF Spec, WorkDecreases
=============================================================================
