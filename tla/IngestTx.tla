------------------------------ MODULE IngestTx -------------------------------
(***************************************************************************)
(* ingest_prices as concurrent Postgres transactions: one INSERT of many   *)
(* rows, in payload order, ON CONFLICT ON uq_price_observation DO NOTHING, *)
(* and a COMMIT.  A row whose natural key another transaction has inserted *)
(* and not committed waits for that transaction to end.                    *)
(*                                                                         *)
(* A batch is what the loop over the payload makes of it: the rows whose   *)
(* names resolve, in order.                                                *)
(***************************************************************************)
EXTENDS Naturals, Sequences, FiniteSets

CONSTANTS Ingests, Keys, Prices,
          Batches   \* the batches that may come

Row == [key: Keys, price: Prices]
ASSUME BatchesAssumption == Batches \subseteq Seq(Row)
ASSUME IngestsAssumption == IsFiniteSet(Ingests)

VARIABLES
    ipc,     \* where each ingest is
    batch,   \* the payload of each ingest that was admitted
    done,    \* how many rows of the INSERT are dealt with
    holds,   \* the rows each open transaction has inserted: price of a key
    table    \* the committed rows: price of a key

vars == <<ipc, batch, done, holds, table>>

Nothing == [k \in {} |-> k]
With(f, x, v) == [y \in DOMAIN f \cup {x} |-> IF y = x THEN v ELSE f[y]]
Over == {"stored", "failed"}

Init ==
    /\ ipc = [i \in Ingests |-> "idle"]
    /\ batch = [i \in {} |-> i]
    /\ done = [i \in Ingests |-> 0]
    /\ holds = [i \in Ingests |-> Nothing]
    /\ table = Nothing

Goto(i, where) == ipc' = [ipc EXCEPT ![i] = where]

\* The payload is over the limit (413) or names are looked up; a batch without
\* a row left returns without a transaction to commit.
Receive(i) ==
    /\ ipc[i] = "idle"
    /\ \/ Goto(i, "failed") /\ UNCHANGED batch
       \/ \E b \in Batches :
             /\ batch' = With(batch, i, b)
             /\ Goto(i, IF b = <<>> THEN "empty" ELSE "insert")
    /\ UNCHANGED <<done, holds, table>>

\* `if not payload` and `if not rows`: nothing accepted, nothing written.
Skip(i) ==
    /\ ipc[i] = "empty"
    /\ Goto(i, "stored")
    /\ UNCHANGED <<batch, done, holds, table>>

KeyAt(i) == batch[i][done[i] + 1].key
Taken(i) == KeyAt(i) \in DOMAIN table \cup DOMAIN holds[i]
Blockers(i) == {j \in Ingests \ {i} : KeyAt(i) \in DOMAIN holds[j]}
Waits(i) == ipc[i] = "insert" /\ Blockers(i) # {}

\* Slips: each row committed as it is inserted; a conflict tried again.
InsertRowDurably(i) ==
    /\ ipc[i] = "insert" /\ Blockers(i) = {}
    /\ table' = IF Taken(i) THEN table
                ELSE With(table, KeyAt(i), batch[i][done[i] + 1].price)
    /\ done' = [done EXCEPT ![i] = @ + 1]
    /\ Goto(i, IF done'[i] = Len(batch[i]) THEN "commit" ELSE "insert")
    /\ UNCHANGED <<batch, holds>>
InsertRowStubbornly(i) ==
    /\ ipc[i] = "insert" /\ Blockers(i) = {} /\ ~ Taken(i)
    /\ holds' = [holds EXCEPT ![i] = With(@, KeyAt(i), batch[i][done[i] + 1].price)]
    /\ done' = [done EXCEPT ![i] = @ + 1]
    /\ Goto(i, IF done'[i] = Len(batch[i]) THEN "commit" ELSE "insert")
    /\ UNCHANGED <<batch, table>>

\* The INSERT deals with its next row: a key that is committed or already in
\* this batch does nothing, one in no open transaction is inserted.
InsertRow(i) ==
    /\ ipc[i] = "insert" /\ Blockers(i) = {}
    /\ holds' = IF Taken(i) THEN holds
                ELSE [holds EXCEPT ![i] = With(@, KeyAt(i), batch[i][done[i] + 1].price)]
    /\ done' = [done EXCEPT ![i] = @ + 1]
    /\ Goto(i, IF done'[i] = Len(batch[i]) THEN "commit" ELSE "insert")
    /\ UNCHANGED <<batch, table>>

\* Slip: the rows stay locked.
CommitHolding(i) ==
    /\ ipc[i] = "commit"
    /\ table' = [k \in DOMAIN table \cup DOMAIN holds[i] |->
                    IF k \in DOMAIN table THEN table[k] ELSE holds[i][k]]
    /\ Goto(i, "stored") \/ Goto(i, "failed")
    /\ UNCHANGED <<batch, done, holds>>

\* COMMIT; its reply may be lost.
Commit(i) ==
    /\ ipc[i] = "commit"
    /\ table' = [k \in DOMAIN table \cup DOMAIN holds[i] |->
                    IF k \in DOMAIN table THEN table[k] ELSE holds[i][k]]
    /\ holds' = [holds EXCEPT ![i] = Nothing]
    /\ Goto(i, "stored") \/ Goto(i, "failed")
    /\ UNCHANGED <<batch, done>>

\* Slip: the rows are given up and the INSERT starts over.
UndoAndRetry(i) ==
    /\ holds' = [holds EXCEPT ![i] = Nothing]
    /\ Goto(i, IF ipc[i] = "empty" THEN "failed" ELSE "insert")
    /\ done' = [done EXCEPT ![i] = 0]
    /\ UNCHANGED <<batch, table>>

Undo(i) ==
    /\ holds' = [holds EXCEPT ![i] = Nothing]
    /\ Goto(i, "failed")
    /\ UNCHANGED <<batch, done, table>>

\* A database error, too many bind parameters, or the death of the worker.
Rollback(i) == ipc[i] \in {"empty", "insert", "commit"} /\ Undo(i)

\* Postgres finds a cycle of waiting transactions and fails one of them.
Cycle(S) ==
    /\ S # {}
    /\ \A j \in S : Waits(j) /\ Blockers(j) \subseteq S
    /\ \A j \in S : \E k \in S : Blockers(k) = {j}
Detect == \E S \in SUBSET Ingests : Cycle(S) /\ \E i \in S : Undo(i)

Next ==
    \/ \E i \in Ingests : Receive(i) \/ Skip(i) \/ InsertRow(i) \/ Commit(i) \/ Rollback(i)
    \/ Detect

Spec == Init /\ [][Next]_vars

\* Postgres carries on with every statement that need not wait, and looks for
\* cycles.  Nothing obliges a client to send, or a transaction to fail.
FairSpec ==
    /\ Spec
    /\ \A i \in Ingests : WF_vars(Skip(i) \/ InsertRow(i) \/ Commit(i))
    /\ WF_vars(Detect)

-----------------------------------------------------------------------------
\* The types; only open transactions hold rows.
TypeOK ==
    /\ ipc \in [Ingests -> {"idle", "empty", "insert", "commit"} \cup Over]
    /\ DOMAIN batch \subseteq Ingests
    /\ \A i \in DOMAIN batch : batch[i] \in Batches
    /\ done \in [Ingests -> Nat]
    /\ DOMAIN holds = Ingests
    /\ \A i \in Ingests : \A k \in DOMAIN holds[i] : k \in Keys /\ holds[i][k] \in Prices
    /\ \A i \in Ingests : holds[i] # Nothing => ipc[i] \in {"insert", "commit"}
    /\ \A k \in DOMAIN table : k \in Keys /\ table[k] \in Prices

\* Batches that share observations, in whatever order each lists them, end up
\* stored or failed: they may wait on each other, never for good.
EveryIngestEnds ==
    \A i \in Ingests : (ipc[i] # "idle") ~> (ipc[i] \in Over)

\* Ingests that can only wait for each other, or for one that has ended and kept
\* its rows, would wait for good, unless a cycle of waits is among them: the one
\* thing Postgres looks for.
Stuck(W) ==
    /\ W # {}
    /\ \A j \in W : Waits(j) /\ \A k \in Blockers(j) \ W : ipc[k] \notin {"insert", "commit"}
DeadlocksAreFound ==
    \A W \in SUBSET Ingests : Stuck(W) => \E S \in SUBSET W : Cycle(S)

\* What an admitted ingest has left to do gets less with each of its steps, and
\* no step of another gives it more: being chosen as the victim of a deadlock,
\* or losing the answer of COMMIT, starts nothing over.
Left(i) ==
    CASE ipc[i] = "insert" -> 1 + (Len(batch[i]) - done[i])
      [] ipc[i] \in {"empty", "commit"} -> 1
      [] OTHER -> 0
Admitting(i) == ipc[i] = "idle" /\ ipc'[i] # "idle"
WorkDecreases ==
    [][\E i \in Ingests :
          /\ Admitting(i) \/ Left(i)' < Left(i)
          /\ \A j \in Ingests \ {i} : Left(j)' = Left(j)]_vars

\* Transactions that interleave row by row, skip each other's rows, wait, fail
\* and lose their acknowledgement have the effect of whole batches applied one
\* at a time.
Outcome == [i \in Ingests |-> IF ipc[i] \in Over THEN ipc[i] ELSE "none"]
Contract == INSTANCE IngestContract WITH outcome <- Outcome
ImplementsContract == Contract!Spec
=============================================================================
