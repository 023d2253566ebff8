--------------------------- MODULE IngestContract ----------------------------
(***************************************************************************)
(* What ingest_prices promises of the table: a batch takes effect at one   *)
(* moment and as a whole, as if no other ingest were under way, or not at  *)
(* all; and the first observation under a natural key stays for good.      *)
(***************************************************************************)
EXTENDS Naturals, Sequences

CONSTANTS Ingests, Keys, Prices, Batches

VARIABLES
    table,    \* the committed price of each natural key that has one
    batch,    \* the batch of each ingest that was admitted
    outcome   \* what has become of each ingest

vars == <<table, batch, outcome>>

\* new is old with the rows added whose keys old does not have, the first row
\* of a key before its repetitions.
Merged(old, rows, new) ==
    /\ DOMAIN new = DOMAIN old \cup {rows[n].key : n \in DOMAIN rows}
    /\ \A k \in DOMAIN old : new[k] = old[k]
    /\ \A k \in DOMAIN new \ DOMAIN old :
          \E n \in DOMAIN rows :
             /\ rows[n].key = k /\ rows[n].price = new[k]
             /\ \A m \in 1..(n - 1) : rows[m].key # k

Init ==
    /\ table = [k \in {} |-> k]
    /\ batch = [i \in {} |-> i]
    /\ outcome = [i \in Ingests |-> "none"]

Admit(i) ==
    /\ outcome[i] = "none" /\ i \notin DOMAIN batch
    /\ \E b \in Batches : batch' = [j \in DOMAIN batch \cup {i} |-> IF j = i THEN b ELSE batch[j]]
    /\ UNCHANGED <<table, outcome>>

\* The client is told so, or hears of an error although the batch is in.
Apply(i) ==
    /\ outcome[i] = "none" /\ i \in DOMAIN batch
    /\ Merged(table, batch[i], table')
    /\ outcome' \in {[outcome EXCEPT ![i] = "stored"], [outcome EXCEPT ![i] = "failed"]}
    /\ UNCHANGED batch

Fail(i) ==
    /\ outcome[i] = "none"
    /\ outcome' = [outcome EXCEPT ![i] = "failed"]
    /\ UNCHANGED <<table, batch>>

Next == \E i \in Ingests : Admit(i) \/ Apply(i) \/ Fail(i)

Spec == Init /\ [][Next]_vars
=============================================================================
