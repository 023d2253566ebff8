------------------------- MODULE ReadThroughContract -------------------------
(***************************************************************************)
(* What the cached routes promise whatever the cache does: every answer is *)
(* one result of the database, computed in a single look at it after some  *)
(* client asked the same question, and never rows nobody computed, rows of *)
(* another question, or a mixture.  Nothing is said of Redis, of keys or   *)
(* of sweeps; how old the result may be is the business of PriceCache.     *)
(***************************************************************************)
EXTENDS CacheKeys

CONSTANTS Reads, Ingests, Queries

VARIABLES
    db,        \* the ingests that have committed
    asked,     \* what each read that has arrived asks
    produced,  \* the result each read that looked at the database computed
    answer     \* the result each answered read returned

vars == <<db, asked, produced, answer>>

Set(f, x, v) == [y \in DOMAIN f \cup {x} |-> IF y = x THEN v ELSE f[y]]

Init ==
    /\ db = {}
    /\ asked = [r \in {} |-> r]
    /\ produced = [r \in {} |-> r]
    /\ answer = [r \in {} |-> r]

CommitBatch(i) ==
    /\ i \notin db
    /\ db' = db \cup {i}
    /\ UNCHANGED <<asked, produced, answer>>

Ask(r) ==
    /\ r \notin DOMAIN asked
    /\ \E q \in Queries : asked' = Set(asked, r, q)
    /\ UNCHANGED <<db, produced, answer>>

Compute(r) ==
    /\ r \in DOMAIN asked \ (DOMAIN produced \cup DOMAIN answer)
    /\ produced' = Set(produced, r, [of |-> asked[r], seen |-> db])
    /\ UNCHANGED <<db, asked, answer>>

Reply(r) ==
    /\ r \in DOMAIN asked \ DOMAIN answer
    /\ \E p \in DOMAIN produced :
          /\ Alike(produced[p].of, asked[r])
          /\ answer' = Set(answer, r, produced[p])
    /\ UNCHANGED <<db, asked, produced>>

Next ==
    \/ \E i \in Ingests : CommitBatch(i)
    \/ \E r \in Reads : Ask(r) \/ Compute(r) \/ Reply(r)

Spec == Init /\ [][Next]_vars
=============================================================================
