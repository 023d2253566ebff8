----------------------------- MODULE MCIngestTx ------------------------------
(***************************************************************************)
(* Small instances of IngestTx for TLC.                                    *)
(***************************************************************************)
EXTENDS IngestTx

CONSTANTS k1, k2, k3, p1, p2

R(k, p) == [key |-> k, price |-> p]

\* Batches that overlap in both orders, one that repeats a key, one that closes
\* a longer cycle of waits, and one with no row left.
MCBatches == {<<R(k1, p1), R(k2, p1)>>, <<R(k2, p2), R(k1, p2)>>,
              <<R(k2, p1), R(k3, p1)>>, <<R(k3, p2), R(k1, p2)>>,
              <<R(k1, p2), R(k1, p1), R(k3, p2)>>,
              <<>>}
=============================================================================
