----------------------------- MODULE MCRateLimit -----------------------------
(***************************************************************************)
(* Small instances of RateLimit for TLC.                                   *)
(***************************************************************************)
EXTENDS RateLimit, TLC

\* Requests are interchangeable, and so are workers and the values of the hash.
Symmetry == Permutations(Requests) \cup Permutations(Workers) \cup Permutations(BucketIds)
=============================================================================
