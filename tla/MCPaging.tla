------------------------------ MODULE MCPaging -------------------------------
(***************************************************************************)
(* Small instances of Paging for TLC.                                      *)
(***************************************************************************)
EXTENDS Paging, TLC

\* Two dates, so that rows share one and are told apart by their ids.
MCTimes == 1..2

\* Ingests are interchangeable.
Symmetry == Permutations(Batches)
=============================================================================
