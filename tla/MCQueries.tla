----------------------------- MODULE MCQueries -------------------------------
(***************************************************************************)
(* Rows for Queries: two GPUs, two providers in two regions, an instance   *)
(* type observed together with another, late and early observations, a     *)
(* capacity that is gone, a throughput of zero.                            *)
(***************************************************************************)
EXTENDS Queries

O(gpu, provider, region, type, at, availability, price) ==
    [gpu |-> gpu, provider |-> provider, region |-> region, type |-> type,
     at |-> at, availability |-> availability, price |-> price]
B(id, gpu, precision, throughput) ==
    [id |-> id, gpu |-> gpu, precision |-> precision, throughput |-> throughput]

MCObservations ==
    {O(1, "a", 1, "1x", 0, "available", 3), O(1, "a", 1, "1x", 1, "available", 4),
     O(1, "a", 1, "1x", 1, "available", 2), O(1, "a", 1, "2x", 1, "available", 6),
     O(1, "a", 1, "1x", 2, "constrained", 1), O(1, "a", 2, "1x", 1, "available", 3),
     O(1, "b", 1, "1x", 1, "available", 5), O(1, "b", 2, "1x", 2, "available", 2),
     O(2, "a", 1, "1x", 1, "available", 2), O(2, "b", 2, "1x", 0, "available", 1)}

MCBenchmarks ==
    {B(1, 1, "fp16", 2), B(2, 1, "fp8", 3), B(3, 1, "fp16", 1),
     B(4, 2, "fp16", 1), B(5, 2, "fp8", 0), B(6, 2, "fp16", 0)}
=============================================================================
