---------------------------- MODULE MCPriceCache -----------------------------
(***************************************************************************)
(* Small instances of PriceCache for TLC.                                  *)
(***************************************************************************)
EXTENDS PriceCache, TLC

Prices(gpu, availability, window) ==
    [route |-> "prices", gpu |-> gpu, availability |-> availability, window |-> window]
Index(workload, precision, limit) ==
    [route |-> "index", workload |-> workload, precision |-> precision, limit |-> limit]

MCSegments  == {"", "all", "any", "1", "9", "7", "30", "50", "llm"}
MCKnownGpus == {<<"1">>}

\* One key under each prefix, so that both sweeps matter.
OneKeyEach == {Prices(<<"1">>, Missing, <<"30">>), Index(<<"llm">>, Missing, <<"50">>)}

\* Two windows of one GPU, a price request for an unknown GPU, and an index.
SeveralKeys == OneKeyEach \cup
    {Prices(<<"1">>, Missing, <<"7">>), Prices(<<"9">>, Missing, <<"30">>)}

\* A filter left out and the literal that stands for it in the key, and an
\* empty precision.
Literals == {Prices(<<"1">>, Missing, <<"30">>), Prices(<<"1">>, <<"all">>, <<"30">>),
             Index(<<"llm">>, Missing, <<"50">>), Index(<<"llm">>, <<"any">>, <<"50">>),
             Index(<<"llm">>, EmptyText, <<"50">>)}

\* Requests, of either kind, are interchangeable.
Symmetry == Permutations(Reads) \cup Permutations(Ingests)
=============================================================================
