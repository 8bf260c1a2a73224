--------------------------- MODULE MCSearchIndexes ---------------------------
(* Each backend once, with the settings that make it differ: two calls at a    *)
(* time, or one at a time with two more after it (InTurn).                     *)
EXTENDS SearchIndexes, TLC

D(b, sync, async, tenant) ==
  [backend |-> b, autosync |-> sync, async |-> async, tenant |-> tenant, parallel |-> 2, sequels |-> 0]
InTurn(d) == [d EXCEPT !.parallel = 1, !.sequels = 2]

MCUid == {"live", "tmp", "default"}
MCDeployments ==
  {D("meilisearch", TRUE, TRUE, FALSE), D("postgres", TRUE, FALSE, TRUE)}
  \cup {InTurn(D("meilisearch", TRUE, FALSE, FALSE)), InTurn(D("opensearch", TRUE, FALSE, FALSE))}
  \cup {[InTurn(d) EXCEPT !.sequels = 1] :
          d \in {D("dummy", FALSE, FALSE, FALSE), D("solr", TRUE, TRUE, FALSE), D("vespa", TRUE, FALSE, FALSE)}}
  \cup {[D("typesense", FALSE, FALSE, FALSE) EXCEPT !.parallel = 3]}
Callers == Permutations(Caller)
=============================================================================
