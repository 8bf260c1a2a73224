------------------------------ MODULE MCQueries -----------------------------
(* Three documents, pages of two, the seven backends, and documents of each    *)
(* kind of field that tie, miss the value or hold different ones.              *)
EXTENDS Queries

MCDoc == 1..3
MCBackend == {"dummy", "meilisearch", "opensearch", "typesense", "postgres", "solr", "vespa"}
MCInitDocs ==
  [field \in Field |->
    LET low == Of(Kind(field), 1)
        high == Of(Kind(field), 2)
    IN {<<low, low, low>>, <<high, low, Null>>, <<Null, high, low>>, <<low, Absent, high>>, <<high, low, high>>}]

P(doc, position) == [doc |-> doc, position |-> position]
MCPinLists == {<<>>, <<P(3, 0)>>, <<P(1, 1), P(2, -1)>>, <<P(2, 0), P(3, 1)>>}
=============================================================================
