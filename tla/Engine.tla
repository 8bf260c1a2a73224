------------------------------- MODULE Engine -------------------------------
(* What the backends of icv-search do to the indexes of an engine, as far as   *)
(* the services of icv-search can see it. An engine is a function from index   *)
(* names to indexes; an index holds settings and, for each document, the       *)
(* version of the row it was built from (0: none).                             *)
(*                                                                             *)
(* Each method of a backend is an operator that returns the engine it leaves   *)
(* and whether it returned or raised. How the engines behind the drivers       *)
(* answer (a missing index, an existing one) is their documented behaviour;    *)
(* which of their calls a backend makes, and what it drops on the way, is the  *)
(* backend's code.                                                             *)
EXTENDS Naturals

CONSTANTS Doc,    \* primary keys of the indexed model
          Uid     \* engine names of indexes

Backend == {"dummy", "meilisearch", "opensearch", "typesense", "postgres", "solr", "vespa"}

(* The settings the model tells apart: one that each engine with a schema     *)
(* takes, one that some drop when it is empty, and one under its canonical     *)
(* and its legacy name. A value is missing, present but empty, or present.     *)
Key == {"searchableAttributes", "stopWords", "rankingRules", "ranking_rules"}
Value == {"missing", "empty", "custom"}
NoSettings == [k \in Key |-> "missing"]
NoDocs == [d \in Doc |-> 0]

(* "there": the engine knows the index. The dummy and the PostgreSQL backend   *)
(* keep documents of names they do not know, so documents are held apart.      *)
NoIndex == [there |-> FALSE, settings |-> NoSettings, docs |-> NoDocs]
FreshIndex == [NoIndex EXCEPT !.there = TRUE]

(* A call that returns with the engine e, and one that needs a condition and   *)
(* raises SearchBackendError without it.                                       *)
Done(e) == [ok |-> TRUE, engine |-> e]
If(cond, e, new) == [ok |-> cond, engine |-> IF cond THEN new ELSE e]

Replace(e, u, index) == [e EXCEPT ![u] = index]
Store(e, u, d, version) == [e EXCEPT ![u].docs[d] = version]
Touch(e, u) == [e EXCEPT ![u].there = TRUE]

(* The keys of s that are pushed, over what was there.                         *)
Merge(old, s, keys) == [k \in Key |-> IF k \in keys THEN s[k] ELSE old[k]]
Given(s, keys) == {k \in keys : s[k] # "missing"}
Filled(s, keys) == {k \in keys : s[k] = "custom"}

(* -------------------- create_index and delete_index ------------------------ *)

dummy_create(e, u) == Done(Replace(e, u, FreshIndex))

(* A task that fails on an existing index; its failure is not waited for.      *)
meilisearch_create(e, u) == Done(IF e[u].there THEN e ELSE Replace(e, u, FreshIndex))
opensearch_create(e, u) == If(~e[u].there, e, Replace(e, u, FreshIndex))
typesense_create(e, u) == If(~e[u].there, e, Replace(e, u, FreshIndex))
solr_create(e, u) == If(~e[u].there, e, Replace(e, u, FreshIndex))

(* ON CONFLICT ... DO UPDATE: documents left under the name are found again.   *)
postgres_create(e, u) == Done(Touch(e, u))

(* The name goes into the registry of the process; the schema is deployed.     *)
vespa_create(e, u) == Done(Touch(e, u))

create_index(b, e, u) ==
  CASE b = "dummy" -> dummy_create(e, u)
    [] b = "meilisearch" -> meilisearch_create(e, u)
    [] b = "opensearch" -> opensearch_create(e, u)
    [] b = "typesense" -> typesense_create(e, u)
    [] b = "solr" -> solr_create(e, u)
    [] b = "postgres" -> postgres_create(e, u)
    [] b = "vespa" -> vespa_create(e, u)

(* Engines that answer 404 for an index they do not know.                      *)
Strict == {"opensearch", "typesense", "solr"}

postgres_delete(e, u) == Done(Replace(e, u, NoIndex))
vespa_delete(e, u) == Done(Replace(e, u, NoIndex))

delete_index(b, e, u) ==
  IF b \in Strict THEN If(e[u].there, e, Replace(e, u, NoIndex))
  ELSE IF b = "postgres" THEN postgres_delete(e, u)
  ELSE IF b = "vespa" THEN vespa_delete(e, u)
  ELSE Done(Replace(e, u, NoIndex))

(* ----------------------------- update_settings ----------------------------- *)

(* The dictionary replaces what was there.                                     *)
dummy_settings(e, u, s) == Done([e EXCEPT ![u].settings = s])
postgres_settings(e, u, s) == If(e[u].there, e, [e EXCEPT ![u].settings = s])

(* A PATCH: keys that are absent stay, a key the engine does not know is       *)
(* refused, an index that does not exist is created.                           *)
meilisearch_settings(e, u, s) ==
  If(s["ranking_rules"] = "missing", e,
     [Touch(e, u) EXCEPT ![u].settings = Merge(@, s, Given(s, Key))])

(* Each call is made only for a list that is not empty.                        *)
opensearch_carried == {"searchableAttributes", "stopWords"}
opensearch_settings(e, u, s) ==
  LET sent == Filled(s, opensearch_carried)
  IN If(sent = {} \/ e[u].there, e, [e EXCEPT ![u].settings = Merge(@, s, sent)])

typesense_settings(e, u, s) ==
  LET sent == Filled(s, {"searchableAttributes"})
  IN If(sent = {} \/ e[u].there, e, [e EXCEPT ![u].settings = Merge(@, s, sent)])

(* The searchable attributes stay in the memory of the process.                *)
solr_settings(e, u, s) ==
  LET sent == Filled(s, {"stopWords"})
  IN If(sent = {} \/ e[u].there, e, [e EXCEPT ![u].settings = Merge(@, s, sent)])

(* All settings stay in the memory of the process.                             *)
vespa_settings(e, u, s) == Done(e)

update_settings(b, e, u, s) ==
  CASE b = "dummy" -> dummy_settings(e, u, s)
    [] b = "meilisearch" -> meilisearch_settings(e, u, s)
    [] b = "opensearch" -> opensearch_settings(e, u, s)
    [] b = "typesense" -> typesense_settings(e, u, s)
    [] b = "solr" -> solr_settings(e, u, s)
    [] b = "postgres" -> postgres_settings(e, u, s)
    [] b = "vespa" -> vespa_settings(e, u, s)

(* The settings a backend brings to its engine when they are not empty, and    *)
(* those it brings there empty.                                                *)
Carried(b) ==
  CASE b \in {"dummy", "postgres"} -> Key
    [] b = "meilisearch" -> Key \ {"ranking_rules"}
    [] b = "opensearch" -> opensearch_carried
    [] b = "typesense" -> {"searchableAttributes"}
    [] b = "solr" -> {"stopWords"}
    [] b = "vespa" -> {}
Resettable(b) == IF b \in Strict THEN {} ELSE Carried(b)

(* ------------------------------ get_settings ------------------------------- *)

Listed(s, keys) ==
  [k \in Key |-> IF k \notin keys THEN "missing" ELSE IF s[k] = "missing" THEN "empty" ELSE s[k]]

opensearch_reports(e, u) ==
  [Listed(e[u].settings, {"searchableAttributes"}) EXCEPT !["stopWords"] = e[u].settings["stopWords"]]
typesense_reports(e, u) == Listed(e[u].settings, {"searchableAttributes"})
solr_reports(e, u) == Listed(e[u].settings, {"stopWords"})

get_settings(b, e, u) ==
  CASE b = "opensearch" -> opensearch_reports(e, u)
    [] b = "typesense" -> typesense_reports(e, u)
    [] b = "solr" -> solr_reports(e, u)
    [] OTHER -> e[u].settings

(* ------------------------------- documents --------------------------------- *)

(* Engines that make an index of a document that is sent to an unknown name.   *)
meilisearch_add(e, u, d, version) == Done(Touch(Store(e, u, d, version), u))
opensearch_add(e, u, d, version) == Done(Touch(Store(e, u, d, version), u))
postgres_add(e, u, d, version) == Done(Store(e, u, d, version))
vespa_add(e, u, d, version) == Done(Store(e, u, d, version))
typesense_add(e, u, d, version) == If(e[u].there, e, Store(e, u, d, version))
solr_add(e, u, d, version) == If(e[u].there, e, Store(e, u, d, version))

add_document(b, e, u, d, version) ==
  CASE b = "meilisearch" -> meilisearch_add(e, u, d, version)
    [] b = "opensearch" -> opensearch_add(e, u, d, version)
    [] b = "typesense" -> typesense_add(e, u, d, version)
    [] b = "solr" -> solr_add(e, u, d, version)
    [] b = "vespa" -> vespa_add(e, u, d, version)
    [] OTHER -> postgres_add(e, u, d, version)

(* Typesense collects the errors of the single calls and returns them.         *)
delete_document(b, e, u, d) == If(b # "solr" \/ e[u].there, e, Store(e, u, d, 0))

(* The state when the deletion is over. OpenSearch is not waited for: it may   *)
(* go on deleting after the call has returned.                                 *)
clear_documents(b, e, u) == If(b \notin Strict \/ e[u].there, e, [e EXCEPT ![u].docs = NoDocs])
Unwaited == {"opensearch"}

(* ------------------------------ swap_indexes ------------------------------- *)

Exchange(e, u, v) == [e EXCEPT ![u] = e[v], ![v] = e[u]]
dummy_swap(e, u, v) == Done(Exchange(e, u, v))

(* A task that fails unless both exist; its failure is not waited for.         *)
meilisearch_swap(e, u, v) == Done(IF e[u].there /\ e[v].there THEN Exchange(e, u, v) ELSE e)

(* An alias is added beside the index: <u>_live, <u> (which yields to the      *)
(* collection of that name) and <u>_alias. The index called <u> stays.         *)
opensearch_swap(e, u, v) == Done(e)
typesense_swap(e, u, v) == Done(e)
solr_swap(e, u, v) == Done(e)
AliasOnly == {"opensearch", "typesense", "solr"}

(* NotImplementedError.                                                        *)
Unswappable == {"postgres", "vespa"}

swap_indexes(b, e, u, v) ==
  CASE b = "opensearch" -> opensearch_swap(e, u, v)
    [] b = "typesense" -> typesense_swap(e, u, v)
    [] b = "solr" -> solr_swap(e, u, v)
    [] b \in Unswappable -> If(FALSE, e, e)
    [] b = "dummy" -> dummy_swap(e, u, v)
    [] b = "meilisearch" -> meilisearch_swap(e, u, v)

(* Whether a swap that returns puts v in the place of u.                       *)
Exchanges(b, e, u, v) == b = "dummy" \/ (b = "meilisearch" /\ e[u].there /\ e[v].there)
=============================================================================
