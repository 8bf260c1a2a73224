------------------------------ MODULE Filters -------------------------------
(* What the backends of icv-search make of a filter and of a sort, and what    *)
(* their engines find with it. A document is reduced to the value of the one   *)
(* field that is filtered and sorted. A filter is one condition: conditions    *)
(* are joined by AND everywhere, so each backend treats them one by one.       *)
(*                                                                             *)
(* What is sent to the engine is the backend's code; what an engine does with  *)
(* a value of another type, a missing value or an expression it cannot parse   *)
(* is its documented behaviour.                                                *)
EXTENDS Integers, FiniteSets, SequencesExt

(* A field holds numbers, texts or booleans, or texts that are both searched   *)
(* and filtered ("dual"): on OpenSearch such a field is analysed and has a     *)
(* "keyword" sub-field. The values of a kind are its two members 1 < 2; for    *)
(* booleans these are False and True, and numbers are 9 and 10, which as texts *)
(* come the other way round.                                                   *)
Field == {"num", "text", "bool", "dual"}
Kind(field) == IF field = "dual" THEN "text" ELSE field
Of(kind, n) == [kind |-> kind, n |-> n]
Null == Of("null", 0)
Absent == Of("absent", 0)
Values(field) == {Of(Kind(field), n) : n \in 1..2}
Missing(v) == v \in {Null, Absent}

(* op x: "in" is a list of x, and of None too where "none" says so.            *)
(* "__in" and "__ne" are lookups only the query builder knows.                 *)
Range_op == {"gte", "gt", "lte", "lt"}
C(op, x, none) == [op |-> op, x |-> x, none |-> none]
Cond(field) ==
  {c \in [op : {"is", "in", "__in", "__ne"} \union Range_op, x : Values(field) \union {Null}, none : BOOLEAN] :
    \/ c.op \notin Range_op /\ c.x # Null /\ ~c.none
    \/ c.op = "is" /\ c.x = Null /\ ~c.none
    \/ c.op = "in" /\ c.x # Null /\ c.x.kind # "bool" /\ c.none
    \/ c.op \in Range_op /\ c.x # Null /\ ~c.none /\ field \in {"num", "text"}}
ListOf(c) == {c.x} \union (IF c.none THEN {Null} ELSE {})

Compares(op, v, x) ==
  /\ v.kind = x.kind
  /\ CASE op = "gte" -> v.n >= x.n
       [] op = "gt" -> v.n > x.n
       [] op = "lte" -> v.n <= x.n
       [] op = "lt" -> v.n < x.n

(* What the condition says.                                                    *)
Means(c, v) ==
  CASE c.op \in Range_op -> Compares(c.op, v, c.x)
    [] c.op = "is" /\ c.x = Null -> Missing(v)
    [] c.op = "__ne" -> v # c.x
    [] c.op = "in" -> v \in ListOf(c) \/ (c.none /\ Missing(v))
    [] OTHER -> v = c.x

(* Where a suffix is not known the whole key is the name of a field, which no  *)
(* document has.                                                               *)
Unknown(c) == c.op \in {"__in", "__ne"}
Plain(c) == [c EXCEPT !.op = IF c.op = "__in" THEN "in" ELSE "is"]
Seen(c, v) == IF Unknown(c) THEN Absent ELSE v

(* A range over something else than a number is left out of the filter.        *)
Skipped(c) == c.op \in Range_op /\ c.x.kind # "num"

(* ------------------------ a dict, on each backend -------------------------- *)

(* bool(None) is False.                                                        *)
_matches_filters(c, v) ==
  \/ Skipped(c)
  \/ ~Skipped(c) /\ c.op \in Range_op /\ Compares(c.op, v, c.x)
  \/ c.op = "in" /\ (v \in ListOf(c) \/ (c.none /\ v = Absent))
  \/ c.op = "is" /\ (v = c.x \/ (Missing(v) /\ c.x \in {Null, Of("bool", 1)}))

(* body->>'field' is NULL for a missing value; the members of a list and None  *)
(* become Python's text: 'True', 'None'.                                       *)
postgres_where(c, v) ==
  \/ Skipped(c)
  \/ ~Skipped(c) /\ c.op \in Range_op /\ Compares(c.op, v, c.x)
  \/ c.op = "in" /\ v = c.x /\ c.x.kind # "bool"
  \/ c.op = "is" /\ v = c.x /\ c.x # Null

(* IS NULL finds the documents that have the field.                            *)
translate_filter_to_meilisearch(c, v) ==
  \/ Skipped(c)
  \/ ~Skipped(c) /\ c.op \in Range_op /\ Compares(c.op, v, c.x)
  \/ c.op \in {"in", "is"} /\ v = c.x

(* Vespa's list operator takes numbers and texts; it has no test for a missing *)
(* field, and !(field) is no expression.                                       *)
translate_filter_to_yql(c, v) ==
  \/ Skipped(c)
  \/ ~Skipped(c) /\ c.op \in Range_op /\ Compares(c.op, v, c.x)
  \/ c.op \in {"in", "is"} /\ v = c.x
yql_refused(c) ==
  \/ Unknown(c)
  \/ c.op = "in" /\ (c.none \/ c.x.kind = "bool")
  \/ c.op = "is" /\ c.x = Null

(* Each value is sent with its operator; Typesense compares numbers only, and  *)
(* None is the text `None`, which a field of another type refuses.             *)
translate_filter_to_typesense(c, v) ==
  \/ c.op \in Range_op /\ Compares(c.op, v, c.x)
  \/ c.op \in {"in", "is"} /\ v = c.x /\ c.x # Null
typesense_refused(c, field) ==
  \/ Unknown(c)
  \/ c.op \in Range_op /\ Kind(field) # "num"
  \/ (c.none \/ c.x = Null) /\ Kind(field) # "text"

\* Mutant: the open bracket of gt is the one of gte.
translate_filter_to_solr_inclusive(c, v) ==
  \/ c.op \in Range_op /\ Compares(IF c.op = "gt" THEN "gte" ELSE c.op, v, c.x)
  \/ c.op = "in" /\ v = c.x
  \/ c.op = "is" /\ (v = c.x \/ (c.x = Null /\ Missing(v)))

(* [v TO *], {v TO *}, [* TO v], [* TO v}; -field:[* TO *] for None.           *)
translate_filter_to_solr(c, v) ==
  \/ c.op \in Range_op /\ Compares(c.op, v, c.x)
  \/ c.op = "in" /\ v = c.x
  \/ c.op = "is" /\ (v = c.x \/ (c.x = Null /\ Missing(v)))
solr_refused(c, field) == Unknown(c) \/ (c.none /\ Kind(field) # "text")

(* A field that is filtered or sorted by is mapped to keyword, whatever it     *)
(* holds: numbers are compared as texts. search() does not say which fields    *)
(* have a keyword sub-field: a term on an analysed text finds nothing. A list  *)
(* with None is refused.                                                       *)
ByText(b, v) == b = "opensearch" /\ v.kind = "num"
keyword(v) == IF v.kind = "num" THEN Of("num", 3 - v.n) ELSE v
translate_filter_to_opensearch(c, v, field) ==
  \/ c.op \in Range_op /\ Compares(c.op, keyword(v), keyword(c.x))
  \/ c.op \in {"in", "is"} /\ v = c.x /\ field # "dual"
  \/ c.op = "is" /\ c.x = Null /\ Missing(v)
opensearch_refused(c) == c.op = "in" /\ c.none

(* The engines that answer an unknown field with an error; the others know no  *)
(* document that has it.                                                       *)
dict_finds(b, field, c, v) ==
  LET k == IF Unknown(c) THEN Plain(c) ELSE c
      w == Seen(c, v)
  IN CASE b = "dummy" -> _matches_filters(k, w)
       [] b = "postgres" -> postgres_where(k, w)
       [] b = "meilisearch" -> translate_filter_to_meilisearch(k, w)
       [] b = "vespa" -> translate_filter_to_yql(k, w)
       [] b = "typesense" -> translate_filter_to_typesense(k, w)
       [] b = "solr" -> translate_filter_to_solr(k, w)
       [] b = "opensearch" -> translate_filter_to_opensearch(k, w, field)
dict_refused(b, field, c) ==
  \/ b = "vespa" /\ yql_refused(c)
  \/ b = "typesense" /\ typesense_refused(c, field)
  \/ b = "solr" /\ solr_refused(c, field)
  \/ b = "opensearch" /\ opensearch_refused(c)
  \/ b = "meilisearch" /\ Unknown(c)

(* ------------- the list the query builder makes, on each backend ----------- *)

(* Expressions in Meilisearch's syntax; None becomes the text None, and !=     *)
(* finds the documents without the field.                                      *)
_build_filter_expression(c, v) ==
  CASE c.op \in Range_op -> Compares(c.op, v, c.x)
    [] c.op = "__ne" -> v # c.x
    [] OTHER -> v = c.x /\ c.x # Null

(* Only Meilisearch knows them, and not the text of a Python list. OpenSearch, *)
(* Solr and the dummy backend fail on the list; the others take a filter that  *)
(* is no dict and no string for none.                                          *)
list_finds(b, c, v) == b = "meilisearch" => _build_filter_expression(c, v)
list_refused(b, c) ==
  \/ b \in {"opensearch", "solr", "dummy"}
  \/ b = "meilisearch" /\ c.op \in Range_op /\ c.x.kind # "num"
  \/ b = "meilisearch" /\ c.op = "in"

(* --------------------- a string in the engine's syntax --------------------- *)

native_finds(b, c, v) == b \in {"dummy", "opensearch"} \/ Means(c, v)
native_refused(b) == b = "postgres"

(* ----------------------------- a whole filter ------------------------------ *)

NoFilter == [form |-> "none", c |-> C("is", Null, FALSE)]

Asked(f, v) == f.form = "none" \/ Means(f.c, v)

finds(b, field, f, v) ==
  CASE f.form = "dict" -> dict_finds(b, field, f.c, v)
    [] f.form = "list" -> list_finds(b, f.c, v)
    [] f.form = "native" -> native_finds(b, f.c, v)
    [] f.form = "none" -> TRUE
refused(b, field, f) ==
  CASE f.form = "dict" -> dict_refused(b, field, f.c)
    [] f.form = "list" -> list_refused(b, f.c)
    [] f.form = "native" -> native_refused(b)
    [] f.form = "none" -> FALSE

(* Why a backend may find something else than was asked for.                   *)
Strays(b, field, f) ==
  {why \in {"skipped", "suffix", "builder", "raw", "none", "analysed", "as text", "list of booleans", "False is None"} :
    CASE why = "skipped" ->
           f.form = "dict" /\ Skipped(f.c) /\ b \in {"dummy", "postgres", "meilisearch", "vespa"}
      [] why = "suffix" -> f.form = "dict" /\ Unknown(f.c)
      [] why = "builder" -> f.form = "list" /\ b \in {"postgres", "typesense", "vespa"}
      [] why = "raw" -> f.form = "native" /\ b \in {"dummy", "opensearch"}
      [] why = "none" -> /\ f.form # "native"
                         /\ f.c.none \/ (f.form # "none" /\ f.c.x = Null)
                         /\ ~(f.form = "dict" /\ b = "dummy")
                         /\ ~(f.form = "dict" /\ ~f.c.none /\ b \in {"solr", "opensearch"})
      [] why = "analysed" -> /\ b = "opensearch" /\ field = "dual" /\ f.form = "dict"
                             /\ f.c.op \in {"in", "is"} /\ f.c.x # Null
      [] why = "as text" -> f.form = "dict" /\ f.c.op \in Range_op /\ ByText(b, f.c.x)
      [] why = "list of booleans" ->
           b = "postgres" /\ f.form = "dict" /\ f.c.op = "in" /\ f.c.x.kind = "bool"
      [] why = "False is None" ->
           b = "dummy" /\ f.form = "dict" /\ f.c.op = "is" /\ f.c.x = Of("bool", 1)}

(* ---------------------------------- sort ----------------------------------- *)

(* The place of a value in a sorted list, and of a missing one: 0 before and 3 *)
(* or 4 after the values. Python's reverse=True turns the "last" of the sort   *)
(* key into "first"; OpenSearch is told _last; PostgreSQL NULLS LAST, which    *)
(* speaks of a field that is absent: a stored None is a JSON null, the least   *)
(* of the JSON values. The other engines have rules of their own.              *)
Up(dir, n) == IF dir = "asc" THEN n ELSE 3 - n
Placed(dir, v, missing) == IF Missing(v) THEN missing ELSE Up(dir, v.n)
apply_sort_to_documents(dir, v) == Placed(dir, v, Up(dir, 3))
postgres_order(dir, v) == IF v = Absent THEN 4 ELSE Up(dir, v.n)
translate_sort_to_opensearch(dir, v) == Placed(dir, keyword(v), 3)
translate_sort_to_meilisearch(dir, v) == Placed(dir, v, 3)
translate_sort_to_solr(dir, v) == Placed(dir, v, Up(dir, 0))
translate_sort_to_typesense(dir, v) == Placed(dir, v, 0)
translate_sort_to_yql(dir, v) == Placed(dir, v, 0)
(* "asked": what the caller expects, documents without a value last.           *)
Place(b, dir, v) ==
  CASE b = "asked" -> Placed(dir, v, 3)
    [] b = "dummy" -> apply_sort_to_documents(dir, v)
    [] b = "postgres" -> postgres_order(dir, v)
    [] b = "opensearch" -> translate_sort_to_opensearch(dir, v)
    [] b = "meilisearch" -> translate_sort_to_meilisearch(dir, v)
    [] b = "solr" -> translate_sort_to_solr(dir, v)
    [] b = "typesense" -> translate_sort_to_typesense(dir, v)
    [] b = "vespa" -> translate_sort_to_yql(dir, v)

(* Whether v may, and must, stand before w.                                    *)
InOrder(b, dir, v, w) == Place(b, dir, v) <= Place(b, dir, w)
Before(b, dir, v, w) == InOrder(b, dir, v, w) /\ ~InOrder(b, dir, w, v)
MissingFirst(b, dir, v) == Missing(v) /\ Place(b, dir, v) = 0

(* OpenSearch does not sort by an analysed text.                               *)
sort_refused(b, field, dir) == b = "opensearch" /\ field = "dual" /\ dir # "none"
=============================================================================
