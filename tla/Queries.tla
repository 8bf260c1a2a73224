------------------------------- MODULE Queries ------------------------------
(* Searches that go on for more than one step: a deletion by filter that first *)
(* collects its documents page by page while others write, a caller that reads *)
(* all pages of a search, and a merchandised search whose hits are pinned and  *)
(* boosted after the engine has ranked them. The backends differ in what they  *)
(* make of a filter, a sort, a page and a score (Filters).                     *)
EXTENDS Filters, Sorting

CONSTANTS Doc,          \* document ids, in the order they were put; higher ones
                        \* are more relevant to a text
          Backend,      \* the backends considered
          InitDocs,     \* the values of the documents of each field at the start
          Limit,        \* page size, and _FILTER_DELETE_SCAN_LIMIT
          DefaultLimit, \* the limit of a backend that is sent none, 20
          MaxWrites,    \* bound: writes during one deletion
          PinLists      \* pins of a query, sorted by position, -1 at the end

Gone == Of("gone", 0)
Pin == [doc : Doc, position : Nat \union {-1}]

ASSUME DocAssumption == Doc \subseteq Nat \ {0} /\ IsFiniteSet(Doc)
ASSUME LimitAssumption == {Limit, DefaultLimit} \subseteq Nat \ {0} /\ MaxWrites \in Nat
ASSUME BackendAssumption ==
  Backend \subseteq {"dummy", "meilisearch", "opensearch", "typesense", "postgres", "solr", "vespa"}
ASSUME InitDocsAssumption ==
  \A field \in Field : InitDocs[field] \subseteq [Doc -> Values(field) \union {Null, Absent, Gone}]
ASSUME PinListsAssumption == PinLists \subseteq Seq(Pin)

VARIABLES index,   \* the backend and the kind of the field
          docs,    \* the value of each document of the index
          writes,  \* writes so far
          call     \* the call that runs, with what a reader of the code remembers
queriesVars == <<index, docs, writes, call>>

There == {d \in Doc : docs[d] # Gone}

Idle == [op |-> "none", step |-> "idle", filter |-> NoFilter, sort |-> "none", mode |-> "none",
         start |-> 0, offset |-> 0, number |-> 0, ids |-> {}, shown |-> <<>>, removed |-> {},
         always |-> {}, changed |-> FALSE, why |-> {}, text |-> FALSE, marked |-> FALSE,
         pins |-> <<>>, boost |-> FALSE, scores |-> <<>>, formatted |-> <<>>, stubs |-> {}]

Wanted(f) == {d \in There : Asked(f, docs[d])}
Found(f) == {d \in There : finds(index.engine, index.field, f, docs[d])}

(* ------------------------------ the engine --------------------------------- *)

(* Documents in the order of the engine: of the sort, else of the relevance to *)
(* a text (the dummy backend does not rank), else as they were put.            *)
Precedes(d, e, sort, text) ==
  IF sort = "none" THEN (IF text /\ index.engine # "dummy" THEN d > e ELSE d < e)
  ELSE \/ Before(index.engine, sort, docs[d], docs[e])
       \/ ~Before(index.engine, sort, docs[e], docs[d]) /\ d < e
EngineOrder(S, sort, text) == SortedBy(S, {p \in S \X S : Precedes(p[1], p[2], sort, text)})

(* PostgreSQL promises no order between rows that ORDER BY does not tell apart *)
(* and none at all without it; with a text ts_rank comes before the sort.      *)
Tied(d, e, sort) ==
  \/ sort = "none"
  \/ InOrder(index.engine, sort, docs[d], docs[e]) /\ InOrder(index.engine, sort, docs[e], docs[d])
Rankings(S, sort, text) ==
  IF index.engine # "postgres" THEN {EngineOrder(S, sort, text)}
  ELSE IF text THEN {EngineOrder(S, "none", TRUE)}
  ELSE {s \in SetToSeqs(S) : \A i, j \in DOMAIN s :
          i < j => Tied(s[i], s[j], sort) \/ Before(index.engine, sort, docs[s[i]], docs[s[j]])}

(* A score with the document it was computed for (0: none, or by position).    *)
Score(d, x) == [of |-> d, value |-> x]
NoScore == Score(0, 0)
ScoresOf(s) == [i \in DOMAIN s |-> Score(s[i], s[i])]

(* The answer of a backend's search to q: the ranked documents, those that the *)
(* text found, the page, and whether scores and highlights are "marked".       *)
Slice(s, limit, offset) == SubSeq(s, offset + 1, IF offset + limit < Len(s) THEN offset + limit ELSE Len(s))
Hits(q) == Slice(q.ranking, q.limit, q.offset)
Answer(hits, scores, formatted) == [hits |-> hits, scores |-> scores, formatted_hits |-> formatted]

(* Scores are computed before the filter and the sort.                         *)
dummy_search(q) ==
  Answer(Hits(q), IF q.text THEN Slice(ScoresOf(q.matched), q.limit, q.offset) ELSE <<>>,
         IF q.marked /\ q.text THEN Hits(q) ELSE <<>>)
postgres_search(q) ==
  Answer(Hits(q), IF q.text THEN ScoresOf(Hits(q)) ELSE <<>>, IF q.marked /\ q.text THEN Hits(q) ELSE <<>>)
meilisearch_search(q) ==
  Answer(Hits(q), IF q.marked THEN ScoresOf(Hits(q)) ELSE <<>>, IF q.marked THEN Hits(q) ELSE <<>>)
opensearch_search(q) == Answer(Hits(q), <<>>, IF q.marked THEN Hits(q) ELSE <<>>)
(* Typesense knows pages: an offset that is no multiple of the limit is        *)
(* rounded down.                                                               *)
typesense_search(q) ==
  LET hits == Slice(q.ranking, q.limit, (q.offset \div q.limit) * q.limit)
  IN Answer(hits, <<>>, IF q.marked THEN hits ELSE <<>>)
(* The highlighted hits go under a name that from_engine does not read.        *)
solr_search(q) == Answer(Hits(q), <<>>, <<>>)
(* The parameters of a highlight are not known.                                *)
vespa_search(q) == Answer(Hits(q), ScoresOf(Hits(q)), <<>>)

backend_search(q) ==
  CASE index.engine = "dummy" -> dummy_search(q)
    [] index.engine = "postgres" -> postgres_search(q)
    [] index.engine = "meilisearch" -> meilisearch_search(q)
    [] index.engine = "opensearch" -> opensearch_search(q)
    [] index.engine = "typesense" -> typesense_search(q)
    [] index.engine = "solr" -> solr_search(q)
    [] index.engine = "vespa" -> vespa_search(q)

Page(ranking, limit, offset) ==
  backend_search([ranking |-> ranking, matched |-> <<>>, limit |-> limit, offset |-> offset,
                  text |-> FALSE, marked |-> FALSE]).hits

Refuses(f, sort) == refused(index.engine, index.field, f) \/ sort_refused(index.engine, index.field, sort)

(* ------------------------- deletion by filter ------------------------------ *)

Delete(f) ==
  /\ call.op = "none"
  /\ f.form \in {"dict", "native"}
  /\ call' = [Idle EXCEPT !.op = "delete", !.step = "page", !.filter = f, !.always = Wanted(f),
                          !.why = Strays(index.engine, index.field, f)]
  /\ UNCHANGED <<index, docs, writes>>

\* Mutant: the loop ends after the first page.
CollectFirstPage ==
  /\ call.op = "delete" /\ call.step = "page"
  /\ index.engine # "meilisearch"
  /\ ~Refuses(call.filter, "none")
  /\ \E ranking \in Rankings(Found(call.filter), "none", FALSE) :
       LET ids == Range(Page(ranking, Limit, 0))
       IN call' = [call EXCEPT !.ids = ids, !.step = IF ids = {} THEN "done" ELSE "remove"]
  /\ UNCHANGED <<index, docs, writes>>

(* One search of the loop; a page that is not full is the last one.            *)
CollectPage ==
  /\ call.op = "delete" /\ call.step = "page"
  /\ index.engine # "meilisearch"
  /\ ~Refuses(call.filter, "none")
  /\ \E ranking \in Rankings(Found(call.filter), "none", FALSE) :
       LET hits == Page(ranking, Limit, call.offset)
           more == Len(hits) = Limit
           ids == call.ids \union Range(hits)
       IN call' = [call EXCEPT !.ids = ids,
                     !.offset = IF more THEN @ + Limit ELSE @,
                     !.step = IF more THEN "page" ELSE IF ids = {} THEN "done" ELSE "remove",
                     !.why = @ \union (IF call.offset > 0 /\ index.engine = "postgres" THEN {"unordered"} ELSE {})
                               \union (IF call.offset > 0 /\ call.changed THEN {"shifted"} ELSE {})]
  /\ UNCHANGED <<index, docs, writes>>

(* delete_documents. Typesense and OpenSearch may refuse single documents,     *)
(* which is no error, and Vespa, whose backend fails afterwards; Solr and      *)
(* OpenSearch show a deletion only with their next commit or refresh.          *)
MayKeep == index.engine \in {"typesense", "opensearch", "solr", "vespa"}
DeleteIds ==
  /\ call.op = "delete" /\ call.step = "remove"
  /\ \E kept \in SUBSET call.ids :
       /\ kept # {} => MayKeep
       /\ docs' = [d \in Doc |-> IF d \in call.ids \ kept THEN Gone ELSE docs[d]]
       /\ call' = [call EXCEPT !.step = IF kept # {} /\ index.engine = "vespa" THEN "failed" ELSE "done",
                               !.removed = (call.ids \ kept) \intersect There,
                               !.why = @ \union (IF kept # {} THEN {"kept"} ELSE {})]
  /\ UNCHANGED <<index, writes>>

(* One request; Meilisearch refuses one with an empty filter.                  *)
DeleteNative ==
  /\ call.op = "delete" /\ call.step = "page"
  /\ index.engine = "meilisearch"
  /\ ~Refuses(call.filter, "none") /\ "skipped" \notin call.why
  /\ docs' = [d \in Doc |-> IF d \in Found(call.filter) THEN Gone ELSE docs[d]]
  /\ call' = [call EXCEPT !.step = "done", !.removed = Found(call.filter)]
  /\ UNCHANGED <<index, writes>>

DeleteRefused ==
  /\ call.op = "delete" /\ call.step = "page"
  /\ \/ Refuses(call.filter, "none")
     \/ index.engine = "meilisearch" /\ "skipped" \in call.why
  /\ call' = [call EXCEPT !.step = "failed"]
  /\ UNCHANGED <<index, docs, writes>>

(* Another process puts or removes a document. A document that was collected   *)
(* and is written before it is removed is removed all the same.                *)
Write(d, v) ==
  /\ call.op = "delete" /\ call.step \in {"page", "remove"}
  /\ writes < MaxWrites
  /\ v # docs[d]
  /\ writes' = writes + 1
  /\ docs' = [docs EXCEPT ![d] = v]
  /\ call' = [call EXCEPT !.always = @ \ (IF v # Gone /\ Asked(call.filter, v) THEN {} ELSE {d}),
                          !.changed = TRUE,
                          !.why = @ \union (IF d \in call.ids THEN {"stale"} ELSE {})]
  /\ UNCHANGED index

(* ------------------------- reading all the pages --------------------------- *)

(* A caller that goes on by offset, by SearchQuery.page or by the paginator,   *)
(* from the first hit or, by offset, from the second.                          *)
Read(f, sort, mode, start) ==
  /\ call.op = "none"
  /\ f.form \in {"dict", "list", "none"}
  /\ start > 0 => mode = "offset"
  /\ call' = [Idle EXCEPT !.op = "read", !.step = "page", !.filter = f, !.sort = sort,
                          !.mode = mode, !.start = start, !.offset = start, !.number = 1,
                          !.why = Strays(index.engine, index.field, f)]
  /\ UNCHANGED <<index, docs, writes>>

(* What page number or offset of the asked pages the engine is sent. "page"    *)
(* and "hits_per_page" are Meilisearch's; paginate() sets the limit only.      *)
execute(ranking) ==
  CASE call.mode = "offset" -> Page(ranking, Limit, call.offset)
    [] call.mode = "page" ->
         IF index.engine = "meilisearch" THEN Page(ranking, Limit, (call.number - 1) * Limit)
         ELSE Page(ranking, DefaultLimit, 0)
    [] call.mode = "paginate" -> Page(ranking, Limit, 0)

num_pages(count) == IF count <= Limit THEN 1 ELSE ((count - 1) \div Limit) + 1

ReadWhy ==
  {why \in {"same page", "few", "page rounded", "missing first", "as text", "unordered"} :
    LET S == Found(call.filter)
    IN CASE why = "same page" ->
              call.number > 1 /\ (call.mode = "paginate" \/ (call.mode = "page" /\ index.engine # "meilisearch"))
         [] why = "few" ->
              call.mode = "page" /\ index.engine # "meilisearch" /\ Cardinality(S) > DefaultLimit
         [] why = "page rounded" -> index.engine = "typesense" /\ call.offset % Limit # 0
         [] why = "missing first" -> call.sort # "none" /\ \E d \in S : MissingFirst(index.engine, call.sort, docs[d])
         [] why = "as text" -> call.sort # "none" /\ \E d \in S : ByText(index.engine, docs[d])
         [] why = "unordered" ->
              /\ index.engine = "postgres" /\ (call.number > 1 \/ call.start > 0)
              /\ \E d, e \in S : d # e /\ Tied(d, e, call.sort)}

(* The next page; the paginator knows how many there are, the others go on     *)
(* until a page is not full.                                                   *)
ReadPage ==
  /\ call.op = "read" /\ call.step = "page"
  /\ ~Refuses(call.filter, call.sort)
  /\ \E ranking \in Rankings(Found(call.filter), call.sort, FALSE) :
       LET hits == execute(ranking)
           more == IF call.mode = "paginate" THEN call.number < num_pages(Len(ranking))
                   ELSE Len(hits) = Limit
       IN call' = [call EXCEPT !.shown = @ \o hits, !.number = @ + 1, !.offset = @ + Limit,
                     !.step = IF more /\ call.number <= Cardinality(Doc) THEN "page" ELSE "done",
                     !.why = @ \union ReadWhy]
  /\ UNCHANGED <<index, docs, writes>>

ReadRefused ==
  /\ call.op = "read" /\ call.step = "page"
  /\ Refuses(call.filter, call.sort)
  /\ call' = [call EXCEPT !.step = "failed"]
  /\ UNCHANGED <<index, docs, writes>>

(* -------------------- hits, scores and highlighted hits -------------------- *)

(* Steps 5 to 7 of a merchandised search.                                      *)
Merchandised(f, sort, text, marked, pins, boost) ==
  /\ call.op = "none"
  /\ f.form \in {"dict", "none"}
  /\ call' = [Idle EXCEPT !.op = "search", !.step = "search", !.filter = f, !.sort = sort,
                          !.text = text, !.marked = marked, !.pins = pins, !.boost = boost]
  /\ UNCHANGED <<index, docs, writes>>

from_engine(r) ==
  [call EXCEPT !.shown = r.hits, !.scores = r.scores, !.formatted = r.formatted_hits, !.step = "pin",
               !.why = IF /\ index.engine = "dummy" /\ call.text
                          /\ call.sort # "none" \/ Found(call.filter) # There
                       THEN {"scored before"} ELSE {}]

EngineSearch ==
  /\ call.op = "search" /\ call.step = "search"
  /\ ~Refuses(call.filter, call.sort)
  /\ \E ranking \in Rankings(Found(call.filter), call.sort, call.text) :
       call' = from_engine(backend_search([ranking |-> ranking, matched |-> EngineOrder(There, "none", call.text),
                                           limit |-> Limit, offset |-> 0, text |-> call.text,
                                           marked |-> call.marked]))
  /\ UNCHANGED <<index, docs, writes>>

SearchRefused ==
  /\ call.op = "search" /\ call.step = "search"
  /\ Refuses(call.filter, call.sort)
  /\ call' = [call EXCEPT !.step = "failed"]
  /\ UNCHANGED <<index, docs, writes>>

\* Mutant: the score is not taken out with its hit.
apply_pin_score_left(r, pin) ==
  LET at == SelectInSeq(r.shown, LAMBDA d : d = pin.doc)
      hits == IF at = 0 THEN r.shown ELSE RemoveAt(r.shown, at)
      pos == IF pin.position = -1 \/ pin.position > Len(hits) THEN Len(hits) ELSE pin.position
  IN [r EXCEPT !.shown = InsertAt(hits, pos + 1, pin.doc),
               !.scores = IF @ = <<>> THEN <<>> ELSE InsertAt(@, pos + 1, NoScore)]

(* The hit is taken out with its score, or a stub made, and put back.          *)
apply_pin(r, pin) ==
  LET at == SelectInSeq(r.shown, LAMBDA d : d = pin.doc)
      hits == IF at = 0 THEN r.shown ELSE RemoveAt(r.shown, at)
      scored == at # 0 /\ at <= Len(r.scores)
      score == IF scored THEN r.scores[at] ELSE NoScore
      scores == IF scored THEN RemoveAt(r.scores, at) ELSE r.scores
      pos == IF pin.position = -1 \/ pin.position > Len(hits) THEN Len(hits) ELSE pin.position
      end == IF pin.position = -1 THEN Len(scores) ELSE pos
  IN [r EXCEPT !.shown = InsertAt(hits, pos + 1, pin.doc),
               !.scores = IF scores = <<>> THEN <<>> ELSE InsertAt(scores, end + 1, score),
               !.stubs = IF at = 0 THEN @ \union {pin.doc} ELSE @]

(* The pins are applied one after the other.                                   *)
apply_pins ==
  /\ call.op = "search" /\ call.step = "pin"
  /\ call' = IF call.pins = <<>> THEN [call EXCEPT !.step = "boost"]
             ELSE [apply_pin(call, Head(call.pins)) EXCEPT
                     !.pins = Tail(@),
                     !.why = @ \union (IF call.formatted # <<>> THEN {"highlights stay"} ELSE {})]
  /\ UNCHANGED <<index, docs, writes>>

(* The rule: the field is at least the higher value. A stub has no fields.     *)
_evaluate_operator(d) == d \notin call.stubs /\ docs[d].n >= 2

(* Its weight is 4. A hit without a score gets one of its position; equal      *)
(* scores keep their order.                                                    *)
Boosted(i) ==
  LET own == i <= Len(call.scores) /\ call.scores[i] # NoScore
      base == IF own THEN call.scores[i] ELSE Score(0, Len(call.shown) - i + 1)
  IN [base EXCEPT !.value = IF _evaluate_operator(call.shown[i]) THEN @ * 4 ELSE @]
apply_boosts ==
  /\ call.op = "search" /\ call.step = "boost"
  /\ IF ~call.boost \/ call.shown = <<>> THEN call' = [call EXCEPT !.step = "done"]
     ELSE LET new == [i \in DOMAIN call.shown |-> Boosted(i)]
              before(i, j) == new[i].value > new[j].value \/ (new[i].value = new[j].value /\ i < j)
              places == DOMAIN call.shown
              order == SortedBy(places, {p \in places \X places : before(p[1], p[2])})
          IN call' = [call EXCEPT
                        !.shown = [k \in DOMAIN order |-> call.shown[order[k]]],
                        !.scores = [k \in DOMAIN order |-> new[order[k]]],
                        !.step = "done",
                        !.why = @ \union (IF call.formatted # <<>> THEN {"highlights stay"} ELSE {})]
  /\ UNCHANGED <<index, docs, writes>>

(* What a template reads.                                                      *)
get_highlighted_hits(r) == IF r.formatted # <<>> THEN r.formatted ELSE r.shown
get_hit_with_score(r, i) == IF i <= Len(r.scores) THEN r.scores[i].of ELSE 0

(* ------------------------------ specification ------------------------------ *)

Filter(field, form) == {[form |-> form, c |-> c] : c \in Cond(field)}
AnyFilter(forms) ==
  UNION {IF form = "none" THEN {NoFilter} ELSE Filter(index.field, form) : form \in forms}

QueriesInit ==
  /\ index \in [engine : Backend, field : Field]
  /\ docs \in InitDocs[index.field]
  /\ writes = 0
  /\ call = Idle

QueriesNext ==
  \/ /\ call.op = "none"
     /\ \/ \E f \in AnyFilter({"dict", "native"}) : Delete(f)
        \/ \E f \in AnyFilter({"dict", "list", "none"}), sort \in {"none", "asc", "desc"},
              mode \in {"offset", "page", "paginate"}, start \in 0..1 : Read(f, sort, mode, start)
        \/ \E f \in {f \in AnyFilter({"dict", "none"}) : f.c.op = "is"}, sort \in {"none", "desc"},
              text, marked, boost \in BOOLEAN, pins \in PinLists : Merchandised(f, sort, text, marked, pins, boost)
  \/ CollectPage \/ DeleteIds \/ DeleteNative \/ DeleteRefused
  \/ \E d \in Doc, v \in Values(index.field) \union {Null, Gone} : Write(d, v)
  \/ ReadPage \/ ReadRefused
  \/ EngineSearch \/ SearchRefused \/ apply_pins \/ apply_boosts

QueriesSpec == QueriesInit /\ [][QueriesNext]_queriesVars

(* -------------------------------- properties ------------------------------- *)

(* A deletion by filter (backends/base.py) that ended has removed every        *)
(* document that matched from its start to its end, and nothing that did not   *)
(* match when it was removed, unless the backend left the condition out or     *)
(* read it as something else (Strays), or PostgreSQL ordered two pages         *)
(* differently ("unordered"). A write between two pages may hide a document    *)
(* from the loop ("shifted"); one to a collected document may make the removal *)
(* wrong ("stale"); a document may be kept by the engine, or found until its   *)
(* next commit ("kept").                                                       *)
DeletesRight ==
  [][call.op = "delete" /\ call'.step = "done" =>
       /\ call'.why \ {"stale"} = {} => call.always \subseteq call'.removed
       /\ call'.why \ {"shifted", "kept"} = {} => call'.removed \subseteq Wanted(call.filter)]_queriesVars

(* The pages a caller has read one after the other show each document that the *)
(* filter asks for once, in the order of the sort, documents without a value   *)
(* last (from the given start on), unless the backend read the filter          *)
(* differently (Strays), put documents without a value elsewhere ("missing     *)
(* first"), sorted numbers as texts ("as text"), ignored the page ("same       *)
(* page": SearchQuery.page on other engines than Meilisearch, and paginate())  *)
(* and the page size ("few": of the former, when there is more than the        *)
(* backend's own limit), rounded the offset ("page rounded") or left the order *)
(* of ties open ("unordered").                                                 *)
PagesRight ==
  (call.op = "read" /\ call.step = "done" /\ call.why = {}) =>
    LET wanted == Wanted(call.filter)
    IN /\ Range(call.shown) \subseteq wanted
       /\ call.start <= Cardinality(wanted) => Len(call.shown) + call.start = Cardinality(wanted)
       /\ \A i, j \in DOMAIN call.shown : i < j =>
            /\ call.shown[i] # call.shown[j]
            /\ call.sort # "none" => ~Before("asked", call.sort, docs[call.shown[j]], docs[call.shown[i]])

(* After pins and boosts each score still belongs to the hit at its place, the *)
(* highlighted hits are the hits in their order, and no hit is there twice,    *)
(* unless the dummy backend had scored before it filtered and sorted ("scored  *)
(* before") or pins and boosts left the highlighted hits in the order of the   *)
(* engine ("highlights stay").                                                 *)
HitsAligned ==
  (call.op = "search" /\ call.step \notin {"search", "failed"}) =>
    /\ "scored before" \notin call.why =>
         \A i \in DOMAIN call.shown : get_hit_with_score(call, i) \in {0, call.shown[i]}
    /\ "highlights stay" \notin call.why => get_highlighted_hits(call) = call.shown
    /\ \A i, j \in DOMAIN call.shown : i # j => call.shown[i] # call.shown[j]
=============================================================================
