---------------------------- MODULE Intelligence -----------------------------
(* What icv-search learns from its users: the daily counts of queries, the     *)
(* reports drawn from them, the rewrites that auto_create_rewrites creates     *)
(* from queries without hits, and the daily counts of clicks that the          *)
(* management command icv_search_click_aggregate rolls up.                     *)
(*                                                                             *)
(* Commands run beside the users and beside each other; between two statements *)
(* of one, anybody may act, and it may be killed. Queries are numbers in the   *)
(* order of their texts, days are numbers; the counts are those of             *)
(* ICV_SEARCH_LOG_MODE "aggregate". A click carries query 1, written as it is  *)
(* counted ("plain") or with capitals.                                         *)
EXTENDS Naturals, SequencesExt, Sorting

CONSTANTS Command, Deployments, MaxDay

Query == 1..3
Tenant == {"", "t1"}
Form == {"plain", "capital"}
Day == 0..MaxDay
EventKind == {"search", "filtered", "change", "admin", "learn", "report", "clear", "click", "roll", "day", "kill"}
Pair == {p \in SUBSET Query : Cardinality(p) = 2}

(* A deployment: the queries that are asked, how alike two of them are (0: no  *)
(* trigram in common), from what on they belong together, the days a report    *)
(* looks back; with it, what the queries find at first and how often each kind *)
(* of event is explored.                                                       *)
Deployment == [queries : SUBSET Query, alike : [Pair -> 0..2], threshold : 1..2, days : Nat,
               finds : SUBSET [Tenant -> SUBSET Query], times : [EventKind -> Nat]]

ASSUME DeploymentsAssumption ==
  \A d \in Deployments :
    /\ d.queries \subseteq Query /\ d.alike \in [Pair -> 0..2] /\ d.threshold \in 1..2 /\ d.days \in Nat
    /\ \A f \in d.finds : f \in [Tenant -> SUBSET d.queries]
    /\ \A k \in EventKind : d.times[k] \in Nat
ASSUME MaxDayAssumption == MaxDay \in Nat

VARIABLES
  dep,        \* the deployment
  times,      \* how often each kind of event has happened
  today,
  content,    \* the queries that find something, for each tenant
  counts,     \* SearchQueryAggregate, for each day, tenant and query
  rewrites,   \* QueryRewrite, oldest first
  clicks,     \* for each day and form: SearchClick rows, SearchClickAggregate, clicks made
  emptied,    \* the days whose SearchClick rows were deleted
  spoilt,     \* for each day, what may have made its count of clicks wrong
  counted,    \* the tenants and queries that were ever counted
  narrowed,   \* those among them that a filter left without hits
  changed,    \* those among them whose content changed afterwards
  run         \* what each command is doing

intelligenceVars == <<dep, times, today, content, counts, rewrites, clicks, emptied, spoilt, counted, narrowed, changed, run>>

NoRun == [op |-> "none", at |-> "done", scope |-> "", day |-> 0, todo |-> <<>>, alone |-> TRUE,
          delete |-> FALSE, read |-> [f \in Form |-> 0], forms |-> {},
          before |-> <<>>, stats |-> <<>>, recent |-> <<>>, clicked |-> 0, result |-> <<>>, whole |-> TRUE]

IntelligenceInit ==
  /\ dep \in Deployments
  /\ times = [k \in EventKind |-> 0] /\ today = 0
  /\ content \in dep.finds
  /\ counts = [d \in Day |-> [t \in Tenant |-> [q \in Query |-> [total |-> 0, zero |-> 0]]]]
  /\ rewrites = <<>>
  /\ clicks = [d \in Day |-> [f \in Form |-> [raw |-> 0, agg |-> 0, made |-> 0]]]
  /\ emptied = {} /\ spoilt = [d \in Day |-> {}] /\ counted = {} /\ narrowed = {} /\ changed = {}
  /\ run = [c \in Command |-> NoRun]

(* Bound: each kind of event happens as often as the deployment says.          *)
Happens(kind) == times[kind] < dep.times[kind] /\ times' = [times EXCEPT ![kind] = @ + 1]
Running(c) == run[c].at # "done"
Does(c, r) == run' = [run EXCEPT ![c] = r]

(* ------------------------------- the counts -------------------------------- *)

(* A command of no tenant reads the rows of all of them.                       *)
\* Mutant: the tenant is not used to restrict the rows.
ScopeOfAll(scope) == Tenant
Scope(scope) == IF scope = "" THEN Tenant ELSE {scope}
(* From today - days on.                                                       *)
Window(day, days) == {d \in Day : d + days >= day}

Volume(cs, ds, scope, q) == SumFunction([x \in ds \X Scope(scope) |-> cs[x[1]][x[2]][q].total])
Zero(cs, ds, scope, q) == SumFunction([x \in ds \X Scope(scope) |-> cs[x[1]][x[2]][q].zero])
Rows(cs, ds, scope) == {q \in Query : \E d \in ds, t \in Scope(scope) : cs[d][t][q].total > 0}
Clicked(ds, f) == SumFunction([d \in ds |-> clicks[d][f].agg])

(* apply_rewrite: the newest active rewrite of the tenant or of all tenants;   *)
(* the query it gives is not rewritten again.                                  *)
Matching(t, q) ==
  {i \in DOMAIN rewrites : rewrites[i].active /\ rewrites[i].from = q /\ rewrites[i].tenant \in {t, ""}}
apply_rewrite(t, q) == rewrites[Max(Matching(t, q))].to

(* search, or merchandised_search where a rewrite matches: the query that was  *)
(* searched is counted, for the tenant of the index, and alone: its filter,    *)
(* which may leave nothing of what it finds, is not.                           *)
Search ==
  \E t \in Tenant, asked \in dep.queries, merchandised \in BOOLEAN, kind \in {"search", "filtered"} :
    /\ Happens(kind)
    /\ merchandised => Matching(t, asked) # {}
    /\ LET q == IF merchandised THEN apply_rewrite(t, asked) ELSE asked IN
       /\ counts' = [counts EXCEPT ![today][t][q].total = @ + 1,
                                   ![today][t][q].zero = IF q \in content[t] /\ kind = "search" THEN @ ELSE @ + 1]
       /\ counted' = counted \cup {<<t, q>>}
       /\ narrowed' = IF kind = "filtered" THEN narrowed \cup {<<t, q>>} ELSE narrowed
    /\ UNCHANGED <<dep, today, content, rewrites, clicks, emptied, spoilt, changed, run>>

(* The documents of a tenant change: a query finds something, or no longer.    *)
Change ==
  /\ Happens("change")
  /\ \E t \in Tenant, q \in dep.queries :
       /\ content' = [content EXCEPT ![t] = IF q \in @ THEN @ \ {q} ELSE @ \cup {q}]
       /\ changed' = changed \cup (counted \cap {<<t, q>>})
  /\ UNCHANGED <<dep, today, counts, rewrites, clicks, emptied, spoilt, counted, narrowed, run>>

NextDay ==
  /\ Happens("day")
  /\ today < MaxDay /\ today' = today + 1
  /\ UNCHANGED <<dep, content, counts, rewrites, clicks, emptied, spoilt, counted, narrowed, changed, run>>

(* clear_query_aggregates: reports of the days that are gone are not judged.   *)
clear_query_aggregates ==
  /\ Happens("clear")
  /\ \E older \in 0..MaxDay :
       counts' = [d \in Day |-> IF d + older < today
                                THEN [t \in Tenant |-> [q \in Query |-> [total |-> 0, zero |-> 0]]]
                                ELSE counts[d]]
  /\ run' = [c \in Command |-> [run[c] EXCEPT !.whole = FALSE]]
  /\ UNCHANGED <<dep, today, content, rewrites, clicks, emptied, spoilt, counted, narrowed, changed>>

(* -------------------------------- rewrites --------------------------------- *)

Alike(a, b) == dep.alike[{a, b}]
(* suggest_synonyms: more than half without hits; less than a fifth.           *)
Failing(ds, scope) == {q \in Rows(counts, ds, scope) : 2 * Zero(counts, ds, scope, q) > Volume(counts, ds, scope, q)}
Successful(ds, scope) == {q \in Rows(counts, ds, scope) : 5 * Zero(counts, ds, scope, q) < Volume(counts, ds, scope, q)}
Candidates(ds, scope, z) == {s \in Successful(ds, scope) : Alike(z, s) > 0}
Best(ds, scope, z) == {s \in Candidates(ds, scope, z) : \A o \in Candidates(ds, scope, z) : Alike(z, o) <= Alike(z, s)}
Sources(ds, scope) == {z \in Failing(ds, scope) : Candidates(ds, scope, z) # {}}
(* Whose searches a suggestion is drawn from.                                  *)
Evidence(ds, scope, qs) ==
  {t \in Tenant : scope \in {t, ""} /\ \E d \in ds, q \in qs : counts[d][t][q].total > 0}

(* The confidence is the likeness: the factor min(1, 1 + (n - 1) * 0.02) is 1. *)
(* Those below the threshold are skipped.                                      *)
Suggestions(ds, scope, best) ==
  LET suggested == {z \in Sources(ds, scope) : Alike(z, best[z]) >= dep.threshold}
      found == {[from |-> z, to |-> best[z], of |-> Evidence(ds, scope, {z, best[z]})] : z \in suggested} IN
  SortedBy(found, {p \in found \X found :
                     \/ Alike(p[1].from, p[1].to) > Alike(p[2].from, p[2].to)
                     \/ Alike(p[1].from, p[1].to) = Alike(p[2].from, p[2].to) /\ p[1].from < p[2].from})

Learns(c, scope) == Running(c) /\ run[c].op = "learn" /\ run[c].scope = scope

(* auto_create_rewrites: the suggestions are read, then taken one by one.      *)
BeginLearn(c) ==
  /\ ~Running(c) /\ Happens("learn")
  /\ \E scope \in Tenant :
       LET ds == Window(today, 30)  others == {o \in Command : Learns(o, scope)} IN
       \E best \in [Sources(ds, scope) -> Query] :
         /\ \A z \in Sources(ds, scope) : best[z] \in Best(ds, scope, z)
         /\ LET todo == Suggestions(ds, scope, best) IN
            /\ todo # <<>>
            /\ run' = [o \in Command |->
                         IF o = c THEN [NoRun EXCEPT !.op = "learn", !.at = "check", !.scope = scope,
                                                     !.todo = todo, !.alone = others = {}]
                         ELSE IF o \in others THEN [run[o] EXCEPT !.alone = FALSE] ELSE run[o]]
  /\ UNCHANGED <<dep, today, content, counts, rewrites, clicks, emptied, spoilt, counted, narrowed, changed>>

NextSuggestion(c) ==
  Does(c, IF Len(run[c].todo) = 1 THEN NoRun ELSE [run[c] EXCEPT !.todo = Tail(@), !.at = "check"])

(* A rewrite of the same query and tenant is enough, even one switched off.    *)
Exists(scope, q) == \E i \in DOMAIN rewrites : rewrites[i].tenant = scope /\ rewrites[i].from = q

CheckExisting(c) ==
  /\ run[c].at = "check"
  /\ IF Exists(run[c].scope, Head(run[c].todo).from) THEN NextSuggestion(c)
     ELSE Does(c, [run[c] EXCEPT !.at = "create"])
  /\ UNCHANGED <<dep, times, today, content, counts, rewrites, clicks, emptied, spoilt, counted, narrowed, changed>>

CreateRewrite(c) ==
  /\ run[c].at = "create"
  /\ LET s == Head(run[c].todo) IN
     rewrites' = Append(rewrites, [tenant |-> run[c].scope, from |-> s.from, to |-> s.to, active |-> TRUE,
                                   of |-> s.of, alone |-> run[c].alone])
  /\ NextSuggestion(c)
  /\ UNCHANGED <<dep, times, today, content, counts, clicks, emptied, spoilt, counted, narrowed, changed>>

(* enable_rules, disable_rules and delete of the admin.                        *)
Admin ==
  /\ Happens("admin")
  /\ \E i \in DOMAIN rewrites :
       \/ rewrites' = [rewrites EXCEPT ![i].active = ~@]
       \/ rewrites' = RemoveAt(rewrites, i)
  /\ UNCHANGED <<dep, today, content, counts, clicks, emptied, spoilt, counted, narrowed, changed, run>>

(* --------------------------------- clicks ---------------------------------- *)

Rolls(c, d) == Running(c) /\ run[c].op = "roll" /\ run[c].day = d

(* icv_search_click and log_click: the query is stored as it came.             *)
Click ==
  /\ Happens("click")
  /\ \E f \in Form :
       clicks' = [clicks EXCEPT ![today][f].raw = @ + 1, ![today][f].made = @ + 1]
  /\ spoilt' = IF \E c \in Command : Rolls(c, today) /\ run[c].delete
               THEN [spoilt EXCEPT ![today] = @ \cup {"between"}] ELSE spoilt
  /\ UNCHANGED <<dep, today, content, counts, rewrites, emptied, counted, narrowed, changed, run>>

AfterGroups(r) == IF r.forms # {} THEN [r EXCEPT !.at = "group"]
                  ELSE IF r.delete THEN [r EXCEPT !.at = "delete"] ELSE NoRun

(* icv_search_click_aggregate, with or without --delete-raw: the groups of a   *)
(* day are read; each is then created or overwritten; the rows are deleted.    *)
BeginRoll(c) ==
  /\ ~Running(c) /\ Happens("roll")
  /\ \E d \in 0..today, delete \in BOOLEAN :
       LET read == [f \in Form |-> clicks[d][f].raw] IN
       /\ Does(c, AfterGroups([NoRun EXCEPT !.op = "roll", !.day = d, !.delete = delete, !.read = read,
                                            !.forms = {f \in Form : read[f] > 0}]))
       /\ spoilt' = [spoilt EXCEPT ![d] = @ \cup (IF \E o \in Command : Rolls(o, d) THEN {"overlap"} ELSE {})
                                            \cup (IF d \in emptied THEN {"again"} ELSE {})]
  /\ UNCHANGED <<dep, today, content, counts, rewrites, clicks, emptied, counted, narrowed, changed>>

WriteGroup(c) ==
  /\ run[c].at = "group"
  /\ \E f \in run[c].forms :
       /\ clicks' = [clicks EXCEPT ![run[c].day][f].agg = run[c].read[f]]
       /\ Does(c, AfterGroups([run[c] EXCEPT !.forms = @ \ {f}]))
  /\ UNCHANGED <<dep, times, today, content, counts, rewrites, emptied, spoilt, counted, narrowed, changed>>

\* Mutant: the rows of all days are deleted.
DeletedAll(d) == Day
Deleted(d) == {d}

DeleteRaw(c) ==
  /\ run[c].at = "delete"
  /\ clicks' = [d \in Day |-> IF d \in Deleted(run[c].day)
                              THEN [f \in Form |-> [clicks[d][f] EXCEPT !.raw = 0]] ELSE clicks[d]]
  /\ emptied' = emptied \cup {run[c].day}
  /\ Does(c, NoRun)
  /\ UNCHANGED <<dep, times, today, content, counts, rewrites, spoilt, counted, narrowed, changed>>

(* --------------------------------- reports --------------------------------- *)

(* A report is named by what it reads first: demand signals, clusters, the     *)
(* click-through rate, the documents clicked most.                             *)
Report == {"weeks", "stats", "searches", "top"}

BeginReport(c) ==
  /\ ~Running(c) /\ Happens("report")
  /\ \E scope \in Tenant, first \in Report :
       Does(c, [NoRun EXCEPT !.op = first, !.scope = scope, !.day = today, !.at = first, !.before = counts])
  /\ UNCHANGED <<dep, today, content, counts, rewrites, clicks, emptied, spoilt, counted, narrowed, changed>>

Reported(c, r, result) == Does(c, [r EXCEPT !.at = "done", !.result = result])
DaysOf(r) == Window(r.day, dep.days)

(* get_demand_signals reads the two weeks, then the clicks, and the counts     *)
(* last. Bound: a week is one day; the recent one has a day more, as in the    *)
(* code, today being counted too.                                              *)
Week == 1
RecentDays(day) == Window(day, Week)
PreviousDays(day) == Window(day, 2 * Week) \ RecentDays(day)

ReadWeeks(c) ==
  /\ run[c].at = "weeks"
  /\ LET r == run[c] IN
     Does(c, [r EXCEPT !.at = "clicked",
                       !.recent = [q \in Query |-> <<Volume(counts, RecentDays(r.day), r.scope, q),
                                                     Volume(counts, PreviousDays(r.day), r.scope, q)>>]])
  /\ UNCHANGED <<dep, times, today, content, counts, rewrites, clicks, emptied, spoilt, counted, narrowed, changed>>

ReadClicked(c) ==
  /\ run[c].at = "clicked"
  /\ Does(c, [run[c] EXCEPT !.at = "rows", !.clicked = Clicked(DaysOf(run[c]), "plain")])
  /\ UNCHANGED <<dep, times, today, content, counts, rewrites, clicks, emptied, spoilt, counted, narrowed, changed>>

(* The gap score, rate * volume, is the number of searches without hits.       *)
(* Bound: min_volume and min_gap_score are 1.                                  *)
Demand(r, volume, zero, rows) ==
  LET short == {[query |-> q, volume |-> volume[q], gap |-> zero[q], recent |-> r.recent[q][1],
                 previous |-> r.recent[q][2], clicks |-> IF q = 1 THEN r.clicked ELSE 0] :
                  q \in {x \in rows : volume[x] >= 1 /\ zero[x] >= 1}} IN
  SortedBy(short, {p \in short \X short :
                     p[1].gap > p[2].gap \/ (p[1].gap = p[2].gap /\ p[1].query < p[2].query)})

ReadRows(c) ==
  /\ run[c].at = "rows"
  /\ LET r == run[c]  ds == DaysOf(r) IN
     Reported(c, r, Demand(r, [q \in Query |-> Volume(counts, ds, r.scope, q)],
                           [q \in Query |-> Zero(counts, ds, r.scope, q)], Rows(counts, ds, r.scope)))
  /\ UNCHANGED <<dep, times, today, content, counts, rewrites, clicks, emptied, spoilt, counted, narrowed, changed>>

(* cluster_queries reads the counts, then the pairs that are alike.            *)
ReadStats(c) ==
  /\ run[c].at = "stats"
  /\ LET r == run[c]  ds == DaysOf(r)
         stats == [q \in Rows(counts, ds, r.scope) |-> [volume |-> Volume(counts, ds, r.scope, q),
                                                        zero |-> Zero(counts, ds, r.scope, q)]] IN
     Does(c, [r EXCEPT !.at = "pairs", !.stats = stats])
  /\ UNCHANGED <<dep, times, today, content, counts, rewrites, clicks, emptied, spoilt, counted, narrowed, changed>>

(* The queries that steps of R lead to from those of S.                        *)
Closure(S, R) ==
  {q \in Query : \A T \in SUBSET Query : (S \subseteq T /\ \A p \in R : p[1] \in T => p[2] \in T) => q \in T}

(* _UnionFind; shortening the paths changes no root.                           *)
Find(parent, x) == CHOOSE r \in Closure({x}, {<<q, parent[q]>> : q \in Query}) : parent[r] = r
\* Mutant: the second query is hung up, not the root of its tree.
UnionOfLeaf(parent, x, y) == [parent EXCEPT ![y] = Find(parent, x)]
Union(parent, x, y) == [parent EXCEPT ![Find(parent, y)] = Find(parent, x)]
UnionAll(pairs) ==
  LET joined[n \in 0..Len(pairs)] ==
        IF n = 0 THEN [q \in Query |-> q] ELSE Union(joined[n - 1], pairs[n][1], pairs[n][2]) IN
  joined[Len(pairs)]

Clusters(stats, parent) ==
  LET Group(x) == {q \in DOMAIN stats : Find(parent, q) = Find(parent, x)}
      Summary(g) == [members |-> g,
                     representative |-> CHOOSE q \in g : \A o \in g : stats[o].volume <= stats[q].volume,
                     volume |-> SumFunction([q \in g |-> stats[q].volume]),
                     zero |-> SumFunction([q \in g |-> stats[q].zero])]
      clusters == {Summary(Group(x)) : x \in DOMAIN stats} IN
  SortedBy(clusters, {p \in clusters \X clusters :
                        \/ p[1].volume > p[2].volume
                        \/ p[1].volume = p[2].volume /\ Min(p[1].members) < Min(p[2].members)})

ReadPairs(c) ==
  /\ run[c].at = "pairs"
  /\ LET r == run[c]  rows == Rows(counts, DaysOf(r), r.scope)
         alike == {p \in rows \X rows : p[1] < p[2] /\ Alike(p[1], p[2]) >= dep.threshold} IN
     IF Cardinality(DOMAIN r.stats) < 2 THEN Reported(c, r, Clusters(r.stats, [q \in Query |-> q]))
     ELSE \E pairs \in SetToSeqs(alike) : Reported(c, r, Clusters(r.stats, UnionAll(pairs)))
  /\ UNCHANGED <<dep, times, today, content, counts, rewrites, clicks, emptied, spoilt, counted, narrowed, changed>>

(* get_click_through_rate reads the searches of the query in plain form, then  *)
(* its clicks; without searches the rate is 0. get_top_clicked_documents reads *)
(* the clicks first.                                                           *)
ReadSearches(c) ==
  /\ run[c].at = "searches"
  /\ LET r == run[c]  searches == Volume(counts, DaysOf(r), r.scope, 1) IN
     IF searches = 0 THEN Reported(c, r, <<[searches |-> 0, clicks |-> 0]>>)
     ELSE Does(c, [r EXCEPT !.at = "ratio", !.stats = <<searches>>])
  /\ UNCHANGED <<dep, times, today, content, counts, rewrites, clicks, emptied, spoilt, counted, narrowed, changed>>

ReadRatio(c) ==
  /\ run[c].at = "ratio"
  /\ Reported(c, run[c], <<[searches |-> run[c].stats[1], clicks |-> Clicked(DaysOf(run[c]), "plain")]>>)
  /\ UNCHANGED <<dep, times, today, content, counts, rewrites, clicks, emptied, spoilt, counted, narrowed, changed>>

ReadTop(c) ==
  /\ run[c].at = "top"
  /\ LET r == run[c]  found == Clicked(DaysOf(r), "plain") IN
     IF found = 0 THEN Reported(c, r, <<>>) ELSE Does(c, [r EXCEPT !.at = "topratio", !.clicked = found])
  /\ UNCHANGED <<dep, times, today, content, counts, rewrites, clicks, emptied, spoilt, counted, narrowed, changed>>

ReadTopRatio(c) ==
  /\ run[c].at = "topratio"
  /\ LET r == run[c] IN
     Reported(c, r, <<[searches |-> Volume(counts, DaysOf(r), r.scope, 1), clicks |-> r.clicked]>>)
  /\ UNCHANGED <<dep, times, today, content, counts, rewrites, clicks, emptied, spoilt, counted, narrowed, changed>>

(* A command is killed: its statements so far stay.                            *)
Kill ==
  /\ Happens("kill")
  /\ \E c \in Command : Running(c) /\ Does(c, NoRun)
  /\ UNCHANGED <<dep, today, content, counts, rewrites, clicks, emptied, spoilt, counted, narrowed, changed>>

IntelligenceNext ==
  \/ Search \/ Change \/ NextDay \/ clear_query_aggregates \/ Admin \/ Click \/ Kill
  \/ \E c \in Command :
       \/ BeginLearn(c) \/ CheckExisting(c) \/ CreateRewrite(c)
       \/ BeginRoll(c) \/ WriteGroup(c) \/ DeleteRaw(c)
       \/ BeginReport(c) \/ ReadWeeks(c) \/ ReadClicked(c) \/ ReadRows(c)
       \/ ReadStats(c) \/ ReadPairs(c) \/ ReadSearches(c) \/ ReadRatio(c) \/ ReadTop(c) \/ ReadTopRatio(c)

IntelligenceSpec == IntelligenceInit /\ [][IntelligenceNext]_intelligenceVars

(* ------------------------------- properties -------------------------------- *)

(* A learned rewrite takes a query without hits to one that has some, for      *)
(* every tenant it is in force for, unless other tenants' searches were summed *)
(* up for it, the tenant's documents changed after the searches were counted,  *)
(* or the query had been searched with a filter that left nothing. A query     *)
(* and tenant have one rewrite, switched on or off, unless two commands looked *)
(* for it together: one an editor switched off is not learned again            *)
(* (suggest_synonyms, auto_create_rewrites).                                   *)
Helps(r, t) == r.from \notin content[t] /\ r.to \in content[t]
RewritesHelp ==
  \A i \in DOMAIN rewrites, t \in Tenant :
    LET r == rewrites[i] IN
    (/\ r.tenant \in {t, ""} /\ r.of \subseteq {t}
     /\ {<<t, r.from>>, <<t, r.to>>} \cap changed = {} /\ <<t, r.from>> \notin narrowed) => Helps(r, t)
OneRewrite ==
  \A i, j \in DOMAIN rewrites :
    (i < j /\ rewrites[i].tenant = rewrites[j].tenant /\ rewrites[i].from = rewrites[j].from) => ~rewrites[j].alone
RewritesRight == RewritesHelp /\ OneRewrite

(* No click is counted twice, and every click whose row was deleted is in the  *)
(* day's count, unless it came between the reading and the deleting of the     *)
(* day, the day was rolled up again after its rows were deleted, or by two     *)
(* commands together (icv_search_click_aggregate).                             *)
ClicksKept ==
  \A d \in Day, f \in Form :
    LET k == clicks[d][f] IN k.agg <= k.made /\ (spoilt[d] = {} => k.made <= k.agg + k.raw)

(* Every number of searches in a report lies between what had been counted     *)
(* when the report began and what is counted when it is done, whatever is      *)
(* searched between its statements; its clicks, which a roll-up may set back,  *)
(* are at most those made in its days. Demand lists every query that fell      *)
(* short, the worst first, and its two weeks are no more than the volume when  *)
(* the days hold them. Clusters share out the queries, two being together when *)
(* a chain of alike queries joins them and never unless one does, under the    *)
(* member with the most searches of those that were read.                      *)
VolumeOf(cs, r, q) == Volume(cs, DaysOf(r), r.scope, q)
ZeroOf(cs, r, q) == Zero(cs, DaysOf(r), r.scope, q)
WeekOf(cs, r, week, x) == Volume(cs, week, r.scope, x.query)
MadeOf(r) == SumFunction([d \in DaysOf(r) |-> clicks[d]["plain"].made])

DemandRight(r) ==
  /\ \A i \in DOMAIN r.result :
       LET x == r.result[i] IN
       /\ VolumeOf(r.before, r, x.query) <= x.volume /\ x.volume <= VolumeOf(counts, r, x.query)
       /\ ZeroOf(r.before, r, x.query) <= x.gap /\ x.gap <= ZeroOf(counts, r, x.query)
       /\ WeekOf(r.before, r, RecentDays(r.day), x) <= x.recent /\ x.recent <= WeekOf(counts, r, RecentDays(r.day), x)
       /\ WeekOf(r.before, r, PreviousDays(r.day), x) <= x.previous
       /\ x.previous <= WeekOf(counts, r, PreviousDays(r.day), x)
       /\ dep.days >= 2 * Week => x.recent + x.previous <= x.volume
       /\ x.clicks <= IF x.query = 1 THEN MadeOf(r) ELSE 0
  /\ \A q \in Query : ZeroOf(r.before, r, q) >= 1 => \E i \in DOMAIN r.result : r.result[i].query = q
  /\ \A i, j \in DOMAIN r.result :
       i < j => r.result[i].query # r.result[j].query /\ r.result[i].gap >= r.result[j].gap

(* The queries that chains of alike ones among rows lead to from q.            *)
Reach(q, rows) ==
  Closure({q}, {p \in Query \X rows : p[1] # p[2] /\ Alike(p[1], p[2]) >= dep.threshold})

ClustersRight(r) ==
  LET rows == Rows(counts, DaysOf(r), r.scope)
      known == UNION {r.result[i].members : i \in DOMAIN r.result} IN
  /\ Rows(r.before, DaysOf(r), r.scope) \subseteq known
  /\ \A i, j \in DOMAIN r.result :
       i < j => r.result[i].members \cap r.result[j].members = {} /\ r.result[i].volume >= r.result[j].volume
  /\ \A i \in DOMAIN r.result :
       LET g == r.result[i] IN
       /\ \A q \in g.members : Reach(q, known) \subseteq g.members /\ g.members \subseteq Reach(q, rows)
       /\ g.representative \in g.members
       /\ \A q \in g.members : /\ r.stats[q].volume <= r.stats[g.representative].volume
                                /\ VolumeOf(r.before, r, q) <= r.stats[q].volume
                                /\ r.stats[q].volume <= VolumeOf(counts, r, q)
       /\ SumFunction([q \in g.members |-> VolumeOf(r.before, r, q)]) <= g.volume
       /\ g.volume <= SumFunction([q \in g.members |-> VolumeOf(counts, r, q)])
       /\ SumFunction([q \in g.members |-> ZeroOf(r.before, r, q)]) <= g.zero
       /\ g.zero <= SumFunction([q \in g.members |-> ZeroOf(counts, r, q)])

RatioRight(r) ==
  \A i \in DOMAIN r.result :
    LET x == r.result[i] IN
    /\ VolumeOf(r.before, r, 1) <= x.searches /\ x.searches <= VolumeOf(counts, r, 1)
    /\ x.clicks <= MadeOf(r)

ReportRight(r) ==
  /\ r.op = "weeks" => DemandRight(r)
  /\ r.op = "stats" => ClustersRight(r)
  /\ r.op \in {"searches", "top"} => RatioRight(r)

ReportsRight ==
  \A c \in Command : (run[c].op \in Report /\ run[c].at = "done" /\ run[c].whole) => ReportRight(run[c])
=============================================================================
