--------------------------- MODULE SearchRequests ----------------------------
(* What a search request of icv-search passes through: the rules of the        *)
(* merchandising pipeline and their cache, the result cache with its set of    *)
(* keys, the engine, and the daily count of a query. Other calls write         *)
(* documents and change rules meanwhile.                                       *)
(*                                                                             *)
(* Clients are requests and workers. Each runs one service function and is at  *)
(* one of its calls to a cache, the engine or the database ("at"); between two *)
(* of them any other client may act, entries of the caches may expire, and a   *)
(* client may be killed. With ATOMIC_REQUESTS a request is one transaction,    *)
(* committed by its last step.                                                 *)
EXTENDS Integers, FiniteSets

CONSTANTS Client, Deployments, MaxVersion, MaxFaults

(* A deployment: whether results are cached, whether the engine applies later  *)
(* what it accepts (a task of Meilisearch, the refresh of OpenSearch), whether *)
(* the indexes of the two tenants have one name, whether requests are          *)
(* transactions, the type of the rules in use, the retries of a fallback; with *)
(* it, which calls are explored there, the queries they ask, how many overlap  *)
(* and how many come when everything is at rest.                               *)
Deployment == [cached : BOOLEAN, deferred : BOOLEAN, shared : BOOLEAN, atomic : BOOLEAN,
               rule : {"none", "redirect", "rewrite", "fallback"}, retries : Nat,
               kinds : SUBSET {"search", "user", "complete", "put", "silent", "rule", "admin"},
               asks : SUBSET {"q1", "q2", "q3"},
               parallel : Nat, sequels : Nat]

(* Rules belong to an index name; they are explored where there is one.        *)
ASSUME DeploymentsAssumption ==
  /\ Deployments \subseteq Deployment
  /\ \A d \in Deployments : d.rule # "none" => d.shared
ASSUME ClientAssumption == IsFiniteSet(Client)
ASSUME BoundsAssumption == MaxVersion \in Nat /\ MaxFaults \in Nat

VARIABLES
  dep,       \* the deployment
  content,   \* the version of each tenant's documents that the engine has accepted
  served,    \* the version that a search finds
  results,   \* the cached results
  keyset,    \* the keys registered for each index name
  rules,     \* the tenants that have an active rule; "" is the rule of all
  loaded,    \* the cached lists of rules
  total,     \* SearchQueryAggregate.total_count, 0: no row
  call,      \* what each client is doing, and the answer to its last request
  begun, faults,   \* counters of the bounds
  due, lost  \* searches that had to be counted, and those known to be lost

vars == <<dep, content, served, results, keyset, rules, loaded, total, call, begun, faults, due, lost>>

Tenant == {"", "t1"}
Name(t) == IF dep.shared THEN "" ELSE t
Query == {"q1", "q2", "q3"}
Key == Tenant \X Query         \* index name and query; also tenant and query

(* A rewrite turns a query into q2; a fallback asks for q2, and then for q2    *)
(* without its last word, which is q3.                                         *)
Shorter(q) == IF q = "q2" THEN "q3" ELSE q
Finds(version) == CASE version = 0 -> {} [] version = 1 -> {"q3"} [] OTHER -> Query

NoEntry == [there |-> FALSE, of |-> "", ver |-> 0, why |-> {}]
NoList == [there |-> FALSE, list |-> {}, why |-> {}]
NoCounts == [k \in Key |-> 0]
NoCall == [op |-> "none", at |-> "none", tenant |-> "", given |-> "", query |-> "q1", tries |-> 0,
           user |-> FALSE, log |-> FALSE, answer |-> NoEntry, list |-> {}, known |-> {},
           counted |-> NoCounts, draft |-> {}, since |-> 0, quiet |-> TRUE]

Step(c) == call[c].at
Idle(c) == Step(c) = "none"
AtRest == \A c \in Client : Idle(c)
Others(c) == Client \ {c}

Init ==
  /\ dep \in Deployments
  /\ content = [t \in Tenant |-> 0] /\ served = content
  /\ results = [k \in Key |-> NoEntry]
  /\ keyset = [n \in Tenant |-> {}]
  /\ rules \in IF dep.rule = "none" THEN {{}} ELSE SUBSET Tenant
  /\ loaded = [t \in Tenant |-> NoList]
  /\ total = [k \in Key |-> 0]
  /\ call = [c \in Client |-> NoCall]
  /\ begun = 0 /\ faults = 0
  /\ due = total /\ lost = total

(* ------------------------------- beginnings -------------------------------- *)

MayBegin == begun < dep.parallel \/ (AtRest /\ begun < dep.parallel + dep.sequels)

(* A writer that has changed documents and not yet deleted the cached results. *)
Invalidates(c) == call[c].op = "put" /\ Step(c) \in {"keyset_known", "delete_many"}
Invalidating(n) == \E c \in Client : Invalidates(c) /\ Name(call[c].tenant) = n

Begin(c, r, step) ==
  /\ Idle(c) /\ MayBegin
  /\ begun' = begun + 1
  /\ call' = [call EXCEPT ![c] = [r EXCEPT !.at = step]]
  /\ UNCHANGED <<dep, content, served, results, keyset, rules, loaded, total, faults, due, lost>>

Request(t) == [NoCall EXCEPT !.tenant = t, !.since = content[t], !.quiet = ~Invalidating(Name(t))]

(* merchandised_search, or search when the pipeline is off. The rules are      *)
(* those of the argument; the index is that of the tenant the middleware knows *)
(* when there is no argument.                                                  *)
MerchandisedSearch(c) ==
  \E t \in Tenant, user \in BOOLEAN, q \in dep.asks :
    \E given \in {"", t} :
      /\ (IF user THEN "user" ELSE "search") \in dep.kinds
      /\ dep.rule = "none" => given = t
      /\ Begin(c, [Request(t) EXCEPT !.op = "search", !.query = q, !.given = given, !.user = user, !.log = TRUE],
               IF dep.rule \in {"redirect", "rewrite"} THEN "rules_get" ELSE "get")

Autocomplete(c) ==
  \E t \in Tenant :
    /\ "complete" \in dep.kinds
    /\ Begin(c, [Request(t) EXCEPT !.op = "complete"], "get")

(* index_documents, remove_documents, delete_by_filter and                     *)
(* index_model_instances send the signal that invalidates results;             *)
(* update_documents, bulk_index and the swap of a reindex do not.              *)
PutDocuments(c) ==
  \E t \in Tenant :
    /\ content[t] < MaxVersion
    /\ \E op \in {"put", "silent"} \cap dep.kinds : Begin(c, [Request(t) EXCEPT !.op = op], "put")

(* A rule is saved or deleted, a delete with its handler inside a transaction  *)
(* of its own; or the admin's actions switch it on or off with a queryset      *)
(* update, which sends no signal.                                              *)
ChangeRule(c) ==
  \E t \in Tenant :
    /\ dep.rule # "none"
    /\ \A o \in Client : call[o].op = "rule" => call[o].tenant # t \/ Idle(o)
    /\ \E op \in {"rule", "admin"} \cap dep.kinds : Begin(c, [Request(t) EXCEPT !.op = op], "rule_write")

(* ------------------------------ common parts ------------------------------- *)

(* The next step of a call; the last one is the commit of a transaction.       *)
Goes(r, step) == [r EXCEPT !.at = step]
End == IF dep.atomic THEN "commit" ELSE "none"
Finished(r) == [NoCall EXCEPT !.tenant = r.tenant, !.answer = r.answer, !.since = r.since, !.quiet = r.quiet]
Becomes(c, r) == call' = [call EXCEPT ![c] = IF r.at = "none" THEN Finished(r) ELSE r]
Continue(c, step) == Becomes(c, Goes(call[c], step))

\* Mutant: the key leaves the name of the index out.
MyKeyUnnamed(c) == <<"", call[c].query>>
MyKey(c) == <<Name(call[c].tenant), call[c].query>>
MyCount(c) == <<call[c].tenant, call[c].query>>
Caching(c) == dep.cached /\ ~call[c].user

Cached(k) == results[k].there
KeysOf(n) == {k \in Key : k[1] = n}
Blame(rs, ks, cause) == [k \in Key |-> IF k \in ks /\ rs[k].there THEN [rs[k] EXCEPT !.why = @ \cup {cause}] ELSE rs[k]]

(* ------------------------------ rules of a query ---------------------------- *)

Matching(rs, t) == rs \cap {t, ""}
FreshList(t) == Matching(rules, t)

(* What the pipeline does with the matching rules: a redirect answers, a       *)
(* rewrite replaces the query, a fallback searches again, as a search of its   *)
(* own that no longer knows its user.                                          *)
Applied(r) ==
  IF r.list = {} THEN Goes(r, IF dep.rule = "fallback" THEN End ELSE "get")
  ELSE CASE dep.rule = "redirect" -> Goes(r, End)
         [] dep.rule = "rewrite" -> [Goes(r, "get") EXCEPT !.query = "q2"]
         [] OTHER -> [Goes(r, "get") EXCEPT !.op = "fallback", !.query = "q2", !.user = FALSE, !.log = TRUE,
                                            !.tries = dep.retries - 1]

(* load_rules: the cache, else the database; the list is then cached.          *)
RulesGet(c) ==
  /\ Step(c) = "rules_get"
  /\ LET entry == loaded[call[c].given] IN
     Becomes(c, IF entry.there
                THEN Applied([call[c] EXCEPT !.list = entry.list])
                ELSE Goes(call[c], "rules_read"))
  /\ UNCHANGED <<dep, content, served, results, keyset, rules, loaded, total, begun, faults, due, lost>>

RulesRead(c) ==
  /\ Step(c) = "rules_read"
  /\ Becomes(c, [Goes(call[c], "rules_set") EXCEPT !.list = FreshList(call[c].given)])
  /\ UNCHANGED <<dep, content, served, results, keyset, rules, loaded, total, begun, faults, due, lost>>

RulesSet(c) ==
  /\ Step(c) = "rules_set"
  /\ LET t == call[c].given IN
     loaded' = [loaded EXCEPT ![t] = [there |-> TRUE, list |-> call[c].list,
                  why |-> IF call[c].list = FreshList(t) THEN {} ELSE {"late"}]]
  /\ Becomes(c, Applied(call[c]))
  /\ UNCHANGED <<dep, content, served, results, keyset, rules, total, begun, faults, due, lost>>

(* The lists that a change of the rules makes wrong and nothing will delete.   *)
Toggle(t) == IF t \in rules THEN rules \ {t} ELSE rules \cup {t}
Spoilt(new, cause) ==
  [t \in Tenant |-> IF loaded[t].there /\ loaded[t].list # Matching(new, t)
                    THEN [loaded[t] EXCEPT !.why = @ \cup {cause}] ELSE loaded[t]]

RuleWrite(c) ==
  /\ Step(c) = "rule_write"
  /\ LET t == call[c].tenant  next == IF call[c].op = "rule" THEN "rules_delete" ELSE End IN
     IF dep.atomic THEN /\ Becomes(c, [Goes(call[c], next) EXCEPT !.draft = {t}])
                        /\ UNCHANGED <<rules, loaded>>
     ELSE /\ rules' = Toggle(t) /\ Continue(c, next)
          /\ loaded' = IF call[c].op = "admin" THEN Spoilt(Toggle(t), "admin") ELSE loaded
  /\ UNCHANGED <<dep, content, served, results, keyset, total, begun, faults, due, lost>>

(* invalidate_rules, after a save or a delete of a rule of tenant t: the list  *)
(* of t and that of no tenant are dropped.                                     *)
\* Mutant: only the list of no tenant is dropped.
DroppedGlobal(t) == {""}
Dropped(t) == {t, ""}

RulesDelete(c) ==
  /\ Step(c) = "rules_delete"
  /\ LET t == call[c].tenant IN
     loaded' = [x \in Tenant |->
                  IF x \in Dropped(t) THEN NoList
                  ELSE IF t = "" /\ x # "" /\ ~dep.atomic THEN Spoilt(rules, "global")[x] ELSE loaded[x]]
  /\ Continue(c, End)
  /\ UNCHANGED <<dep, content, served, results, keyset, rules, total, begun, faults, due, lost>>

(* The request's transaction: its counts and its rule become visible.          *)
Commit(c) ==
  /\ Step(c) = "commit"
  /\ LET new == IF call[c].draft = {} THEN rules ELSE Toggle(call[c].tenant) IN
     rules' = new /\ loaded' = Spoilt(new, "uncommitted")
  /\ Becomes(c, [Goes(call[c], "none") EXCEPT !.draft = {}, !.counted = NoCounts])
  /\ UNCHANGED <<dep, content, served, results, keyset, total, begun, faults, due, lost>>

(* --------------------------- documents and results ------------------------- *)

(* update_documents and its like leave what is cached to expire.               *)
Put(c) ==
  /\ Step(c) = "put"
  /\ LET t == call[c].tenant IN
     /\ content[t] < MaxVersion
     /\ content' = [content EXCEPT ![t] = @ + 1]
     /\ served' = IF dep.deferred THEN served ELSE content'
     /\ results' = IF call[c].op = "silent"
                   THEN Blame(results, {k \in KeysOf(Name(t)) : results[k].of = t}, "silent") ELSE results
  /\ Continue(c, IF call[c].op = "put" /\ dep.cached THEN "keyset_known" ELSE End)
  /\ UNCHANGED <<dep, keyset, rules, loaded, total, begun, faults, due, lost>>

(* The engine applies what it accepted first, after the call returned.         *)
Apply ==
  /\ \E t \in Tenant : served[t] < content[t] /\ served' = [served EXCEPT ![t] = @ + 1]
  /\ UNCHANGED <<dep, content, results, keyset, rules, loaded, total, call, begun, faults, due, lost>>

(* ICVSearchCache.invalidate.                                                  *)
KeysetKnown(c) ==
  /\ Step(c) = "keyset_known"
  /\ Becomes(c, [Goes(call[c], "delete_many") EXCEPT !.known = keyset[Name(call[c].tenant)]])
  /\ UNCHANGED <<dep, content, served, results, keyset, rules, loaded, total, begun, faults, due, lost>>

(* A key whose result is stored but not yet registered is missed.              *)
Registers(c, k) == Step(c) \in {"keyset_read", "keyset_write"} /\ MyKey(c) = k
Registering(k) == \E c \in Client : Registers(c, k)
Stale(k) == results[k].ver # content[results[k].of]
DeleteMany(c) ==
  /\ Step(c) = "delete_many"
  /\ LET known == call[c].known
         missed == {k \in KeysOf(Name(call[c].tenant)) \ known : Registering(k) \/ k \in keyset[k[1]]} IN
     results' = Blame([k \in Key |-> IF k \in known THEN NoEntry ELSE results[k]],
                      {k \in missed : Stale(k)}, "between")
  /\ Continue(c, "keyset_delete")
  /\ UNCHANGED <<dep, content, served, keyset, rules, loaded, total, begun, faults, due, lost>>

KeysetDelete(c) ==
  /\ Step(c) = "keyset_delete"
  /\ LET n == Name(call[c].tenant) IN
     /\ results' = Blame(results, keyset[n], "dropped")
     /\ keyset' = [keyset EXCEPT ![n] = {}]
  /\ Continue(c, End)
  /\ UNCHANGED <<dep, content, served, rules, loaded, total, begun, faults, due, lost>>

(* A search without hits goes on to the fallback: its next query, or its rule. *)
AfterSearch(r) ==
  IF r.query \in Finds(r.answer.ver) THEN Goes(r, End)
  ELSE IF r.tries > 0 /\ Shorter(r.query) # r.query
       THEN [Goes(r, "get") EXCEPT !.query = Shorter(@), !.tries = @ - 1]
  ELSE Goes(r, IF dep.rule = "fallback" /\ r.op = "search" THEN "rules_get" ELSE End)

AfterCache(r) == IF r.log THEN Goes(r, "count_update") ELSE AfterSearch(r)

(* search and autocomplete: the cache, unless there is a user.                 *)
Get(c) ==
  /\ Step(c) = "get"
  /\ LET entry == results[MyKey(c)] IN
     Becomes(c, IF Caching(c) /\ entry.there THEN AfterSearch([call[c] EXCEPT !.answer = entry])
                ELSE Goes(call[c], "find"))
  /\ UNCHANGED <<dep, content, served, results, keyset, rules, loaded, total, begun, faults, due, lost>>

Find(c) ==
  /\ Step(c) = "find"
  /\ LET t == call[c].tenant
         pending == IF served[t] # content[t] THEN {"deferred"} ELSE {}
         found == [call[c] EXCEPT !.answer = [there |-> TRUE, of |-> t, ver |-> served[t], why |-> pending]] IN
     Becomes(c, IF Caching(c) THEN Goes(found, "set") ELSE AfterCache(found))
  /\ due' = IF call[c].log THEN [due EXCEPT ![MyCount(c)] = @ + 1] ELSE due
  /\ UNCHANGED <<dep, content, served, results, keyset, rules, loaded, total, begun, faults, lost>>

Set(c) ==
  /\ Step(c) = "set"
  /\ LET a == call[c].answer IN
     results' = [results EXCEPT ![MyKey(c)] =
                   [a EXCEPT !.why = IF @ = {} /\ a.ver # content[a.of] THEN {"late"} ELSE @]]
  /\ Continue(c, "keyset_read")
  /\ UNCHANGED <<dep, content, served, keyset, rules, loaded, total, begun, faults, due, lost>>

(* _register_key reads the set of keys and writes it back with one more.       *)
KeysetRead(c) ==
  /\ Step(c) = "keyset_read"
  /\ LET known == keyset[Name(call[c].tenant)] IN
     Becomes(c, IF MyKey(c) \in known THEN AfterCache(call[c])
                ELSE [Goes(call[c], "keyset_write") EXCEPT !.known = known])
  /\ UNCHANGED <<dep, content, served, results, keyset, rules, loaded, total, begun, faults, due, lost>>

\* Mutant: the set of keys is replaced, not extended.
RegisteredAlone(known, k) == {k}
Registered(known, k) == known \cup {k}

KeysetWrite(c) ==
  /\ Step(c) = "keyset_write"
  /\ LET n == Name(call[c].tenant) IN
     /\ results' = Blame(results, keyset[n] \ (call[c].known \cup {MyKey(c)}), "overlap")
     /\ keyset' = [keyset EXCEPT ![n] = Registered(call[c].known, MyKey(c))]
  /\ Becomes(c, AfterCache(call[c]))
  /\ UNCHANGED <<dep, content, served, rules, loaded, total, begun, faults, due, lost>>

(* ------------------------------- daily counts ------------------------------ *)

(* What other transactions have counted is locked until they commit; a row     *)
(* that one of them has inserted is not seen either.                           *)
Locked(c, k) == \E o \in Others(c) : call[o].counted[k] > 0
Hidden(c, k) == \E o \in Others(c) : call[o].counted[k] > 0 /\ call[o].counted[k] = total[k]
Counts(c) ==
  /\ ~Locked(c, MyCount(c))
  /\ total' = [total EXCEPT ![MyCount(c)] = @ + 1]
  /\ Becomes(c, AfterSearch([call[c] EXCEPT !.counted[MyCount(c)] = IF dep.atomic THEN @ + 1 ELSE @]))
  /\ UNCHANGED <<dep, content, served, results, keyset, rules, loaded, begun, faults, due, lost>>

(* UPDATE ... SET total_count = total_count + 1; the first may find no row.    *)
CountUpdate(c) ==
  /\ Step(c) \in {"count_update", "count_again"}
  /\ \/ total[MyCount(c)] > 0 /\ Counts(c)
     \/ /\ Step(c) = "count_update"
        /\ total[MyCount(c)] = 0 \/ Hidden(c, MyCount(c))
        /\ Continue(c, "count_create")
        /\ UNCHANGED <<dep, content, served, results, keyset, rules, loaded, total, begun, faults, due, lost>>

(* What follows the IntegrityError of an INSERT whose row exists by now.       *)
\* Mutant: the search that lost the race is not counted.
OnConflictNothing(r) == AfterSearch(r)
OnConflict(r) == Goes(r, "count_again")

(* The INSERT waits for a transaction that inserts the same row. In a          *)
(* transaction the error also ends the transaction: nothing of it is kept.     *)
CountCreate(c) ==
  /\ Step(c) = "count_create" /\ ~Locked(c, MyCount(c))
  /\ \/ total[MyCount(c)] = 0 /\ Counts(c)
     \/ /\ total[MyCount(c)] > 0 /\ ~dep.atomic
        /\ Becomes(c, OnConflict(call[c]))
        /\ UNCHANGED <<dep, content, served, results, keyset, rules, loaded, total, begun, faults, due, lost>>
     \/ /\ total[MyCount(c)] > 0 /\ dep.atomic
        /\ LET gone == call[c].counted IN
           /\ total' = [k \in Key |-> total[k] - gone[k]]
           /\ lost' = [k \in Key |-> lost[k] + gone[k] + (IF k = MyCount(c) THEN 1 ELSE 0)]
        /\ Becomes(c, [Goes(call[c], "none") EXCEPT !.counted = NoCounts])
        /\ UNCHANGED <<dep, content, served, results, keyset, rules, loaded, begun, faults, due>>

(* --------------------------------- faults ---------------------------------- *)

(* An entry of a cache expires or is evicted.                                  *)
Expire ==
  /\ faults < MaxFaults /\ faults' = faults + 1
  /\ \/ \E k \in Key : /\ Cached(k) /\ results' = [results EXCEPT ![k] = NoEntry]
                       /\ UNCHANGED <<keyset, loaded>>
     \/ \E t \in Tenant : /\ loaded[t].there /\ loaded' = [loaded EXCEPT ![t] = NoList]
                          /\ UNCHANGED <<keyset, results>>
     \/ \E n \in Tenant : /\ keyset[n] # {} /\ keyset' = [keyset EXCEPT ![n] = {}]
                          /\ results' = Blame(results, keyset[n], "evicted")
                          /\ UNCHANGED loaded
  /\ UNCHANGED <<dep, content, served, rules, total, call, begun, due, lost>>

(* A search whose count is still to come.                                      *)
Counting == {"set", "keyset_read", "keyset_write", "count_update", "count_create", "count_again"}
Uncounted(c, k) == call[c].log /\ Step(c) \in Counting /\ MyCount(c) = k
(* A client is killed: its transaction is rolled back, nothing else of what it *)
(* has done.                                                                   *)
Kill(c) ==
  /\ ~Idle(c)
  /\ faults < MaxFaults /\ faults' = faults + 1
  /\ LET r == call[c] IN
     /\ total' = [k \in Key |-> total[k] - r.counted[k]]
     /\ lost' = [k \in Key |-> lost[k] + r.counted[k] + (IF Uncounted(c, k) THEN 1 ELSE 0)]
     /\ results' = Blame(results, IF Invalidates(c) THEN {k \in KeysOf(Name(r.tenant)) : Stale(k)}
                                  ELSE {k \in Key : Registers(c, k) /\ k \notin keyset[k[1]]}, "killed")
     /\ loaded' = IF r.op = "rule" /\ ~dep.atomic THEN Spoilt(rules, "killed") ELSE loaded
  /\ Becomes(c, NoCall)
  /\ UNCHANGED <<dep, content, served, keyset, rules, begun, due>>

Next ==
  \/ \E c \in Client :
       \/ MerchandisedSearch(c) \/ Autocomplete(c) \/ PutDocuments(c) \/ ChangeRule(c)
       \/ RulesGet(c) \/ RulesRead(c) \/ RulesSet(c) \/ RuleWrite(c) \/ RulesDelete(c) \/ Commit(c)
       \/ Put(c) \/ KeysetKnown(c) \/ DeleteMany(c) \/ KeysetDelete(c)
       \/ Get(c) \/ Find(c) \/ Set(c) \/ KeysetRead(c) \/ KeysetWrite(c)
       \/ CountUpdate(c) \/ CountCreate(c) \/ Kill(c)
  \/ Apply \/ Expire

Spec == Init /\ [][Next]_vars

(* ------------------------------- properties -------------------------------- *)

(* At rest a cached result is the one the engine gives once it has applied     *)
(* what it was sent, unless it was found before a write that the engine had    *)
(* accepted was applied (deferred), which the invalidation does not wait for;  *)
(* it was stored after the documents had changed (late); the change sent no    *)
(* signal (silent); the invalidation could not see its key, because it was not *)
(* yet registered (between), another registration or invalidation took it from *)
(* the set of keys (overlap, dropped), or the set was evicted before it; or a  *)
(* writer or the request was killed on its way.                                *)
ResultsFresh ==
  AtRest => \A k \in Key : Cached(k) => results[k].ver = content[results[k].of] \/ results[k].why # {}

(* At rest a cached list of rules is what the database holds for its tenant,   *)
(* unless it was read before a change and stored after it (late), was stored   *)
(* while the change was not committed or cached when it was committed, the     *)
(* handler having run before (uncommitted), the change was made by an admin    *)
(* action (admin), or to a rule of all tenants while the list of one tenant    *)
(* was cached (global), or its writer was killed.                              *)
RulesFresh ==
  AtRest => \A t \in Tenant : loaded[t].there => loaded[t].list = FreshList(t) \/ loaded[t].why # {}

(* An answer comes from the documents of the tenant that asks, unless the      *)
(* indexes of two tenants have one name and results are cached; and it is not  *)
(* older than the documents were when the request began, unless it came from   *)
(* an entry that is stale for a cause of ResultsFresh, or from an engine that  *)
(* had not applied it yet, or an invalidation was under way when it began.     *)
AnswersRight ==
  \A c \in Client :
    LET r == call[c] IN
    r.answer.there =>
      /\ r.answer.of = r.tenant \/ (dep.shared /\ dep.cached)
      /\ r.answer.of = r.tenant => r.answer.ver >= r.since \/ r.answer.why # {} \/ ~r.quiet

(* At rest the counts of a day are the searches that reached the engine and    *)
(* were to be logged, but those whose request was killed or lost its           *)
(* transaction to the IntegrityError of a first search that another made.      *)
CountsExact == AtRest => \A k \in Key : total[k] + lost[k] = due[k]
=============================================================================
