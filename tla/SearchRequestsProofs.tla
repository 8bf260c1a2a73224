------------------------ MODULE SearchRequestsProofs -------------------------
(* What a search passes through, proved for every set of clients, every set of *)
(* deployments and every bound: the cached results (ResultsFresh), the cached  *)
(* rules (RulesFresh), the answers (AnswersRight) and the daily counts         *)
(* (CountsExact); and, in the last part, the bulk indexing with its threads    *)
(* (BulkIndex), whose documents those searches find.                           *)
(*                                                                             *)
(* The properties of the caches and the counts speak of states at rest. The    *)
(* invariants that imply them say who still owes what: which writer is about   *)
(* to delete an outdated result, which request is about to register a key that *)
(* the set of keys misses, which searches are still to be counted.             *)
EXTENDS SearchRequests, BulkIndex, FiniteSetTheorems, SequenceTheorems, TLAPS

(* ------------------------------ the invariant ------------------------------ *)

EntryShape(e) == DOMAIN e = DOMAIN NoEntry /\ e.of \in Tenant /\ e.ver \in Nat

CallShape(r) ==
  /\ DOMAIN r = DOMAIN NoCall
  /\ r.tenant \in Tenant /\ r.given \in Tenant /\ r.query \in Query
  /\ EntryShape(r.answer)
  /\ r.counted \in [Key -> Nat] /\ r.since \in Nat

(* What the step a call is at says of it: who writes, whose result is stored,  *)
(* and that only a search that is to be logged is counted.                     *)
Storing == {"set", "keyset_read", "keyset_write"}
CountSteps == {"count_update", "count_create", "count_again"}
StepRight(r) ==
  /\ r.at = "put" => r.op \in {"put", "silent"}
  /\ r.at = "rule_write" => r.op \in {"rule", "admin"}
  /\ r.at = "rules_delete" => r.op = "rule"
  /\ r.at \in Storing => dep.cached /\ r.answer.there /\ r.answer.of = r.tenant
  /\ r.at \in CountSteps => r.log

(* The answer a call has got, as AnswersRight says it.                         *)
AnswerRight(r) ==
  r.answer.there =>
    /\ r.answer.of = r.tenant \/ (dep.shared /\ dep.cached)
    /\ r.answer.of = r.tenant => r.answer.ver >= r.since \/ r.answer.why # {} \/ ~r.quiet

CallRight(r) == CallShape(r) /\ StepRight(r) /\ AnswerRight(r)
CallsRight == \A c \in Client : CallRight(call[c])

ResultsShape ==
  /\ content \in [Tenant -> Nat] /\ served \in [Tenant -> Nat]
  /\ DOMAIN results = Key /\ \A k \in Key : EntryShape(results[k])
  /\ DOMAIN keyset = Tenant
RulesShape ==
  /\ rules \subseteq Tenant
  /\ DOMAIN loaded = Tenant /\ \A t \in Tenant : DOMAIN loaded[t] = DOMAIN NoList
CountsShape == total \in [Key -> Int] /\ lost \in [Key -> Int] /\ due \in [Key -> Int]
Shape == dep \in Deployment /\ ResultsShape /\ RulesShape /\ CountsShape /\ DOMAIN call = Client

(* A list of rules that is outdated without a cause is about to be dropped.    *)
RuleChanging == \E c \in Client : Step(c) = "rules_delete" /\ ~dep.atomic
RulesFollow ==
  \A t \in Tenant : loaded[t].there => loaded[t].list = FreshList(t) \/ loaded[t].why # {} \/ RuleChanging

(* A result is cached under the name of the index of its tenant; one that is   *)
(* outdated without a cause is about to be invalidated; and the invalidation   *)
(* knows its key, unless the key is about to be registered.                    *)
Placed == \A k \in Key : results[k].there => dep.cached /\ k[1] = Name(results[k].of)
Excused(k) == ~results[k].there \/ results[k].why # {}
ResultsFollow == \A k \in Key : Excused(k) \/ ~Stale(k) \/ Invalidating(k[1])
KeysKnown == \A k \in Key : Excused(k) \/ k \in keyset[k[1]] \/ Registering(k)

(* A call that began while nobody invalidated the results of its index finds   *)
(* none that is older than itself.                                             *)
Recent(r) ==
  /\ r.since <= content[r.tenant]
  /\ r.quiet => \A k \in Key : Excused(k) \/ results[k].of # r.tenant \/ results[k].ver >= r.since
QuietRight == \A c \in Client : Recent(call[c])

(* The searches that are counted, those that are lost and those that a call    *)
(* has still to count.                                                         *)
Owing(k) == {c \in Client : Uncounted(c, k)}
Balance == \A k \in Key : total[k] + lost[k] + Cardinality(Owing(k)) = due[k]

CachesRight == Placed /\ ResultsFollow /\ KeysKnown /\ QuietRight
IInv == Shape /\ CallsRight /\ RulesFollow /\ CachesRight /\ Balance

(* -------------------------------- one call --------------------------------- *)

\* A call that has come to its end leaves its answer behind.
Landing(r) == IF r.at = "none" THEN Finished(r) ELSE r

\* A call that neither writes, registers nor counts at its next step.
CalmStep == {"none", "commit", "get", "find", "rules_get", "rules_read", "rules_set"}

\* What a call keeps from its beginning to its end.
SameRequest(q, r) == q.tenant = r.tenant /\ q.since = r.since /\ q.quiet = r.quiet

LEMMA CalmRight ==
  ASSUME NEW r, CallShape(r), AnswerRight(r), r.at \in CalmStep
  PROVE  CallRight(r)
BY DEF CallRight, StepRight, CalmStep, Storing, CountSteps

LEMMA NoCallRight == CallRight(NoCall) /\ NoCall.at = "none"
<1>1. EntryShape(NoEntry)
  BY DEF EntryShape, NoEntry, Tenant
<1>2. NoCounts \in [Key -> Nat]
  BY DEF NoCounts
<1>3. CallShape(NoCall)
  BY <1>1, <1>2 DEF CallShape, NoCall, Tenant, Query
<1>4. AnswerRight(NoCall) /\ NoCall.at = "none"
  BY DEF AnswerRight, NoCall, NoEntry
<1> QED
  BY <1>3, <1>4, CalmRight DEF CalmStep

LEMMA LandingRight ==
  ASSUME NEW r, CallRight(r)
  PROVE  /\ CallRight(Landing(r)) /\ SameRequest(Landing(r), r)
         /\ Landing(r).at = r.at
         /\ r.at # "none" => Landing(r) = r
<1>1. CASE r.at # "none"
  BY <1>1 DEF Landing, SameRequest
<1>2. CASE r.at = "none"
 <2>1. Landing(r) = Finished(r)
   BY <1>2 DEF Landing
 <2>2. /\ DOMAIN Finished(r) = DOMAIN NoCall
       /\ Finished(r).tenant = r.tenant /\ Finished(r).answer = r.answer
       /\ Finished(r).since = r.since /\ Finished(r).quiet = r.quiet
       /\ Finished(r).given = "" /\ Finished(r).query = "q1"
       /\ Finished(r).counted = NoCounts /\ Finished(r).at = "none"
   BY DEF Finished, NoCall
 <2>3. CallShape(Finished(r))
  <3>1. NoCounts \in [Key -> Nat]
    BY DEF NoCounts
  <3> QED
    BY <2>2, <3>1 DEF CallRight, CallShape, Tenant, Query
 <2>4. AnswerRight(Finished(r))
   BY <2>2 DEF CallRight, AnswerRight
 <2>5. CallRight(Finished(r))
   BY <2>2, <2>3, <2>4, CalmRight DEF CalmStep
 <2> QED
   BY <1>2, <2>1, <2>2, <2>5 DEF SameRequest
<1> QED
  BY <1>1, <1>2

\* The step of a call goes on; nothing else of it changes.
LEMMA GoesRight ==
  ASSUME NEW r, CallShape(r), AnswerRight(r), NEW step
  PROVE  /\ CallShape(Goes(r, step)) /\ AnswerRight(Goes(r, step)) /\ SameRequest(Goes(r, step), r)
         /\ Goes(r, step).at = step
         /\ Goes(r, step).op = r.op /\ Goes(r, step).log = r.log /\ Goes(r, step).query = r.query
         /\ Goes(r, step).answer = r.answer /\ Goes(r, step).user = r.user
         /\ step \in CalmStep => CallRight(Goes(r, step))
<1>1. /\ DOMAIN Goes(r, step) = DOMAIN NoCall /\ Goes(r, step).at = step
      /\ \A f \in DOMAIN NoCall \ {"at"} : Goes(r, step)[f] = r[f]
  BY DEF Goes, CallShape, NoCall
<1>2. CallShape(Goes(r, step))
  BY <1>1 DEF CallShape, NoCall
<1>3. AnswerRight(Goes(r, step))
  BY <1>1 DEF AnswerRight, NoCall
<1>4. /\ SameRequest(Goes(r, step), r) /\ Goes(r, step).answer = r.answer
      /\ Goes(r, step).op = r.op /\ Goes(r, step).log = r.log /\ Goes(r, step).query = r.query
      /\ Goes(r, step).user = r.user
  BY <1>1 DEF SameRequest, NoCall
<1> QED
  BY <1>1, <1>2, <1>3, <1>4, CalmRight

LEMMA EndIsCalm == End \in CalmStep
BY DEF End, CalmStep

\* What a record of a call may change without harm.
LEMMA ChangedRight ==
  ASSUME NEW r, NEW q, CallShape(r), AnswerRight(r),
         DOMAIN q = DOMAIN NoCall, SameRequest(q, r), q.answer = r.answer, q.given = r.given,
         q.query \in Query, q.counted \in [Key -> Nat]
  PROVE  CallShape(q) /\ AnswerRight(q)
BY DEF CallShape, AnswerRight, SameRequest

LEMMA AppliedRight ==
  ASSUME NEW r, CallShape(r), AnswerRight(r)
  PROVE  CallRight(Applied(r)) /\ SameRequest(Applied(r), r) /\ Applied(r).at \in CalmStep
<1>1. \A step \in CalmStep : CallRight(Goes(r, step)) /\ SameRequest(Goes(r, step), r) /\ Goes(r, step).at \in CalmStep
  BY GoesRight
<1>2. "get" \in CalmStep /\ End \in CalmStep
  BY EndIsCalm DEF CalmStep
<1> DEFINE g == Goes(r, "get")
<1>3. CallShape(g) /\ AnswerRight(g) /\ SameRequest(g, r) /\ g.at = "get" /\ g.answer = r.answer
  BY GoesRight
<1> HIDE DEF g
<1>4. ASSUME NEW q, DOMAIN q = DOMAIN NoCall, q.query = "q2", \A f \in {"tenant", "since", "quiet", "answer", "given", "counted", "at"} : q[f] = g[f]
      PROVE  CallRight(q) /\ SameRequest(q, r) /\ q.at \in CalmStep
 <2>1. SameRequest(q, g) /\ q.answer = g.answer /\ q.given = g.given /\ q.at = "get" /\ q.counted = g.counted
   BY <1>3, <1>4 DEF SameRequest
 <2>2. q.counted \in [Key -> Nat] /\ q.query \in Query
   BY <1>3, <1>4, <2>1 DEF CallShape, Query
 <2>3. CallShape(q) /\ AnswerRight(q)
   BY <1>3, <1>4, <2>1, <2>2, ChangedRight
 <2>4. SameRequest(q, r)
   BY <1>3, <2>1 DEF SameRequest
 <2> QED
   BY <2>1, <2>3, <2>4, <1>2, CalmRight
<1>5. CallRight([g EXCEPT !.query = "q2"]) /\ SameRequest([g EXCEPT !.query = "q2"], r) /\ [g EXCEPT !.query = "q2"].at \in CalmStep
 <2> DEFINE q == [g EXCEPT !.query = "q2"]
 <2>1. DOMAIN q = DOMAIN NoCall /\ q.query = "q2" /\ \A f \in {"tenant", "since", "quiet", "answer", "given", "counted", "at"} : q[f] = g[f]
   BY <1>3 DEF CallShape, NoCall
 <2> HIDE DEF q
 <2>2. CallRight(q) /\ SameRequest(q, r) /\ q.at \in CalmStep
   BY <1>4, <2>1
 <2> QED
   BY <2>2 DEF q
<1> DEFINE h == [g EXCEPT !.op = "fallback", !.query = "q2", !.user = FALSE, !.log = TRUE, !.tries = dep.retries - 1]
<1>6. CallRight(h) /\ SameRequest(h, r) /\ h.at \in CalmStep
 <2>1. DOMAIN h = DOMAIN NoCall /\ h.query = "q2" /\ \A f \in {"tenant", "since", "quiet", "answer", "given", "counted", "at"} : h[f] = g[f]
   BY <1>3 DEF CallShape, NoCall
 <2> HIDE DEF h
 <2> QED
   BY <1>4, <2>1
<1> HIDE DEF h
<1>7. Applied(r) \in {Goes(r, End), g, [g EXCEPT !.query = "q2"], h}
  BY DEF Applied, g, h
<1>8. CallRight(g) /\ SameRequest(g, r) /\ g.at \in CalmStep
  BY <1>1, <1>2 DEF g
<1> QED
  BY <1>1, <1>2, <1>5, <1>6, <1>7, <1>8

LEMMA AfterSearchRight ==
  ASSUME NEW r, CallShape(r), AnswerRight(r)
  PROVE  CallRight(AfterSearch(r)) /\ SameRequest(AfterSearch(r), r) /\ AfterSearch(r).at \in CalmStep
<1>1. \A step \in CalmStep : CallRight(Goes(r, step)) /\ SameRequest(Goes(r, step), r) /\ Goes(r, step).at \in CalmStep
  BY GoesRight
<1>2. "get" \in CalmStep /\ "rules_get" \in CalmStep /\ End \in CalmStep
  BY EndIsCalm DEF CalmStep
<1> DEFINE g == Goes(r, "get")
           q == [g EXCEPT !.query = Shorter(@), !.tries = @ - 1]
<1>3. CallShape(g) /\ AnswerRight(g) /\ SameRequest(g, r) /\ g.at = "get"
  BY GoesRight
<1> HIDE DEF g
<1>4. CallRight(q) /\ SameRequest(q, r) /\ q.at \in CalmStep
 <2>1. /\ DOMAIN q = DOMAIN NoCall /\ q.query = Shorter(g.query) /\ SameRequest(q, g)
       /\ q.answer = g.answer /\ q.given = g.given /\ q.counted = g.counted /\ q.at = g.at
   BY <1>3 DEF CallShape, NoCall, SameRequest
 <2> HIDE DEF q
 <2>2. q.query \in Query
   BY <1>3, <2>1 DEF Shorter, Query, CallShape
 <2>3. q.counted \in [Key -> Nat]
   BY <1>3, <2>1 DEF CallShape
 <2>4. CallShape(q) /\ AnswerRight(q)
   BY <1>3, <2>1, <2>2, <2>3, ChangedRight
 <2> QED
   BY <1>2, <1>3, <2>1, <2>4, CalmRight DEF SameRequest
<1> HIDE DEF q
<1>5. AfterSearch(r) \in {Goes(r, End), q, Goes(r, "rules_get")}
  BY DEF AfterSearch, q, g
<1> QED
  BY <1>1, <1>2, <1>4, <1>5

\* After its results are stored a search is counted, if it is to be counted.
LEMMA AfterCacheRight ==
  ASSUME NEW r, CallShape(r), AnswerRight(r)
  PROVE  /\ CallRight(AfterCache(r)) /\ SameRequest(AfterCache(r), r)
         /\ \/ /\ r.log /\ AfterCache(r).at = "count_update" /\ AfterCache(r).log
               /\ AfterCache(r).query = r.query
            \/ ~r.log /\ AfterCache(r).at \in CalmStep
<1>1. CASE r.log
 <2>1. AfterCache(r) = Goes(r, "count_update")
   BY <1>1 DEF AfterCache
 <2> DEFINE q == Goes(r, "count_update")
 <2>2. /\ CallShape(q) /\ AnswerRight(q) /\ SameRequest(q, r) /\ q.at = "count_update"
       /\ q.log = r.log /\ q.query = r.query
   BY GoesRight
 <2> HIDE DEF q
 <2>3. CallRight(q)
   BY <2>2, <1>1 DEF CallRight, StepRight, Storing, CountSteps
 <2>4. AfterCache(r) = q
   BY <2>1 DEF q
 <2> QED
   BY <1>1, <2>2, <2>3, <2>4
<1>2. CASE ~r.log
  BY <1>2, AfterSearchRight DEF AfterCache
<1> QED
  BY <1>1, <1>2

(* -------------------------------- one step --------------------------------- *)

Alone(c) == \A d \in Client : d # c => call'[d] = call[d]

\* A step replaces the record of its call.
LEMMA CallStep ==
  ASSUME Shape, CallsRight, NEW c \in Client, NEW r, CallRight(r), Becomes(c, r), UNCHANGED dep
  PROVE  /\ DOMAIN call' = Client /\ Alone(c) /\ CallsRight'
         /\ call'[c] = Landing(r) /\ Step(c)' = r.at /\ SameRequest(call'[c], r)
         /\ r.at # "none" => call'[c] = r
<1>1. call' = [call EXCEPT ![c] = Landing(r)] /\ DOMAIN call = Client
  BY DEF Becomes, Landing, Shape
<1>2. /\ DOMAIN call' = Client
      /\ call'[c] = Landing(r) /\ \A d \in Client : d # c => call'[d] = call[d]
  BY <1>1
<1>3. \A d \in Client : CallRight(call'[d])
  BY <1>2, LandingRight DEF CallsRight
<1>4. ASSUME NEW d \in Client PROVE CallRight(call[d])'
 <2>1. CallRight(call'[d])
   BY <1>3
 <2> QED
   BY <2>1 DEF CallRight, AnswerRight, StepRight
<1>5. Step(c)' = r.at /\ SameRequest(call'[c], r) /\ (r.at # "none" => call'[c] = r)
  BY <1>2, LandingRight DEF Step
<1> QED
  BY <1>2, <1>4, <1>5 DEF CallsRight, Alone

\* Rules, lists and calls that are about to drop lists are as before.
LEMMA RulesKept ==
  ASSUME RulesFollow, NEW c \in Client, Alone(c), Step(c) # "rules_delete" \/ dep.atomic,
         UNCHANGED <<dep, rules, loaded>>
  PROVE  RulesFollow'
<1>1. RuleChanging => RuleChanging'
  BY DEF RuleChanging, Alone, Step
<1> QED
  BY <1>1 DEF RulesFollow, FreshList, Matching

\* The writers and the registrations that are under way stay so.
StaysTo(c) ==
  /\ Invalidates(c) => Invalidates(c)' /\ call'[c].tenant = call[c].tenant
  /\ \A k \in Key : Registers(c, k) => Registers(c, k)' \/ k \in keyset'[k[1]] \/ Excused(k)'

LEMMA UnderWay ==
  ASSUME NEW c \in Client, Alone(c), StaysTo(c), UNCHANGED dep
  PROVE  /\ \A n \in Tenant : Invalidating(n) => Invalidating(n)'
         /\ \A k \in Key : Registering(k) => Registering(k)' \/ k \in keyset'[k[1]] \/ Excused(k)'
<1>1. ASSUME NEW n \in Tenant, NEW d \in Client, Invalidates(d), Name(call[d].tenant) = n
      PROVE  Invalidates(d)' /\ Name(call[d].tenant)' = n
  BY <1>1 DEF Alone, StaysTo, Invalidates, Step, Name
<1>2. ASSUME NEW k \in Key, NEW d \in Client, Registers(d, k)
      PROVE  Registers(d, k)' \/ k \in keyset'[k[1]] \/ Excused(k)'
  BY <1>2 DEF Alone, StaysTo, Registers, Step, MyKey, Name
<1> QED
  BY <1>1, <1>2 DEF Invalidating, Registering

\* A call that goes on, while the results are as before, finds what it found.
LEMMA RecentKept ==
  ASSUME QuietRight, NEW c \in Client, SameRequest(call'[c], call[c]), UNCHANGED <<content, results>>
  PROVE  Recent(call[c])'
BY DEF QuietRight, Recent, SameRequest, Excused

LEMMA CachesKept ==
  ASSUME Shape, CachesRight, NEW c \in Client, Alone(c), StaysTo(c), Recent(call[c])',
         UNCHANGED <<dep, content, served, results, keyset>>
  PROVE  CachesRight'
<1>1. Placed'
  BY DEF CachesRight, Placed, Name
<1>2. ResultsFollow'
 <2> SUFFICES ASSUME NEW k \in Key, ~Excused(k)', Stale(k)' PROVE Invalidating(k[1])'
   BY DEF ResultsFollow
 <2>1. k[1] \in Tenant
   BY DEF Key
 <2>2. ~Excused(k) /\ Stale(k)
   BY DEF Excused, Stale
 <2> QED
   BY <2>1, <2>2, UnderWay DEF CachesRight, ResultsFollow
<1>3. KeysKnown'
 <2> SUFFICES ASSUME NEW k \in Key, ~Excused(k)' PROVE k \in keyset'[k[1]] \/ Registering(k)'
   BY DEF KeysKnown
 <2>1. ~Excused(k)
   BY DEF Excused
 <2>2. k \in keyset[k[1]] \/ Registering(k)
   BY <2>1 DEF CachesRight, KeysKnown
 <2> QED
   BY <2>2, UnderWay
<1>4. QuietRight'
 <2> SUFFICES ASSUME NEW d \in Client PROVE Recent(call[d])'
   BY DEF QuietRight
 <2>1. CASE d = c
   BY <2>1
 <2>2. CASE d # c
  <3>1. call'[d] = call[d] /\ Recent(call[d])
    BY <2>2 DEF Alone, CachesRight, QuietRight
  <3> QED
    BY <3>1 DEF Recent, Excused
 <2> QED
   BY <2>1, <2>2
<1> QED
  BY <1>1, <1>2, <1>3, <1>4 DEF CachesRight

LEMMA OwingCounts ==
  ASSUME NEW c \in Client, Alone(c), NEW k
  PROVE  /\ Cardinality(Owing(k)) \in Nat
         /\ (Uncounted(c, k) <=> Uncounted(c, k)') => Owing(k)' = Owing(k)
         /\ Uncounted(c, k) /\ ~Uncounted(c, k)' => Cardinality(Owing(k)') = Cardinality(Owing(k)) - 1
         /\ ~Uncounted(c, k) /\ Uncounted(c, k)' => Cardinality(Owing(k)') = Cardinality(Owing(k)) + 1
<1>1. \A d \in Client : d # c => (Uncounted(d, k)' <=> Uncounted(d, k))
  BY DEF Alone, Uncounted, Step, MyCount
<1>2. Owing(k) \subseteq Client /\ IsFiniteSet(Owing(k))
 <2>1. Owing(k) \subseteq Client
   BY DEF Owing
 <2> QED
   BY <2>1, ClientAssumption, FS_Subset
<1>3. Cardinality(Owing(k)) \in Nat
  BY <1>2, FS_CardinalityType
<1>4. ASSUME Uncounted(c, k) <=> Uncounted(c, k)' PROVE Owing(k)' = Owing(k)
 <2>1. \A d \in Client : Uncounted(d, k)' <=> Uncounted(d, k)
   BY <1>1, <1>4
 <2> QED
   BY <2>1 DEF Owing
<1>5. ASSUME Uncounted(c, k), ~Uncounted(c, k)'
      PROVE  Cardinality(Owing(k)') = Cardinality(Owing(k)) - 1
 <2>1. \A d \in Client : Uncounted(d, k)' <=> Uncounted(d, k) /\ d # c
   BY <1>1, <1>5
 <2>2. Owing(k)' = Owing(k) \ {c} /\ c \in Owing(k)
   BY <2>1, <1>5 DEF Owing
 <2>3. Cardinality(Owing(k) \ {c}) = Cardinality(Owing(k)) - 1
   BY <1>2, <2>2, FS_RemoveElement
 <2> QED
   BY <2>2, <2>3
<1>6. ASSUME ~Uncounted(c, k), Uncounted(c, k)'
      PROVE  Cardinality(Owing(k)') = Cardinality(Owing(k)) + 1
 <2>1. \A d \in Client : Uncounted(d, k)' <=> Uncounted(d, k) \/ d = c
   BY <1>1, <1>6
 <2>2. Owing(k)' = Owing(k) \cup {c} /\ c \notin Owing(k)
   BY <2>1, <1>6 DEF Owing
 <2>3. Cardinality(Owing(k) \cup {c}) = Cardinality(Owing(k)) + 1
   BY <1>2, <2>2, FS_AddElement
 <2> QED
   BY <2>2, <2>3
<1> QED
  BY <1>3, <1>4, <1>5, <1>6

(* A step moves a count, a loss, a search that is due or a search that is      *)
(* still to be counted.                                                        *)
Owed(c, k) == IF Uncounted(c, k) THEN 1 ELSE 0
Moved(c) ==
  \A k \in Key :
    (total'[k] - total[k]) + (lost'[k] - lost[k]) + (Owed(c, k)' - Owed(c, k)) = due'[k] - due[k]

LEMMA BalanceStep ==
  ASSUME CountsShape, Balance, CountsShape', NEW c \in Client, Alone(c), Moved(c)
  PROVE  Balance'
<1> SUFFICES ASSUME NEW k \in Key PROVE total'[k] + lost'[k] + Cardinality(Owing(k)') = due'[k]
  BY DEF Balance
<1> DEFINE n == Cardinality(Owing(k))  m == Cardinality(Owing(k)')
           h == total[k]  g == total'[k]  l == lost[k]  j == lost'[k]  d == due[k]  e == due'[k]
           x == (IF Uncounted(c, k)' THEN 1 ELSE 0) - (IF Uncounted(c, k) THEN 1 ELSE 0)
<1>1. /\ n \in Int /\ h \in Int /\ g \in Int /\ l \in Int /\ j \in Int /\ d \in Int /\ e \in Int
      /\ h + l + n = d
 <2>1. n \in Nat
   BY OwingCounts
 <2> QED
   BY <2>1 DEF CountsShape, Balance
<1>2. x \in Int /\ m = n + x
 <2>1. /\ (Uncounted(c, k) <=> Uncounted(c, k)') => m = n
       /\ Uncounted(c, k) /\ ~Uncounted(c, k)' => m = n - 1
       /\ ~Uncounted(c, k) /\ Uncounted(c, k)' => m = n + 1
   BY OwingCounts
 <2> QED
   BY <1>1, <2>1
<1>3. (g - h) + (j - l) + x = e - d
  BY DEF Moved, Owed
<1> HIDE DEF n, m, h, g, x, l, j, d, e
<1>4. g + j + (n + x) = e
  BY <1>1, <1>2, <1>3
<1>5. g + j + m = e
  BY <1>2, <1>4
<1> QED
  BY <1>5 DEF g, m, j, e

\* What a step must show.
LEMMA Assembled ==
  ASSUME IInv, NEW c \in Client, NEW r, CallRight(r), Becomes(c, r), UNCHANGED dep,
         ResultsShape', RulesShape', CountsShape', RulesFollow', CachesRight', Moved(c)
  PROVE  IInv'
<1>1. DOMAIN call' = Client /\ Alone(c) /\ CallsRight'
  BY CallStep DEF IInv
<1>2. Shape'
  BY <1>1 DEF IInv, Shape
<1>3. Balance'
  BY <1>1, BalanceStep DEF IInv, Shape
<1> QED
  BY <1>1, <1>2, <1>3 DEF IInv

(* ------------------------- steps that owe nothing -------------------------- *)

\* Steps at which a call neither invalidates nor registers nor counts.
FreeStep == CalmStep \cup {"rule_write", "rules_delete", "put", "keyset_delete"}

LEMMA FreeSteps ==
  ASSUME NEW c \in Client
  PROVE  /\ Step(c) \in FreeStep => ~Invalidates(c) /\ \A k : ~Registers(c, k) /\ ~Uncounted(c, k)
         /\ Step(c)' \in FreeStep => ~Invalidates(c)' /\ \A k : ~Registers(c, k)' /\ ~Uncounted(c, k)'
BY DEF FreeStep, CalmStep, Invalidates, Registers, Uncounted, Counting

\* From one such step to another, while the counts are as before.
LEMMA NothingMoved ==
  ASSUME NEW c \in Client, CountsShape, Step(c) \in FreeStep, Step(c)' \in FreeStep, UNCHANGED <<total, lost, due>>
  PROVE  CountsShape' /\ Moved(c) /\ StaysTo(c)
<1>1. CountsShape'
  BY DEF CountsShape
<1>2. ~Invalidates(c) /\ \A k : ~Registers(c, k) /\ ~Uncounted(c, k) /\ ~Uncounted(c, k)'
  BY FreeSteps
<1>3. Moved(c)
 <2> SUFFICES ASSUME NEW k \in Key
              PROVE  (total'[k] - total[k]) + (lost'[k] - lost[k]) + (Owed(c, k)' - Owed(c, k)) = due'[k] - due[k]
   BY DEF Moved
 <2>1. Owed(c, k)' = 0 /\ Owed(c, k) = 0
   BY <1>2 DEF Owed
 <2>2. total[k] \in Int /\ lost[k] \in Int /\ due[k] \in Int
   BY DEF CountsShape
 <2> QED
   BY <2>1, <2>2
<1> QED
  BY <1>1, <1>2, <1>3 DEF StaysTo

\* A step that concerns the rules.
LEMMA RulesStep ==
  ASSUME IInv, NEW c \in Client, NEW r, CallRight(r), Becomes(c, r), SameRequest(r, call[c]),
         Step(c) \in FreeStep, r.at \in FreeStep,
         UNCHANGED <<dep, content, served, results, keyset, total, lost, due>>, RulesShape', RulesFollow'
  PROVE  IInv'
<1>1. Alone(c) /\ Step(c)' = r.at /\ SameRequest(call'[c], r)
  BY CallStep DEF IInv
<1>2. SameRequest(call'[c], call[c])
  BY <1>1 DEF SameRequest
<1>3. CountsShape' /\ Moved(c) /\ StaysTo(c)
  BY <1>1, NothingMoved DEF IInv, Shape
<1>4. Recent(call[c])'
  BY <1>2, RecentKept DEF IInv, CachesRight
<1>5. CachesRight'
  BY <1>1, <1>3, <1>4, CachesKept DEF IInv
<1>6. ResultsShape'
  BY DEF IInv, Shape, ResultsShape, EntryShape
<1> QED
  BY <1>3, <1>5, <1>6, Assembled

\* A step that only moves its call.
LEMMA PassStep ==
  ASSUME IInv, NEW c \in Client, NEW r, CallRight(r), Becomes(c, r), SameRequest(r, call[c]),
         Step(c) \in CalmStep, r.at \in FreeStep,
         UNCHANGED <<dep, content, served, results, keyset, rules, loaded, total, lost, due>>
  PROVE  IInv'
<1>1. Alone(c)
  BY CallStep DEF IInv
<1>2. Step(c) \in FreeStep /\ Step(c) # "rules_delete"
  BY DEF FreeStep, CalmStep
<1>3. RulesFollow'
  BY <1>1, <1>2, RulesKept DEF IInv
<1>4. RulesShape'
  BY DEF IInv, Shape, RulesShape
<1> QED
  BY <1>2, <1>3, <1>4, RulesStep

LEMMA CallKnown ==
  ASSUME IInv, NEW c \in Client
  PROVE  CallRight(call[c]) /\ CallShape(call[c]) /\ AnswerRight(call[c]) /\ StepRight(call[c])
BY DEF IInv, CallsRight, CallRight

\* A list of rules is put into the record of a call.
LEMMA ListedRight ==
  ASSUME NEW r, CallShape(r), AnswerRight(r), NEW list
  PROVE  /\ CallShape([r EXCEPT !.list = list]) /\ AnswerRight([r EXCEPT !.list = list])
         /\ SameRequest([r EXCEPT !.list = list], r) /\ [r EXCEPT !.list = list].at = r.at
<1> DEFINE q == [r EXCEPT !.list = list]
<1>1. /\ DOMAIN q = DOMAIN NoCall /\ SameRequest(q, r) /\ q.answer = r.answer /\ q.given = r.given
      /\ q.query = r.query /\ q.counted = r.counted /\ q.at = r.at
  BY DEF CallShape, NoCall, SameRequest
<1> HIDE DEF q
<1>2. CallShape(q) /\ AnswerRight(q)
  BY <1>1, ChangedRight DEF CallShape
<1> QED
  BY <1>1, <1>2 DEF q

LEMMA RulesGetStep ==
  ASSUME IInv, NEW c \in Client, RulesGet(c)
  PROVE  IInv'
<1>1. CallShape(call[c]) /\ AnswerRight(call[c])
  BY CallKnown
<1>2. Step(c) \in CalmStep
  BY DEF RulesGet, CalmStep
<1> DEFINE a == Applied([call[c] EXCEPT !.list = loaded[call[c].given].list])
           g == Goes(call[c], "rules_read")
<1>3. UNCHANGED <<dep, content, served, results, keyset, rules, loaded, total, lost, due>> /\ (Becomes(c, a) \/ Becomes(c, g))
 <2>1. Becomes(c, IF loaded[call[c].given].there THEN a ELSE g)
   BY DEF RulesGet
 <2>2. Becomes(c, a) \/ Becomes(c, g)
   BY <2>1
 <2> QED
   BY <2>2 DEF RulesGet
<1>4. CallRight(a) /\ SameRequest(a, call[c]) /\ a.at \in CalmStep
 <2> DEFINE q == [call[c] EXCEPT !.list = loaded[call[c].given].list]
 <2>1. CallShape(q) /\ AnswerRight(q) /\ SameRequest(q, call[c])
   BY <1>1, ListedRight
 <2> HIDE DEF q
 <2>2. CallRight(Applied(q)) /\ SameRequest(Applied(q), q) /\ Applied(q).at \in CalmStep
   BY <2>1, AppliedRight
 <2> QED
   BY <2>1, <2>2 DEF SameRequest, q
<1>5. CallRight(g) /\ SameRequest(g, call[c]) /\ g.at \in CalmStep
  BY <1>1, GoesRight DEF CalmStep
<1> HIDE DEF a, g
<1> QED
  BY <1>2, <1>3, <1>4, <1>5, PassStep DEF FreeStep

LEMMA RulesReadStep ==
  ASSUME IInv, NEW c \in Client, RulesRead(c)
  PROVE  IInv'
<1>1. CallShape(call[c]) /\ AnswerRight(call[c])
  BY CallKnown
<1>2. Step(c) \in CalmStep
  BY DEF RulesRead, CalmStep
<1> DEFINE g == Goes(call[c], "rules_set")
           q == [g EXCEPT !.list = FreshList(call[c].given)]
<1>3. UNCHANGED <<dep, content, served, results, keyset, rules, loaded, total, lost, due>> /\ Becomes(c, q)
  BY DEF RulesRead
<1>4. CallShape(g) /\ AnswerRight(g) /\ SameRequest(g, call[c]) /\ g.at = "rules_set"
  BY <1>1, GoesRight
<1> HIDE DEF g
<1>5. CallShape(q) /\ AnswerRight(q) /\ SameRequest(q, g) /\ q.at = g.at
  BY <1>4, ListedRight
<1> HIDE DEF q
<1>6. CallRight(q) /\ SameRequest(q, call[c]) /\ q.at \in FreeStep
  BY <1>4, <1>5, CalmRight DEF SameRequest, CalmStep, FreeStep
<1> QED
  BY <1>2, <1>3, <1>6, PassStep

LEMMA RulesSetStep ==
  ASSUME IInv, NEW c \in Client, RulesSet(c)
  PROVE  IInv'
<1>1. CallShape(call[c]) /\ AnswerRight(call[c])
  BY CallKnown
<1>2. Step(c) \in FreeStep /\ Step(c) # "rules_delete"
  BY DEF RulesSet, CalmStep, FreeStep
<1> DEFINE a == Applied(call[c])  t == call[c].given
<1>3. /\ UNCHANGED <<dep, content, served, results, keyset, rules, total, lost, due>> /\ Becomes(c, a)
      /\ loaded' = [loaded EXCEPT ![t] = [there |-> TRUE, list |-> call[c].list,
                      why |-> IF call[c].list = FreshList(t) THEN {} ELSE {"late"}]]
  BY DEF RulesSet
<1>4. CallRight(a) /\ SameRequest(a, call[c]) /\ a.at \in FreeStep
  BY <1>1, AppliedRight DEF FreeStep
<1>5. t \in Tenant
  BY <1>1 DEF CallShape
<1> HIDE DEF a, t
<1>6. RulesShape'
  BY <1>3, <1>5 DEF IInv, Shape, RulesShape, NoList
<1>7. Alone(c)
  BY <1>3, <1>4, CallStep DEF IInv
<1>8. RulesFollow'
 <2> SUFFICES ASSUME NEW x \in Tenant, loaded'[x].there
              PROVE  loaded'[x].list = FreshList(x)' \/ loaded'[x].why # {} \/ RuleChanging'
   BY DEF RulesFollow
 <2>1. FreshList(x)' = FreshList(x)
   BY <1>3 DEF FreshList, Matching
 <2>2. RuleChanging => RuleChanging'
   BY <1>2, <1>3, <1>7 DEF RuleChanging, Alone, Step
 <2>3. CASE x = t
   BY <1>3, <1>5, <2>1, <2>3 DEF IInv, Shape, RulesShape
 <2>4. CASE x # t
  <3>1. loaded'[x] = loaded[x]
    BY <1>3, <2>4 DEF IInv, Shape, RulesShape
  <3> QED
    BY <2>1, <2>2, <3>1 DEF IInv, RulesFollow
 <2> QED
   BY <2>3, <2>4
<1> QED
  BY <1>2, <1>3, <1>4, <1>6, <1>8, RulesStep

\* Every list that a change of the rules makes wrong has a cause.
LEMMA SpoiltRight ==
  ASSUME RulesShape, NEW new, NEW cause
  PROVE  /\ DOMAIN Spoilt(new, cause) = Tenant
         /\ \A t \in Tenant : /\ DOMAIN Spoilt(new, cause)[t] = DOMAIN NoList
                              /\ Spoilt(new, cause)[t].list = Matching(new, t) \/ Spoilt(new, cause)[t].why # {}
                                 \/ ~Spoilt(new, cause)[t].there
<1>1. DOMAIN Spoilt(new, cause) = Tenant
  BY DEF Spoilt
<1>2. ASSUME NEW t \in Tenant
      PROVE  /\ DOMAIN Spoilt(new, cause)[t] = DOMAIN NoList
             /\ Spoilt(new, cause)[t].list = Matching(new, t) \/ Spoilt(new, cause)[t].why # {}
                \/ ~Spoilt(new, cause)[t].there
 <2>1. DOMAIN loaded[t] = {"there", "list", "why"}
   BY DEF RulesShape, NoList
 <2> DEFINE e == [loaded[t] EXCEPT !.why = @ \cup {cause}]
 <2>2. DOMAIN e = DOMAIN NoList /\ e.why # {} /\ DOMAIN loaded[t] = DOMAIN NoList
   BY <2>1 DEF NoList
 <2>3. Spoilt(new, cause)[t] = IF loaded[t].there /\ loaded[t].list # Matching(new, t) THEN e ELSE loaded[t]
   BY DEF Spoilt
 <2> HIDE DEF e
 <2> QED
   BY <2>2, <2>3
<1> QED
  BY <1>1, <1>2

LEMMA Toggled ==
  ASSUME RulesShape, NEW t \in Tenant
  PROVE  Toggle(t) \subseteq Tenant
BY DEF RulesShape, Toggle

\* After a change all of whose wrong lists have a cause.
LEMMA RulesSpoilt ==
  ASSUME RulesShape, NEW cause, rules' \subseteq Tenant, loaded' = Spoilt(rules', cause)
  PROVE  RulesShape' /\ RulesFollow'
<1>1. /\ DOMAIN loaded' = Tenant
      /\ \A t \in Tenant : /\ DOMAIN loaded'[t] = DOMAIN NoList
                           /\ loaded'[t].list = Matching(rules', t) \/ loaded'[t].why # {} \/ ~loaded'[t].there
  BY SpoiltRight
<1> QED
  BY <1>1 DEF RulesShape, RulesFollow, FreshList, Matching

LEMMA RuleWriteStep ==
  ASSUME IInv, NEW c \in Client, RuleWrite(c)
  PROVE  IInv'
<1>1. CallShape(call[c]) /\ AnswerRight(call[c]) /\ call[c].op \in {"rule", "admin"}
  BY CallKnown DEF RuleWrite, Step, StepRight
<1>2. Step(c) \in FreeStep /\ Step(c) # "rules_delete"
  BY DEF RuleWrite, FreeStep
<1> DEFINE t == call[c].tenant
           after == IF call[c].op = "rule" THEN "rules_delete" ELSE End
           g == Goes(call[c], after)
           q == [g EXCEPT !.draft = {t}]
<1>3. UNCHANGED <<dep, content, served, results, keyset, total, lost, due>>
  BY DEF RuleWrite
<1>4. \/ dep.atomic /\ Becomes(c, q) /\ UNCHANGED <<rules, loaded>>
      \/ /\ ~dep.atomic /\ rules' = Toggle(t) /\ Becomes(c, g)
         /\ loaded' = IF call[c].op = "admin" THEN Spoilt(Toggle(t), "admin") ELSE loaded
  BY DEF RuleWrite, Continue
<1>5. t \in Tenant
  BY <1>1 DEF CallShape
<1>6. after \in FreeStep
  BY EndIsCalm DEF FreeStep
<1>7. CallShape(g) /\ AnswerRight(g) /\ SameRequest(g, call[c]) /\ g.at = after /\ g.op = call[c].op
  BY <1>1, GoesRight
<1>8. g.at = "rules_delete" => g.op = "rule"
  BY <1>7, EndIsCalm DEF CalmStep
<1>9. g.at # "put" /\ g.at # "rule_write" /\ g.at \notin Storing /\ g.at \notin CountSteps
  BY <1>7, EndIsCalm DEF CalmStep, Storing, CountSteps
<1> HIDE DEF g
<1>10. CallRight(g)
  BY <1>7, <1>8, <1>9 DEF CallRight, StepRight
<1>11. CallRight(q) /\ SameRequest(q, call[c]) /\ q.at = after
 <2>1. /\ DOMAIN q = DOMAIN NoCall /\ SameRequest(q, g) /\ q.answer = g.answer /\ q.given = g.given
       /\ q.query = g.query /\ q.counted = g.counted /\ q.at = g.at /\ q.op = g.op
   BY <1>7 DEF CallShape, NoCall, SameRequest
 <2> HIDE DEF q
 <2>2. CallShape(q) /\ AnswerRight(q)
   BY <1>7, <2>1, ChangedRight DEF CallShape
 <2>3. StepRight(q)
   BY <1>8, <1>9, <2>1 DEF StepRight
 <2> QED
   BY <1>7, <2>1, <2>2, <2>3 DEF CallRight, SameRequest
<1> HIDE DEF q
<1>12. CASE dep.atomic
 <2>1. Becomes(c, q) /\ UNCHANGED <<rules, loaded>>
   BY <1>4, <1>12
 <2>2. Alone(c)
   BY <2>1, <1>3, <1>11, CallStep DEF IInv
 <2>3. RulesFollow'
   BY <2>1, <2>2, <1>2, <1>3, RulesKept DEF IInv
 <2>4. RulesShape'
   BY <2>1 DEF IInv, Shape, RulesShape
 <2> QED
   BY <1>2, <1>3, <1>6, <1>11, <2>1, <2>3, <2>4, RulesStep
<1>13. CASE ~dep.atomic
 <2>1. /\ rules' = Toggle(t) /\ Becomes(c, g)
       /\ loaded' = IF call[c].op = "admin" THEN Spoilt(Toggle(t), "admin") ELSE loaded
   BY <1>4, <1>13
 <2>2. rules' \subseteq Tenant
   BY <1>5, <2>1, Toggled DEF IInv, Shape
 <2>3. RulesShape' /\ RulesFollow'
  <3>1. CASE call[c].op = "admin"
   <4>1. loaded' = Spoilt(rules', "admin")
     BY <2>1, <3>1
   <4> QED
     BY <2>2, <4>1, RulesSpoilt DEF IInv, Shape
  <3>2. CASE call[c].op = "rule"
   <4>1. Step(c)' = "rules_delete" /\ dep' = dep
     BY <1>3, <1>7, <1>10, <2>1, <3>2, CallStep DEF IInv
   <4>2. RuleChanging'
     BY <1>13, <4>1 DEF RuleChanging
   <4>3. loaded' = loaded
     BY <2>1, <3>2
   <4> QED
     BY <2>2, <4>2, <4>3 DEF RulesFollow, IInv, Shape, RulesShape
  <3> QED
    BY <1>1, <3>1, <3>2
 <2> QED
   BY <1>2, <1>3, <1>6, <1>7, <1>10, <2>1, <2>3, RulesStep
<1> QED
  BY <1>12, <1>13

\* Whatever rule has changed, no list is left that is wrong without a cause.
LEMMA RulesDeleteStep ==
  ASSUME IInv, NEW c \in Client, RulesDelete(c)
  PROVE  IInv'
<1>1. CallShape(call[c]) /\ AnswerRight(call[c])
  BY CallKnown
<1>2. Step(c) \in FreeStep
  BY DEF RulesDelete, FreeStep
<1> DEFINE t == call[c].tenant  g == Goes(call[c], End)
<1>3. /\ UNCHANGED <<dep, content, served, results, keyset, rules, total, lost, due>> /\ Becomes(c, g)
      /\ loaded' = [x \in Tenant |->
                      IF x \in Dropped(t) THEN NoList
                      ELSE IF t = "" /\ x # "" /\ ~dep.atomic THEN Spoilt(rules, "global")[x] ELSE loaded[x]]
  BY DEF RulesDelete, Continue
<1>4. t \in Tenant
  BY <1>1 DEF CallShape
<1>5. CallRight(g) /\ SameRequest(g, call[c]) /\ g.at \in FreeStep
  BY <1>1, EndIsCalm, GoesRight DEF FreeStep
<1> HIDE DEF g, t
<1>6. Alone(c)
  BY <1>3, <1>5, CallStep DEF IInv
<1>7. ASSUME NEW x \in Tenant
      PROVE  /\ DOMAIN loaded'[x] = DOMAIN NoList
             /\ loaded'[x].there => loaded'[x].list = FreshList(x)' \/ loaded'[x].why # {} \/ RuleChanging'
 <2>1. FreshList(x)' = Matching(rules, x)
   BY <1>3 DEF FreshList, Matching
 <2>2. CASE x \in Dropped(t)
   BY <1>3, <2>2 DEF NoList
 <2>3. CASE x \notin Dropped(t) /\ ~dep.atomic
  <3>1. t = "" /\ x # ""
    BY <1>4, <2>3 DEF Tenant, Dropped
  <3>2. loaded'[x] = Spoilt(rules, "global")[x]
    BY <1>3, <2>3, <3>1
  <3> QED
    BY <2>1, <3>2, SpoiltRight DEF IInv, Shape
 <2>4. CASE x \notin Dropped(t) /\ dep.atomic
  <3>1. loaded'[x] = loaded[x]
    BY <1>3, <2>4
  <3>2. ~RuleChanging
    BY <2>4 DEF RuleChanging
  <3> QED
    BY <2>1, <3>1, <3>2 DEF IInv, Shape, RulesShape, RulesFollow, FreshList
 <2> QED
   BY <2>2, <2>3, <2>4
<1>8. RulesShape'
  BY <1>3, <1>7 DEF IInv, Shape, RulesShape
<1>9. RulesFollow'
  BY <1>7 DEF RulesFollow
<1> QED
  BY <1>2, <1>3, <1>5, <1>8, <1>9, RulesStep

LEMMA CommitStep ==
  ASSUME IInv, NEW c \in Client, Commit(c)
  PROVE  IInv'
<1>1. CallShape(call[c]) /\ AnswerRight(call[c])
  BY CallKnown
<1>2. Step(c) \in FreeStep
  BY DEF Commit, CalmStep, FreeStep
<1> DEFINE g == Goes(call[c], "none")
           q == [g EXCEPT !.draft = {}, !.counted = NoCounts]
<1>3. /\ UNCHANGED <<dep, content, served, results, keyset, total, lost, due>> /\ Becomes(c, q)
      /\ rules' \in {rules, Toggle(call[c].tenant)} /\ loaded' = Spoilt(rules', "uncommitted")
  BY DEF Commit
<1>4. CallShape(g) /\ AnswerRight(g) /\ SameRequest(g, call[c]) /\ g.at = "none"
  BY <1>1, GoesRight
<1> HIDE DEF g
<1>5. CallRight(q) /\ SameRequest(q, call[c]) /\ q.at \in FreeStep
 <2>1. /\ DOMAIN q = DOMAIN NoCall /\ SameRequest(q, g) /\ q.answer = g.answer /\ q.given = g.given
       /\ q.query = g.query /\ q.counted = NoCounts /\ q.at = g.at
   BY <1>4 DEF CallShape, NoCall, SameRequest
 <2> HIDE DEF q
 <2>2. NoCounts \in [Key -> Nat]
   BY DEF NoCounts
 <2>3. CallShape(q) /\ AnswerRight(q)
   BY <1>4, <2>1, <2>2, ChangedRight DEF CallShape
 <2> QED
   BY <1>4, <2>1, <2>3, CalmRight DEF CalmStep, FreeStep, SameRequest
<1> HIDE DEF q
<1>6. rules' \subseteq Tenant
 <2>1. call[c].tenant \in Tenant
   BY <1>1 DEF CallShape
 <2> QED
   BY <1>3, <2>1, Toggled DEF IInv, Shape, RulesShape
<1>7. RulesShape' /\ RulesFollow'
  BY <1>3, <1>6, RulesSpoilt DEF IInv, Shape
<1> QED
  BY <1>2, <1>3, <1>5, <1>7, RulesStep

(* ---------------------------- steps of the caches --------------------------- *)

(* While the documents stay as they are, an entry goes, stays (and keeps or    *)
(* gets its cause), or is new and about to be registered.                      *)
Stays(k) ==
  /\ results[k].there /\ results'[k].of = results[k].of
  /\ results'[k].why # {} \/ (results[k].why = {} /\ results'[k].ver = results[k].ver)
Arrives(k) ==
  /\ dep.cached /\ k[1] = Name(results'[k].of)
  /\ results'[k].why # {} \/ results'[k].ver = content[results'[k].of]
  /\ Registering(k)'
EntriesMove == \A k \in Key : ~results'[k].there \/ Stays(k) \/ Arrives(k)

(* An invalidation that ends leaves nothing outdated without a cause, a key    *)
(* that is no longer known belongs to nothing or to what has a cause.          *)
InvalidationsEnd ==
  \A n \in Tenant : Invalidating(n) => \/ Invalidating(n)'
                                       \/ \A k \in Key : k[1] = n => Excused(k)' \/ ~Stale(k)'
RegistrationsEnd ==
  \A k \in Key : k \in keyset[k[1]] \/ Registering(k) => k \in keyset'[k[1]] \/ Registering(k)' \/ Excused(k)'
RequestsStay == \A d \in Client : SameRequest(call'[d], call[d]) \/ call'[d].since = 0

LEMMA CachesStep ==
  ASSUME Shape, ResultsShape', CallsRight', CachesRight, UNCHANGED <<dep, content, served>>,
         EntriesMove, InvalidationsEnd, RegistrationsEnd, RequestsStay
  PROVE  CachesRight'
<1>1. Placed'
 <2> SUFFICES ASSUME NEW k \in Key, results'[k].there
              PROVE  dep'.cached /\ k[1] = Name(results[k].of)'
   BY DEF Placed
 <2>1. Stays(k) \/ Arrives(k)
   BY DEF EntriesMove
 <2> QED
   BY <2>1 DEF Stays, Arrives, CachesRight, Placed, Name
<1>2. ResultsFollow'
 <2> SUFFICES ASSUME NEW k \in Key, ~Excused(k)', Stale(k)' PROVE Invalidating(k[1])'
   BY DEF ResultsFollow
 <2>1. k[1] \in Tenant
   BY DEF Key
 <2>2. results'[k].there /\ results'[k].why = {} /\ results'[k].ver # content[results'[k].of]
   BY DEF Excused, Stale
 <2>3. Stays(k)
   BY <2>2 DEF EntriesMove, Arrives
 <2>4. ~Excused(k) /\ Stale(k)
   BY <2>2, <2>3 DEF Stays, Excused, Stale
 <2>5. Invalidating(k[1])
   BY <2>4 DEF CachesRight, ResultsFollow
 <2> QED
   BY <2>1, <2>5 DEF InvalidationsEnd
<1>3. KeysKnown'
 <2> SUFFICES ASSUME NEW k \in Key, ~Excused(k)' PROVE k \in keyset'[k[1]] \/ Registering(k)'
   BY DEF KeysKnown
 <2>1. Stays(k) \/ Arrives(k)
   BY DEF EntriesMove, Excused
 <2>2. CASE Stays(k)
  <3>1. ~Excused(k)
    BY <2>2 DEF Stays, Excused
  <3> QED
    BY <3>1 DEF CachesRight, KeysKnown, RegistrationsEnd
 <2>3. CASE Arrives(k)
   BY <2>3 DEF Arrives
 <2> QED
   BY <2>1, <2>2, <2>3
<1>4. QuietRight'
 <2> SUFFICES ASSUME NEW d \in Client PROVE Recent(call[d])'
   BY DEF QuietRight
 <2> DEFINE s == call'[d].since  t == call'[d].tenant
 <2>1. s \in Nat /\ t \in Tenant /\ content[t] \in Nat
   BY DEF CallsRight, CallRight, CallShape, Shape, ResultsShape
 <2>2. s <= content[t]
  <3>1. CASE s = 0
    BY <2>1, <3>1
  <3>2. CASE SameRequest(call'[d], call[d])
    BY <3>2 DEF SameRequest, CachesRight, QuietRight, Recent
  <3> QED
    BY <3>1, <3>2 DEF RequestsStay
 <2>3. ASSUME call'[d].quiet, NEW k \in Key, ~Excused(k)', results'[k].of = t
       PROVE  results'[k].ver >= s
  <3>1. results'[k].there /\ results'[k].why = {} /\ results'[k].ver \in Nat
    BY <2>3 DEF Excused, ResultsShape, EntryShape
  <3>2. CASE s = 0
    BY <3>1, <3>2
  <3>3. CASE Arrives(k)
   <4>1. results'[k].ver = content[t]
     BY <2>3, <3>1, <3>3 DEF Arrives
   <4> QED
     BY <2>1, <2>2, <4>1
  <3>4. CASE Stays(k) /\ SameRequest(call'[d], call[d])
   <4>1. ~Excused(k) /\ results[k].of = call[d].tenant /\ results[k].ver = results'[k].ver
         /\ call[d].quiet /\ call[d].since = s
     BY <2>3, <3>1, <3>4 DEF Stays, Excused, SameRequest
   <4> QED
     BY <4>1 DEF CachesRight, QuietRight, Recent
  <3> QED
    BY <3>1, <3>2, <3>3, <3>4 DEF EntriesMove, RequestsStay
 <2> QED
   BY <2>2, <2>3 DEF Recent
<1> QED
  BY <1>1, <1>2, <1>3, <1>4 DEF CachesRight

(* Entries that get a cause.                                                   *)
Blamed(after, ks) ==
  /\ DOMAIN after = Key
  /\ \A k \in Key : /\ EntryShape(after[k])
                    /\ after[k].there = results[k].there /\ after[k].of = results[k].of
                    /\ after[k].ver = results[k].ver
                    /\ results[k].why # {} => after[k].why # {}
                    /\ k \in ks => after[k].why # {} \/ ~after[k].there

LEMMA BlameRight ==
  ASSUME ResultsShape, NEW ks, NEW cause
  PROVE  Blamed(Blame(results, ks, cause), ks)
<1> DEFINE b == Blame(results, ks, cause)
<1>1. DOMAIN b = Key
  BY DEF Blame
<1>2. ASSUME NEW k \in Key
      PROVE  /\ EntryShape(b[k])
             /\ b[k].there = results[k].there /\ b[k].of = results[k].of /\ b[k].ver = results[k].ver
             /\ results[k].why # {} => b[k].why # {}
             /\ k \in ks => b[k].why # {} \/ ~b[k].there
 <2> DEFINE e == [results[k] EXCEPT !.why = @ \cup {cause}]
 <2>1. EntryShape(results[k])
   BY DEF ResultsShape
 <2>2. /\ EntryShape(e) /\ e.there = results[k].there /\ e.of = results[k].of /\ e.ver = results[k].ver
       /\ e.why # {}
   BY <2>1 DEF EntryShape, NoEntry
 <2>3. b[k] = IF k \in ks /\ results[k].there THEN e ELSE results[k]
   BY DEF Blame
 <2> HIDE DEF e, b
 <2> QED
   BY <2>1, <2>2, <2>3
<1> QED
  BY <1>1, <1>2 DEF Blamed

LEMMA BlamedStays ==
  ASSUME ResultsShape, NEW ks, Blamed(results', ks), DOMAIN keyset' = Tenant, UNCHANGED <<content, served>>
  PROVE  EntriesMove /\ ResultsShape' /\ \A k \in Key : k \in ks => Excused(k)'
<1>1. \A k \in Key : ~results'[k].there \/ Stays(k)
  BY DEF Blamed, Stays
<1>2. \A k \in Key : k \in ks => Excused(k)'
  BY DEF Blamed, Excused
<1>3. ResultsShape'
  BY DEF Blamed, ResultsShape, EntryShape
<1> QED
  BY <1>1, <1>2, <1>3 DEF EntriesMove

LEMMA ResultsStay ==
  ASSUME ResultsShape, DOMAIN keyset' = Tenant, UNCHANGED <<content, served, results>>
  PROVE  EntriesMove /\ ResultsShape'
<1>1. \A k \in Key : ~results'[k].there \/ Stays(k)
  BY DEF Stays
<1>2. ResultsShape'
  BY DEF ResultsShape, EntryShape
<1> QED
  BY <1>1, <1>2 DEF EntriesMove

LEMMA InvalidationEnds ==
  ASSUME NEW c \in Client, Alone(c), UNCHANGED dep,
         \/ ~Invalidates(c)
         \/ Invalidates(c)' /\ call'[c].tenant = call[c].tenant
         \/ \A k \in Key : k[1] = Name(call[c].tenant) => Excused(k)' \/ ~Stale(k)'
  PROVE  InvalidationsEnd
<1> SUFFICES ASSUME NEW n \in Tenant, NEW d \in Client, Invalidates(d), Name(call[d].tenant) = n
             PROVE  Invalidating(n)' \/ \A k \in Key : k[1] = n => Excused(k)' \/ ~Stale(k)'
  BY DEF InvalidationsEnd, Invalidating
<1>1. CASE d # c
 <2>1. Invalidates(d)' /\ Name(call[d].tenant)' = n
   BY <1>1 DEF Alone, Invalidates, Step, Name
 <2> QED
   BY <2>1 DEF Invalidating
<1>2. CASE d = c
 <2>1. Invalidates(c)' /\ call'[c].tenant = call[c].tenant => Invalidating(n)'
   BY <1>2 DEF Invalidating, Name
 <2> QED
   BY <1>2, <2>1
<1> QED
  BY <1>1, <1>2

LEMMA RegistrationEnds ==
  ASSUME NEW c \in Client, Alone(c), UNCHANGED dep,
         \A k \in Key : k \in keyset[k[1]] \/ Registers(c, k) =>
           k \in keyset'[k[1]] \/ Registers(c, k)' \/ Excused(k)'
  PROVE  RegistrationsEnd
<1> SUFFICES ASSUME NEW k \in Key, k \in keyset[k[1]] \/ Registering(k)
             PROVE  k \in keyset'[k[1]] \/ Registering(k)' \/ Excused(k)'
  BY DEF RegistrationsEnd
<1>1. CASE k \in keyset[k[1]] \/ Registers(c, k)
  BY <1>1 DEF Registering
<1>2. ASSUME NEW d \in Client, d # c, Registers(d, k) PROVE Registering(k)'
 <2>1. Registers(d, k)'
   BY <1>2 DEF Alone, Registers, Step, MyKey, Name
 <2> QED
   BY <2>1 DEF Registering
<1> QED
  BY <1>1, <1>2 DEF Registering

LEMMA SameOwed ==
  ASSUME CountsShape, NEW c, UNCHANGED <<total, lost, due>>, \A k \in Key : Uncounted(c, k)' <=> Uncounted(c, k)
  PROVE  CountsShape' /\ Moved(c)
<1>1. CountsShape'
  BY DEF CountsShape
<1> SUFFICES ASSUME NEW k \in Key
             PROVE  (total'[k] - total[k]) + (lost'[k] - lost[k]) + (Owed(c, k)' - Owed(c, k)) = due'[k] - due[k]
  BY <1>1 DEF Moved
<1>2. Owed(c, k)' = Owed(c, k) /\ Owed(c, k) \in Int
  BY DEF Owed
<1>3. total[k] \in Int /\ lost[k] \in Int /\ due[k] \in Int
  BY DEF CountsShape
<1> QED
  BY <1>2, <1>3

\* A step of a call that leaves the documents and the rules alone.
LEMMA CacheStep ==
  ASSUME IInv, NEW c \in Client, NEW r, CallRight(r), Becomes(c, r),
         SameRequest(r, call[c]) \/ r.since = 0, Step(c) # "rules_delete", UNCHANGED <<dep, content, served, rules, loaded>>,
         CountsShape', Moved(c), ResultsShape', EntriesMove, InvalidationsEnd, RegistrationsEnd
  PROVE  IInv'
<1>1. Alone(c) /\ SameRequest(call'[c], r) /\ CallsRight'
  BY CallStep DEF IInv
<1>2. RequestsStay
 <2> SUFFICES ASSUME NEW d \in Client PROVE SameRequest(call'[d], call[d]) \/ call'[d].since = 0
   BY DEF RequestsStay
 <2> QED
   BY <1>1 DEF Alone, SameRequest
<1>3. CachesRight'
  BY <1>1, <1>2, CachesStep DEF IInv
<1>4. RulesFollow'
  BY <1>1, RulesKept DEF IInv
<1>5. RulesShape'
  BY DEF IInv, Shape, RulesShape
<1> QED
  BY <1>3, <1>4, <1>5, Assembled

LEMMA KeysetKnownStep ==
  ASSUME IInv, NEW c \in Client, KeysetKnown(c)
  PROVE  IInv'
<1>1. CallShape(call[c]) /\ AnswerRight(call[c])
  BY CallKnown
<1> DEFINE g == Goes(call[c], "delete_many")
           q == [g EXCEPT !.known = keyset[Name(call[c].tenant)]]
<1>2. /\ UNCHANGED <<dep, content, served, results, keyset, rules, loaded, total, lost, due>> /\ Becomes(c, q)
      /\ Step(c) = "keyset_known"
  BY DEF KeysetKnown
<1>3. CallShape(g) /\ AnswerRight(g) /\ SameRequest(g, call[c]) /\ g.at = "delete_many" /\ g.op = call[c].op
  BY <1>1, GoesRight
<1> HIDE DEF g
<1>4. CallRight(q) /\ SameRequest(q, call[c]) /\ q.at = "delete_many" /\ q.op = call[c].op
 <2>1. /\ DOMAIN q = DOMAIN NoCall /\ SameRequest(q, g) /\ q.answer = g.answer /\ q.given = g.given
       /\ q.query = g.query /\ q.counted = g.counted /\ q.at = g.at /\ q.op = g.op
   BY <1>3 DEF CallShape, NoCall, SameRequest
 <2> HIDE DEF q
 <2>2. CallShape(q) /\ AnswerRight(q)
   BY <1>3, <2>1, ChangedRight DEF CallShape
 <2>3. StepRight(q)
   BY <1>3, <2>1 DEF StepRight, Storing, CountSteps
 <2> QED
   BY <1>3, <2>1, <2>2, <2>3 DEF CallRight, SameRequest
<1> HIDE DEF q
<1>5. Alone(c) /\ Step(c)' = "delete_many" /\ call'[c] = q
  BY <1>2, <1>4, CallStep DEF IInv
<1>6. InvalidationsEnd
 <2>1. call'[c].tenant = call[c].tenant /\ call'[c].op = call[c].op
   BY <1>4, <1>5 DEF SameRequest
 <2>2. Invalidates(c) => Invalidates(c)' /\ call'[c].tenant = call[c].tenant
   BY <1>5, <2>1 DEF Invalidates
 <2> QED
   BY <1>2, <1>5, <2>2, InvalidationEnds
<1>7. RegistrationsEnd
 <2>1. \A k \in Key : ~Registers(c, k)
   BY <1>2 DEF Registers
 <2> QED
   BY <1>2, <1>5, <2>1, RegistrationEnds
<1>8. CountsShape' /\ Moved(c)
 <2>1. \A k \in Key : Uncounted(c, k)' <=> Uncounted(c, k)
   BY <1>2, <1>5 DEF Uncounted, Counting
 <2> QED
   BY <1>2, <2>1, SameOwed DEF IInv, Shape
<1>9. EntriesMove /\ ResultsShape'
  BY <1>2, ResultsStay DEF IInv, Shape, ResultsShape
<1>10. Step(c) # "rules_delete"
  BY <1>2
<1> QED
  BY <1>2, <1>4, <1>6, <1>7, <1>8, <1>9, <1>10, CacheStep

LEMMA DeleteManyStep ==
  ASSUME IInv, NEW c \in Client, DeleteMany(c)
  PROVE  IInv'
<1>1. CallShape(call[c]) /\ AnswerRight(call[c])
  BY CallKnown
<1> DEFINE g == Goes(call[c], "keyset_delete")
           known == call[c].known
           missed == {k \in KeysOf(Name(call[c].tenant)) \ known : Registering(k) \/ k \in keyset[k[1]]}
           left == [k \in Key |-> IF k \in known THEN NoEntry ELSE results[k]]
           blame == {k \in missed : Stale(k)}
<1>2. /\ UNCHANGED <<dep, content, served, keyset, rules, loaded, total, lost, due>> /\ Becomes(c, g)
      /\ Step(c) = "delete_many" /\ results' = Blame(left, blame, "between")
  BY DEF DeleteMany, Continue
<1>3. /\ CallShape(g) /\ AnswerRight(g) /\ SameRequest(g, call[c]) /\ g.at = "keyset_delete"
  BY <1>1, GoesRight
<1> HIDE DEF g
<1>4. CallRight(g)
  BY <1>3 DEF CallRight, StepRight, Storing, CountSteps
<1>5. Alone(c) /\ Step(c)' = "keyset_delete"
  BY <1>2, <1>3, <1>4, CallStep DEF IInv
<1>6. ASSUME NEW k \in Key
      PROVE  /\ EntryShape(results'[k])
             /\ ~results'[k].there \/ Stays(k)
             /\ k[1] = Name(call[c].tenant) => Excused(k)' \/ ~Stale(k)'
 <2> DEFINE e == [results[k] EXCEPT !.why = @ \cup {"between"}]
 <2>1. EntryShape(results[k]) /\ EntryShape(NoEntry) /\ ~NoEntry.there
   BY DEF IInv, Shape, ResultsShape, EntryShape, NoEntry, Tenant
 <2>2. /\ EntryShape(e) /\ e.there = results[k].there /\ e.of = results[k].of /\ e.ver = results[k].ver
       /\ e.why # {}
   BY <2>1 DEF EntryShape, NoEntry
 <2>3. k \in known => results'[k] = NoEntry
   BY <1>2, <2>1 DEF Blame
 <2>4. k \notin known => results'[k] = IF k \in blame /\ results[k].there THEN e ELSE results[k]
   BY <1>2 DEF Blame
 <2> HIDE DEF e, left, known
 <2>5. EntryShape(results'[k]) /\ (~results'[k].there \/ Stays(k))
   BY <2>1, <2>2, <2>3, <2>4 DEF Stays
 <2>6. ASSUME k[1] = Name(call[c].tenant), ~Excused(k)', Stale(k)' PROVE FALSE
  <3>1. k \notin known
    BY <2>1, <2>3, <2>6 DEF Excused
  <3>2. results'[k] = results[k] /\ ~(k \in blame /\ results[k].there)
    BY <2>2, <2>4, <2>6, <3>1 DEF Excused
  <3>3. ~Excused(k) /\ Stale(k) /\ results[k].there
    BY <1>2, <2>6, <3>2 DEF Excused, Stale
  <3>4. k \in keyset[k[1]] \/ Registering(k)
    BY <3>3 DEF IInv, CachesRight, KeysKnown
  <3>5. k \in missed
    BY <2>6, <3>1, <3>4 DEF KeysOf
  <3> QED
    BY <3>2, <3>3, <3>5
 <2> QED
   BY <2>5, <2>6
<1>7. DOMAIN results' = Key
  BY <1>2 DEF Blame
<1> HIDE DEF left, missed, blame, known
<1>8. EntriesMove /\ ResultsShape'
  BY <1>2, <1>6, <1>7 DEF EntriesMove, IInv, Shape, ResultsShape, EntryShape
<1>9. InvalidationsEnd
  BY <1>2, <1>5, <1>6, InvalidationEnds
<1>10. RegistrationsEnd
 <2>1. \A k \in Key : ~Registers(c, k)
   BY <1>2 DEF Registers
 <2> QED
   BY <1>2, <1>5, <2>1, RegistrationEnds
<1>11. CountsShape' /\ Moved(c)
 <2>1. \A k \in Key : Uncounted(c, k)' <=> Uncounted(c, k)
   BY <1>2, <1>5 DEF Uncounted, Counting
 <2> QED
   BY <1>2, <2>1, SameOwed DEF IInv, Shape
<1>12. Step(c) # "rules_delete"
  BY <1>2
<1> QED
  BY <1>2, <1>3, <1>4, <1>8, <1>9, <1>10, <1>11, <1>12, CacheStep

LEMMA KeysetDeleteStep ==
  ASSUME IInv, NEW c \in Client, KeysetDelete(c)
  PROVE  IInv'
<1>1. CallShape(call[c]) /\ AnswerRight(call[c])
  BY CallKnown
<1> DEFINE g == Goes(call[c], End)  n == Name(call[c].tenant)
<1>2. /\ UNCHANGED <<dep, content, served, rules, loaded, total, lost, due>> /\ Becomes(c, g)
      /\ Step(c) = "keyset_delete" /\ results' = Blame(results, keyset[n], "dropped")
      /\ keyset' = [keyset EXCEPT ![n] = {}]
  BY DEF KeysetDelete, Continue
<1>3. CallRight(g) /\ SameRequest(g, call[c]) /\ g.at \in FreeStep
  BY <1>1, EndIsCalm, GoesRight DEF FreeStep
<1> HIDE DEF g
<1>4. Alone(c) /\ Step(c)' \in FreeStep /\ Step(c) \in FreeStep
  BY <1>2, <1>3, CallStep DEF IInv, FreeStep
<1>5. n \in Tenant
  BY <1>1 DEF CallShape, Name, Tenant
<1> HIDE DEF n
<1>6. DOMAIN keyset' = Tenant /\ \A m \in Tenant : m # n => keyset'[m] = keyset[m]
  BY <1>2 DEF IInv, Shape, ResultsShape
<1>7. Blamed(results', keyset[n])
  BY <1>2, BlameRight DEF IInv, Shape
<1>8. EntriesMove /\ ResultsShape' /\ \A k \in Key : k \in keyset[n] => Excused(k)'
  BY <1>2, <1>6, <1>7, BlamedStays DEF IInv, Shape
<1>9. ~Invalidates(c) /\ \A k : ~Registers(c, k)
  BY <1>4, FreeSteps
<1>10. InvalidationsEnd
  BY <1>2, <1>4, <1>9, InvalidationEnds
<1>11. RegistrationsEnd
 <2>1. ASSUME NEW k \in Key, k \in keyset[k[1]]
       PROVE  k \in keyset'[k[1]] \/ Excused(k)'
  <3>1. k[1] \in Tenant
    BY DEF Key
  <3> QED
    BY <1>6, <1>8, <2>1, <3>1
 <2> QED
   BY <1>2, <1>4, <1>9, <2>1, RegistrationEnds
<1>12. CountsShape' /\ Moved(c)
  BY <1>2, <1>4, NothingMoved DEF IInv, Shape
<1>13. Step(c) # "rules_delete"
  BY <1>2
<1> QED
  BY <1>2, <1>3, <1>8, <1>10, <1>11, <1>12, <1>13, CacheStep

\* An answer is put into the record of a call.
LEMMA AnsweredRight ==
  ASSUME NEW r, CallShape(r), NEW e, EntryShape(e),
         e.of = r.tenant \/ (dep.shared /\ dep.cached),
         e.of = r.tenant => e.ver >= r.since \/ e.why # {} \/ ~r.quiet
  PROVE  /\ CallShape([r EXCEPT !.answer = e]) /\ AnswerRight([r EXCEPT !.answer = e])
         /\ SameRequest([r EXCEPT !.answer = e], r) /\ [r EXCEPT !.answer = e].answer = e
         /\ [r EXCEPT !.answer = e].log = r.log /\ [r EXCEPT !.answer = e].query = r.query
<1> DEFINE q == [r EXCEPT !.answer = e]
<1>1. /\ DOMAIN q = DOMAIN NoCall /\ SameRequest(q, r) /\ q.answer = e /\ q.given = r.given
      /\ q.query = r.query /\ q.counted = r.counted /\ q.log = r.log
  BY DEF CallShape, NoCall, SameRequest
<1> HIDE DEF q
<1>2. CallShape(q)
  BY <1>1 DEF CallShape, SameRequest
<1>3. AnswerRight(q)
  BY <1>1 DEF AnswerRight, SameRequest
<1> QED
  BY <1>1, <1>2, <1>3 DEF q

LEMMA KeyKnown ==
  ASSUME NEW c, CallShape(call[c])
  PROVE  MyKey(c) \in Key /\ MyKey(c)[1] = Name(call[c].tenant) /\ MyKey(c)[1] \in Tenant /\ MyCount(c) \in Key
BY DEF CallShape, MyKey, MyCount, Name, Key, Tenant

LEMMA GetStep ==
  ASSUME IInv, NEW c \in Client, Get(c)
  PROVE  IInv'
<1>1. CallShape(call[c]) /\ AnswerRight(call[c])
  BY CallKnown
<1>2. Step(c) \in CalmStep
  BY DEF Get, CalmStep
<1> DEFINE k == MyKey(c)
           q == [call[c] EXCEPT !.answer = results[k]]
           g == Goes(call[c], "find")
<1>3. /\ UNCHANGED <<dep, content, served, results, keyset, rules, loaded, total, lost, due>>
      /\ Becomes(c, IF Caching(c) /\ results[k].there THEN AfterSearch(q) ELSE g)
  BY DEF Get
<1>4. k \in Key /\ k[1] = Name(call[c].tenant)
  BY <1>1, KeyKnown
<1> HIDE DEF k
<1>5. CallRight(g) /\ SameRequest(g, call[c]) /\ g.at \in CalmStep
  BY <1>1, GoesRight DEF CalmStep
<1>6. ASSUME results[k].there
      PROVE  CallRight(AfterSearch(q)) /\ SameRequest(AfterSearch(q), call[c]) /\ AfterSearch(q).at \in CalmStep
 <2>1. EntryShape(results[k])
   BY <1>4 DEF IInv, Shape, ResultsShape
 <2>2. dep.cached /\ Name(call[c].tenant) = Name(results[k].of)
   BY <1>4, <1>6 DEF IInv, CachesRight, Placed
 <2>3. results[k].of = call[c].tenant \/ (dep.shared /\ dep.cached)
   BY <2>2 DEF Name
 <2>4. results[k].of = call[c].tenant =>
         results[k].ver >= call[c].since \/ results[k].why # {} \/ ~call[c].quiet
   BY <1>4, <1>6 DEF IInv, CachesRight, QuietRight, Recent, Excused
 <2>5. CallShape(q) /\ AnswerRight(q) /\ SameRequest(q, call[c])
   BY <1>1, <2>1, <2>3, <2>4, AnsweredRight
 <2> HIDE DEF q
 <2>6. CallRight(AfterSearch(q)) /\ SameRequest(AfterSearch(q), q) /\ AfterSearch(q).at \in CalmStep
   BY <2>5, AfterSearchRight
 <2> QED
   BY <2>5, <2>6 DEF SameRequest
<1> HIDE DEF q, g
<1>7. CASE Caching(c) /\ results[k].there
  BY <1>2, <1>3, <1>6, <1>7, PassStep DEF FreeStep
<1>8. CASE ~(Caching(c) /\ results[k].there)
  BY <1>2, <1>3, <1>5, <1>8, PassStep DEF FreeStep
<1> QED
  BY <1>7, <1>8

\* A step that is not one of the caches, nor of the rules.
LEMMA UncachedStep ==
  ASSUME IInv, NEW c \in Client, NEW r, CallRight(r), Becomes(c, r), SameRequest(r, call[c]),
         ~Invalidates(c), \A k \in Key : Registers(c, k) => Registers(c, k)' \/ k \in keyset[k[1]],
         Step(c) # "rules_delete",
         UNCHANGED <<dep, content, served, results, keyset, rules, loaded>>, CountsShape', Moved(c)
  PROVE  IInv'
<1>1. Alone(c)
  BY CallStep DEF IInv
<1>2. EntriesMove /\ ResultsShape'
  BY ResultsStay DEF IInv, Shape, ResultsShape
<1>3. InvalidationsEnd
  BY <1>1, InvalidationEnds
<1>4. RegistrationsEnd
  BY <1>1, RegistrationEnds
<1> QED
  BY <1>2, <1>3, <1>4, CacheStep

\* The search that has reached the engine is due, and to be counted.
LEMMA FindStep ==
  ASSUME IInv, NEW c \in Client, Find(c)
  PROVE  IInv'
<1>1. CallShape(call[c]) /\ AnswerRight(call[c])
  BY CallKnown
<1> DEFINE t == call[c].tenant
           pending == IF served[t] # content[t] THEN {"deferred"} ELSE {}
           e == [there |-> TRUE, of |-> t, ver |-> served[t], why |-> pending]
           q == [call[c] EXCEPT !.answer = e]
           r == IF Caching(c) THEN Goes(q, "set") ELSE AfterCache(q)
<1>2. /\ UNCHANGED <<dep, content, served, results, keyset, rules, loaded, total, lost>> /\ Becomes(c, r)
      /\ due' = IF call[c].log THEN [due EXCEPT ![MyCount(c)] = @ + 1] ELSE due
      /\ Step(c) = "find"
  BY DEF Find
<1>3. /\ t \in Tenant /\ content[t] \in Nat /\ served[t] \in Nat /\ call[c].since <= content[t]
      /\ MyCount(c) \in Key
  BY <1>1, KeyKnown DEF CallShape, IInv, Shape, ResultsShape, CachesRight, QuietRight, Recent
<1>4. EntryShape(e) /\ e.of = t /\ e.there /\ (e.why # {} \/ e.ver >= call[c].since)
  BY <1>1, <1>3 DEF EntryShape, NoEntry, CallShape
<1> HIDE DEF e
<1>5. /\ CallShape(q) /\ AnswerRight(q) /\ SameRequest(q, call[c]) /\ q.answer = e /\ q.log = call[c].log
      /\ q.query = call[c].query
  BY <1>1, <1>4, AnsweredRight
<1> HIDE DEF q
<1>6. /\ CallRight(r) /\ SameRequest(r, call[c])
      /\ \/ /\ call[c].log /\ r.log /\ r.at \in Counting /\ r.query = call[c].query /\ r.at # "none"
         \/ ~call[c].log /\ (~r.log \/ r.at \notin Counting)
      /\ r.at # "rules_delete"
 <2>1. CASE Caching(c)
  <3> DEFINE g == Goes(q, "set")
  <3>1. /\ CallShape(g) /\ AnswerRight(g) /\ SameRequest(g, q) /\ g.at = "set" /\ g.log = q.log
        /\ g.query = q.query /\ g.answer = q.answer
    BY <1>5, GoesRight
  <3> HIDE DEF g
  <3>2. r = g
    BY <2>1 DEF g
  <3>3. StepRight(g)
    BY <1>4, <1>5, <2>1, <3>1 DEF StepRight, Storing, CountSteps, Caching, SameRequest
  <3> HIDE DEF r
  <3> QED
    BY <1>5, <3>1, <3>2, <3>3 DEF CallRight, SameRequest, Counting
 <2>2. CASE ~Caching(c)
  <3> DEFINE g == AfterCache(q)
  <3>1. /\ CallRight(g) /\ SameRequest(g, q)
        /\ \/ q.log /\ g.at = "count_update" /\ g.log /\ g.query = q.query
           \/ ~q.log /\ g.at \in CalmStep
    BY <1>5, AfterCacheRight
  <3> HIDE DEF g
  <3>2. r = g
    BY <2>2 DEF g
  <3> HIDE DEF r
  <3> QED
    BY <1>5, <3>1, <3>2 DEF CallRight, SameRequest, Counting, CalmStep
 <2> QED
   BY <2>1, <2>2
<1> HIDE DEF r
<1>7. Alone(c) /\ Step(c)' = r.at /\ SameRequest(call'[c], r) /\ (r.at # "none" => call'[c] = r)
  BY <1>2, <1>6, CallStep DEF IInv
<1>8. CountsShape'
  BY <1>2, <1>3 DEF IInv, Shape, CountsShape
<1>9. Moved(c)
 <2> SUFFICES ASSUME NEW k \in Key
              PROVE  (total'[k] - total[k]) + (lost'[k] - lost[k]) + (Owed(c, k)' - Owed(c, k)) = due'[k] - due[k]
   BY DEF Moved
 <2>1. total[k] \in Int /\ lost[k] \in Int /\ due[k] \in Int /\ due \in [Key -> Int]
   BY DEF IInv, Shape, CountsShape
 <2>2. Owed(c, k) = 0
   BY <1>2 DEF Owed, Uncounted, Counting
 <2>3. CASE call[c].log
  <3>1. call'[c].log /\ Step(c)' \in Counting /\ call'[c].tenant = t /\ call'[c].query = call[c].query
    BY <1>6, <1>7, <2>3 DEF SameRequest
  <3>2. MyCount(c)' = MyCount(c)
    BY <3>1 DEF MyCount
  <3>3. Owed(c, k)' = IF MyCount(c) = k THEN 1 ELSE 0
    BY <3>1, <3>2 DEF Owed, Uncounted
  <3>4. due'[k] = IF MyCount(c) = k THEN due[k] + 1 ELSE due[k]
    BY <1>2, <1>3, <2>1, <2>3
  <3> QED
    BY <1>2, <2>1, <2>2, <3>3, <3>4
 <2>4. CASE ~call[c].log
  <3>1. ~Uncounted(c, k)'
   <4>1. CASE r.at = "none"
     BY <1>7, <4>1 DEF Uncounted, Counting
   <4>2. CASE r.at # "none"
     BY <1>6, <1>7, <2>4, <4>2 DEF Uncounted
   <4> QED
     BY <4>1, <4>2
  <3>2. Owed(c, k)' = 0
    BY <3>1 DEF Owed
  <3> QED
    BY <1>2, <2>1, <2>2, <2>4, <3>2
 <2> QED
   BY <2>3, <2>4
<1>10. ~Invalidates(c) /\ (\A k \in Key : ~Registers(c, k)) /\ Step(c) # "rules_delete"
  BY <1>2 DEF Invalidates, Registers
<1> QED
  BY <1>2, <1>6, <1>8, <1>9, <1>10, UncachedStep

\* What is stored is right or has a cause, and is about to be registered.
LEMMA SetStep ==
  ASSUME IInv, NEW c \in Client, Set(c)
  PROVE  IInv'
<1>1. CallShape(call[c]) /\ AnswerRight(call[c]) /\ StepRight(call[c])
  BY CallKnown
<1> DEFINE k == MyKey(c)  a == call[c].answer  g == Goes(call[c], "keyset_read")
           e == [a EXCEPT !.why = IF @ = {} /\ a.ver # content[a.of] THEN {"late"} ELSE @]
<1>2. /\ UNCHANGED <<dep, content, served, keyset, rules, loaded, total, lost, due>> /\ Becomes(c, g)
      /\ Step(c) = "set" /\ results' = [results EXCEPT ![k] = e]
  BY DEF Set, Continue
<1>3. dep.cached /\ a.there /\ a.of = call[c].tenant /\ EntryShape(a)
  BY <1>1, <1>2 DEF StepRight, Storing, Step, CallShape
<1>4. k \in Key /\ k[1] = Name(call[c].tenant)
  BY <1>1, KeyKnown
<1>5. EntryShape(e) /\ e.there /\ e.of = a.of /\ (e.why # {} \/ e.ver = content[e.of])
  BY <1>3 DEF EntryShape, NoEntry
<1> HIDE DEF e
<1>6. /\ CallShape(g) /\ AnswerRight(g) /\ SameRequest(g, call[c]) /\ g.at = "keyset_read"
      /\ g.log = call[c].log /\ g.query = call[c].query /\ g.answer = a /\ g.op = call[c].op
  BY <1>1, GoesRight
<1> HIDE DEF g
<1>7. CallRight(g)
  BY <1>3, <1>6 DEF CallRight, StepRight, CountSteps, SameRequest
<1>8. Alone(c) /\ Step(c)' = "keyset_read" /\ call'[c] = g
  BY <1>2, <1>6, <1>7, CallStep DEF IInv
<1>9. Registers(c, k)'
  BY <1>2, <1>6, <1>8 DEF Registers, MyKey, Name, SameRequest
<1> HIDE DEF k
<1>10. DOMAIN results' = Key /\ results'[k] = e /\ \A x \in Key : x # k => results'[x] = results[x]
  BY <1>2, <1>4 DEF IInv, Shape, ResultsShape
<1>11. ASSUME NEW x \in Key PROVE EntryShape(results'[x]) /\ (~results'[x].there \/ Stays(x) \/ Arrives(x))
 <2>1. CASE x = k
  <3>1. Registering(k)'
    BY <1>9 DEF Registering
  <3>2. Arrives(k)
    BY <1>3, <1>4, <1>5, <1>10, <3>1 DEF Arrives
  <3> QED
    BY <1>5, <1>10, <2>1, <3>2
 <2>2. CASE x # k
   BY <1>10, <2>2 DEF Stays, IInv, Shape, ResultsShape
 <2> QED
   BY <2>1, <2>2
<1>12. EntriesMove /\ ResultsShape'
  BY <1>2, <1>10, <1>11 DEF EntriesMove, IInv, Shape, ResultsShape, EntryShape
<1>13. ~Invalidates(c) /\ (\A x : ~Registers(c, x)) /\ Step(c) # "rules_delete"
  BY <1>2 DEF Invalidates, Registers
<1>14. InvalidationsEnd
  BY <1>2, <1>8, <1>13, InvalidationEnds
<1>15. RegistrationsEnd
  BY <1>2, <1>8, <1>13, RegistrationEnds
<1>16. CountsShape' /\ Moved(c)
 <2>1. \A x \in Key : Uncounted(c, x)' <=> Uncounted(c, x)
   BY <1>2, <1>6, <1>8 DEF Uncounted, Counting, MyCount, SameRequest
 <2> QED
   BY <1>2, <2>1, SameOwed DEF IInv, Shape
<1> QED
  BY <1>2, <1>6, <1>7, <1>12, <1>13, <1>14, <1>15, <1>16, CacheStep

\* From its registration a search goes on to its count, if it is to be counted.
LEMMA CountFollows ==
  ASSUME IInv, NEW c \in Client, Step(c) \in Storing, Becomes(c, AfterCache(call[c])), UNCHANGED <<dep, total, lost, due>>
  PROVE  /\ CallRight(AfterCache(call[c])) /\ SameRequest(AfterCache(call[c]), call[c])
         /\ Alone(c) /\ CountsShape' /\ Moved(c)
<1> DEFINE r == AfterCache(call[c])
<1>1. CallShape(call[c]) /\ AnswerRight(call[c])
  BY CallKnown
<1>2. /\ CallRight(r) /\ SameRequest(r, call[c])
      /\ \/ /\ call[c].log /\ r.at = "count_update" /\ r.log /\ r.query = call[c].query
         \/ ~call[c].log /\ r.at \in CalmStep
  BY <1>1, AfterCacheRight
<1> HIDE DEF r
<1>3. Becomes(c, r)
  BY DEF r
<1>4. Alone(c) /\ Step(c)' = r.at /\ SameRequest(call'[c], r) /\ (r.at # "none" => call'[c] = r)
  BY <1>2, <1>3, CallStep DEF IInv
<1>5. ASSUME NEW k \in Key PROVE Uncounted(c, k)' <=> Uncounted(c, k)
 <2>1. Step(c) \in Counting
   BY DEF Storing, Counting
 <2>2. CASE call[c].log
  <3>1. r.at = "count_update" /\ r.log /\ r.query = call[c].query /\ call'[c] = r /\ Step(c)' = "count_update"
    BY <1>2, <1>4, <2>2
  <3>2. MyCount(c)' = MyCount(c)
    BY <1>2, <3>1 DEF MyCount, SameRequest
  <3> QED
    BY <2>1, <2>2, <3>1, <3>2 DEF Uncounted, Counting
 <2>3. CASE ~call[c].log
  <3>1. Step(c)' \notin Counting
    BY <1>2, <1>4, <2>3 DEF CalmStep, Counting
  <3> QED
    BY <2>3, <3>1 DEF Uncounted
 <2> QED
   BY <2>2, <2>3
<1>6. CountsShape' /\ Moved(c)
  BY <1>5, SameOwed DEF IInv, Shape
<1> QED
  BY <1>2, <1>4, <1>6 DEF r

LEMMA KeysetReadStep ==
  ASSUME IInv, NEW c \in Client, KeysetRead(c)
  PROVE  IInv'
<1>1. CallShape(call[c]) /\ AnswerRight(call[c]) /\ StepRight(call[c])
  BY CallKnown
<1> DEFINE k == MyKey(c)  known == keyset[Name(call[c].tenant)]
           g == Goes(call[c], "keyset_write")  q == [g EXCEPT !.known = known]
           r == IF k \in known THEN AfterCache(call[c]) ELSE q
<1>2. /\ UNCHANGED <<dep, content, served, results, keyset, rules, loaded, total, lost, due>> /\ Becomes(c, r)
      /\ Step(c) = "keyset_read"
  BY DEF KeysetRead
<1>3. k \in Key /\ k[1] = Name(call[c].tenant)
  BY <1>1, KeyKnown
<1>4. ~Invalidates(c) /\ Step(c) # "rules_delete" /\ \A x : Registers(c, x) => x = k
  BY <1>2 DEF Invalidates, Registers
<1>5. CASE k \in known
 <2>1. Becomes(c, AfterCache(call[c])) /\ k \in keyset[k[1]]
   BY <1>2, <1>3, <1>5
 <2>2. /\ CallRight(AfterCache(call[c])) /\ SameRequest(AfterCache(call[c]), call[c])
       /\ CountsShape' /\ Moved(c)
   BY <1>2, <2>1, CountFollows DEF Storing
 <2>3. \A x \in Key : Registers(c, x) => Registers(c, x)' \/ x \in keyset[x[1]]
   BY <1>4, <2>1
 <2> QED
   BY <1>2, <1>4, <2>1, <2>2, <2>3, UncachedStep
<1>6. CASE k \notin known
 <2>1. Becomes(c, q)
   BY <1>2, <1>6
 <2>2. /\ CallShape(g) /\ AnswerRight(g) /\ SameRequest(g, call[c]) /\ g.at = "keyset_write"
       /\ g.log = call[c].log /\ g.query = call[c].query /\ g.answer = call[c].answer
   BY <1>1, GoesRight
 <2> HIDE DEF g, k, known
 <2>3. CallRight(q) /\ SameRequest(q, call[c]) /\ q.at = "keyset_write" /\ q.query = call[c].query /\ q.log = call[c].log
  <3>1. /\ DOMAIN q = DOMAIN NoCall /\ SameRequest(q, g) /\ q.answer = g.answer /\ q.given = g.given
        /\ q.query = g.query /\ q.counted = g.counted /\ q.at = g.at /\ q.log = g.log
    BY <2>2 DEF CallShape, NoCall, SameRequest
  <3> HIDE DEF q
  <3>2. CallShape(q) /\ AnswerRight(q)
    BY <2>2, <3>1, ChangedRight DEF CallShape
  <3>3. StepRight(q)
    BY <1>1, <1>2, <2>2, <3>1 DEF StepRight, Storing, CountSteps, SameRequest, Step
  <3> QED
    BY <2>2, <3>1, <3>2, <3>3 DEF CallRight, SameRequest
 <2> HIDE DEF q
 <2>4. Step(c)' = "keyset_write" /\ call'[c] = q
   BY <1>2, <2>1, <2>3, CallStep DEF IInv
 <2>5. \A x \in Key : Registers(c, x) => Registers(c, x)'
   BY <1>2, <2>3, <2>4 DEF Registers, MyKey, Name, SameRequest
 <2>6. \A x \in Key : Uncounted(c, x)' <=> Uncounted(c, x)
   BY <1>2, <2>3, <2>4 DEF Uncounted, Counting, MyCount, SameRequest
 <2>7. CountsShape' /\ Moved(c)
   BY <1>2, <2>6, SameOwed DEF IInv, Shape
 <2> QED
   BY <1>2, <1>4, <2>1, <2>3, <2>5, <2>7, UncachedStep
<1> QED
  BY <1>5, <1>6

\* The keys that a registration overwrites belong to nothing or get a cause.
LEMMA KeysetWriteStep ==
  ASSUME IInv, NEW c \in Client, KeysetWrite(c)
  PROVE  IInv'
<1>1. CallShape(call[c]) /\ AnswerRight(call[c])
  BY CallKnown
<1> DEFINE k == MyKey(c)  n == Name(call[c].tenant)  known == call[c].known
           gone == keyset[n] \ (known \cup {k})
<1>2. /\ UNCHANGED <<dep, content, served, rules, loaded, total, lost, due>> /\ Becomes(c, AfterCache(call[c]))
      /\ Step(c) = "keyset_write" /\ results' = Blame(results, gone, "overlap")
      /\ keyset' = [keyset EXCEPT ![n] = known \cup {k}]
  BY DEF KeysetWrite, Registered
<1>3. k \in Key /\ k[1] = n /\ n \in Tenant
  BY <1>1, KeyKnown
<1>4. ~Invalidates(c) /\ Step(c) # "rules_delete" /\ Step(c) \in Storing /\ \A x : Registers(c, x) => x = k
  BY <1>2 DEF Invalidates, Registers, Storing
<1>5. /\ CallRight(AfterCache(call[c])) /\ SameRequest(AfterCache(call[c]), call[c])
      /\ Alone(c) /\ CountsShape' /\ Moved(c)
  BY <1>2, <1>4, CountFollows
<1> HIDE DEF k, n, known
<1>6. /\ DOMAIN keyset' = Tenant /\ keyset'[n] = known \cup {k}
      /\ \A m \in Tenant : m # n => keyset'[m] = keyset[m]
  BY <1>2, <1>3 DEF IInv, Shape, ResultsShape
<1>7. Blamed(results', gone)
  BY <1>2, BlameRight DEF IInv, Shape
<1>8. EntriesMove /\ ResultsShape' /\ \A x \in Key : x \in gone => Excused(x)'
  BY <1>2, <1>6, <1>7, BlamedStays DEF IInv, Shape
<1>9. ASSUME NEW x \in Key, x \in keyset[x[1]] \/ Registers(c, x)
      PROVE  x \in keyset'[x[1]] \/ Excused(x)'
 <2>1. x[1] \in Tenant
   BY DEF Key
 <2>2. CASE x = k
   BY <1>3, <1>6, <2>2
 <2>3. CASE x # k /\ x[1] = n
   BY <1>4, <1>6, <1>8, <1>9, <2>3
 <2>4. CASE x # k /\ x[1] # n
   BY <1>4, <1>6, <1>9, <2>1, <2>4
 <2> QED
   BY <2>2, <2>3, <2>4
<1>10. RegistrationsEnd
  BY <1>2, <1>5, <1>9, RegistrationEnds
<1>11. InvalidationsEnd
  BY <1>2, <1>4, <1>5, InvalidationEnds
<1> QED
  BY <1>2, <1>4, <1>5, <1>8, <1>10, <1>11, CacheStep

(* ---------------------------- steps of the counts --------------------------- *)

\* A call that is at one of the steps of a count is still to be counted.
LEMMA AtCount ==
  ASSUME IInv, NEW c \in Client, Step(c) \in CountSteps
  PROVE  /\ \A k : Uncounted(c, k) <=> MyCount(c) = k
         /\ MyCount(c) \in Key /\ call[c].log
         /\ ~Invalidates(c) /\ Step(c) # "rules_delete" /\ \A k : ~Registers(c, k)
<1>1. CallShape(call[c]) /\ StepRight(call[c])
  BY CallKnown
<1>2. call[c].log /\ Step(c) \in Counting
  BY <1>1 DEF StepRight, CountSteps, Counting, Step
<1>3. MyCount(c) \in Key
  BY <1>1, KeyKnown
<1> QED
  BY <1>2, <1>3 DEF Uncounted, Invalidates, Registers, CountSteps

\* A step of a count that leaves the caches alone.
LEMMA CountStep ==
  ASSUME IInv, NEW c \in Client, Step(c) \in CountSteps, NEW r, CallRight(r), Becomes(c, r), SameRequest(r, call[c]),
         UNCHANGED <<dep, content, served, results, keyset, rules, loaded>>, CountsShape', Moved(c)
  PROVE  IInv'
<1>1. ~Invalidates(c) /\ Step(c) # "rules_delete" /\ \A k : ~Registers(c, k)
  BY AtCount
<1> QED
  BY <1>1, UncachedStep

\* The sum of what a count moves.
LEMMA CountMoved ==
  ASSUME IInv, CountsShape', NEW c \in Client, Step(c) \in CountSteps, Step(c)' \notin Counting, UNCHANGED due,
         \A k \in Key : total'[k] + lost'[k] = total[k] + lost[k] + (IF k = MyCount(c) THEN 1 ELSE 0)
  PROVE  Moved(c)
<1> SUFFICES ASSUME NEW k \in Key
             PROVE  (total'[k] - total[k]) + (lost'[k] - lost[k]) + (Owed(c, k)' - Owed(c, k)) = due'[k] - due[k]
  BY DEF Moved
<1>1. Owed(c, k)' = 0
  BY DEF Owed, Uncounted
<1>2. Owed(c, k) = IF k = MyCount(c) THEN 1 ELSE 0
  BY AtCount DEF Owed
<1>3. /\ total[k] \in Int /\ lost[k] \in Int /\ due[k] \in Int /\ total'[k] \in Int /\ lost'[k] \in Int
      /\ due'[k] = due[k]
  BY DEF IInv, Shape, CountsShape
<1>4. total'[k] + lost'[k] = total[k] + lost[k] + (IF k = MyCount(c) THEN 1 ELSE 0)
  OBVIOUS
<1> QED
  BY <1>1, <1>2, <1>3, <1>4

\* The counts of a call are changed, or forgotten.
LEMMA CountedRight ==
  ASSUME NEW r, CallShape(r), AnswerRight(r), NEW counted \in [Key -> Nat]
  PROVE  /\ CallShape([r EXCEPT !.counted = counted]) /\ AnswerRight([r EXCEPT !.counted = counted])
         /\ SameRequest([r EXCEPT !.counted = counted], r) /\ [r EXCEPT !.counted = counted].at = r.at
<1> DEFINE q == [r EXCEPT !.counted = counted]
<1>1. /\ DOMAIN q = DOMAIN NoCall /\ SameRequest(q, r) /\ q.answer = r.answer /\ q.given = r.given
      /\ q.query = r.query /\ q.counted = counted /\ q.at = r.at
  BY DEF CallShape, NoCall, SameRequest
<1> HIDE DEF q
<1>2. CallShape(q) /\ AnswerRight(q)
  BY <1>1, ChangedRight DEF CallShape
<1> QED
  BY <1>1, <1>2 DEF q

LEMMA CountsStep ==
  ASSUME IInv, NEW c \in Client, Step(c) \in CountSteps, Counts(c)
  PROVE  IInv'
<1>1. CallShape(call[c]) /\ AnswerRight(call[c])
  BY CallKnown
<1> DEFINE k == MyCount(c)
           counted == [call[c].counted EXCEPT ![k] = IF dep.atomic THEN @ + 1 ELSE @]
           q == [call[c] EXCEPT !.counted = counted]
<1>2. k \in Key
  BY AtCount
<1>3. [call[c] EXCEPT !.counted[k] = IF dep.atomic THEN @ + 1 ELSE @] = q
  BY <1>1 DEF CallShape, NoCall
<1>4. /\ UNCHANGED <<dep, content, served, results, keyset, rules, loaded, due, lost>> /\ Becomes(c, AfterSearch(q))
      /\ total' = [total EXCEPT ![k] = @ + 1]
  BY <1>3 DEF Counts
<1>5. counted \in [Key -> Nat]
  BY <1>1, <1>2 DEF CallShape
<1> HIDE DEF k, counted
<1>6. CallShape(q) /\ AnswerRight(q) /\ SameRequest(q, call[c])
  BY <1>1, <1>5, CountedRight
<1> HIDE DEF q
<1> DEFINE r == AfterSearch(q)
<1>7. CallRight(r) /\ SameRequest(r, q) /\ r.at \in CalmStep
  BY <1>6, AfterSearchRight
<1>8. Becomes(c, r)
  BY <1>4
<1> HIDE DEF r
<1>9. SameRequest(r, call[c])
  BY <1>6, <1>7 DEF SameRequest
<1>10. Step(c)' \notin Counting
 <2>1. Step(c)' = r.at
   BY <1>4, <1>7, <1>8, CallStep DEF IInv
 <2> QED
   BY <1>7, <2>1 DEF CalmStep, Counting
<1>11. CountsShape'
  BY <1>2, <1>4 DEF IInv, Shape, CountsShape
<1>12. \A x \in Key : total'[x] + lost'[x] = total[x] + lost[x] + (IF x = k THEN 1 ELSE 0)
  BY <1>2, <1>4 DEF IInv, Shape, CountsShape
<1>13. Moved(c)
 <2>1. \A x \in Key : total'[x] + lost'[x] = total[x] + lost[x] + (IF x = MyCount(c) THEN 1 ELSE 0)
   BY <1>12 DEF k
 <2> QED
   BY <1>4, <1>10, <1>11, <2>1, CountMoved
<1> QED
  BY <1>4, <1>7, <1>8, <1>9, <1>11, <1>13, CountStep

\* From one step of a count to the next.
LEMMA CountGoesOn ==
  ASSUME IInv, NEW c \in Client, Step(c) \in CountSteps, NEW step \in CountSteps, Becomes(c, Goes(call[c], step)),
         UNCHANGED <<dep, content, served, results, keyset, rules, loaded, total, due, lost>>
  PROVE  IInv'
<1>1. CallShape(call[c]) /\ AnswerRight(call[c])
  BY CallKnown
<1> DEFINE g == Goes(call[c], step)
<1>2. /\ CallShape(g) /\ AnswerRight(g) /\ SameRequest(g, call[c]) /\ g.at = step /\ g.log = call[c].log
      /\ g.query = call[c].query
  BY <1>1, GoesRight
<1> HIDE DEF g
<1>3. g.log
  BY <1>2, AtCount
<1>4. CallRight(g) /\ g.at # "none"
  BY <1>2, <1>3 DEF CallRight, StepRight, CountSteps, Storing
<1>5. Becomes(c, g)
  BY DEF g
<1>6. Step(c)' = step /\ call'[c] = g
  BY <1>2, <1>4, <1>5, CallStep DEF IInv
<1>7. ASSUME NEW k \in Key PROVE Uncounted(c, k)' <=> Uncounted(c, k)
 <2>1. Uncounted(c, k) <=> MyCount(c) = k
   BY AtCount
 <2>2. MyCount(c)' = MyCount(c) /\ call'[c].log /\ Step(c)' \in Counting
   BY <1>2, <1>3, <1>6 DEF MyCount, SameRequest, CountSteps, Counting
 <2> QED
   BY <2>1, <2>2 DEF Uncounted
<1>8. CountsShape' /\ Moved(c)
  BY <1>7, SameOwed DEF IInv, Shape
<1> QED
  BY <1>2, <1>4, <1>5, <1>8, CountStep

LEMMA CountUpdateStep ==
  ASSUME IInv, NEW c \in Client, CountUpdate(c)
  PROVE  IInv'
<1>1. Step(c) \in CountSteps /\ "count_create" \in CountSteps
  BY DEF CountUpdate, CountSteps
<1>2. CASE Counts(c)
  BY <1>1, <1>2, CountsStep
<1>3. CASE /\ Continue(c, "count_create")
           /\ UNCHANGED <<dep, content, served, results, keyset, rules, loaded, total, begun, faults, due, lost>>
 <2>1. Becomes(c, Goes(call[c], "count_create"))
   BY <1>3 DEF Continue
 <2> QED
   BY <1>1, <1>3, <2>1, CountGoesOn
<1> QED
  BY <1>2, <1>3 DEF CountUpdate

\* A search that loses the race counts later, or loses what its transaction has
\* counted.
LEMMA CountCreateStep ==
  ASSUME IInv, NEW c \in Client, CountCreate(c)
  PROVE  IInv'
<1>1. Step(c) \in CountSteps /\ "count_again" \in CountSteps
  BY DEF CountCreate, CountSteps
<1>2. CASE Counts(c)
  BY <1>1, <1>2, CountsStep
<1>3. CASE /\ Becomes(c, OnConflict(call[c]))
           /\ UNCHANGED <<dep, content, served, results, keyset, rules, loaded, total, begun, faults, due, lost>>
 <2>1. Becomes(c, Goes(call[c], "count_again"))
   BY <1>3 DEF OnConflict
 <2> QED
   BY <1>1, <1>3, <2>1, CountGoesOn
<1> DEFINE gone == call[c].counted
           g == Goes(call[c], "none")
           q == [g EXCEPT !.counted = NoCounts]
<1>4. CASE /\ total' = [k \in Key |-> total[k] - gone[k]]
           /\ lost' = [k \in Key |-> lost[k] + gone[k] + (IF k = MyCount(c) THEN 1 ELSE 0)]
           /\ Becomes(c, q)
           /\ UNCHANGED <<dep, content, served, results, keyset, rules, loaded, begun, faults, due>>
 <2>1. CallShape(call[c]) /\ AnswerRight(call[c])
   BY CallKnown
 <2>2. CallShape(g) /\ AnswerRight(g) /\ SameRequest(g, call[c]) /\ g.at = "none"
   BY <2>1, GoesRight
 <2> HIDE DEF g
 <2>3. NoCounts \in [Key -> Nat]
   BY DEF NoCounts
 <2>4. CallShape(q) /\ AnswerRight(q) /\ SameRequest(q, g) /\ q.at = g.at
   BY <2>2, <2>3, CountedRight
 <2>5. Becomes(c, q)
   BY <1>4
 <2> HIDE DEF q
 <2>6. CallRight(q) /\ SameRequest(q, call[c]) /\ q.at = "none"
   BY <2>2, <2>4, CalmRight DEF CalmStep, SameRequest
 <2>7. Step(c)' \notin Counting
  <3>1. Step(c)' = "none"
    BY <1>4, <2>5, <2>6, CallStep DEF IInv
  <3> QED
    BY <3>1 DEF Counting
 <2>8. gone \in [Key -> Nat] /\ total \in [Key -> Int] /\ lost \in [Key -> Int] /\ due \in [Key -> Int]
   BY <2>1 DEF CallShape, IInv, Shape, CountsShape
 <2> HIDE DEF gone
 <2>9. CountsShape'
   BY <1>4, <2>8 DEF CountsShape
 <2>10. \A k \in Key : total'[k] + lost'[k] = total[k] + lost[k] + (IF k = MyCount(c) THEN 1 ELSE 0)
   BY <1>4, <2>8
 <2>11. Moved(c)
   BY <1>1, <1>4, <2>7, <2>9, <2>10, CountMoved
 <2> QED
   BY <1>1, <1>4, <2>5, <2>6, <2>9, <2>11, CountStep
<1> QED
  BY <1>2, <1>3, <1>4 DEF CountCreate

(* ------------------------- beginnings, writes, faults ----------------------- *)

\* A request begins: what it may find is at least as old as itself, or somebody
\* invalidates the results of its index.
FirstStep == {"rules_get", "get", "put", "rule_write"}
LEMMA BeginStep ==
  ASSUME IInv, NEW c \in Client, NEW t \in Tenant, NEW q, NEW step \in FirstStep, Begin(c, q, step),
         DOMAIN q = DOMAIN NoCall, SameRequest(q, Request(t)), q.answer = NoEntry, q.counted = NoCounts,
         q.given \in Tenant, q.query \in Query,
         step = "put" => q.op \in {"put", "silent"}, step = "rule_write" => q.op \in {"rule", "admin"}
  PROVE  IInv'
<1> DEFINE r == [q EXCEPT !.at = step]
<1>1. /\ UNCHANGED <<dep, content, served, results, keyset, rules, loaded, total, due, lost>> /\ Step(c) = "none"
      /\ call' = [call EXCEPT ![c] = r]
  BY DEF Begin, Idle
<1>2. /\ DOMAIN r = DOMAIN NoCall /\ SameRequest(r, q) /\ r.answer = NoEntry /\ r.counted = NoCounts
      /\ r.given \in Tenant /\ r.query \in Query /\ r.at = step /\ r.op = q.op
  BY DEF NoCall, SameRequest
<1>3. q.tenant = t /\ q.since = content[t] /\ q.quiet = ~Invalidating(Name(t))
  BY DEF Request, SameRequest, NoCall
<1>4. step # "none" /\ step \in FreeStep
  BY DEF FirstStep, FreeStep, CalmStep
<1> HIDE DEF r
<1>5. r.tenant = t /\ r.since = content[t] /\ r.quiet = ~Invalidating(Name(t))
  BY <1>2, <1>3 DEF SameRequest
<1>6. Becomes(c, r)
  BY <1>1, <1>2, <1>4 DEF Becomes
<1>7. content[t] \in Nat
  BY DEF IInv, Shape, ResultsShape
<1>8. CallRight(r)
 <2>1. NoCounts \in [Key -> Nat] /\ EntryShape(NoEntry) /\ ~NoEntry.there
   BY DEF NoCounts, EntryShape, NoEntry, Tenant
 <2>2. CallShape(r) /\ AnswerRight(r)
   BY <1>2, <1>5, <1>7, <2>1 DEF CallShape, AnswerRight
 <2>3. StepRight(r)
   BY <1>2 DEF StepRight, FirstStep, Storing, CountSteps
 <2> QED
   BY <2>2, <2>3 DEF CallRight
<1>9. Alone(c) /\ Step(c)' = step /\ call'[c] = r
  BY <1>1, <1>2, <1>4, <1>6, <1>8, CallStep DEF IInv
<1>10. Recent(call[c])'
 <2>1. content[t] <= content[t]
   BY <1>7
 <2>2. ASSUME ~Invalidating(Name(t)), NEW k \in Key, ~Excused(k), results[k].of = t
       PROVE  results[k].ver >= content[t]
  <3>1. k[1] = Name(t)
    BY <2>2 DEF Excused, IInv, CachesRight, Placed
  <3>2. ~Stale(k)
    BY <2>2, <3>1 DEF IInv, CachesRight, ResultsFollow
  <3> QED
    BY <1>7, <2>2, <3>2 DEF Stale
 <2> QED
   BY <1>1, <1>5, <1>9, <2>1, <2>2 DEF Recent, Excused
<1>11. Step(c) \in FreeStep /\ Step(c)' \in FreeStep /\ Step(c) # "rules_delete"
  BY <1>1, <1>4, <1>9 DEF FreeStep, CalmStep
<1>12. CountsShape' /\ Moved(c) /\ StaysTo(c)
  BY <1>1, <1>11, NothingMoved DEF IInv, Shape
<1>13. CachesRight'
  BY <1>1, <1>9, <1>10, <1>12, CachesKept DEF IInv
<1>14. RulesFollow'
  BY <1>1, <1>9, <1>11, RulesKept DEF IInv
<1>15. ResultsShape' /\ RulesShape'
  BY <1>1 DEF IInv, Shape, ResultsShape, RulesShape, EntryShape
<1> QED
  BY <1>1, <1>6, <1>8, <1>12, <1>13, <1>14, <1>15, Assembled

LEMMA RequestKnown ==
  ASSUME NEW t \in Tenant
  PROVE  /\ DOMAIN Request(t) = DOMAIN NoCall /\ Request(t).answer = NoEntry /\ Request(t).counted = NoCounts
         /\ Request(t).given \in Tenant /\ Request(t).query \in Query
<1>1. /\ DOMAIN Request(t) = DOMAIN NoCall /\ Request(t).answer = NoEntry /\ Request(t).counted = NoCounts
      /\ Request(t).given = "" /\ Request(t).query = "q1"
  BY DEF Request, NoCall
<1> QED
  BY <1>1 DEF Tenant, Query

LEMMA MerchandisedSearchStep ==
  ASSUME IInv, NEW c \in Client, MerchandisedSearch(c)
  PROVE  IInv'
<1> DEFINE step == IF dep.rule \in {"redirect", "rewrite"} THEN "rules_get" ELSE "get"
           R(t, q, given, user) ==
             [Request(t) EXCEPT !.op = "search", !.query = q, !.given = given, !.user = user, !.log = TRUE]
<1>1. PICK t \in Tenant, user \in BOOLEAN, q \in dep.asks : \E given \in {"", t} : Begin(c, R(t, q, given, user), step)
  BY DEF MerchandisedSearch
<1>2. PICK given \in {"", t} : Begin(c, R(t, q, given, user), step)
  BY <1>1
<1> DEFINE x == Request(t)
           y == [x EXCEPT !.op = "search", !.query = q]
           z == [y EXCEPT !.given = given, !.user = user]
           r == [z EXCEPT !.log = TRUE]
<1>6. Begin(c, r, step)
  BY <1>2
<1> HIDE DEF R
<1>3. /\ DOMAIN r = DOMAIN NoCall /\ SameRequest(r, Request(t)) /\ r.answer = NoEntry /\ r.counted = NoCounts
      /\ r.given = given /\ r.query = q
 <2>1. DOMAIN x = DOMAIN NoCall /\ x.answer = NoEntry /\ x.counted = NoCounts
   BY RequestKnown
 <2> HIDE DEF x
 <2>2. /\ DOMAIN y = DOMAIN NoCall /\ SameRequest(y, x) /\ y.answer = NoEntry /\ y.counted = NoCounts
       /\ y.query = q
   BY <2>1 DEF NoCall, SameRequest
 <2> HIDE DEF y
 <2>3. /\ DOMAIN z = DOMAIN NoCall /\ SameRequest(z, x) /\ z.answer = NoEntry /\ z.counted = NoCounts
       /\ z.given = given /\ z.query = q
   BY <2>2 DEF NoCall, SameRequest
 <2> HIDE DEF z
 <2>4. /\ DOMAIN r = DOMAIN NoCall /\ SameRequest(r, x) /\ r.answer = NoEntry /\ r.counted = NoCounts
       /\ r.given = given /\ r.query = q
   BY <2>3 DEF NoCall, SameRequest
 <2> HIDE DEF r
 <2> QED
   BY <2>4 DEF x
<1>4. q \in Query /\ given \in Tenant
  BY DEF IInv, Shape, Deployment, Query, Tenant
<1>5. step \in {"rules_get", "get"}
  OBVIOUS
<1> HIDE DEF r, step
<1>7. step \in FirstStep /\ step # "put" /\ step # "rule_write"
  BY <1>5 DEF FirstStep
<1> QED
  BY <1>3, <1>4, <1>6, <1>7, BeginStep

LEMMA AutocompleteStep ==
  ASSUME IInv, NEW c \in Client, Autocomplete(c)
  PROVE  IInv'
<1>1. PICK t \in Tenant : Begin(c, [Request(t) EXCEPT !.op = "complete"], "get")
  BY DEF Autocomplete
<1> DEFINE r == [Request(t) EXCEPT !.op = "complete"]
<1>2. /\ DOMAIN r = DOMAIN NoCall /\ SameRequest(r, Request(t)) /\ r.answer = NoEntry /\ r.counted = NoCounts
      /\ r.given \in Tenant /\ r.query \in Query
  BY RequestKnown DEF NoCall, SameRequest
<1>3. Begin(c, r, "get") /\ "get" \in FirstStep
  BY <1>1 DEF FirstStep
<1> HIDE DEF r
<1> QED
  BY <1>2, <1>3, BeginStep

LEMMA PutDocumentsStep ==
  ASSUME IInv, NEW c \in Client, PutDocuments(c)
  PROVE  IInv'
<1>1. PICK t \in Tenant : \E op \in {"put", "silent"} : Begin(c, [Request(t) EXCEPT !.op = op], "put")
  BY DEF PutDocuments
<1>2. PICK op \in {"put", "silent"} : Begin(c, [Request(t) EXCEPT !.op = op], "put")
  BY <1>1
<1> DEFINE r == [Request(t) EXCEPT !.op = op]
<1>3. /\ DOMAIN r = DOMAIN NoCall /\ SameRequest(r, Request(t)) /\ r.answer = NoEntry /\ r.counted = NoCounts
      /\ r.given \in Tenant /\ r.query \in Query /\ r.op = op
  BY RequestKnown DEF NoCall, SameRequest
<1>4. Begin(c, r, "put") /\ "put" \in FirstStep
  BY <1>2 DEF FirstStep
<1> HIDE DEF r
<1> QED
  BY <1>3, <1>4, BeginStep

LEMMA ChangeRuleStep ==
  ASSUME IInv, NEW c \in Client, ChangeRule(c)
  PROVE  IInv'
<1>1. PICK t \in Tenant : \E op \in {"rule", "admin"} : Begin(c, [Request(t) EXCEPT !.op = op], "rule_write")
  BY DEF ChangeRule
<1>2. PICK op \in {"rule", "admin"} : Begin(c, [Request(t) EXCEPT !.op = op], "rule_write")
  BY <1>1
<1> DEFINE r == [Request(t) EXCEPT !.op = op]
<1>3. /\ DOMAIN r = DOMAIN NoCall /\ SameRequest(r, Request(t)) /\ r.answer = NoEntry /\ r.counted = NoCounts
      /\ r.given \in Tenant /\ r.query \in Query /\ r.op = op
  BY RequestKnown DEF NoCall, SameRequest
<1>4. Begin(c, r, "rule_write") /\ "rule_write" \in FirstStep
  BY <1>2 DEF FirstStep
<1> HIDE DEF r
<1> QED
  BY <1>3, <1>4, BeginStep

(* Documents are written: what is cached of them is outdated now; the writer   *)
(* is about to invalidate it, or its write is one of those that do not.        *)
LEMMA PutStep ==
  ASSUME IInv, NEW c \in Client, Put(c)
  PROVE  IInv'
<1>1. CallShape(call[c]) /\ AnswerRight(call[c]) /\ call[c].op \in {"put", "silent"}
  BY CallKnown DEF Put, Step, StepRight
<1> DEFINE t == call[c].tenant
           after == IF call[c].op = "put" /\ dep.cached THEN "keyset_known" ELSE End
           g == Goes(call[c], after)
           hit == {k \in KeysOf(Name(t)) : results[k].of = t}
<1>2. /\ UNCHANGED <<dep, keyset, rules, loaded, total, due, lost>> /\ Becomes(c, g) /\ Step(c) = "put"
      /\ content' = [content EXCEPT ![t] = @ + 1] /\ served' \in {served, content'}
      /\ results' = IF call[c].op = "silent" THEN Blame(results, hit, "silent") ELSE results
  BY DEF Put, Continue
<1>3. t \in Tenant
  BY <1>1 DEF CallShape
<1>4. CallShape(g) /\ AnswerRight(g) /\ SameRequest(g, call[c]) /\ g.at = after /\ g.op = call[c].op
  BY <1>1, GoesRight
<1>5. after \in {"keyset_known"} \cup CalmStep
  BY EndIsCalm
<1>6. CallRight(g)
  BY <1>4, <1>5, GoesRight, CalmRight DEF CallRight, StepRight, CalmStep, Storing, CountSteps
<1> HIDE DEF g
<1>7. Alone(c) /\ CallsRight' /\ Step(c)' = after /\ SameRequest(call'[c], g) /\ (after # "none" => call'[c] = g)
  BY <1>2, <1>4, <1>6, CallStep DEF IInv
<1>8. ~Invalidates(c) /\ (\A k : ~Registers(c, k)) /\ Step(c) # "rules_delete"
  BY <1>2 DEF Invalidates, Registers
<1>9. ASSUME call[c].op = "put", dep.cached, NEW n, n = Name(t) PROVE Invalidating(n)'
 <2>1. call'[c] = g /\ Step(c)' = "keyset_known"
   BY <1>7, <1>9
 <2>2. Invalidates(c)' /\ call'[c].tenant = t
   BY <1>4, <1>9, <2>1 DEF Invalidates, SameRequest
 <2>3. Name(call[c].tenant)' = n
   BY <1>2, <1>9, <2>2 DEF Name
 <2> QED
   BY <2>2, <2>3 DEF Invalidating
<1>10. \A k \in Key : results[k].there /\ results[k].of = t => dep.cached /\ k[1] = Name(t)
  BY DEF IInv, CachesRight, Placed
<1> HIDE DEF after, t
<1>11. Blamed(results', IF call[c].op = "silent" THEN hit ELSE {})
 <2>1. CASE call[c].op = "silent"
   BY <1>2, <2>1, BlameRight DEF IInv, Shape
 <2>2. CASE call[c].op # "silent"
   BY <1>2, <2>2 DEF Blamed, IInv, Shape, ResultsShape
 <2> QED
   BY <2>1, <2>2
<1>12. /\ content' \in [Tenant -> Nat] /\ served' \in [Tenant -> Nat] /\ content'[t] = content[t] + 1
       /\ \A s \in Tenant : (s # t => content'[s] = content[s]) /\ content[s] \in Nat /\ content'[s] >= content[s]
  BY <1>2, <1>3 DEF IInv, Shape, ResultsShape
<1>13. ResultsShape'
  BY <1>2, <1>11, <1>12 DEF Blamed, IInv, Shape, ResultsShape, EntryShape
<1>14. /\ \A n \in Tenant : Invalidating(n) => Invalidating(n)'
       /\ \A k \in Key : Registering(k) => Registering(k)' \/ k \in keyset'[k[1]] \/ Excused(k)'
 <2>1. StaysTo(c)
   BY <1>8 DEF StaysTo
 <2> QED
   BY <1>2, <1>7, <2>1, UnderWay
<1>15. ASSUME NEW k \in Key, ~Excused(k)'
       PROVE  /\ ~Excused(k) /\ results'[k].of = results[k].of /\ results'[k].ver = results[k].ver
              /\ results[k].there /\ results[k].of \in Tenant /\ k[1] \in Tenant
  BY <1>11, <1>15 DEF Blamed, Excused, EntryShape, Key, IInv, Shape, ResultsShape
<1>16. Placed'
  BY <1>2, <1>11 DEF Blamed, Placed, IInv, CachesRight, Name
<1>17. ResultsFollow'
 <2> SUFFICES ASSUME NEW k \in Key, ~Excused(k)', Stale(k)' PROVE Invalidating(k[1])'
   BY DEF ResultsFollow
 <2>1. /\ ~Excused(k) /\ results'[k].of = results[k].of /\ results'[k].ver = results[k].ver
       /\ results[k].there /\ results[k].of \in Tenant /\ k[1] \in Tenant
   BY <1>15
 <2>2. CASE results[k].of # t
  <3>1. Stale(k)
    BY <1>12, <2>1, <2>2 DEF Stale
  <3>2. Invalidating(k[1])
    BY <2>1, <3>1 DEF IInv, CachesRight, ResultsFollow
  <3> QED
    BY <1>14, <2>1, <3>2
 <2>3. CASE results[k].of = t
  <3>1. dep.cached /\ k[1] = Name(t)
    BY <1>10, <2>1, <2>3
  <3>2. k \in hit
    BY <2>3, <3>1 DEF KeysOf
  <3>3. call[c].op # "silent"
    BY <1>11, <3>2 DEF Blamed, Excused
  <3>4. call[c].op = "put"
    BY <1>1, <3>3
  <3> QED
    BY <1>9, <3>1, <3>4
 <2> QED
   BY <2>2, <2>3
<1>18. KeysKnown'
 <2> SUFFICES ASSUME NEW k \in Key, ~Excused(k)' PROVE k \in keyset'[k[1]] \/ Registering(k)'
   BY DEF KeysKnown
 <2>1. k \in keyset[k[1]] \/ Registering(k)
   BY <1>15 DEF IInv, CachesRight, KeysKnown
 <2> QED
   BY <1>2, <1>14, <2>1
<1>19. QuietRight'
 <2> SUFFICES ASSUME NEW d \in Client PROVE Recent(call[d])'
   BY DEF QuietRight
 <2>1. Recent(call[d]) /\ call[d].tenant \in Tenant /\ call[d].since \in Nat
   BY DEF IInv, CachesRight, QuietRight, CallsRight, CallRight, CallShape
 <2>2. SameRequest(call'[d], call[d])
  <3>1. CASE d = c
    BY <1>4, <1>7, <3>1 DEF SameRequest
  <3>2. CASE d # c
    BY <1>7, <3>2 DEF Alone, SameRequest
  <3> QED
    BY <3>1, <3>2
 <2>3. call'[d].since <= content'[call'[d].tenant]
  <3>1. call[d].since <= content[call[d].tenant] /\ content'[call[d].tenant] >= content[call[d].tenant]
        /\ content[call[d].tenant] \in Nat /\ content'[call[d].tenant] \in Nat
    BY <1>12, <2>1 DEF Recent
  <3> QED
    BY <2>1, <2>2, <3>1 DEF SameRequest
 <2>4. ASSUME call'[d].quiet, NEW k \in Key, ~Excused(k)', results'[k].of = call'[d].tenant
       PROVE  results'[k].ver >= call'[d].since
   BY <1>15, <2>1, <2>2, <2>4 DEF Recent, SameRequest
 <2> QED
   BY <2>3, <2>4 DEF Recent
<1>20. CachesRight'
  BY <1>16, <1>17, <1>18, <1>19 DEF CachesRight
<1>21. CountsShape' /\ Moved(c)
 <2>1. \A k \in Key : ~Uncounted(c, k) /\ ~Uncounted(c, k)'
   BY <1>2, <1>5, <1>7 DEF Uncounted, Counting, CalmStep
 <2> QED
   BY <1>2, <2>1, SameOwed DEF IInv, Shape
<1>22. RulesFollow' /\ RulesShape'
 <2>1. RulesFollow'
   BY <1>2, <1>7, <1>8, RulesKept DEF IInv
 <2> QED
   BY <1>2, <2>1 DEF IInv, Shape, RulesShape
<1> QED
  BY <1>2, <1>6, <1>13, <1>20, <1>21, <1>22, Assembled

\* What a killed call owed has a cause, or is lost.
LEMMA KillStep ==
  ASSUME IInv, NEW c \in Client, Kill(c)
  PROVE  IInv'
<1> DEFINE r == call[c]
           ks == IF Invalidates(c) THEN {k \in KeysOf(Name(r.tenant)) : Stale(k)}
                 ELSE {k \in Key : Registers(c, k) /\ k \notin keyset[k[1]]}
<1>1. /\ UNCHANGED <<dep, content, served, keyset, rules, due>> /\ Becomes(c, NoCall)
      /\ total' = [k \in Key |-> total[k] - r.counted[k]]
      /\ lost' = [k \in Key |-> lost[k] + r.counted[k] + (IF Uncounted(c, k) THEN 1 ELSE 0)]
      /\ results' = Blame(results, ks, "killed")
      /\ loaded' = IF r.op = "rule" /\ ~dep.atomic THEN Spoilt(rules, "killed") ELSE loaded
  BY DEF Kill
<1>2. CallRight(NoCall) /\ NoCall.at = "none" /\ NoCall.since = 0
  BY NoCallRight DEF NoCall
<1>3. Alone(c) /\ CallsRight' /\ Step(c)' = "none" /\ SameRequest(call'[c], NoCall)
  BY <1>1, <1>2, CallStep DEF IInv
<1>4. CallShape(r) /\ StepRight(r)
  BY CallKnown
<1>5. Blamed(results', ks)
  BY <1>1, BlameRight DEF IInv, Shape
<1>6. EntriesMove /\ ResultsShape' /\ \A k \in Key : k \in ks => Excused(k)'
 <2>1. DOMAIN keyset' = Tenant
   BY <1>1 DEF IInv, Shape, ResultsShape
 <2> QED
   BY <1>1, <1>5, <2>1, BlamedStays DEF IInv, Shape
<1>7. InvalidationsEnd
 <2>1. ASSUME Invalidates(c), NEW k \in Key, k[1] = Name(call[c].tenant), Stale(k)'
       PROVE  Excused(k)'
  <3>1. Stale(k)
    BY <1>1, <1>5, <2>1 DEF Stale, Blamed
  <3> QED
    BY <1>6, <2>1, <3>1 DEF KeysOf
 <2> QED
   BY <1>1, <1>3, <2>1, InvalidationEnds
<1>8. RegistrationsEnd
 <2>1. ASSUME NEW k \in Key, Registers(c, k), k \notin keyset[k[1]]
       PROVE  Excused(k)'
  <3>1. ~Invalidates(c)
    BY <2>1 DEF Registers, Invalidates
  <3> QED
    BY <1>6, <2>1, <3>1
 <2> QED
   BY <1>1, <1>3, <2>1, RegistrationEnds
<1>9. RequestsStay
 <2> SUFFICES ASSUME NEW d \in Client PROVE SameRequest(call'[d], call[d]) \/ call'[d].since = 0
   BY DEF RequestsStay
 <2> QED
   BY <1>2, <1>3 DEF Alone, SameRequest
<1>10. CachesRight'
  BY <1>1, <1>3, <1>6, <1>7, <1>8, <1>9, CachesStep DEF IInv
<1> HIDE DEF ks
<1>11. RulesShape' /\ RulesFollow'
 <2>1. CASE r.op = "rule" /\ ~dep.atomic
  <3>1. loaded' = Spoilt(rules', "killed") /\ rules' \subseteq Tenant
    BY <1>1, <2>1 DEF IInv, Shape, RulesShape
  <3> QED
    BY <3>1, RulesSpoilt DEF IInv, Shape
 <2>2. CASE ~(r.op = "rule" /\ ~dep.atomic)
  <3>1. Step(c) # "rules_delete" \/ dep.atomic
    BY <1>4, <2>2 DEF StepRight, Step
  <3>2. UNCHANGED <<dep, rules, loaded>>
    BY <1>1, <2>2
  <3> QED
    BY <1>3, <3>1, <3>2, RulesKept DEF IInv, Shape, RulesShape
 <2> QED
   BY <2>1, <2>2
<1>12. r.counted \in [Key -> Nat] /\ total \in [Key -> Int] /\ lost \in [Key -> Int] /\ due \in [Key -> Int]
  BY <1>4 DEF CallShape, IInv, Shape, CountsShape
<1>13. CountsShape'
  BY <1>1, <1>12 DEF CountsShape
<1>14. Moved(c)
 <2> SUFFICES ASSUME NEW k \in Key
              PROVE  (total'[k] - total[k]) + (lost'[k] - lost[k]) + (Owed(c, k)' - Owed(c, k)) = due'[k] - due[k]
   BY DEF Moved
 <2>1. Owed(c, k)' = 0
   BY <1>3 DEF Owed, Uncounted, Counting
 <2>2. total'[k] = total[k] - r.counted[k] /\ lost'[k] = lost[k] + r.counted[k] + Owed(c, k) /\ due'[k] = due[k]
   BY <1>1 DEF Owed
 <2>3. Owed(c, k) \in Int
   BY DEF Owed
 <2> HIDE DEF r
 <2> QED
   BY <1>12, <2>1, <2>2, <2>3
<1> QED
  BY <1>1, <1>2, <1>6, <1>10, <1>11, <1>13, <1>14, Assembled

\* An entry that expires takes nothing along that is not blamed.
LEMMA ExpireStep ==
  ASSUME IInv, Expire
  PROVE  IInv'
<1>1. UNCHANGED <<dep, content, served, rules, total, call, due, lost>>
  BY DEF Expire
<1>2. CallsRight' /\ \A c \in Client : Alone(c) /\ StaysTo(c) /\ SameRequest(call'[c], call[c])
 <2>1. CallsRight'
   BY <1>1 DEF IInv, CallsRight, CallRight, AnswerRight, StepRight
 <2>2. \A c \in Client : Alone(c) /\ SameRequest(call'[c], call[c])
   BY <1>1 DEF Alone, SameRequest
 <2>3. \A c \in Client : StaysTo(c)
   BY <1>1 DEF StaysTo, Invalidates, Registers, Step, MyKey, Name
 <2> QED
   BY <2>1, <2>2, <2>3
<1>3. Balance' /\ CountsShape'
  BY <1>1 DEF IInv, Shape, CountsShape, Balance, Owing, Uncounted, Step, MyCount
<1>4. InvalidationsEnd /\ RequestsStay
 <2>1. \A n \in Tenant : Invalidating(n) => Invalidating(n)'
   BY <1>1 DEF Invalidating, Invalidates, Step, Name
 <2>2. RequestsStay
   BY <1>2 DEF RequestsStay
 <2> QED
   BY <2>1, <2>2 DEF InvalidationsEnd
<1>5. \A k \in Key : Registering(k) => Registering(k)'
  BY <1>1 DEF Registering, Registers, Step, MyKey, Name
<1>6. ASSUME UNCHANGED loaded PROVE RulesShape' /\ RulesFollow'
  BY <1>1, <1>6 DEF IInv, Shape, RulesShape, RulesFollow, RuleChanging, Step, FreshList, Matching
<1>7. ASSUME EntriesMove, RegistrationsEnd, ResultsShape', RulesShape', RulesFollow'
      PROVE  IInv'
 <2>1. CachesRight'
   BY <1>1, <1>2, <1>4, <1>7, CachesStep DEF IInv
 <2>2. Shape'
   BY <1>1, <1>3, <1>7 DEF IInv, Shape
 <2> QED
   BY <1>2, <1>3, <1>7, <2>1, <2>2 DEF IInv
<1>8. CASE \E k \in Key : results' = [results EXCEPT ![k] = NoEntry] /\ UNCHANGED <<keyset, loaded>>
 <2>1. PICK k \in Key : results' = [results EXCEPT ![k] = NoEntry] /\ UNCHANGED <<keyset, loaded>>
   BY <1>8
 <2>2. /\ DOMAIN results' = Key /\ results'[k] = NoEntry /\ ~results'[k].there
       /\ \A l \in Key : l # k => results'[l] = results[l]
   BY <2>1 DEF IInv, Shape, ResultsShape, NoEntry
 <2>3. ResultsShape'
   BY <1>1, <2>1, <2>2, NoCallRight DEF IInv, Shape, ResultsShape, EntryShape, NoEntry, Tenant
 <2>4. EntriesMove
   BY <2>2 DEF EntriesMove, Stays
 <2>5. RegistrationsEnd
   BY <1>5, <2>1 DEF RegistrationsEnd
 <2> QED
   BY <1>6, <1>7, <2>1, <2>3, <2>4, <2>5
<1>9. CASE \E t \in Tenant : loaded' = [loaded EXCEPT ![t] = NoList] /\ UNCHANGED <<keyset, results>>
 <2>1. PICK t \in Tenant : loaded' = [loaded EXCEPT ![t] = NoList] /\ UNCHANGED <<keyset, results>>
   BY <1>9
 <2>2. /\ DOMAIN loaded' = Tenant /\ loaded'[t] = NoList /\ ~loaded'[t].there
       /\ \A s \in Tenant : s # t => loaded'[s] = loaded[s]
   BY <2>1 DEF IInv, Shape, RulesShape, NoList
 <2>3. RulesShape' /\ RulesFollow'
   BY <1>1, <2>2 DEF IInv, Shape, RulesShape, RulesFollow, RuleChanging, Step, FreshList, Matching
 <2>4. EntriesMove /\ ResultsShape'
   BY <1>1, <2>1, ResultsStay DEF IInv, Shape, ResultsShape
 <2>5. RegistrationsEnd
   BY <1>5, <2>1 DEF RegistrationsEnd
 <2> QED
   BY <1>7, <2>3, <2>4, <2>5
<1>10. CASE \E n \in Tenant : /\ keyset' = [keyset EXCEPT ![n] = {}] /\ UNCHANGED loaded
                              /\ results' = Blame(results, keyset[n], "evicted")
 <2>1. PICK n \in Tenant : /\ keyset' = [keyset EXCEPT ![n] = {}] /\ UNCHANGED loaded
                           /\ results' = Blame(results, keyset[n], "evicted")
   BY <1>10
 <2>2. Blamed(results', keyset[n]) /\ DOMAIN keyset' = Tenant
   BY <2>1, BlameRight DEF IInv, Shape, ResultsShape
 <2>3. EntriesMove /\ ResultsShape' /\ \A k \in Key : k \in keyset[n] => Excused(k)'
   BY <1>1, <2>2, BlamedStays DEF IInv, Shape
 <2>4. \A m \in Tenant : m # n => keyset'[m] = keyset[m]
   BY <2>1 DEF IInv, Shape, ResultsShape
 <2>5. RegistrationsEnd
   BY <1>5, <2>3, <2>4 DEF RegistrationsEnd, Key
 <2> QED
   BY <1>6, <1>7, <2>1, <2>3, <2>5
<1> QED
  BY <1>8, <1>9, <1>10 DEF Expire

LEMMA NothingElse ==
  ASSUME IInv, UNCHANGED <<dep, content, results, keyset, rules, loaded, total, call, begun, faults, due, lost>>,
         served' \in [Tenant -> Nat]
  PROVE  IInv'
<1>1. Shape' /\ CallsRight'
  BY DEF IInv, Shape, ResultsShape, EntryShape, RulesShape, CountsShape, CallsRight, CallRight, AnswerRight, StepRight
<1>2. RulesFollow'
  BY DEF IInv, RulesFollow, RuleChanging, Step, FreshList, Matching
<1>3. Placed' /\ QuietRight'
  BY DEF IInv, CachesRight, Placed, QuietRight, Recent, Excused, Name
<1>4. ResultsFollow' /\ KeysKnown'
 <2>1. \A n : Invalidating(n)' <=> Invalidating(n)
   BY DEF Invalidating, Invalidates, Step, Name
 <2>2. \A k : Registering(k)' <=> Registering(k)
   BY DEF Registering, Registers, Step, MyKey, Name
 <2> QED
   BY <2>1, <2>2 DEF IInv, CachesRight, ResultsFollow, KeysKnown, Excused, Stale
<1>5. Balance'
  BY DEF IInv, Balance, Owing, Uncounted, Step, MyCount
<1> QED
  BY <1>1, <1>2, <1>3, <1>4, <1>5 DEF IInv, CachesRight

\* What the engine applies changes nothing that is kept elsewhere.
LEMMA ApplyStep ==
  ASSUME IInv, Apply
  PROVE  IInv'
<1>1. UNCHANGED <<dep, content, results, keyset, rules, loaded, total, call, begun, faults, due, lost>>
  BY DEF Apply
<1>2. served' \in [Tenant -> Nat]
  BY DEF Apply, IInv, Shape, ResultsShape
<1> QED
  BY <1>1, <1>2, NothingElse DEF IInv, Shape, ResultsShape

(* ------------------------------- the theorems ------------------------------- *)

LEMMA InitIInv ==
  ASSUME Init
  PROVE  IInv
<1>1. dep \in Deployment /\ \A c \in Client : call[c] = NoCall
  BY DeploymentsAssumption DEF Init
<1>2. Shape
 <2>1. /\ content \in [Tenant -> Nat] /\ served \in [Tenant -> Nat]
       /\ DOMAIN results = Key /\ DOMAIN keyset = Tenant /\ DOMAIN call = Client
   BY DEF Init
 <2>2. \A k \in Key : EntryShape(results[k])
   BY DEF Init, EntryShape, NoEntry, Tenant
 <2>3. rules \subseteq Tenant /\ DOMAIN loaded = Tenant /\ \A t \in Tenant : DOMAIN loaded[t] = DOMAIN NoList
   BY DEF Init
 <2>4. total = [k \in Key |-> 0] /\ lost = total /\ due = total
   BY DEF Init
 <2>5. CountsShape
   BY <2>4 DEF CountsShape
 <2> QED
   BY <1>1, <2>1, <2>2, <2>3, <2>5 DEF Shape, ResultsShape, RulesShape
<1>3. CallsRight
 <2>1. CallRight(NoCall)
   BY NoCallRight
 <2> QED
   BY <1>1, <2>1 DEF CallsRight
<1>4. RulesFollow /\ Placed /\ ResultsFollow /\ KeysKnown
  BY DEF Init, RulesFollow, Placed, ResultsFollow, KeysKnown, Excused, NoEntry, NoList
<1>5. QuietRight
 <2>1. \A k \in Key : Excused(k)
   BY DEF Init, Excused, NoEntry
 <2>2. NoCall.since = 0 /\ NoCall.tenant \in Tenant /\ content \in [Tenant -> Nat]
   BY NoCallRight, <1>2 DEF NoCall, CallRight, CallShape, Shape, ResultsShape
 <2>3. Recent(NoCall)
  <3>1. content[NoCall.tenant] \in Nat
    BY <2>2
  <3>2. NoCall.since <= content[NoCall.tenant]
    BY <2>2, <3>1
  <3> QED
    BY <2>1, <3>2 DEF Recent
 <2> QED
   BY <1>1, <2>3 DEF QuietRight
<1>6. Balance
 <2> SUFFICES ASSUME NEW k \in Key PROVE total[k] + lost[k] + Cardinality(Owing(k)) = due[k]
   BY DEF Balance
 <2>1. \A c \in Client : ~Uncounted(c, k)
  <3>1. ~NoCall.log
    BY DEF NoCall
  <3> QED
    BY <1>1, <3>1 DEF Uncounted
 <2>2. Owing(k) = {}
   BY <2>1 DEF Owing
 <2>3. Cardinality(Owing(k)) = 0
   BY <2>2, FS_EmptySet
 <2>4. total[k] = 0 /\ lost[k] = 0 /\ due[k] = 0
   BY DEF Init
 <2> QED
   BY <2>3, <2>4
<1> QED
  BY <1>2, <1>3, <1>4, <1>5, <1>6 DEF IInv, CachesRight

LEMMA NextIInv ==
  ASSUME IInv, [Next]_vars
  PROVE  IInv'
<1>1. CASE UNCHANGED vars
  BY <1>1, NothingElse DEF vars, IInv, Shape, ResultsShape
<1>2. ASSUME NEW c \in Client,
             MerchandisedSearch(c) \/ Autocomplete(c) \/ PutDocuments(c) \/ ChangeRule(c)
      PROVE  IInv'
  BY <1>2, MerchandisedSearchStep, AutocompleteStep, PutDocumentsStep, ChangeRuleStep
<1>3. ASSUME NEW c \in Client,
             \/ RulesGet(c) \/ RulesRead(c) \/ RulesSet(c) \/ RuleWrite(c) \/ RulesDelete(c) \/ Commit(c)
      PROVE  IInv'
  BY <1>3, RulesGetStep, RulesReadStep, RulesSetStep, RuleWriteStep, RulesDeleteStep, CommitStep
<1>4. ASSUME NEW c \in Client,
             \/ Put(c) \/ KeysetKnown(c) \/ DeleteMany(c) \/ KeysetDelete(c)
             \/ Get(c) \/ Find(c) \/ Set(c) \/ KeysetRead(c) \/ KeysetWrite(c)
      PROVE  IInv'
  BY <1>4, PutStep, KeysetKnownStep, DeleteManyStep, KeysetDeleteStep, GetStep, FindStep, SetStep,
     KeysetReadStep, KeysetWriteStep
<1>5. ASSUME NEW c \in Client, CountUpdate(c) \/ CountCreate(c) \/ Kill(c)
      PROVE  IInv'
  BY <1>5, CountUpdateStep, CountCreateStep, KillStep
<1> QED
  BY <1>1, <1>2, <1>3, <1>4, <1>5, ApplyStep, ExpireStep DEF Next

LEMMA Invariant == Spec => []IInv
<1>1. Init => IInv
  BY InitIInv
<1>2. IInv /\ [Next]_vars => IInv'
  BY NextIInv
<1> QED
  BY <1>1, <1>2, PTL DEF Spec

\* At rest nobody owes anything.
LEMMA Resting ==
  ASSUME AtRest
  PROVE  /\ \A n : ~Invalidating(n)
         /\ ~RuleChanging
         /\ \A k : Owing(k) = {}
<1>1. \A c \in Client : Step(c) = "none"
  BY DEF AtRest, Idle
<1> QED
  BY <1>1 DEF Invalidating, Invalidates, RuleChanging, Owing, Uncounted, Counting

(* When no call is under way a cached result is the one the engine would give, *)
(* or the entry has a cause: no writer's invalidation misses a key that is     *)
(* registered or about to be, however the calls of searches and writers        *)
(* overlap, and an entry from before a write that the engine had accepted      *)
(* was found while it was pending (ICVSearchCache.set, _register_key,          *)
(* invalidate).                                                                *)
THEOREM CachedResultsAreFresh == Spec => []ResultsFresh
<1>1. IInv => ResultsFresh
 <2> SUFFICES ASSUME IInv, AtRest, NEW k \in Key, Cached(k)
              PROVE  results[k].ver = content[results[k].of] \/ results[k].why # {}
   BY DEF ResultsFresh
 <2>1. ~Invalidating(k[1])
   BY Resting
 <2> QED
   BY <2>1 DEF IInv, CachesRight, ResultsFollow, Excused, Stale, Cached
<1> QED
  BY <1>1, Invariant, PTL

(* When no call is under way a cached list of rules is the one the database    *)
(* holds for its tenant, or the entry has a cause (load_rules, the handlers    *)
(* that call invalidate_rules).                                                *)
THEOREM CachedRulesAreFresh == Spec => []RulesFresh
<1>1. IInv => RulesFresh
 <2> SUFFICES ASSUME IInv, AtRest, NEW t \in Tenant, loaded[t].there
              PROVE  loaded[t].list = FreshList(t) \/ loaded[t].why # {}
   BY DEF RulesFresh
 <2> QED
   BY Resting DEF IInv, RulesFollow
<1> QED
  BY <1>1, Invariant, PTL

(* Every answer comes from the documents of the tenant that asks, unless two   *)
(* tenants share the name of an index and results are cached; and from no      *)
(* older documents than those of the beginning of the request, unless the      *)
(* entry has a cause, an invalidation was under way or the engine had not yet  *)
(* applied what it had accepted (search, the cache and the rules that search   *)
(* again).                                                                     *)
THEOREM AnswersAreTheirTenants == Spec => []AnswersRight
<1>1. IInv => AnswersRight
  BY DEF IInv, CallsRight, CallRight, AnswerRight, AnswersRight
<1> QED
  BY <1>1, Invariant, PTL

(* When no call is under way the count of a day and the searches known to be   *)
(* lost are all the searches that reached the engine and were to be logged,    *)
(* however their updates, inserts, conflicts and rollbacks overlapped          *)
(* (_update_aggregate).                                                        *)
THEOREM EverySearchIsCounted == Spec => []CountsExact
<1>1. IInv => CountsExact
 <2> SUFFICES ASSUME IInv, AtRest, NEW k \in Key
              PROVE  total[k] + lost[k] = due[k]
   BY DEF CountsExact
 <2>1. Owing(k) = {}
   BY Resting
 <2>2. Cardinality(Owing(k)) = 0
   BY <2>1, FS_EmptySet
 <2>3. total[k] + lost[k] + 0 = due[k] /\ total[k] \in Int /\ lost[k] \in Int
   BY <2>2 DEF IInv, Balance, Shape, CountsShape
 <2> QED
   BY <2>3
<1> QED
  BY <1>1, Invariant, PTL

(* ----------------------------- bulk indexing ----------------------------- *)

(***************************************************************************)
(* The inductive invariant.  Its core is OnePlace (a batch is in one       *)
(* place at a time), NotLost (without an error every batch that was put is *)
(* in the queue, in a hand or in the engine) and PillsLast, by which a     *)
(* sender that has taken a pill shows that the queue holds no batch.       *)
(***************************************************************************)
Queued(b) == \E i \in 1..Len(queue) : queue[i] = b

PillsLast ==
  \A i, j \in 1..Len(queue) : i < j /\ queue[i] = Pill => queue[j] = Pill

OnePlace ==
  /\ \A i, j \in 1..Len(queue) : i # j /\ queue[i] = queue[j] => queue[i] = Pill
  /\ \A v, w \in Worker : v # w /\ hand[v] = hand[w] => hand[v] = Pill
  /\ \A w \in Worker : hand[w] # Pill => ~Queued(hand[w])
  /\ \A w \in Worker : hand[w] # Pill => hand[w] < next /\ engine[hand[w]] = 0
  /\ \A b \in Batch : Queued(b) => b < next /\ engine[b] = 0
  /\ \A b \in Batch : engine[b] \in 0..1
  /\ \A b \in Batch : b >= next => engine[b] = 0

NotLost ==
  ~error => \A b \in Batch : b < next =>
    engine[b] = 1 \/ Queued(b) \/ \E w \in Worker : hand[w] = b

Places ==
  /\ \A w \in Worker : at[w] = "send" <=> hand[w] # Pill
  /\ failed # {} <=> error
  /\ caller = "put" => next <= Batches
  /\ caller \in {"next", "put"} => ~Queued(Pill)
  /\ ~error /\ (\E w \in Worker : at[w] = "done") =>
       caller \notin {"next", "put"} /\ \A b \in Batch : ~Queued(b)
  /\ ~error /\ caller \in {"pills", "returned"} => next = Batches + 1
  /\ caller = "returned" => ~error
  /\ caller \in {"returned", "raised"} => \A w \in Worker : at[w] = "done"

BulkInv == TypeOK /\ PillsLast /\ OnePlace /\ NotLost /\ Places

LEMMA concurrencyType == concurrency \in Nat /\ concurrency > 0 /\ Capacity \in Nat
<1>1. concurrency \in Nat /\ concurrency # 0
  BY WorkerAssumption, FS_CardinalityType, FS_EmptySet DEF concurrency
<1> QED
  BY <1>1 DEF Capacity

LEMMA InitBulkInv == BulkInit => BulkInv
<1> SUFFICES ASSUME BulkInit PROVE BulkInv
  OBVIOUS
<1>1. queue = <<>> /\ Len(queue) = 0 /\ \A b : ~Queued(b)
  BY DEF BulkInit, Queued
<1>2. TypeOK
 <2>1. queue \in Seq(Batch \cup {Pill}) /\ Len(queue) <= Capacity
   BY <1>1, concurrencyType
 <2>2. next \in 1..Batches + 1 /\ pills \in 0..concurrency
   BY BatchesAssumption, concurrencyType DEF BulkInit
 <2>3. engine \in [Batch -> Nat]
   BY DEF BulkInit
 <2> QED
   BY <2>1, <2>2, <2>3 DEF BulkInit, TypeOK
<1>3. PillsLast
  BY <1>1 DEF PillsLast
<1>4. OnePlace
  BY <1>1 DEF BulkInit, OnePlace
<1>5. NotLost
  BY BatchesAssumption DEF BulkInit, NotLost, Batch
<1>6. Places
  BY <1>1 DEF BulkInit, Places
<1> QED
  BY <1>2, <1>3, <1>4, <1>5, <1>6 DEF BulkInv

\* What a put and a get do to the queue.
LEMMA AppendFacts ==
  ASSUME NEW S, NEW q \in Seq(S), NEW e \in S
  PROVE  /\ Append(q, e) \in Seq(S) /\ Len(Append(q, e)) = Len(q) + 1
         /\ \A i \in 1..Len(q) : Append(q, e)[i] = q[i]
         /\ Append(q, e)[Len(q) + 1] = e
OBVIOUS

LEMMA TailFacts ==
  ASSUME NEW S, NEW q \in Seq(S), q # <<>>
  PROVE  /\ Tail(q) \in Seq(S) /\ Len(Tail(q)) = Len(q) - 1 /\ Len(q) \in Nat \ {0}
         /\ \A i \in 1..Len(q) - 1 : Tail(q)[i] = q[i + 1]
         /\ Head(q) = q[1] /\ Head(q) \in S
OBVIOUS

-----------------------------------------------------------------------------
\* The steps that leave the queue and what the senders hold alone.
LEMMA CallerMoves ==
  ASSUME BulkInv, CallerTakes \/ CallerStops \/ SourceFails \/ CallerJoins
  PROVE  BulkInv'
<1>1. UNCHANGED <<queue, error, failed, engine, at, hand, next, pills>>
  BY DEF CallerTakes, CallerStops, SourceFails, CallerJoins
<1>2. \A b : Queued(b)' <=> Queued(b)
  BY <1>1 DEF Queued
<1>3. TypeOK' /\ PillsLast' /\ OnePlace' /\ NotLost'
 <2>1. caller' \in {"next", "put", "pills", "broken", "returned", "raised"}
   BY DEF CallerTakes, CallerStops, SourceFails, CallerJoins
 <2>2. TypeOK'
   BY <1>1, <2>1 DEF BulkInv, TypeOK
 <2>3. PillsLast'
   BY <1>1 DEF BulkInv, PillsLast
 <2>4. OnePlace'
   BY <1>1, <1>2 DEF BulkInv, OnePlace
 <2>5. NotLost'
   BY <1>1, <1>2 DEF BulkInv, NotLost
 <2> QED
   BY <2>2, <2>3, <2>4, <2>5
<1>4. Places'
 <2>1. next \in 1..Batches + 1 /\ Places
   BY DEF BulkInv, TypeOK
 <2>2. CASE CallerTakes
   BY <1>1, <1>2, <2>1, <2>2 DEF Places, CallerTakes
 <2>3. CASE CallerStops
   BY <1>1, <1>2, <2>1, <2>3, BatchesAssumption DEF Places, CallerStops
 <2>4. CASE SourceFails
   BY <1>1, <1>2, <2>1, <2>4 DEF Places, SourceFails
 <2>5. CASE CallerJoins
   BY <1>1, <1>2, <2>1, <2>5 DEF Places, CallerJoins
 <2> QED
   BY <2>2, <2>3, <2>4, <2>5
<1> QED
  BY <1>3, <1>4 DEF BulkInv

LEMMA CallerPutsIInv ==
  ASSUME BulkInv, CallerPuts
  PROVE  BulkInv'
<1>1. /\ queue \in Seq(Batch \cup {Pill}) /\ Len(queue) < Capacity /\ caller = "put"
      /\ next \in Batch /\ next \in 1..Batches /\ next # Pill
      /\ queue' = Append(queue, next) /\ next' = next + 1 /\ caller' = "next"
      /\ UNCHANGED <<error, failed, engine, at, hand, pills>>
  BY BatchesAssumption DEF BulkInv, TypeOK, Places, CallerPuts, Batch, Pill
<1>2. /\ queue' \in Seq(Batch \cup {Pill}) /\ Len(queue') = Len(queue) + 1
      /\ \A i \in 1..Len(queue) : queue'[i] = queue[i]
      /\ queue'[Len(queue) + 1] = next /\ Len(queue) \in Nat
  BY <1>1, AppendFacts
<1>3. \A b : Queued(b)' <=> Queued(b) \/ b = next
  BY <1>2 DEF Queued
<1>4. ~Queued(Pill) /\ ~Queued(next) /\ \A w \in Worker : hand[w] # next
  BY <1>1 DEF BulkInv, Places, OnePlace
<1>5. TypeOK'
 <2>1. Len(queue') <= Capacity
   BY <1>1, <1>2, concurrencyType
 <2>2. next' \in 1..Batches + 1
   BY <1>1, BatchesAssumption
 <2> QED
   BY <1>1, <1>2, <2>1, <2>2 DEF BulkInv, TypeOK
<1>6. PillsLast'
  BY <1>1, <1>2, <1>4 DEF PillsLast, Queued
<1>7. OnePlace'
 <2>1. \A i, j \in 1..Len(queue') : i # j => queue'[i] # queue'[j]
  <3>1. \A i, j \in 1..Len(queue) : i # j => queue[i] # queue[j]
    BY <1>4 DEF BulkInv, OnePlace, Queued
  <3>2. \A i \in 1..Len(queue) : queue[i] # next
    BY <1>4 DEF Queued
  <3> QED
    BY <1>2, <3>1, <3>2
 <2>2. \A b \in Batch : b < next => b < next'
   BY <1>1 DEF Batch
 <2>3. engine[next] = 0
   BY <1>1 DEF BulkInv, OnePlace
 <2>4. \A b \in Batch : b >= next' => engine[b] = 0
   BY <1>1 DEF BulkInv, OnePlace, Batch
 <2>5. \A w \in Worker : hand[w] # Pill => hand[w] < next' /\ engine[hand[w]] = 0 /\ ~Queued(hand[w])'
   BY <1>1, <1>3, <1>4, <2>2 DEF BulkInv, OnePlace, TypeOK
 <2>6. \A b \in Batch : Queued(b)' => b < next' /\ engine[b] = 0
   BY <1>1, <1>3, <2>2, <2>3 DEF BulkInv, OnePlace
 <2> QED
   BY <1>1, <2>1, <2>4, <2>5, <2>6 DEF BulkInv, OnePlace
<1>8. NotLost'
 <2>1. \A b \in Batch : b < next' => b < next \/ b = next
   BY <1>1 DEF Batch
 <2> QED
   BY <1>1, <1>3, <2>1 DEF BulkInv, NotLost
<1>9. Places'
  BY <1>1, <1>3, <1>4 DEF BulkInv, Places
<1> QED
  BY <1>5, <1>6, <1>7, <1>8, <1>9 DEF BulkInv

LEMMA CallerPutsPillIInv ==
  ASSUME BulkInv, CallerPutsPill
  PROVE  BulkInv'
<1>1. /\ queue \in Seq(Batch \cup {Pill}) /\ Len(queue) < Capacity
      /\ caller \in {"pills", "broken"} /\ pills < concurrency
      /\ queue' = Append(queue, Pill) /\ pills' = pills + 1
      /\ UNCHANGED <<error, failed, engine, at, hand, caller, next>>
  BY DEF BulkInv, TypeOK, CallerPutsPill
<1>2. /\ queue' \in Seq(Batch \cup {Pill}) /\ Len(queue') = Len(queue) + 1
      /\ \A i \in 1..Len(queue) : queue'[i] = queue[i]
      /\ queue'[Len(queue) + 1] = Pill /\ Len(queue) \in Nat
  BY <1>1, AppendFacts
<1>3. \A b : b # Pill => (Queued(b)' <=> Queued(b))
  BY <1>2 DEF Queued
<1>4. \A b \in Batch : b # Pill
  BY DEF Batch, Pill
<1>5. TypeOK'
 <2>1. Len(queue') <= Capacity /\ pills' \in 0..concurrency
   BY <1>1, <1>2, concurrencyType DEF BulkInv, TypeOK
 <2> QED
   BY <1>1, <1>2, <2>1 DEF BulkInv, TypeOK
<1>6. PillsLast'
  BY <1>1, <1>2 DEF BulkInv, PillsLast
<1>7. OnePlace'
 <2>1. \A i, j \in 1..Len(queue') : i # j /\ queue'[i] = queue'[j] => queue'[i] = Pill
   BY <1>1, <1>2 DEF BulkInv, OnePlace
 <2> QED
   BY <1>1, <1>3, <1>4, <2>1 DEF BulkInv, OnePlace
<1>8. NotLost'
  BY <1>1, <1>3, <1>4 DEF BulkInv, NotLost
<1>9. Places'
  BY <1>1, <1>3, <1>4 DEF BulkInv, Places
<1> QED
  BY <1>5, <1>6, <1>7, <1>8, <1>9 DEF BulkInv

\* A sender that takes a pill shows that the batches are gone.
LEMMA WorkerGetsIInv ==
  ASSUME BulkInv, NEW w \in Worker, WorkerGets(w)
  PROVE  BulkInv'
<1> DEFINE b0 == Head(queue)
<1>1. /\ queue \in Seq(Batch \cup {Pill}) /\ queue # <<>> /\ at[w] = "get"
      /\ queue' = Tail(queue) /\ hand' = [hand EXCEPT ![w] = b0]
      /\ at' = [at EXCEPT ![w] = IF b0 = Pill THEN "done" ELSE "send"]
      /\ hand \in [Worker -> Batch \cup {Pill}]
      /\ at \in [Worker -> {"loop", "get", "send", "done"}]
      /\ UNCHANGED <<error, failed, engine, caller, next, pills>>
  BY DEF BulkInv, TypeOK, WorkerGets, Moves
<1>2. /\ queue' \in Seq(Batch \cup {Pill}) /\ Len(queue') = Len(queue) - 1
      /\ Len(queue) \in Nat \ {0}
      /\ \A i \in 1..Len(queue) - 1 : queue'[i] = queue[i + 1]
      /\ b0 = queue[1] /\ b0 \in Batch \cup {Pill}
  BY <1>1, TailFacts
<1>3. Queued(b0)
  BY <1>2 DEF Queued
<1>4. \A b : Queued(b)' => Queued(b)
  BY <1>2 DEF Queued
<1>5. \A b : Queued(b) => Queued(b)' \/ b = b0
 <2> SUFFICES ASSUME NEW b, NEW i \in 1..Len(queue), queue[i] = b, b # b0
              PROVE  Queued(b)'
   BY DEF Queued
 <2>1. i - 1 \in 1..Len(queue) - 1 /\ queue'[i - 1] = queue[(i - 1) + 1]
   BY <1>2
 <2> QED
   BY <1>2, <2>1 DEF Queued
<1>6. b0 # Pill => \A i \in 1..Len(queue') : queue'[i] # b0
 <2> SUFFICES ASSUME b0 # Pill, NEW i \in 1..Len(queue'), queue'[i] = b0
              PROVE  FALSE
   OBVIOUS
 <2>1. i + 1 \in 1..Len(queue) /\ i + 1 # 1 /\ queue[i + 1] = queue[1]
   BY <1>2
 <2> QED
   BY <1>2, <2>1 DEF BulkInv, OnePlace
<1>7. b0 = Pill => \A b \in Batch : ~Queued(b)
 <2> SUFFICES ASSUME b0 = Pill, NEW b \in Batch, NEW i \in 1..Len(queue), queue[i] = b
              PROVE  FALSE
   BY DEF Queued
 <2>1. queue[i] = Pill
   BY <1>2 DEF BulkInv, PillsLast
 <2> QED
   BY <2>1 DEF Batch, Pill
<1> HIDE DEF b0
<1>8. hand[w] = Pill
  BY <1>1 DEF BulkInv, Places
<1>9. \A v \in Worker : v # w => hand'[v] = hand[v] /\ at'[v] = at[v]
  BY <1>1
<1>10. /\ hand'[w] = b0 /\ at'[w] = (IF b0 = Pill THEN "done" ELSE "send")
       /\ \A b \in Batch : b # Pill
  BY <1>1 DEF Batch, Pill
<1>11. TypeOK'
 <2>1. Len(queue') <= Capacity
   BY <1>2, concurrencyType DEF BulkInv, TypeOK
 <2> QED
   BY <1>1, <1>2, <2>1 DEF BulkInv, TypeOK
<1>12. PillsLast'
  BY <1>2 DEF BulkInv, PillsLast
<1>13. OnePlace'
 <2>1. \A i, j \in 1..Len(queue') : i # j /\ queue'[i] = queue'[j] => queue'[i] = Pill
  <3> SUFFICES ASSUME NEW i \in 1..Len(queue'), NEW j \in 1..Len(queue'),
                      i # j, queue'[i] = queue'[j]
               PROVE  queue'[i] = Pill
    OBVIOUS
  <3>1. /\ i + 1 \in 1..Len(queue) /\ j + 1 \in 1..Len(queue) /\ i + 1 # j + 1
        /\ queue'[i] = queue[i + 1] /\ queue'[j] = queue[j + 1]
    BY <1>2
  <3> QED
    BY <3>1 DEF BulkInv, OnePlace
 <2>2. \A u, v \in Worker : u # v /\ hand'[u] = hand'[v] => hand'[u] = Pill
   BY <1>3, <1>9, <1>10 DEF BulkInv, OnePlace
 <2>3. \A v \in Worker : hand'[v] # Pill =>
         ~Queued(hand[v])' /\ hand'[v] < next /\ engine[hand'[v]] = 0
  <3>1. ASSUME NEW v \in Worker, v # w, hand[v] # Pill
        PROVE  ~Queued(hand[v])' /\ hand[v] < next /\ engine[hand[v]] = 0
   <4>1. hand'[v] = hand[v] /\ ~Queued(hand[v]) /\ hand[v] < next /\ engine[hand[v]] = 0
     BY <1>9, <3>1 DEF BulkInv, OnePlace
   <4>2. \A i \in 1..Len(queue') : queue'[i] # hand[v]
     BY <1>2, <4>1 DEF Queued
   <4> QED
     BY <4>1, <4>2 DEF Queued
  <3>2. ASSUME b0 # Pill
        PROVE  ~Queued(hand[w])' /\ b0 < next /\ engine[b0] = 0
   <4>1. b0 \in Batch /\ b0 < next /\ engine[b0] = 0
     BY <1>2, <1>3, <3>2 DEF BulkInv, OnePlace
   <4> QED
     BY <1>6, <1>10, <3>2, <4>1 DEF Queued
  <3> QED
    BY <1>9, <1>10, <3>1, <3>2
 <2> QED
   BY <1>1, <1>4, <2>1, <2>2, <2>3 DEF BulkInv, OnePlace
<1>14. NotLost'
 <2> SUFFICES ASSUME ~error, NEW b \in Batch, b < next
              PROVE  engine[b] = 1 \/ Queued(b)' \/ \E v \in Worker : hand'[v] = b
   BY <1>1 DEF NotLost
 <2>1. engine[b] = 1 \/ Queued(b) \/ \E v \in Worker : hand[v] = b
   BY DEF BulkInv, NotLost
 <2> QED
   BY <1>5, <1>8, <1>9, <1>10, <2>1
<1>15. Places'
 <2>1. \A v \in Worker : at'[v] = "send" <=> hand'[v] # Pill
   BY <1>9, <1>10 DEF BulkInv, Places
 <2>2. caller \in {"next", "put"} => ~Queued(Pill) /\ ~Queued(Pill)'
   BY <1>4 DEF BulkInv, Places
 <2>3. ~error /\ (\E v \in Worker : at'[v] = "done") =>
         caller \notin {"next", "put"} /\ \A b \in Batch : ~Queued(b)'
  <3>1. ASSUME b0 = Pill
        PROVE  caller \notin {"next", "put"} /\ \A b \in Batch : ~Queued(b)'
    BY <1>3, <1>4, <1>7, <2>2, <3>1
  <3>2. ASSUME ~error, NEW v \in Worker, at[v] = "done"
        PROVE  caller \notin {"next", "put"} /\ \A b \in Batch : ~Queued(b)'
    BY <1>4, <3>2 DEF BulkInv, Places
  <3>3. ASSUME b0 # Pill, NEW v \in Worker, at'[v] = "done" PROVE at[v] = "done"
    BY <1>9, <1>10, <3>3
  <3> QED
    BY <3>1, <3>2, <3>3
 <2>4. caller # "returned" /\ caller # "raised"
   BY <1>1 DEF BulkInv, Places
 <2> QED
   BY <1>1, <2>1, <2>2, <2>3, <2>4 DEF BulkInv, Places
<1> QED
  BY <1>11, <1>12, <1>13, <1>14, <1>15 DEF BulkInv

LEMMA WorkerWaitsIInv ==
  ASSUME BulkInv, NEW w \in Worker, WorkerLoops(w) \/ WorkerTimesOut(w)
  PROVE  BulkInv'
<1>1. /\ UNCHANGED <<queue, error, failed, engine, hand, caller, next, pills>>
      /\ at[w] \in {"loop", "get"} /\ at \in [Worker -> {"loop", "get", "send", "done"}]
      /\ \/ at' = [at EXCEPT ![w] = "get"] \/ at' = [at EXCEPT ![w] = "loop"]
         \/ error /\ at' = [at EXCEPT ![w] = "done"]
  BY DEF BulkInv, TypeOK, WorkerLoops, WorkerTimesOut, Moves
<1>2. \A b : Queued(b)' <=> Queued(b)
  BY <1>1 DEF Queued
<1>3. TypeOK'
  BY <1>1 DEF BulkInv, TypeOK
<1>4. PillsLast' /\ NotLost'
  BY <1>1, <1>2 DEF BulkInv, PillsLast, NotLost
<1>5. OnePlace'
  BY <1>1, <1>2 DEF BulkInv, OnePlace
<1>6. Places'
 <2>1. \A v \in Worker : /\ at'[v] = "send" <=> at[v] = "send"
                         /\ ~error => (at'[v] = "done" <=> at[v] = "done")
   BY <1>1
 <2>2. caller # "returned" /\ caller # "raised"
   BY <1>1 DEF BulkInv, Places
 <2> QED
   BY <1>1, <1>2, <2>1, <2>2 DEF BulkInv, Places
<1> QED
  BY <1>3, <1>4, <1>5, <1>6 DEF BulkInv

\* The batch leaves the hand of the sender; the engine has it if the send
\* succeeded, and perhaps if it failed.
LEMMA WorkerLetsGoIInv ==
  ASSUME BulkInv, NEW w \in Worker, WorkerSends(w) \/ WorkerFails(w)
  PROVE  BulkInv'
<1> DEFINE b0 == hand[w]
<1>1. /\ UNCHANGED <<queue, caller, next, pills>> /\ at[w] = "send"
      /\ hand' = [hand EXCEPT ![w] = Pill]
      /\ engine' = [engine EXCEPT ![b0] = @ + 1] \/ (engine' = engine /\ error')
      /\ \/ at' = [at EXCEPT ![w] = "loop"] /\ UNCHANGED <<error, failed>>
         \/ at' = [at EXCEPT ![w] = "done"] /\ error' = TRUE /\ failed' = failed \cup {b0}
      /\ at \in [Worker -> {"loop", "get", "send", "done"}]
      /\ hand \in [Worker -> Batch \cup {Pill}] /\ engine \in [Batch -> Nat]
  BY DEF BulkInv, TypeOK, WorkerSends, WorkerFails, Moves, Received
<1>2. \A b : Queued(b)' <=> Queued(b)
  BY <1>1 DEF Queued
<1>3. /\ b0 \in Batch /\ b0 # Pill /\ ~Queued(b0) /\ b0 < next /\ engine[b0] = 0
      /\ \A v \in Worker : v # w => hand[v] # b0
  BY <1>1 DEF BulkInv, Places, OnePlace
<1> HIDE DEF b0
<1>4. /\ \A b \in Batch : b # b0 => engine'[b] = engine[b]
      /\ engine'[b0] \in 0..1 /\ (~error' => engine'[b0] = 1)
      /\ engine' \in [Batch -> Nat]
  BY <1>1, <1>3
<1>5. hand'[w] = Pill /\ \A v \in Worker : v # w => hand'[v] = hand[v] /\ at'[v] = at[v]
  BY <1>1
<1>6. TypeOK'
  BY <1>1, <1>3, <1>4 DEF BulkInv, TypeOK
<1>7. PillsLast'
  BY <1>1 DEF BulkInv, PillsLast
<1>8. OnePlace'
 <2>1. \A v \in Worker : hand'[v] # Pill =>
         /\ v # w /\ hand'[v] = hand[v] /\ hand[v] \in Batch /\ hand[v] # b0
         /\ engine'[hand[v]] = engine[hand[v]]
   BY <1>1, <1>3, <1>4, <1>5
 <2>2. \A b \in Batch : engine'[b] \in 0..1 /\ (b >= next => engine'[b] = 0)
  <3>1. \A b \in Batch : b >= next => b # b0
    BY <1>3, BatchesAssumption DEF BulkInv, TypeOK, Batch
  <3> QED
    BY <1>3, <1>4, <3>1 DEF BulkInv, OnePlace
 <2> QED
   BY <1>1, <1>2, <1>3, <1>4, <1>5, <2>1, <2>2 DEF BulkInv, OnePlace
<1>9. NotLost'
 <2> SUFFICES ASSUME ~error', NEW b \in Batch, b < next
              PROVE  engine'[b] = 1 \/ Queued(b)' \/ \E v \in Worker : hand'[v] = b
   BY <1>1 DEF NotLost
 <2>1. ~error
   BY <1>1
 <2>2. engine[b] = 1 \/ Queued(b) \/ \E v \in Worker : hand[v] = b
   BY <2>1 DEF BulkInv, NotLost
 <2>3. CASE b = b0
   BY <1>4, <2>3
 <2>4. CASE b # b0
   BY <1>2, <1>4, <1>5, <2>2, <2>4 DEF b0
 <2> QED
   BY <2>3, <2>4
<1>10. Places'
 <2>1. \A v \in Worker : /\ at'[v] = "send" <=> hand'[v] # Pill
                         /\ ~error' /\ at'[v] = "done" => at[v] = "done"
   BY <1>1, <1>5 DEF BulkInv, Places
 <2>2. caller # "returned" /\ caller # "raised" /\ (failed # {} <=> error)
   BY <1>1 DEF BulkInv, Places
 <2>3. error => error'
   BY <1>1
 <2>4. failed' # {} <=> error'
  <3>1. CASE UNCHANGED <<error, failed>>
    BY <2>2, <3>1
  <3>2. CASE error' = TRUE /\ failed' = failed \cup {b0}
    BY <3>2
  <3> QED
    BY <1>1, <3>1, <3>2
 <2> QED
   BY <1>1, <1>2, <2>1, <2>2, <2>3, <2>4 DEF BulkInv, Places
<1> QED
  BY <1>6, <1>7, <1>8, <1>9, <1>10 DEF BulkInv

LEMMA NextBulkInv == BulkInv /\ [BulkNext]_bulkVars => BulkInv'
<1> SUFFICES ASSUME BulkInv, [BulkNext]_bulkVars PROVE BulkInv'
  OBVIOUS
<1>1. ASSUME CallerStep PROVE BulkInv'
  BY <1>1, CallerMoves, CallerPutsIInv, CallerPutsPillIInv DEF CallerStep
<1>2. ASSUME NEW w \in Worker, WorkerStep(w) PROVE BulkInv'
  BY <1>2, WorkerGetsIInv, WorkerWaitsIInv, WorkerLetsGoIInv DEF WorkerStep
<1>3. CASE UNCHANGED bulkVars
 <2>1. UNCHANGED <<queue, error, failed, engine, at, hand, caller, next, pills>>
   BY <1>3 DEF bulkVars
 <2>2. \A b : Queued(b)' <=> Queued(b)
   BY <2>1 DEF Queued
 <2>3. TypeOK' /\ PillsLast'
   BY <2>1 DEF BulkInv, TypeOK, PillsLast
 <2>4. OnePlace' /\ NotLost'
   BY <2>1, <2>2 DEF BulkInv, OnePlace, NotLost
 <2>5. Places'
   BY <2>1, <2>2 DEF BulkInv, Places
 <2> QED
   BY <2>3, <2>4, <2>5 DEF BulkInv
<1> QED
  BY <1>1, <1>2, <1>3 DEF BulkNext

LEMMA BulkInvariant == BulkSpec => []BulkInv
<1>1. Safe => []BulkInv
  BY InitBulkInv, NextBulkInv, PTL DEF Safe
<1>2. BulkSpec => Safe
  BY PTL DEF BulkSpec
<1> QED
  BY <1>1, <1>2, PTL

LEMMA BulkInvReturns == BulkInv => ReturnsWhenAllIndexed
<1> SUFFICES ASSUME BulkInv, caller = "returned"
             PROVE  /\ next = Batches + 1 /\ failed = {}
                    /\ \A b \in Batch : engine[b] = 1
  BY DEF ReturnsWhenAllIndexed
<1>1. ~error /\ next = Batches + 1 /\ failed = {} /\ \A w \in Worker : at[w] = "done"
  BY DEF BulkInv, Places
<1>2. \A b \in Batch : ~Queued(b)
  BY <1>1, WorkerAssumption DEF BulkInv, Places
<1>3. \A w \in Worker : hand[w] = Pill
  BY <1>1 DEF BulkInv, Places
<1>4. \A b \in Batch : b < next /\ b # Pill
  BY <1>1, BatchesAssumption DEF Batch, Pill
<1> QED
  BY <1>1, <1>2, <1>3, <1>4 DEF BulkInv, NotLost

\* A call that returns has sent every batch exactly once and no send failed,
\* for any number of senders and of batches.
THEOREM ReturnedIsIndexed == BulkSpec => []ReturnsWhenAllIndexed
  BY BulkInvReturns, BulkInvariant, PTL

\* No batch reaches the engine twice, also when sends fail.
THEOREM NeverSentTwice == BulkSpec => []SentAtMostOnce
<1>1. BulkInv => SentAtMostOnce
  BY DEF BulkInv, OnePlace, SentAtMostOnce
<1> QED
  BY <1>1, BulkInvariant, PTL

\* The types of the queue and of the threads; the queue keeps its bound.
THEOREM TypeCorrect == BulkSpec => []TypeOK
<1>1. BulkInv => TypeOK
  BY DEF BulkInv
<1> QED
  BY <1>1, BulkInvariant, PTL

-----------------------------------------------------------------------------
(***************************************************************************)
(* Without an error every pill that was put is in the queue or has ended   *)
(* one sender.  The pills are the last in the queue (PillsLast), so their  *)
(* number k there says which places they take.                             *)
(***************************************************************************)
Ended == {w \in Worker : at[w] = "done"}

PillsQueued(k) ==
  \A i \in 1..Len(queue) : queue[i] = Pill <=> i > Len(queue) - k

PillsCounted ==
  ~error => \E k \in 0..Len(queue) : PillsQueued(k) /\ pills = Cardinality(Ended) + k

LEMMA EndedType == IsFiniteSet(Ended) /\ Cardinality(Ended) \in Nat
<1>1. Ended \subseteq Worker
  BY DEF Ended
<1> QED
  BY <1>1, WorkerAssumption, FS_Subset, FS_CardinalityType

LEMMA InitCounted == BulkInit => PillsCounted
<1> SUFFICES ASSUME BulkInit PROVE PillsCounted
  OBVIOUS
<1>1. Len(queue) = 0 /\ pills = 0
  BY DEF BulkInit
<1>2. Ended = {} /\ Cardinality(Ended) = 0
 <2>1. Ended = {}
   BY DEF BulkInit, Ended
 <2> QED
   BY <2>1, FS_EmptySet
<1>3. PillsQueued(0) /\ 0 \in 0..Len(queue)
  BY <1>1 DEF PillsQueued
<1> QED
  BY <1>1, <1>2, <1>3 DEF PillsCounted

\* The steps that neither touch the queue nor, without an error, end a sender.
LEMMA OthersCount ==
  ASSUME PillsCounted, UNCHANGED <<queue, pills>>, ~error' => ~error /\ Ended' = Ended
  PROVE  PillsCounted'
<1> SUFFICES ASSUME ~error'
             PROVE  \E k \in 0..Len(queue) : PillsQueued(k)' /\ pills = Cardinality(Ended) + k
  BY DEF PillsCounted
<1>1. PICK k \in 0..Len(queue) : PillsQueued(k) /\ pills = Cardinality(Ended) + k
  BY DEF PillsCounted
<1>2. PillsQueued(k)'
  BY <1>1 DEF PillsQueued
<1> QED
  BY <1>1, <1>2

LEMMA PutsCount ==
  ASSUME BulkInv, PillsCounted, CallerPuts
  PROVE  PillsCounted'
<1> SUFFICES ASSUME ~error'
             PROVE  \E k \in 0..Len(queue') : PillsQueued(k)' /\ pills' = Cardinality(Ended') + k
  BY DEF PillsCounted
<1>1. /\ queue \in Seq(Batch \cup {Pill}) /\ caller = "put" /\ ~Queued(Pill)
      /\ next \in Batch /\ next # Pill /\ ~error
      /\ queue' = Append(queue, next) /\ UNCHANGED <<at, pills>>
  BY BatchesAssumption DEF BulkInv, TypeOK, Places, CallerPuts, Batch, Pill
<1>2. /\ Len(queue) \in Nat /\ Len(queue') = Len(queue) + 1
      /\ \A i \in 1..Len(queue) : queue'[i] = queue[i]
      /\ queue'[Len(queue) + 1] = next
  BY <1>1, AppendFacts
<1>3. PICK k \in 0..Len(queue) : PillsQueued(k) /\ pills = Cardinality(Ended) + k
  BY <1>1 DEF PillsCounted
<1>4. \A i \in 1..Len(queue) : queue[i] # Pill
  BY <1>1 DEF Queued
<1>5. k = 0
 <2>1. ASSUME k # 0 PROVE Len(queue) \in 1..Len(queue) /\ Len(queue) > Len(queue) - k
   BY <1>2, <1>3, <2>1
 <2> QED
   BY <1>3, <1>4, <2>1 DEF PillsQueued
<1>6. \A i \in 1..Len(queue') : queue'[i] # Pill
  BY <1>1, <1>2, <1>4
<1>7. PillsQueued(0)' /\ 0 \in 0..Len(queue')
  BY <1>2, <1>6 DEF PillsQueued
<1>8. Ended' = Ended
  BY <1>1 DEF Ended
<1> QED
  BY <1>1, <1>3, <1>5, <1>7, <1>8

LEMMA PutsPillCount ==
  ASSUME BulkInv, PillsCounted, CallerPutsPill
  PROVE  PillsCounted'
<1> SUFFICES ASSUME ~error'
             PROVE  \E k \in 0..Len(queue') : PillsQueued(k)' /\ pills' = Cardinality(Ended') + k
  BY DEF PillsCounted
<1>1. /\ queue \in Seq(Batch \cup {Pill}) /\ Pill \in Batch \cup {Pill} /\ ~error
      /\ queue' = Append(queue, Pill) /\ pills' = pills + 1 /\ UNCHANGED at
  BY DEF BulkInv, TypeOK, CallerPutsPill
<1>2. /\ Len(queue) \in Nat /\ Len(queue') = Len(queue) + 1
      /\ \A i \in 1..Len(queue) : queue'[i] = queue[i]
      /\ queue'[Len(queue) + 1] = Pill
  BY <1>1, AppendFacts
<1>3. PICK k \in 0..Len(queue) : PillsQueued(k) /\ pills = Cardinality(Ended) + k
  BY <1>1 DEF PillsCounted
<1>4. PillsQueued(k + 1)' /\ k + 1 \in 0..Len(queue')
 <2> SUFFICES ASSUME NEW i \in 1..Len(queue')
              PROVE  queue'[i] = Pill <=> i > Len(queue') - (k + 1)
   BY <1>2, <1>3 DEF PillsQueued
 <2>1. CASE i = Len(queue) + 1
   BY <1>2, <1>3, <2>1
 <2>2. CASE i # Len(queue) + 1
  <3>1. i \in 1..Len(queue) /\ queue'[i] = queue[i]
    BY <1>2, <2>2
  <3>2. queue[i] = Pill <=> i > Len(queue) - k
    BY <1>3, <3>1 DEF PillsQueued
  <3> QED
    BY <1>2, <1>3, <3>1, <3>2
 <2> QED
   BY <2>1, <2>2
<1>5. Ended' = Ended
  BY <1>1 DEF Ended
<1>6. pills' = Cardinality(Ended') + (k + 1)
 <2>1. Cardinality(Ended) \in Nat /\ k \in Nat /\ pills = Cardinality(Ended) + k
   BY <1>2, <1>3, EndedType
 <2> QED
   BY <1>1, <1>5, <2>1
<1> k + 1 \in 0..Len(queue')
  BY <1>4
<1> WITNESS k + 1 \in 0..Len(queue')
<1> QED
  BY <1>4, <1>6

LEMMA GetsCount ==
  ASSUME BulkInv, PillsCounted, NEW w \in Worker, WorkerGets(w)
  PROVE  PillsCounted'
<1> SUFFICES ASSUME ~error'
             PROVE  \E k \in 0..Len(queue') : PillsQueued(k)' /\ pills' = Cardinality(Ended') + k
  BY DEF PillsCounted
<1>1. /\ queue \in Seq(Batch \cup {Pill}) /\ queue # <<>> /\ ~error
      /\ queue' = Tail(queue) /\ pills' = pills
      /\ at \in [Worker -> {"loop", "get", "send", "done"}] /\ at[w] = "get"
      /\ at' = [at EXCEPT ![w] = IF Head(queue) = Pill THEN "done" ELSE "send"]
  BY DEF BulkInv, TypeOK, WorkerGets, Moves
<1>2. /\ Len(queue') = Len(queue) - 1 /\ Len(queue) \in Nat \ {0}
      /\ \A i \in 1..Len(queue) - 1 : queue'[i] = queue[i + 1]
      /\ Head(queue) = queue[1]
  BY <1>1, TailFacts
<1>3. PICK k \in 0..Len(queue) : PillsQueued(k) /\ pills = Cardinality(Ended) + k
  BY <1>1 DEF PillsCounted
<1>4. ASSUME NEW j \in 0..Len(queue'), j = k \/ (j = k - 1 /\ k = Len(queue))
      PROVE  PillsQueued(j)'
 <2> SUFFICES ASSUME NEW i \in 1..Len(queue')
              PROVE  queue'[i] = Pill <=> i > Len(queue') - j
   BY DEF PillsQueued
 <2>1. i + 1 \in 1..Len(queue) /\ queue'[i] = queue[i + 1]
   BY <1>2
 <2>2. queue[i + 1] = Pill <=> i + 1 > Len(queue) - k
   BY <1>3, <2>1 DEF PillsQueued
 <2> QED
   BY <1>2, <1>3, <1>4, <2>1, <2>2
<1>5. queue[1] = Pill <=> 1 > Len(queue) - k
  BY <1>2, <1>3 DEF PillsQueued
<1>6. CASE queue[1] = Pill
 <2>1. k = Len(queue) /\ k - 1 \in 0..Len(queue') /\ PillsQueued(k - 1)'
   BY <1>2, <1>3, <1>4, <1>5, <1>6
 <2>2. Ended' = Ended \cup {w} /\ w \notin Ended
   BY <1>1, <1>2, <1>6 DEF Ended
 <2>3. Cardinality(Ended') = Cardinality(Ended) + 1
   BY <2>2, EndedType, FS_AddElement
 <2>4. pills' = Cardinality(Ended') + (k - 1)
  <3>1. Cardinality(Ended) \in Nat /\ k \in Nat /\ pills = Cardinality(Ended) + k
    BY <1>2, <1>3, EndedType
  <3> QED
    BY <1>1, <2>3, <3>1
 <2> k - 1 \in 0..Len(queue')
   BY <2>1
 <2> WITNESS k - 1 \in 0..Len(queue')
 <2> QED
   BY <2>1, <2>4
<1>7. CASE queue[1] # Pill
 <2>1. k \in 0..Len(queue') /\ PillsQueued(k)'
   BY <1>2, <1>3, <1>4, <1>5, <1>7
 <2>2. Ended' = Ended
   BY <1>1, <1>2, <1>7 DEF Ended
 <2> QED
   BY <1>1, <1>3, <2>1, <2>2
<1> QED
  BY <1>6, <1>7

LEMMA NextCounted == BulkInv /\ PillsCounted /\ [BulkNext]_bulkVars => PillsCounted'
<1> SUFFICES ASSUME BulkInv, PillsCounted, [BulkNext]_bulkVars PROVE PillsCounted'
  OBVIOUS
<1>1. ASSUME UNCHANGED <<queue, pills, error, at>> PROVE PillsCounted'
  BY <1>1, OthersCount DEF Ended
<1>2. CASE CallerTakes \/ CallerStops \/ SourceFails \/ CallerJoins
  BY <1>1, <1>2 DEF CallerTakes, CallerStops, SourceFails, CallerJoins
<1>3. ASSUME NEW w \in Worker, WorkerLoops(w) \/ WorkerTimesOut(w) \/ WorkerSends(w) \/ WorkerFails(w)
      PROVE  PillsCounted'
 <2>1. /\ UNCHANGED <<queue, pills>> /\ at \in [Worker -> {"loop", "get", "send", "done"}]
       /\ at[w] # "done"
       /\ \/ error' = TRUE
          \/ error' = error /\ (~error => at' = [at EXCEPT ![w] = "get"] \/ at' = [at EXCEPT ![w] = "loop"])
   BY <1>3 DEF BulkInv, TypeOK, WorkerLoops, WorkerTimesOut, WorkerSends, WorkerFails, Moves
 <2>2. ~error' => ~error /\ Ended' = Ended
   BY <2>1 DEF Ended
 <2> QED
   BY <2>1, <2>2, OthersCount
<1>4. CASE UNCHANGED bulkVars
  BY <1>1, <1>4 DEF bulkVars
<1> QED
  BY <1>2, <1>3, <1>4, PutsCount, PutsPillCount, GetsCount DEF BulkNext, CallerStep, WorkerStep

LEMMA CountedStuck == BulkInv /\ PillsCounted => StuckOnlyAfterError
<1> SUFFICES ASSUME BulkInv, PillsCounted, Stuck, ~error PROVE FALSE
  BY DEF StuckOnlyAfterError
<1>1. PICK k \in 0..Len(queue) : pills = Cardinality(Ended) + k
  BY DEF PillsCounted
<1>2. Ended = Worker
  BY DEF Ended, Stuck
<1>3. pills < Cardinality(Worker)
  BY DEF Stuck, concurrency
<1>4. Len(queue) \in Nat
  BY DEF BulkInv, TypeOK
<1> QED
  BY <1>1, <1>2, <1>3, <1>4, EndedType

\* For any number of senders and batches: the caller waits for room in vain
\* only after a send has failed; without an error some sender is still there
\* to take what is put.
THEOREM StuckCorrect == BulkSpec => []StuckOnlyAfterError
<1>1. Safe => [](BulkInv /\ PillsCounted)
  BY InitBulkInv, NextBulkInv, InitCounted, NextCounted, PTL DEF Safe
<1>2. BulkSpec => Safe
  BY PTL DEF BulkSpec
<1> QED
  BY <1>1, <1>2, CountedStuck, PTL

-----------------------------------------------------------------------------
(***************************************************************************)
(* BulkIndex implements Delivery.  BulkInv says what each step needs: a batch *)
(* in a hand has not reached the engine, an error stands for a failed      *)
(* send, and nobody sends once the call has ended.                         *)
(***************************************************************************)
LEMMA InitImplements == BulkInit => Promise!Init
  BY DEF BulkInit, Promise!Init, trouble, outcome

LEMMA SendsImplements ==
  ASSUME BulkInv, NEW w \in Worker, WorkerSends(w) \/ WorkerFails(w)
  PROVE  Promise!Deliver \/ Promise!Fail
<1> DEFINE b0 == hand[w]
<1>1. /\ at[w] = "send" /\ UNCHANGED caller
      /\ b0 \in Batch /\ engine[b0] = 0 /\ engine \in [Batch -> Nat]
  BY DEF BulkInv, Places, OnePlace, TypeOK, WorkerSends, WorkerFails
<1>2. outcome = "open" /\ UNCHANGED outcome
  BY <1>1 DEF BulkInv, Places, outcome
<1>3. Received(w) => Promise!Reaches(b0)
  BY <1>1 DEF Received, Promise!Reaches
<1> HIDE DEF b0
<1>4. CASE WorkerSends(w)
 <2>1. Received(w) /\ UNCHANGED trouble
   BY <1>1, <1>4 DEF WorkerSends, trouble
 <2> QED
   BY <1>1, <1>2, <1>3, <2>1 DEF Promise!Deliver
<1>5. CASE WorkerFails(w)
 <2>1. (Received(w) \/ UNCHANGED engine) /\ trouble' = TRUE
   BY <1>5 DEF WorkerFails, trouble
 <2> QED
   BY <1>1, <1>2, <1>3, <2>1 DEF Promise!Fail
<1> QED
  BY <1>4, <1>5

LEMMA JoinsImplements ==
  ASSUME BulkInv, CallerJoins
  PROVE  Promise!Return \/ Promise!Raise
<1>1. /\ caller \in {"pills", "broken"} /\ UNCHANGED <<engine, failed>>
      /\ caller' = IF caller = "broken" \/ error THEN "raised" ELSE "returned"
      /\ failed # {} <=> error
  BY DEF BulkInv, Places, CallerJoins
<1>2. outcome = "open" /\ outcome' = caller'
  BY <1>1 DEF outcome
<1>3. CASE caller = "broken" \/ error
  BY <1>1, <1>2, <1>3 DEF Promise!Raise, trouble
<1>4. CASE ~(caller = "broken" \/ error)
 <2>1. BulkInv'
   BY CallerMoves
 <2>2. \A b \in Batch : engine[b] = 1
  <3>1. ReturnsWhenAllIndexed'
    BY <2>1, BulkInvReturns, PTL
  <3> QED
    BY <1>1, <1>4, <3>1 DEF ReturnsWhenAllIndexed, CallerJoins
 <2> QED
   BY <1>1, <1>2, <1>4, <2>2 DEF Promise!Return, trouble
<1> QED
  BY <1>3, <1>4

LEMMA NextImplements == BulkInv /\ [BulkNext]_bulkVars => [Promise!Next]_Promise!vars
<1> SUFFICES ASSUME BulkInv, [BulkNext]_bulkVars PROVE [Promise!Next]_Promise!vars
  OBVIOUS
<1>1. ASSUME NEW w \in Worker, WorkerSends(w) \/ WorkerFails(w)
      PROVE  Promise!Next
  BY <1>1, SendsImplements DEF Promise!Next
<1>2. ASSUME UNCHANGED <<engine, failed, caller>> PROVE UNCHANGED Promise!vars
  BY <1>2 DEF Promise!vars, trouble, outcome
<1>3. ASSUME NEW w \in Worker, WorkerLoops(w) \/ WorkerGets(w) \/ WorkerTimesOut(w)
      PROVE  UNCHANGED Promise!vars
  BY <1>2, <1>3 DEF WorkerLoops, WorkerGets, WorkerTimesOut
<1>4. CASE CallerTakes \/ CallerStops \/ CallerPuts \/ CallerPutsPill
 <2>1. UNCHANGED <<engine, failed>>
   BY <1>4 DEF CallerTakes, CallerStops, CallerPuts, CallerPutsPill
 <2>2. /\ caller \in {"next", "put", "pills"} /\ caller' \in {"next", "put", "pills"}
       \/ UNCHANGED caller
   BY <1>4 DEF CallerTakes, CallerStops, CallerPuts, CallerPutsPill
 <2> QED
   BY <2>1, <2>2 DEF Promise!vars, trouble, outcome
<1>5. CASE SourceFails
  BY <1>5 DEF SourceFails, Promise!Next, Promise!Fail, trouble, outcome
<1>6. CASE CallerJoins
  BY <1>6, JoinsImplements DEF Promise!Next
<1>7. CASE UNCHANGED bulkVars
  BY <1>2, <1>7 DEF bulkVars
<1> QED
  BY <1>1, <1>3, <1>4, <1>5, <1>6, <1>7 DEF BulkNext, CallerStep, WorkerStep

\* For any number of senders and batches and any failures, the threads, the
\* queue and the pills of bulk_index() keep what Delivery promises the caller.
THEOREM ImplementsPromise == BulkSpec => Delivers
<1>1. Safe => []BulkInv
  BY InitBulkInv, NextBulkInv, PTL DEF Safe
<1>2. BulkSpec => Safe
  BY PTL DEF BulkSpec
<1> QED
  BY <1>1, <1>2, InitImplements, NextImplements, PTL DEF Safe, Delivers, Promise!Spec
=============================================================================
