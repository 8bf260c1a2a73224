------------------------- MODULE SiteRequestsProofs --------------------------
(* What a site shows its visitors, proved for every set of clients, every      *)
(* deployment and every number of calls and faults: the rows of a query        *)
(* (RowsRight), the cached rules and texts (FilesFresh), the cached tenants    *)
(* (TenantsFresh) and the counts of 404s (HitsExact).                          *)
(*                                                                             *)
(* The properties speak of states at rest; the invariants that imply them say  *)
(* what the calls under way still owe. They rest on the order of the steps of  *)
(* each call, which is stated for any two neighbours so that it holds of every *)
(* rest of a list of steps.                                                    *)
EXTENDS SiteRequests, FiniteSetTheorems, SequenceTheorems, TLAPS

(* ------------------------------- one call ---------------------------------- *)

LogRow == [pk : Nat, hits : Nat, refs : Nat, old : BOOLEAN]

CallShape(r) ==
  /\ DOMAIN r = DOMAIN NoCall
  /\ DOMAIN r.ses = DOMAIN NewSession /\ r.ses.open \in BOOLEAN
  /\ r.tenant \in Owner /\ r.proc \in Process
  /\ r.row \in LogRow /\ r.before \in LogRow
  /\ r.due \in BOOLEAN /\ r.counted \in BOOLEAN

Ends == {"end_view", "leave", "close"}
PlainName == {"look_up", "get_tenant", "keep_tenant", "enter", "get", "read", "set", "view", "using", "task",
              "using_end", "task_end", "query", "not_found", "open", "erase_rows", "erase_tenant", "delete_log"}
StepName ==
  PlainName \cup Ends \cup {"write", "draft", "publish", "move", "delete", "switch", "forget",
                            "log_get", "log_update", "log_refresh", "log_referrers", "log_create"}
StepArg == File \cup Tenant \cup {""}

(* Nothing is read after the end of a view, of a task's transaction or of the  *)
(* middleware.                                                                 *)
QueriesFirst(s) == \A i, j \in DOMAIN s : i < j /\ s[i][1] \in Ends => s[j][1] # "query"

(* A change of a rule or a text that leaves its entry alone is followed by the *)
(* deletion of that entry.                                                     *)
Uncovered(op, step) == step[1] = "write" \/ (op = "move" /\ step[1] = "move") \/ (op = "set" /\ step[1] = "publish")
DeletesNext(op, s) ==
  \A i \in DOMAIN s : Uncovered(op, s[i]) => i + 1 \in DOMAIN s /\ s[i + 1] = <<"delete", s[i][2]>>

ForgetsNext(s) == \A i, j \in DOMAIN s : i < j /\ s[i][1] = "switch" /\ s[j][1] = "forget" => j = i + 1

(* A 404 is counted by one line of steps, which starts with a count that is    *)
(* owed and ends with the end of the middleware.                               *)
Precedes(s, i, name) == i + 1 \in DOMAIN s /\ s[i + 1][1] = name
LogsInOrder(s) ==
  \A i \in DOMAIN s :
    /\ s[i][1] \in {"log_create", "log_update"} => i = 1
    /\ s[i][1] = "log_refresh" => i = 1 \/ (i > 1 /\ s[i - 1][1] = "log_update")
    /\ s[i][1] \in {"log_get", "log_create", "log_referrers"} => Precedes(s, i, "leave")
    /\ s[i][1] = "log_update" => Precedes(s, i, "log_refresh")
    /\ s[i][1] = "log_refresh" => Precedes(s, i, "log_referrers")

StepsRight(op, s) ==
  /\ s \in Seq(StepName \X StepArg)
  /\ QueriesFirst(s) /\ DeletesNext(op, s) /\ ForgetsNext(s) /\ LogsInOrder(s)

(* While a query is ahead the tenant of the context is the one that is meant,  *)
(* and so is that of the session variable, unless a cause is known. What the   *)
(* last query has returned is right.                                           *)
QueryAhead(s) == \E i \in DOMAIN s : s[i][1] = "query"
ContextRight(r) ==
  QueryAhead(r.todo) =>
    /\ r.scope = r.ses.tenant
    /\ r.scope # NoTenant /\ r.cause = {} => r.ses.variable = r.scope
AnswerRight(r) ==
  /\ r.seen \subseteq r.real
  /\ r.seen # r.real => (dep.rls \/ dep.strict) /\ r.why # {}

(* A 404 is due until it is counted and the transaction has ended.             *)
First(r) == IF r.todo = <<>> THEN "none" ELSE r.todo[1][1]
Owes(r) == r.due /\ ~r.counted
CountRight(r) ==
  /\ r.counted => r.due
  /\ r.due => First(r) \in {"log_create", "log_update", "log_refresh", "log_referrers", "leave"}
  /\ Owes(r) => First(r) \in {"log_create", "log_update", "log_refresh"}
  /\ First(r) \in {"log_create", "log_update"} => Owes(r)

CallRight(r) ==
  /\ CallShape(r) /\ StepsRight(r.op, r.todo) /\ ContextRight(r) /\ AnswerRight(r) /\ CountRight(r)

(* ------------------------------ the invariant ------------------------------ *)

Shape ==
  /\ dep \in Deployment
  /\ DOMAIN content = Key
  /\ DOMAIN cache = Key /\ \A k \in Key : DOMAIN cache[k] = DOMAIN NoEntry
  /\ DOMAIN known = Process
  /\ \A p \in Process : DOMAIN known[p] = Tenant /\ \A t \in Tenant : DOMAIN known[p][t] = DOMAIN Unknown
  /\ DOMAIN status = Tenant
  /\ log \in [Owner -> LogRow] /\ due \in [Owner -> Int] /\ lost \in [Owner -> Int]
  /\ DOMAIN call = Client

(* An entry that is outdated without a cause is about to be deleted.           *)
Deleting(k) == \E c \in Client : Step(c) = "delete" /\ MyKey(c) = k
FilesFollow ==
  \A k \in Key : cache[k].there => cache[k].ver = content[k] \/ cache[k].why # {} \/ Deleting(k)

Forgetting(p, t) == \E c \in Client : Step(c) = "forget" /\ call[c].proc = p /\ call[c].tenant = t
TenantsFollow ==
  \A p \in Process, t \in Tenant :
    known[p][t].there => known[p][t].status = status[t] \/ known[p][t].why # {} \/ Forgetting(p, t)

(* The row of a path is locked by one transaction, which knows the row as it   *)
(* was before.                                                                 *)
LocksOnce ==
  \A c, d \in Client : call[c].counted /\ call[d].counted /\ call[c].tenant = call[d].tenant => c = d
Grown(row, before) ==
  /\ row.hits = before.hits + 1
  /\ row.pk = IF before.hits = 0 THEN before.pk + 1 ELSE before.pk
LocksRight == \A c \in Client : call[c].counted => Grown(log[call[c].tenant], call[c].before)

(* A call whose update has found its row still finds it, and one that has not  *)
(* does not find it later, also when another transaction is undone.            *)
Missing(r, row) == row.hits = 0 \/ row.pk # r.row.pk
Remembers(r, row) ==
  /\ r.row.pk <= row.pk
  /\ First(r) = "log_refresh" => IF Owes(r) THEN Missing(r, row) ELSE ~Missing(r, row) /\ ~row.old
RowsRemembered ==
  \A c \in Client : First(call[c]) \in {"log_update", "log_refresh"} =>
    /\ Remembers(call[c], log[call[c].tenant])
    /\ \A d \in Client \ {c} :
         call[d].counted /\ call[d].tenant = call[c].tenant => Remembers(call[c], call[d].before)

(* The hits of a path, those that are lost and those that are still owed.      *)
Owing(t) == {c \in Client : call[c].tenant = t /\ Owes(call[c])}
Balance == \A t \in Owner : log[t].hits + lost[t] + Cardinality(Owing(t)) = due[t]

\* A call that has no step left is over.
Landing(r) == IF r.todo = <<>> THEN Finished(r) ELSE r

CallsRight == \A c \in Client : CallRight(call[c])
LogsRight == LocksOnce /\ LocksRight /\ RowsRemembered /\ Balance
IInv == Shape /\ CallsRight /\ FilesFollow /\ TenantsFollow /\ LogsRight

(* ------------------------------ lists of steps ------------------------------ *)

\* The rest of a sequence from one of its places on.
LEMMA RestOfSeq ==
  ASSUME NEW S, NEW s \in Seq(S), NEW m \in 1..Len(s) + 1
  PROVE  /\ SubSeq(s, m, Len(s)) \in Seq(S)
         /\ Len(SubSeq(s, m, Len(s))) = Len(s) - m + 1
         /\ \A i \in 1..(Len(s) - m + 1) : SubSeq(s, m, Len(s))[i] = s[m + i - 1]
OBVIOUS

(* What is left of a list after its first n steps keeps every local property.  *)
IsRest(op, s, n, t) ==
  /\ StepsRight(op, t) /\ Len(t) = Len(s) - n
  /\ \A i \in 1..(Len(s) - n) : t[i] = s[n + i]
  /\ QueryAhead(t) => QueryAhead(s)
  /\ 0 < n /\ n < Len(s) /\ s[1][1] # "log_update" =>
       s[n + 1][1] \notin {"log_create", "log_update", "log_refresh"}

\* A rest of a list of steps.
LEMMA RestOfSteps ==
  ASSUME NEW op, NEW s, StepsRight(op, s), NEW n \in 0..Len(s)
  PROVE  IsRest(op, s, n, SubSeq(s, n + 1, Len(s)))
<1> DEFINE t == SubSeq(s, n + 1, Len(s))
<1>1. s \in Seq(StepName \X StepArg) /\ Len(s) \in Nat /\ DOMAIN s = 1..Len(s)
  BY DEF StepsRight
<1>2. /\ t \in Seq(StepName \X StepArg) /\ Len(t) = Len(s) - n /\ DOMAIN t = 1..(Len(s) - n)
      /\ \A i \in DOMAIN t : t[i] = s[n + i] /\ n + i \in DOMAIN s
 <2>1. n + 1 \in 1..Len(s) + 1
   BY <1>1
 <2>2. /\ t \in Seq(StepName \X StepArg)
       /\ Len(t) = Len(s) - (n + 1) + 1
       /\ \A i \in 1..(Len(s) - (n + 1) + 1) : t[i] = s[(n + 1) + i - 1]
   BY <1>1, <2>1, RestOfSeq
 <2> HIDE DEF t
 <2>3. Len(t) = Len(s) - n /\ DOMAIN t = 1..(Len(s) - n)
   BY <1>1, <2>2
 <2>4. ASSUME NEW i \in DOMAIN t PROVE t[i] = s[n + i] /\ n + i \in DOMAIN s
  <3>1. i \in 1..(Len(s) - (n + 1) + 1) /\ (n + 1) + i - 1 = n + i /\ n + i \in 1..Len(s)
    BY <1>1, <2>3
  <3> QED
    BY <1>1, <2>2, <3>1
 <2> QED
   BY <2>2, <2>3, <2>4 DEF t
<1> HIDE DEF t
<1>3. QueriesFirst(t)
 <2> SUFFICES ASSUME NEW i \in DOMAIN t, NEW j \in DOMAIN t, i < j, t[i][1] \in Ends
              PROVE  t[j][1] # "query"
   BY DEF QueriesFirst
 <2> QED
   BY <1>1, <1>2 DEF StepsRight, QueriesFirst
<1>4. DeletesNext(op, t)
 <2> SUFFICES ASSUME NEW i \in DOMAIN t, Uncovered(op, t[i])
              PROVE  i + 1 \in DOMAIN t /\ t[i + 1] = <<"delete", t[i][2]>>
   BY DEF DeletesNext
 <2>1. (n + i) + 1 \in DOMAIN s /\ s[(n + i) + 1] = <<"delete", t[i][2]>>
   BY <1>2 DEF StepsRight, DeletesNext
 <2>2. i + 1 \in DOMAIN t /\ (n + i) + 1 = n + (i + 1)
   BY <2>1, <1>1, <1>2
 <2> QED
   BY <2>1, <2>2, <1>2
<1>5. ForgetsNext(t)
 <2> SUFFICES ASSUME NEW i \in DOMAIN t, NEW j \in DOMAIN t,
                     i < j, t[i][1] = "switch", t[j][1] = "forget"
              PROVE  j = i + 1
   BY DEF ForgetsNext
 <2> QED
   BY <1>1, <1>2 DEF StepsRight, ForgetsNext
<1>7. LogsInOrder(t)
 <2> SUFFICES ASSUME NEW i \in DOMAIN t
              PROVE /\ t[i][1] \in {"log_create", "log_update"} => i = 1
                    /\ t[i][1] = "log_refresh" => i = 1 \/ (i > 1 /\ t[i - 1][1] = "log_update")
                    /\ t[i][1] \in {"log_get", "log_create", "log_referrers"} => Precedes(t, i, "leave")
                    /\ t[i][1] = "log_update" => Precedes(t, i, "log_refresh")
                    /\ t[i][1] = "log_refresh" => Precedes(t, i, "log_referrers")
   BY DEF LogsInOrder
 <2>1. \A name : Precedes(s, n + i, name) => Precedes(t, i, name)
  <3> SUFFICES ASSUME NEW name, Precedes(s, n + i, name) PROVE Precedes(t, i, name)
    OBVIOUS
  <3>1. (n + i) + 1 \in DOMAIN s /\ s[(n + i) + 1][1] = name
    BY DEF Precedes
  <3>2. i + 1 \in DOMAIN t /\ (n + i) + 1 = n + (i + 1)
    BY <3>1, <1>1, <1>2
  <3> QED
    BY <3>1, <3>2, <1>2 DEF Precedes
 <2>2. t[i] = s[n + i] /\ n + i \in DOMAIN s /\ LogsInOrder(s)
   BY <1>2 DEF StepsRight
 <2>3. i > 1 => i - 1 \in DOMAIN t /\ t[i - 1] = s[(n + i) - 1]
  <3> SUFFICES ASSUME i > 1 PROVE i - 1 \in DOMAIN t /\ t[i - 1] = s[(n + i) - 1]
    OBVIOUS
  <3>1. i - 1 \in DOMAIN t /\ n + (i - 1) = (n + i) - 1
    BY <1>1, <1>2
  <3> QED
    BY <3>1, <1>2
 <2>4. t[i][1] \in {"log_create", "log_update"} => i = 1
  <3>1. s[n + i][1] \in {"log_create", "log_update"} => n + i = 1
    BY <2>2 DEF LogsInOrder
  <3>2. n \in Nat /\ i \in Nat /\ i >= 1
    BY <1>1, <1>2
  <3> QED
    BY <2>2, <3>1, <3>2
 <2>5. t[i][1] = "log_refresh" => i = 1 \/ (i > 1 /\ t[i - 1][1] = "log_update")
   BY <2>2, <2>3, <1>1, <1>2 DEF LogsInOrder
 <2> QED
   BY <2>1, <2>2, <2>4, <2>5 DEF LogsInOrder
<1>8. QueryAhead(t) => QueryAhead(s)
  BY <1>2 DEF QueryAhead
<1>9. ASSUME 0 < n, n < Len(s), s[1][1] # "log_update"
      PROVE  s[n + 1][1] \notin {"log_create", "log_update", "log_refresh"}
 <2>1. n + 1 \in DOMAIN s /\ n + 1 # 1 /\ (n + 1) - 1 = n /\ n \in DOMAIN s /\ LogsInOrder(s)
   BY <1>1, <1>9 DEF StepsRight
 <2>2. s[n + 1][1] = "log_refresh" => s[n][1] = "log_update"
   BY <2>1 DEF LogsInOrder
 <2>3. s[n][1] = "log_update" => n = 1
   BY <2>1 DEF LogsInOrder
 <2> QED
   BY <2>1, <2>2, <2>3, <1>9 DEF LogsInOrder
<1> QED
  BY <1>2, <1>3, <1>4, <1>5, <1>7, <1>8, <1>9 DEF StepsRight, IsRest, t

\* A step is taken from a list that is not empty.
LEMMA TailOfSteps ==
  ASSUME NEW op, NEW s, StepsRight(op, s), s # <<>>
  PROVE  /\ StepsRight(op, Tail(s))
         /\ Len(s) > 0 /\ Len(Tail(s)) = Len(s) - 1 /\ Head(s) = s[1]
         /\ \A i \in 1..(Len(s) - 1) : Tail(s)[i] = s[1 + i]
         /\ QueryAhead(Tail(s)) => QueryAhead(s)
<1>1. s \in Seq(StepName \X StepArg) /\ Len(s) \in Nat /\ Len(s) # 0
  BY DEF StepsRight
<1>2. Tail(s) = SubSeq(s, 2, Len(s))
  BY <1>1, TailIsSubSeq, Zenon
<1>3. 1 \in 0..Len(s) /\ Head(s) = s[1] /\ 1 + 1 = 2
  BY <1>1
<1>4. Tail(s) = SubSeq(s, 1 + 1, Len(s))
  BY <1>2, <1>3
<1>5. IsRest(op, s, 1, Tail(s))
  BY <1>3, <1>4, RestOfSteps
<1>6. Len(s) > 0
  BY <1>1
<1> QED
  BY <1>3, <1>5, <1>6 DEF IsRest

(* The steps of which a call may be composed freely, and those that end it.    *)
PlainStep == PlainName \X StepArg
EndStep == Ends \X StepArg

LEMMA PlainSteps ==
  ASSUME NEW op, NEW s \in Seq(PlainStep), NEW e \in Seq(EndStep)
  PROVE  StepsRight(op, s \o e)
<1> DEFINE w == s \o e
<1>0. PlainStep \subseteq StepName \X StepArg /\ EndStep \subseteq StepName \X StepArg
  BY DEF PlainStep, EndStep, StepName, StepArg
<1>10. s \in Seq(StepName \X StepArg) /\ e \in Seq(StepName \X StepArg)
  BY <1>0
<1>1. /\ w \in Seq(StepName \X StepArg) /\ DOMAIN w = 1..(Len(s) + Len(e))
      /\ Len(s) \in Nat /\ Len(e) \in Nat
      /\ \A i \in 1..Len(s) : w[i] = s[i]
      /\ \A i \in Len(s) + 1..Len(s) + Len(e) : w[i] = e[i - Len(s)] /\ i - Len(s) \in 1..Len(e)
  BY <1>10
<1>2. \A i \in 1..Len(s) : w[i] \in PlainStep
  BY <1>1
<1>3. \A i \in DOMAIN w : i > Len(s) => w[i] \in EndStep
  BY <1>1
<1> HIDE DEF w
<1>4. \A i \in DOMAIN w : w[i] \in PlainStep \cup EndStep
  BY <1>1, <1>2, <1>3
<1>5. QueriesFirst(w)
 <2> SUFFICES ASSUME NEW i \in DOMAIN w, NEW j \in DOMAIN w, i < j, w[i][1] \in Ends
              PROVE  w[j][1] # "query"
   BY DEF QueriesFirst
 <2>1. i > Len(s)
  <3>1. w[i] \notin PlainStep
    BY DEF PlainStep, PlainName, Ends
  <3> QED
    BY <3>1, <1>1, <1>2
 <2>2. w[j] \in EndStep
   BY <2>1, <1>1, <1>3
 <2> QED
   BY <2>2 DEF EndStep, Ends
<1>6. DeletesNext(op, w) /\ ForgetsNext(w) /\ LogsInOrder(w)
  BY <1>4 DEF PlainStep, PlainName, EndStep, Ends, Tenant, DeletesNext, Uncovered, ForgetsNext, LogsInOrder
<1> QED
  BY <1>1, <1>5, <1>6 DEF StepsRight, w

(* -------------------------------- one step --------------------------------- *)

\* What a call that is over leaves behind.
LEMMA LandingRight ==
  ASSUME NEW r, CallRight(r)
  PROVE  /\ CallRight(Landing(r))
         /\ Landing(r).todo = r.todo
         /\ r.todo # <<>> => Landing(r) = r
         /\ Landing(r).due = r.due /\ Landing(r).counted = r.counted
<1>1. CASE r.todo # <<>>
  BY <1>1 DEF Landing
<1>2. CASE r.todo = <<>>
 <2> DEFINE f == Finished(r)
 <2>1. /\ DOMAIN f = DOMAIN NoCall
       /\ f.op = "none" /\ f.todo = <<>> /\ f.proc = "p1" /\ f.tenant = NoTenant /\ f.ses = NewSession
       /\ f.row = NoRow /\ f.before = NoRow /\ f.due = FALSE /\ f.counted = FALSE
       /\ f.seen = r.seen /\ f.real = r.real /\ f.why = r.why
   BY DEF Finished, NoCall
 <2>2. f = Landing(r)
   BY <1>2 DEF Landing
 <2>3. ~r.due /\ ~r.counted /\ r.due \in BOOLEAN /\ r.counted \in BOOLEAN
   BY <1>2 DEF CallRight, CountRight, First, CallShape
 <2> HIDE DEF f
 <2>4. CallShape(f)
  <3>1. NoRow \in LogRow /\ NewSession.open = FALSE /\ NoTenant \in Owner /\ "p1" \in Process
    BY DEF NoRow, LogRow, NewSession, Owner, Process
  <3> QED
    BY <2>1, <3>1 DEF CallShape
 <2>5. StepsRight(f.op, f.todo) /\ ContextRight(f) /\ CountRight(f)
   BY <2>1 DEF StepsRight, QueriesFirst, DeletesNext, ForgetsNext, LogsInOrder, ContextRight,
               QueryAhead, CountRight, Owes, First
 <2>6. AnswerRight(f)
   BY <2>1 DEF CallRight, AnswerRight
 <2> QED
   BY <1>2, <2>1, <2>2, <2>3, <2>4, <2>5, <2>6 DEF CallRight
<1> QED
  BY <1>1, <1>2

\* A step of one call: the others stay as they are, and it is right if what it
\* becomes is right.
LEMMA CallStep ==
  ASSUME Shape, CallsRight, NEW c \in Client, NEW r, CallRight(r), Becomes(c, r), UNCHANGED dep
  PROVE  /\ DOMAIN call' = Client
         /\ call'[c] = Landing(r) /\ \A d \in Client : d # c => call'[d] = call[d]
         /\ CallsRight'
<1>1. call' = [call EXCEPT ![c] = Landing(r)] /\ DOMAIN call = Client
  BY DEF Becomes, Landing, Shape
<1>2. /\ DOMAIN call' = Client
      /\ call'[c] = Landing(r) /\ \A d \in Client : d # c => call'[d] = call[d]
  BY <1>1
<1>3. \A d \in Client : CallRight(call'[d])
  BY <1>2, LandingRight DEF CallsRight
<1>4. ASSUME NEW d \in Client PROVE CallRight(call[d])'
 <2>1. CallRight(call'[d])
   BY <1>3
 <2> QED
   BY <2>1 DEF CallRight, AnswerRight
<1> QED
  BY <1>2, <1>4 DEF CallsRight

\* The step of a call, and what it is about.
LEMMA StepFirst ==
  ASSUME CallsRight, NEW c \in Client
  PROVE  /\ CallRight(call[c]) /\ Step(c) = First(call[c])
         /\ ~Idle(c) => Arg(c) = call[c].todo[1][2] /\ call[c].todo[1] = <<Step(c), Arg(c)>>
         /\ Step(c) # "none" => ~Idle(c)
<1>1. CallRight(call[c]) /\ call[c].todo \in Seq(StepName \X StepArg)
  BY DEF CallsRight, CallRight, StepsRight
<1>2. CASE call[c].todo = <<>>
  BY <1>1, <1>2 DEF Step, First, Idle
<1>3. CASE call[c].todo # <<>>
 <2>1. Head(call[c].todo) = call[c].todo[1] /\ call[c].todo[1] \in StepName \X StepArg
   BY <1>1, <1>3
 <2> QED
   BY <1>1, <1>3, <2>1 DEF Step, First, Idle, Arg
<1> QED
  BY <1>2, <1>3

(* A call that is not recording a 404.                                         *)
Calm(r) == CallRight(r) /\ ~r.due /\ First(r) \notin {"log_create", "log_update", "log_refresh"}

LEMMA CalmStep ==
  ASSUME CallsRight, NEW c \in Client,
         Step(c) \notin {"log_create", "log_update", "log_refresh", "log_referrers", "leave"}
  PROVE  Calm(call[c])
BY StepFirst DEF Calm, CallRight, CountRight

(* The same call, but for its steps.                                           *)
SameButSteps(q, r) ==
  /\ DOMAIN q = DOMAIN NoCall /\ q.op = r.op /\ q.proc = r.proc /\ q.tenant = r.tenant
  /\ q.scope = r.scope /\ q.ses = r.ses /\ q.copy = r.copy /\ q.ver = r.ver /\ q.row = r.row
  /\ q.before = r.before /\ q.due = r.due /\ q.counted = r.counted /\ q.seen = r.seen /\ q.real = r.real
  /\ q.cause = r.cause /\ q.why = r.why

\* A call with other steps.
LEMMA StepsChanged ==
  ASSUME NEW r, DOMAIN r = DOMAIN NoCall, NEW todo
  PROVE  SameButSteps([r EXCEPT !.todo = todo], r) /\ [r EXCEPT !.todo = todo].todo = todo
BY DEF SameButSteps, NoCall

LEMMA CalmSteps ==
  ASSUME NEW r, Calm(r), NEW q, SameButSteps(q, r), StepsRight(r.op, q.todo), QueryAhead(q.todo) => QueryAhead(r.todo),
         First(q) \notin {"log_create", "log_update", "log_refresh"}
  PROVE  Calm(q)
<1>1. CallShape(q) /\ AnswerRight(q) /\ ContextRight(q)
  BY DEF SameButSteps, Calm, CallRight, CallShape, AnswerRight, ContextRight
<1>2. CountRight(q) /\ ~q.due
  BY DEF SameButSteps, Calm, CallRight, CountRight, Owes
<1> QED
  BY <1>1, <1>2 DEF SameButSteps, Calm, CallRight

\* A call that has made n of its steps.
LEMMA CalmAfter ==
  ASSUME NEW r, Calm(r), NEW n \in Nat, n > 0, r.todo # <<>>
  PROVE  /\ Calm(After(r, n)) /\ SameButSteps(After(r, n), r)
         /\ n < Len(r.todo) => Len(After(r, n).todo) = Len(r.todo) - n /\ After(r, n).todo[1] = r.todo[n + 1]
<1> DEFINE s == r.todo  t == SubSeq(s, n + 1, Len(s))  q == After(r, n)
<1>1. /\ DOMAIN r = DOMAIN NoCall /\ StepsRight(r.op, s) /\ s \in Seq(StepName \X StepArg) /\ Len(s) \in Nat
      /\ s[1][1] # "log_update"
  BY DEF Calm, CallRight, CallShape, First, StepsRight
<1>2. q = [r EXCEPT !.todo = t]
  BY DEF After
<1> HIDE DEF s, t, q
<1>3. SameButSteps(q, r) /\ q.todo = t
  BY <1>1, <1>2, StepsChanged
<1>4. CASE n >= Len(s)
 <2>1. t = <<>>
  <3>1. n + 1 \in Int /\ Len(s) \in Int /\ Len(s) < n + 1
    BY <1>1, <1>4
  <3> QED
    BY <3>1, SubSeqEmpty DEF t
 <2>2. StepsRight(r.op, t) /\ ~QueryAhead(t) /\ First(q) = "none"
   BY <1>3, <2>1 DEF StepsRight, QueriesFirst, DeletesNext, ForgetsNext, LogsInOrder, QueryAhead, First
 <2>3. Calm(q)
   BY <1>3, <2>2, CalmSteps
 <2> QED
   BY <1>1, <1>3, <1>4, <2>3 DEF q, s
<1>5. CASE n < Len(s)
 <2>1. n \in 0..Len(s)
   BY <1>1, <1>5
 <2>2. IsRest(r.op, s, n, t)
   BY <1>1, <2>1, RestOfSteps DEF t
 <2>3. /\ StepsRight(r.op, t) /\ Len(t) = Len(s) - n /\ t[1] = s[n + 1]
       /\ QueryAhead(t) => QueryAhead(s)
       /\ s[n + 1][1] \notin {"log_create", "log_update", "log_refresh"}
  <3>1. 1 \in 1..(Len(s) - n)
    BY <1>1, <1>5
  <3> QED
    BY <1>1, <1>5, <2>2, <3>1 DEF IsRest
 <2>4. First(q) \notin {"log_create", "log_update", "log_refresh"}
   BY <1>3, <2>3 DEF First
 <2>5. Calm(q)
   BY <1>3, <2>3, <2>4, CalmSteps DEF s
 <2> QED
   BY <1>3, <2>3, <2>5 DEF q, s
<1> QED
  BY <1>1, <1>4, <1>5

\* A call that has made its first step.
LEMMA CalmPop ==
  ASSUME NEW r, Calm(r), r.todo # <<>>
  PROVE  Pop(r) = After(r, 1) /\ Calm(Pop(r)) /\ SameButSteps(Pop(r), r)
<1>1. r.todo \in Seq(StepName \X StepArg)
  BY DEF Calm, CallRight, StepsRight
<1>2. Tail(r.todo) = SubSeq(r.todo, 2, Len(r.todo))
  BY <1>1, TailIsSubSeq, Zenon
<1>3. 1 \in Nat /\ 1 > 0 /\ 1 + 1 = 2
  OBVIOUS
<1>4. Pop(r) = After(r, 1)
  BY <1>2, <1>3 DEF Pop, After
<1> QED
  BY <1>3, <1>4, CalmAfter

(* What a step of one call leaves alone.                                       *)
Alone(c) == \A d \in Client : d # c => call'[d] = call[d]

LEMMA FilesKept ==
  ASSUME FilesFollow, NEW c \in Client, Step(c) # "delete", Alone(c), UNCHANGED <<content, cache>>
  PROVE  FilesFollow'
<1> SUFFICES ASSUME NEW k \in Key, cache[k].there, cache[k].ver # content[k], cache[k].why = {}
             PROVE  Deleting(k)'
  BY DEF FilesFollow
<1>1. PICK d \in Client : Step(d) = "delete" /\ MyKey(d) = k
  BY DEF FilesFollow, Deleting
<1>2. call'[d] = call[d]
  BY <1>1 DEF Alone
<1>3. (Step(d) = "delete" /\ MyKey(d) = k)'
  BY <1>1, <1>2 DEF Step, Idle, MyKey, Arg
<1> QED
  BY <1>3 DEF Deleting

LEMMA TenantsKept ==
  ASSUME TenantsFollow, NEW c \in Client, Step(c) # "forget", Alone(c), UNCHANGED <<status, known>>
  PROVE  TenantsFollow'
<1> SUFFICES ASSUME NEW p \in Process, NEW t \in Tenant,
                    known[p][t].there, known[p][t].status # status[t], known[p][t].why = {}
             PROVE  Forgetting(p, t)'
  BY DEF TenantsFollow
<1>1. PICK d \in Client : Step(d) = "forget" /\ call[d].proc = p /\ call[d].tenant = t
  BY DEF TenantsFollow, Forgetting
<1>2. call'[d] = call[d]
  BY <1>1 DEF Alone
<1>3. (Step(d) = "forget" /\ call[d].proc = p /\ call[d].tenant = t)'
  BY <1>1, <1>2 DEF Step, Idle
<1> QED
  BY <1>3 DEF Forgetting

\* A call that owes nothing and is no longer recording keeps the counts right.
LEMMA LogsReleased ==
  ASSUME LogsRight, CallsRight, NEW c \in Client, ~Owes(call[c]), Calm(call'[c]), Alone(c), UNCHANGED <<log, due, lost>>
  PROVE  LogsRight'
<1>1. ~call'[c].due /\ ~call'[c].counted /\ First(call'[c]) \notin {"log_create", "log_update", "log_refresh"}
  BY DEF Calm, CallRight, CountRight
<1>2. \A d \in Client : (call'[d].counted => call'[d] = call[d]) /\ (Owes(call'[d]) => call'[d] = call[d])
                        /\ (Owes(call[d]) => call'[d] = call[d])
  BY <1>1 DEF Alone, Owes
<1>3. LocksOnce'
  BY <1>2 DEF LogsRight, LocksOnce
<1>4. LocksRight'
  BY <1>2 DEF LogsRight, LocksRight
<1>5. RowsRemembered'
 <2> SUFFICES ASSUME NEW d \in Client, First(call'[d]) \in {"log_update", "log_refresh"}
              PROVE  /\ Remembers(call'[d], log[call'[d].tenant])
                     /\ \A e \in Client \ {d} :
                          call'[e].counted /\ call'[e].tenant = call'[d].tenant => Remembers(call'[d], call'[e].before)
   BY DEF RowsRemembered
 <2>1. call'[d] = call[d]
   BY <1>1 DEF Alone
 <2> QED
   BY <1>2, <2>1 DEF LogsRight, RowsRemembered
<1>6. Balance'
 <2> SUFFICES ASSUME NEW t \in Owner PROVE Owing(t)' = Owing(t)
   BY DEF LogsRight, Balance
 <2>1. \A d \in Client : (call'[d].tenant = t /\ Owes(call'[d])) <=> (call[d].tenant = t /\ Owes(call[d]))
   BY <1>2
 <2> QED
   BY <2>1 DEF Owing
<1> QED
  BY <1>3, <1>4, <1>5, <1>6 DEF LogsRight

LEMMA LogsKept ==
  ASSUME LogsRight, CallsRight, NEW c \in Client, Calm(call[c]), Calm(call'[c]), Alone(c), UNCHANGED <<log, due, lost>>
  PROVE  LogsRight'
BY LogsReleased DEF Calm, Owes

LEMMA ReleaseStep ==
  ASSUME IInv, NEW c \in Client, NEW r, ~Owes(call[c]), Calm(r), Becomes(c, r),
         Step(c) \notin {"delete", "forget"},
         UNCHANGED <<dep, status, known, site, logs>>
  PROVE  IInv'
<1>1. Shape /\ CallsRight /\ FilesFollow /\ TenantsFollow /\ LogsRight /\ CallRight(r)
  BY DEF IInv, Calm
<1>2. DOMAIN call' = Client /\ call'[c] = Landing(r) /\ Alone(c) /\ CallsRight'
  BY <1>1, CallStep DEF Alone
<1>3. Calm(call'[c])
  BY <1>1, <1>2, LandingRight DEF Calm, First
<1>4. Shape'
  BY <1>1, <1>2 DEF Shape, site, logs
<1>5. FilesFollow' /\ TenantsFollow' /\ LogsRight'
  BY <1>1, <1>2, <1>3, FilesKept, TenantsKept, LogsReleased DEF site, logs
<1> QED
  BY <1>2, <1>4, <1>5 DEF IInv

LEMMA QuietStep ==
  ASSUME IInv, NEW c \in Client, NEW r, Calm(call[c]), Calm(r), Becomes(c, r),
         Step(c) \notin {"delete", "forget"},
         UNCHANGED <<dep, status, known, site, logs>>
  PROVE  IInv'
BY ReleaseStep DEF Calm, Owes

(* Others that are about to delete an entry or to forget a tenant still are.   *)
LEMMA OthersDelete ==
  ASSUME NEW c \in Client, Alone(c), NEW k, Deleting(k), ~(Step(c) = "delete" /\ MyKey(c) = k)
  PROVE  Deleting(k)'
<1>1. PICK d \in Client : Step(d) = "delete" /\ MyKey(d) = k
  BY DEF Deleting
<1>2. call'[d] = call[d]
  BY <1>1 DEF Alone
<1>3. (Step(d) = "delete" /\ MyKey(d) = k)'
  BY <1>1, <1>2 DEF Step, Idle, MyKey, Arg
<1> QED
  BY <1>3 DEF Deleting

LEMMA OthersForget ==
  ASSUME NEW c \in Client, Alone(c), NEW p, NEW t, Forgetting(p, t),
         ~(Step(c) = "forget" /\ call[c].proc = p /\ call[c].tenant = t)
  PROVE  Forgetting(p, t)'
<1>1. PICK d \in Client : Step(d) = "forget" /\ call[d].proc = p /\ call[d].tenant = t
  BY DEF Forgetting
<1>2. call'[d] = call[d]
  BY <1>1 DEF Alone
<1>3. (Step(d) = "forget" /\ call[d].proc = p /\ call[d].tenant = t)'
  BY <1>1, <1>2 DEF Step, Idle
<1> QED
  BY <1>3 DEF Forgetting

\* A step that changes tenants and what is known of them.
LEMMA TenantsStep ==
  ASSUME IInv, NEW c \in Client, NEW r, Calm(call[c]), Calm(r), Becomes(c, r),
         Step(c) # "delete", UNCHANGED <<dep, site, logs>>,
         DOMAIN status' = Tenant, DOMAIN known' = Process,
         \A p \in Process : DOMAIN known'[p] = Tenant /\ \A t \in Tenant : DOMAIN known'[p][t] = DOMAIN Unknown,
         ASSUME call'[c] = Landing(r), Alone(c) PROVE TenantsFollow'
  PROVE  IInv'
<1>1. Shape /\ CallsRight /\ FilesFollow /\ LogsRight /\ CallRight(r)
  BY DEF IInv, Calm
<1>2. DOMAIN call' = Client /\ call'[c] = Landing(r) /\ Alone(c) /\ CallsRight'
  BY <1>1, CallStep DEF Alone
<1>3. Calm(call'[c])
  BY <1>1, <1>2, LandingRight DEF Calm, First
<1>4. Shape'
  BY <1>1, <1>2 DEF Shape, site, logs
<1>5. FilesFollow' /\ LogsRight'
  BY <1>1, <1>2, <1>3, FilesKept, LogsKept DEF site, logs
<1>6. TenantsFollow'
  BY <1>2
<1> QED
  BY <1>2, <1>4, <1>5, <1>6 DEF IInv

\* A step that changes rules, texts and their entries.
LEMMA FilesStep ==
  ASSUME IInv, NEW c \in Client, NEW r, Calm(call[c]), Calm(r), Becomes(c, r),
         Step(c) # "forget", UNCHANGED <<dep, status, known, logs>>,
         DOMAIN content' = Key, DOMAIN cache' = Key,
         \A k \in Key : DOMAIN cache'[k] = DOMAIN NoEntry,
         ASSUME call'[c] = Landing(r), Alone(c) PROVE FilesFollow'
  PROVE  IInv'
<1>1. Shape /\ CallsRight /\ TenantsFollow /\ LogsRight /\ CallRight(r)
  BY DEF IInv, Calm
<1>2. DOMAIN call' = Client /\ call'[c] = Landing(r) /\ Alone(c) /\ CallsRight'
  BY <1>1, CallStep DEF Alone
<1>3. Calm(call'[c])
  BY <1>1, <1>2, LandingRight DEF Calm, First
<1>4. Shape'
  BY <1>1, <1>2 DEF Shape, logs
<1>5. TenantsFollow' /\ LogsRight'
  BY <1>1, <1>2, <1>3, TenantsKept, LogsKept DEF logs
<1>6. FilesFollow'
  BY <1>2
<1> QED
  BY <1>2, <1>4, <1>5, <1>6 DEF IInv

(* ------------------------------- beginnings -------------------------------- *)

\* A call that begins owes nothing and has seen nothing.
LEMMA BeginStep ==
  ASSUME IInv, NEW c \in Client, NEW r, NEW todo,
         Begin(c, r, todo),
         DOMAIN r = DOMAIN NoCall, r.tenant \in Owner, r.proc \in Process,
         r = [NoCall EXCEPT !.op = r.op, !.tenant = r.tenant, !.proc = r.proc],
         StepsRight(r.op, todo), \A i \in DOMAIN todo : todo[i][1] \notin {"log_create", "log_update", "log_refresh"}
  PROVE  IInv'
<1> DEFINE q == [r EXCEPT !.todo = todo]
<1>1. /\ Idle(c) /\ Becomes(c, q)
      /\ UNCHANGED <<dep, status, known, site, logs>>
  BY DEF Begin, tenancy
<1>2. /\ DOMAIN q = DOMAIN NoCall /\ q.todo = todo /\ q.op = r.op
      /\ q.tenant = r.tenant /\ q.proc = r.proc /\ q.ses = NewSession /\ q.row = NoRow
      /\ q.before = NoRow /\ q.due = FALSE /\ q.counted = FALSE /\ q.seen = {} /\ q.real = {} /\ q.scope = NoTenant
  BY DEF NoCall
<1> HIDE DEF q
<1>3. CallShape(q)
 <2>1. NoRow \in LogRow /\ NewSession.open = FALSE
   BY DEF NoRow, LogRow, NewSession
 <2> QED
   BY <1>2, <2>1 DEF CallShape
<1>4. AnswerRight(q) /\ ContextRight(q)
  BY <1>2 DEF AnswerRight, ContextRight, NewSession
<1>5. First(q) \notin {"log_create", "log_update", "log_refresh"}
 <2>1. CASE todo = <<>>
   BY <1>2, <2>1 DEF First
 <2>2. CASE todo # <<>>
  <3>1. Len(todo) \in Nat /\ Len(todo) # 0 /\ DOMAIN todo = 1..Len(todo)
    BY <2>2 DEF StepsRight
  <3>2. 1 \in DOMAIN todo
    BY <3>1
  <3> QED
    BY <1>2, <2>2, <3>2 DEF First
 <2> QED
   BY <2>1, <2>2
<1>6. Calm(q)
  BY <1>2, <1>3, <1>4, <1>5 DEF Calm, CallRight, CountRight, Owes
<1>7. Step(c) = "none" /\ Calm(call[c])
 <2>1. Step(c) = "none"
   BY <1>1 DEF Step
 <2> QED
   BY <2>1, CalmStep DEF IInv
<1> QED
  BY <1>1, <1>6, <1>7, QuietStep

\* The steps that a list of plain steps and of ends starts with are not those
\* that an open count starts with.
LEMMA PlainFirst ==
  ASSUME NEW s \in Seq(PlainStep), NEW e \in Seq(EndStep)
  PROVE  \A i \in DOMAIN (s \o e) : (s \o e)[i][1] \notin {"log_create", "log_update", "log_refresh"}
<1> SUFFICES ASSUME NEW i \in DOMAIN (s \o e)
             PROVE  (s \o e)[i][1] \notin {"log_create", "log_update", "log_refresh"}
  OBVIOUS
<1>1. s \o e \in Seq(PlainStep \cup EndStep)
  OBVIOUS
<1>2. (s \o e)[i] \in PlainStep \cup EndStep
  BY <1>1
<1> QED
  BY <1>2 DEF PlainStep, PlainName, EndStep, Ends, Tenant

LEMMA Lists ==
  ASSUME NEW S, NEW x \in S, NEW y \in S, NEW z \in S
  PROVE  <<x>> \in Seq(S) /\ <<x>> # <<>> /\ <<x, y, z>> \in Seq(S) /\ <<x, y, z>> # <<>>
OBVIOUS

LEMMA Prefixed ==
  ASSUME NEW S, NEW x \in S, NEW s \in Seq(S)
  PROVE  /\ <<x>> \o s \in Seq(S) /\ Len(<<x>> \o s) = 1 + Len(s) /\ <<x>> \o s # <<>>
         /\ (<<x>> \o s)[1] = x /\ \A i \in 1..Len(s) : (<<x>> \o s)[1 + i] = s[i]
OBVIOUS

LEMMA PlainDo ==
  ASSUME NEW name \in PlainName
  PROVE  Do(name) \in Seq(PlainStep) /\ Do(name) # <<>>
<1>1. <<name, "">> \in PlainStep
  BY DEF PlainStep, StepArg
<1> QED
  BY <1>1, Lists DEF Do

LEMMA PlainFileSteps ==
  ASSUME NEW f \in File
  PROVE  FileSteps(f) \in Seq(PlainStep)
<1>1. <<"get", f>> \in PlainStep /\ <<"read", f>> \in PlainStep /\ <<"set", f>> \in PlainStep
  BY DEF PlainStep, PlainName, File, StepArg
<1> QED
  BY <1>1, Lists DEF FileSteps

LEMMA PlainNested ==
  ASSUME NEW t \in Tenant, NEW how \in {"using", "task"}
  PROVE  Nested(how, t) \in Seq(PlainStep) /\ Nested(how, t) # <<>>
<1>1. <<how, t>> \in PlainStep /\ <<"query", "">> \in PlainStep
  BY DEF PlainStep, PlainName, StepArg
<1>2. EndOf[how] \in {"using_end", "task_end"}
  BY DEF EndOf
<1>3. <<EndOf[how], "">> \in PlainStep
  BY <1>2 DEF PlainStep, PlainName, StepArg
<1> QED
  BY <1>1, <1>3, Lists DEF Nested

\* A call that begins with plain steps and ends with ends.
LEMMA BeginPlain ==
  ASSUME IInv, NEW c \in Client, NEW r, NEW s \in Seq(PlainStep), NEW e \in Seq(EndStep),
         Begin(c, r, s \o e),
         DOMAIN r = DOMAIN NoCall, r.tenant \in Owner, r.proc \in Process,
         r = [NoCall EXCEPT !.op = r.op, !.tenant = r.tenant, !.proc = r.proc]
  PROVE  IInv'
<1>2. StepsRight(r.op, s \o e)
  BY PlainSteps
<1>3. \A i \in DOMAIN (s \o e) : (s \o e)[i][1] \notin {"log_create", "log_update", "log_refresh"}
  BY PlainFirst
<1> DEFINE todo == s \o e
<1> HIDE DEF todo
<1>4. /\ Begin(c, r, todo) /\ StepsRight(r.op, todo)
      /\ \A i \in DOMAIN todo : todo[i][1] \notin {"log_create", "log_update", "log_refresh"}
  BY <1>2, <1>3 DEF todo
<1> QED
  BY <1>4, BeginStep

LEMMA BeginOnlyPlain ==
  ASSUME IInv, NEW c \in Client, NEW r, NEW s \in Seq(PlainStep),
         Begin(c, r, s),
         DOMAIN r = DOMAIN NoCall, r.tenant \in Owner, r.proc \in Process,
         r = [NoCall EXCEPT !.op = r.op, !.tenant = r.tenant, !.proc = r.proc]
  PROVE  IInv'
<1>1. s \o <<>> = s /\ <<>> \in Seq(EndStep)
  OBVIOUS
<1> QED
  BY <1>1, BeginPlain

LEMMA NoCallShape ==
  ASSUME NEW op
  PROVE  LET r == [NoCall EXCEPT !.op = op] IN
         /\ DOMAIN r = DOMAIN NoCall /\ r.tenant \in Owner /\ r.proc \in Process /\ r.op = op
         /\ r = [NoCall EXCEPT !.op = r.op, !.tenant = r.tenant, !.proc = r.proc]
BY DEF NoCall, Owner, Process

\* A request passes through both middlewares to its view.
LEMMA PlainThrough ==
  ASSUME NEW view \in Seq(PlainStep)
  PROVE  \E s \in Seq(PlainStep), e \in Seq(EndStep) : Through(view) = s \o e
<1> DEFINE files == IF dep.redirects THEN FileSteps("redirects") ELSE <<>>
           s == ResolveSteps \o files \o Do("view") \o view
           e == Do("end_view") \o Do("leave")
<1>1. ResolveSteps \in Seq(PlainStep)
 <2>1. Do("look_up") \in Seq(PlainStep) /\ Do("get_tenant") \in Seq(PlainStep) /\ Do("keep_tenant") \in Seq(PlainStep)
       /\ Do("enter") \in Seq(PlainStep) /\ <<>> \in Seq(PlainStep)
   BY PlainDo DEF PlainName
 <2> HIDE DEF Do
 <2> QED
   BY <2>1 DEF ResolveSteps
<1>2. files \in Seq(PlainStep)
  BY PlainFileSteps DEF File
<1>3. Do("view") \in Seq(PlainStep) /\ Do("view") # <<>>
  BY PlainDo DEF PlainName
<1>4. Do("end_view") \in Seq(EndStep) /\ Do("leave") \in Seq(EndStep)
 <2>1. <<"end_view", "">> \in EndStep /\ <<"leave", "">> \in EndStep
   BY DEF EndStep, Ends, StepArg
 <2> QED
   BY <2>1, Lists DEF Do
<1> HIDE DEF files
<1>5. s \in Seq(PlainStep) /\ s # <<>> /\ e \in Seq(EndStep)
 <2> DEFINE res == ResolveSteps  v == Do("view")  x == Do("end_view")  y == Do("leave")
 <2> HIDE DEF res, v, x, y
 <2>1. res \o files \o v \o view \in Seq(PlainStep) /\ res \o files \o v \o view # <<>> /\ x \o y \in Seq(EndStep)
   BY <1>1, <1>2, <1>3, <1>4 DEF res, v, x, y
 <2> QED
   BY <2>1 DEF res, v, x, y
<1>6. Through(view) = s \o e
 <2>1. Through(view) = (s \o Do("end_view")) \o Do("leave")
   BY DEF Through, files
 <2>2. s \in Seq(PlainStep \cup EndStep) /\ Do("end_view") \in Seq(PlainStep \cup EndStep)
       /\ Do("leave") \in Seq(PlainStep \cup EndStep)
   BY <1>4, <1>5
 <2> DEFINE S == PlainStep \cup EndStep  x == Do("end_view")  y == Do("leave")
 <2> HIDE DEF s, S, x, y
 <2>3. s \in Seq(S) /\ x \in Seq(S) /\ y \in Seq(S)
   BY <2>2 DEF S, x, y
 <2>4. (s \o x) \o y = s \o (x \o y)
   BY <2>3, ConcatAssociative
 <2> QED
   BY <2>1, <2>4 DEF x, y
<1> HIDE DEF s, e
<1> QED
  BY <1>5, <1>6

LEMMA AskStep ==
  ASSUME IInv, NEW c \in Client, NEW t \in Tenant, NEW p \in Process, NEW op, NEW view \in Seq(PlainStep),
         Begin(c, [Request(t, p) EXCEPT !.op = op], Through(view))
  PROVE  IInv'
<1>1. PICK s \in Seq(PlainStep), e \in Seq(EndStep) : Through(view) = s \o e
  BY PlainThrough
<1> DEFINE r == [Request(t, p) EXCEPT !.op = op]
<1>2. t \in Owner
  BY DEF Owner
<1>3. /\ DOMAIN r = DOMAIN NoCall /\ r.tenant \in Owner /\ r.proc \in Process
      /\ r = [NoCall EXCEPT !.op = r.op, !.tenant = r.tenant, !.proc = r.proc]
 <2> DEFINE q == Request(t, p)
 <2>1. /\ q = [NoCall EXCEPT !.tenant = t, !.proc = p]
       /\ DOMAIN q = DOMAIN NoCall /\ q.tenant = t /\ q.proc = p
   BY DEF Request, NoCall
 <2>2. "op" \in DOMAIN NoCall
   BY DEF NoCall
 <2>3. r = [q EXCEPT !.op = op]
   OBVIOUS
 <2> HIDE DEF q, r
 <2>4. DOMAIN r = DOMAIN NoCall /\ r.op = op /\ r.tenant = t /\ r.proc = p
   BY <2>1, <2>2, <2>3
 <2>5. r = [NoCall EXCEPT !.op = op, !.tenant = t, !.proc = p]
   BY <2>1, <2>2, <2>3
 <2> QED
   BY <1>2, <2>4, <2>5
<1> HIDE DEF r
<1>4. Begin(c, r, s \o e)
  BY <1>1 DEF r
<1> QED
  BY <1>1, <1>3, <1>4, BeginPlain

LEMMA AskPageStep ==
  ASSUME IInv, NEW c \in Client, AskPage(c)
  PROVE  IInv'
<1>1. PICK t \in Tenant, p \in Process : \E view \in Views(t) :
        Begin(c, [Request(t, p) EXCEPT !.op = "page"], Through(view))
  BY DEF AskPage
<1>2. PICK view \in Views(t) : Begin(c, [Request(t, p) EXCEPT !.op = "page"], Through(view))
  BY <1>1
<1>3. view \in Seq(PlainStep)
 <2>1. Do("query") \in Seq(PlainStep)
   BY PlainDo DEF PlainName
 <2>2. CASE view = Do("query")
   BY <2>1, <2>2
 <2>3. CASE \E how \in {"using", "task"}, u \in Tenant : view = Nested(how, u) \o Do("query")
  <3>1. PICK how \in {"using", "task"}, u \in Tenant : view = Nested(how, u) \o Do("query")
    BY <2>3
  <3>2. Nested(how, u) \in Seq(PlainStep)
    BY PlainNested
  <3> QED
    BY <2>1, <3>1, <3>2
 <2> QED
   BY <2>2, <2>3 DEF Views
<1> QED
  BY <1>2, <1>3, AskStep

LEMMA AskFileStep ==
  ASSUME IInv, NEW c \in Client, AskFile(c)
  PROVE  IInv'
<1>1. PICK t \in Tenant : \E f \in dep.files \ {"redirects"} :
        Begin(c, [Request(t, "p1") EXCEPT !.op = "file"], Through(FileSteps(f)))
  BY DEF AskFile
<1>2. PICK f \in dep.files : Begin(c, [Request(t, "p1") EXCEPT !.op = "file"], Through(FileSteps(f)))
  BY <1>1
<1>3. f \in File /\ "p1" \in Process
  BY DEF IInv, Shape, Deployment, Process
<1>4. FileSteps(f) \in Seq(PlainStep)
  BY <1>3, PlainFileSteps
<1> QED
  BY <1>2, <1>3, <1>4, AskStep

LEMMA AskMissingStep ==
  ASSUME IInv, NEW c \in Client, AskMissing(c)
  PROVE  IInv'
<1>1. PICK t \in Tenant : Begin(c, [Request(t, "p1") EXCEPT !.op = "missing"], Through(Do("not_found")))
  BY DEF AskMissing
<1>2. Do("not_found") \in Seq(PlainStep) /\ "p1" \in Process
  BY PlainDo DEF PlainName, Process
<1> QED
  BY <1>1, <1>2, AskStep

\* A task or a command, in a transaction of its own or not.
LEMMA WrappedStep ==
  ASSUME IInv, NEW c \in Client, NEW op, NEW steps \in Seq(PlainStep), NEW wrapped \in BOOLEAN,
         Begin(c, [NoCall EXCEPT !.op = op], InTransaction(steps, wrapped))
  PROVE  IInv'
<1> DEFINE r == [NoCall EXCEPT !.op = op]
<1>1. /\ DOMAIN r = DOMAIN NoCall /\ r.tenant \in Owner /\ r.proc \in Process
      /\ r = [NoCall EXCEPT !.op = r.op, !.tenant = r.tenant, !.proc = r.proc]
  BY NoCallShape
<1> HIDE DEF r
<1>2. CASE wrapped
 <2>1. Begin(c, r, Do("open") \o steps \o Do("close"))
   BY <1>2 DEF InTransaction, r
 <2>2. Do("open") \in Seq(PlainStep) /\ Do("open") # <<>>
   BY PlainDo DEF PlainName
 <2>3. Do("close") \in Seq(EndStep)
  <3>1. <<"close", "">> \in EndStep
    BY DEF EndStep, Ends, StepArg
  <3> QED
    BY <3>1, Lists DEF Do
 <2> DEFINE x == Do("open")  y == Do("close")
 <2> HIDE DEF x, y
 <2>4. x \o steps \in Seq(PlainStep) /\ x \o steps # <<>>
   BY <2>2 DEF x
 <2> QED
   BY <1>1, <2>1, <2>3, <2>4, BeginPlain DEF x, y
<1>3. CASE ~wrapped
  BY <1>1, <1>3, BeginOnlyPlain DEF InTransaction, r
<1> QED
  BY <1>2, <1>3

LEMMA RunTaskStep ==
  ASSUME IInv, NEW c \in Client, RunTask(c)
  PROVE  IInv'
<1>1. PICK t \in Tenant, wrapped \in BOOLEAN :
        Begin(c, [NoCall EXCEPT !.op = "task"], InTransaction(Nested("task", t), wrapped))
  BY DEF RunTask
<1>2. Nested("task", t) \in Seq(PlainStep)
  BY PlainNested
<1> QED
  BY <1>1, <1>2, WrappedStep

LEMMA RunAllStep ==
  ASSUME IInv, NEW c \in Client, RunAll(c)
  PROVE  IInv'
<1> DEFINE for(t) == IF status[t] = "active" THEN Nested("using", t) ELSE <<>>
<1>1. PICK wrapped \in BOOLEAN :
        Begin(c, [NoCall EXCEPT !.op = "command"], InTransaction(for("t1") \o for("t2"), wrapped))
  BY DEF RunAll
<1>2. \A t \in Tenant : for(t) \in Seq(PlainStep)
 <2> SUFFICES ASSUME NEW t \in Tenant PROVE for(t) \in Seq(PlainStep)
   OBVIOUS
 <2>1. Nested("using", t) \in Seq(PlainStep) /\ <<>> \in Seq(PlainStep)
   BY PlainNested
 <2> QED
   BY <2>1
<1> HIDE DEF for
<1>3. for("t1") \o for("t2") \in Seq(PlainStep)
  BY <1>2 DEF Tenant
<1> QED
  BY <1>1, <1>3, WrappedStep

\* A call of the other kinds works for one tenant in one process.
LEMMA RequestBegins ==
  ASSUME IInv, NEW c \in Client, NEW t \in Tenant, NEW p \in Process, NEW op, NEW todo,
         Begin(c, [Request(t, p) EXCEPT !.op = op], todo),
         StepsRight(op, todo), \A i \in DOMAIN todo : todo[i][1] \notin {"log_create", "log_update", "log_refresh"}
  PROVE  IInv'
<1> DEFINE r == [Request(t, p) EXCEPT !.op = op]
<1>1. /\ DOMAIN r = DOMAIN NoCall /\ r.tenant \in Owner /\ r.proc \in Process /\ r.op = op
      /\ r = [NoCall EXCEPT !.op = r.op, !.tenant = r.tenant, !.proc = r.proc]
  BY DEF Request, NoCall, Owner
<1> HIDE DEF r
<1>2. Begin(c, r, todo)
  BY DEF r
<1> QED
  BY <1>1, <1>2, BeginStep

TenantName == {"switch", "forget", "erase_rows", "erase_tenant"}

\* Lists of such steps are in order.
LEMMA TenantSteps ==
  ASSUME NEW op, NEW n \in 1..3, NEW w, DOMAIN w = 1..n, \A i \in 1..n : w[i] \in TenantName,
         \A i, j \in 1..n : i < j /\ w[i] = "switch" /\ w[j] = "forget" => j = i + 1
  PROVE  /\ StepsRight(op, Named(w, ""))
         /\ \A i \in DOMAIN Named(w, "") : Named(w, "")[i][1] \notin {"log_create", "log_update", "log_refresh"}
<1> DEFINE todo == Named(w, "")
<1>1. /\ DOMAIN todo = 1..n /\ todo = [i \in 1..n |-> todo[i]]
      /\ \A i \in 1..n : todo[i] = <<w[i], "">> /\ todo[i][1] = w[i] /\ w[i] \in TenantName
  BY DEF Named
<1> HIDE DEF todo
<1>2. ASSUME NEW i \in 1..n
      PROVE  todo[i] \in StepName \X StepArg
 <2>1. w[i] \in StepName
   BY <1>1 DEF TenantName, StepName, PlainName
 <2>2. "" \in StepArg
   BY DEF StepArg
 <2>3. todo[i] = <<w[i], "">>
   BY <1>1
 <2>4. \A x \in StepName, y \in StepArg : <<x, y>> \in StepName \X StepArg
   OBVIOUS
 <2>5. <<w[i], "">> \in StepName \X StepArg
   BY <2>1, <2>2, <2>4
 <2> QED
   BY <2>3, <2>5, Zenon
<1>3. todo \in Seq(StepName \X StepArg)
 <2>1. n \in Nat
   OBVIOUS
 <2>2. todo \in [1..n -> StepName \X StepArg]
   BY <1>1, <1>2
 <2> QED
   BY <2>1, <2>2
<1>4. QueriesFirst(todo) /\ DeletesNext(op, todo) /\ LogsInOrder(todo)
  BY <1>1 DEF TenantName, QueriesFirst, Ends, DeletesNext, Uncovered, LogsInOrder
<1>5. ForgetsNext(todo)
  BY <1>1 DEF ForgetsNext
<1>6. \A i \in DOMAIN todo : todo[i][1] \notin {"log_create", "log_update", "log_refresh"}
  BY <1>1 DEF TenantName
<1> QED
  BY <1>3, <1>4, <1>5, <1>6 DEF StepsRight, todo

LEMMA SwitchTenantStep ==
  ASSUME IInv, NEW c \in Client, SwitchTenant(c)
  PROVE  IInv'
<1>1. PICK t \in Tenant, p \in Process, op \in DOMAIN SwitchSteps :
        Begin(c, [Request(t, p) EXCEPT !.op = op], Named(SwitchSteps[op], ""))
  BY DEF SwitchTenant
<1> DEFINE w == SwitchSteps[op]
<1>2. w \in {<<"switch", "forget">>, <<"forget", "switch">>, <<"switch">>}
  BY DEF SwitchSteps
<1>3. \E n \in 1..3 :
        /\ DOMAIN w = 1..n /\ \A i \in 1..n : w[i] \in TenantName
        /\ \A i, j \in 1..n : i < j /\ w[i] = "switch" /\ w[j] = "forget" => j = i + 1
 <2>1. CASE w = <<"switch", "forget">>
   BY <2>1 DEF TenantName
 <2>2. CASE w = <<"forget", "switch">>
   BY <2>2 DEF TenantName
 <2>3. CASE w = <<"switch">>
   BY <2>3 DEF TenantName
 <2> QED
   BY <1>2, <2>1, <2>2, <2>3
<1> HIDE DEF w
<1>4. /\ StepsRight(op, Named(w, ""))
      /\ \A i \in DOMAIN Named(w, "") : Named(w, "")[i][1] \notin {"log_create", "log_update", "log_refresh"}
  BY <1>3, TenantSteps
<1> QED
  BY <1>1, <1>4, RequestBegins DEF w

LEMMA DeprovisionStep ==
  ASSUME IInv, NEW c \in Client, Deprovision(c)
  PROVE  IInv'
<1>1. PICK t \in Tenant :
        Begin(c, [Request(t, "p1") EXCEPT !.op = "deprovision"], Named(EraseSteps, ""))
  BY DEF Deprovision
<1>2. /\ DOMAIN EraseSteps = 1..3 /\ \A i \in 1..3 : EraseSteps[i] \in TenantName
      /\ \A i \in 1..3 : EraseSteps[i] # "switch"
  BY DEF EraseSteps, TenantName
<1> DEFINE w == EraseSteps
<1>3. /\ StepsRight("deprovision", Named(w, ""))
      /\ \A i \in DOMAIN Named(w, "") : Named(w, "")[i][1] \notin {"log_create", "log_update", "log_refresh"}
 <2>1. 3 \in 1..3
   OBVIOUS
 <2>2. \A i, j \in 1..3 : i < j /\ w[i] = "switch" /\ w[j] = "forget" => j = i + 1
   BY <1>2
 <2> HIDE DEF w
 <2>3. DOMAIN w = 1..3 /\ \A i \in 1..3 : w[i] \in TenantName
   BY <1>2 DEF w
 <2> QED
   BY <2>1, <2>2, <2>3, TenantSteps
<1>4. "p1" \in Process
  BY DEF Process
<1> QED
  BY <1>1, <1>3, <1>4, RequestBegins

LEMMA CleanLogsStep ==
  ASSUME IInv, NEW c \in Client, CleanLogs(c)
  PROVE  IInv'
<1>1. PICK t \in Tenant : Begin(c, [Request(t, "p1") EXCEPT !.op = "logs"], Do("delete_log"))
  BY DEF CleanLogs
<1> DEFINE todo == Do("delete_log")
<1>2. todo \in Seq(PlainStep) /\ "p1" \in Process
  BY PlainDo DEF PlainName, Process
<1> HIDE DEF todo
<1>3. <<>> \in Seq(EndStep) /\ todo \o <<>> = todo
  BY <1>2
<1>4. /\ StepsRight("logs", todo)
      /\ \A i \in DOMAIN todo : todo[i][1] \notin {"log_create", "log_update", "log_refresh"}
  BY <1>2, <1>3, PlainSteps, PlainFirst
<1>5. Begin(c, [Request(t, "p1") EXCEPT !.op = "logs"], todo)
  BY <1>1 DEF todo
<1> QED
  BY <1>2, <1>4, <1>5, RequestBegins

WriteName == {"write", "draft", "publish", "move", "delete"}

\* Each change that leaves the entry alone is followed by its deletion.
LEMMA WritesCovered ==
  ASSUME NEW op \in DOMAIN Writes
  PROVE  /\ \E n \in 2..5 : DOMAIN Writes[op] = 1..n
         /\ \A i \in DOMAIN Writes[op] :
              /\ Writes[op][i] \in WriteName
              /\ Uncovered(op, <<Writes[op][i], "">>) =>
                   i + 1 \in DOMAIN Writes[op] /\ Writes[op][i + 1] = "delete"
<1>1. op \in {"add", "admin", "remove", "move", "admin_move", "set", "import"}
  BY DEF Writes
<1> USE DEF Uncovered
<1>2. CASE op = "add"
 <2>1. Writes[op] = <<"write", "delete", "delete">>
   BY <1>2 DEF Writes, AddSteps
 <2> QED
   BY <1>2, <2>1 DEF WriteName
<1>3. CASE op \in {"admin", "remove"}
 <2>1. Writes[op] = <<"draft", "delete", "publish">>
   BY <1>3 DEF Writes, RemoveSteps
 <2> QED
   BY <1>3, <2>1 DEF WriteName
<1>4. CASE op = "move"
 <2>1. Writes[op] = <<"move", "delete">>
   BY <1>4 DEF Writes
 <2> QED
   BY <1>4, <2>1 DEF WriteName
<1>7. CASE op = "admin_move"
 <2>1. Writes[op] = <<"delete", "move">>
   BY <1>7 DEF Writes
 <2> QED
   BY <1>7, <2>1 DEF WriteName
<1>5. CASE op = "set"
 <2>1. Writes[op] = <<"draft", "delete", "publish", "delete">>
   BY <1>5 DEF Writes, SetSteps
 <2> QED
   BY <1>5, <2>1 DEF WriteName
<1>6. CASE op = "import"
 <2>1. Writes[op] = <<"write", "delete", "write", "delete", "delete">>
   BY <1>6 DEF Writes, ImportSteps
 <2> QED
   BY <1>6, <2>1 DEF WriteName
<1> QED
  BY <1>1, <1>2, <1>3, <1>4, <1>5, <1>6, <1>7

LEMMA ChangeStep ==
  ASSUME IInv, NEW c \in Client, Change(c)
  PROVE  IInv'
<1>1. PICK t \in Tenant, op \in DOMAIN Writes, f \in dep.files :
        Begin(c, [Request(t, "p1") EXCEPT !.op = op], [i \in DOMAIN Writes[op] |-> <<Writes[op][i], f>>])
  BY DEF Change, Named
<1> DEFINE todo == [i \in DOMAIN Writes[op] |-> <<Writes[op][i], f>>]
<1>2. f \in StepArg /\ "p1" \in Process
  BY DEF IInv, Shape, Deployment, StepArg, Process
<1>3. PICK n \in 2..5 : DOMAIN Writes[op] = 1..n
  BY WritesCovered
<1>4. /\ DOMAIN todo = 1..n /\ \A i \in 1..n : todo[i] = <<Writes[op][i], f>> /\ Writes[op][i] \in WriteName
  BY <1>3, WritesCovered
<1>5. todo \in Seq(StepName \X StepArg)
 <2>1. \A i \in 1..n : todo[i] \in StepName \X StepArg
   BY <1>2, <1>4 DEF WriteName, StepName
 <2>2. n \in Nat /\ todo = [i \in 1..n |-> todo[i]]
   BY <1>3
 <2> HIDE DEF todo
 <2> QED
   BY <2>1, <2>2
<1> HIDE DEF todo
<1>6. \A i \in DOMAIN todo : todo[i][1] \in WriteName /\ todo[i][2] = f
  BY <1>4
<1>7. DeletesNext(op, todo)
 <2> SUFFICES ASSUME NEW i \in DOMAIN todo, Uncovered(op, todo[i])
              PROVE  i + 1 \in DOMAIN todo /\ todo[i + 1] = <<"delete", todo[i][2]>>
   BY DEF DeletesNext
 <2>1. Uncovered(op, <<Writes[op][i], "">>)
   BY <1>4 DEF Uncovered
 <2>2. i + 1 \in DOMAIN Writes[op] /\ Writes[op][i + 1] = "delete"
   BY <1>3, <1>4, <2>1, WritesCovered
 <2> QED
   BY <1>3, <1>4, <1>6, <2>2
<1>8. QueriesFirst(todo) /\ ForgetsNext(todo) /\ LogsInOrder(todo)
  BY <1>6 DEF WriteName, QueriesFirst, Ends, ForgetsNext, LogsInOrder
<1>9. \A i \in DOMAIN todo : todo[i][1] \notin {"log_create", "log_update", "log_refresh"}
  BY <1>6 DEF WriteName
<1>10. Begin(c, [Request(t, "p1") EXCEPT !.op = op], todo)
  BY <1>1 DEF todo
<1>11. StepsRight(op, todo)
  BY <1>5, <1>7, <1>8 DEF StepsRight
<1> QED
  BY <1>2, <1>9, <1>10, <1>11, RequestBegins

(* --------------------------- tenants and queries --------------------------- *)

\* A call that makes a step of its list, and whose other fields change only
\* where no count is concerned.
LEMMA CalmChanged ==
  ASSUME NEW q, Calm(q), NEW r, DOMAIN r = DOMAIN NoCall,
         r.op = q.op, r.todo = q.todo, r.proc = q.proc, r.tenant = q.tenant,
         DOMAIN r.ses = DOMAIN NewSession, r.ses.open \in BOOLEAN,
         r.row = q.row, r.before = q.before, r.due = q.due, r.counted = q.counted,
         ContextRight(r), AnswerRight(r)
  PROVE  Calm(r)
<1>1. CallShape(r)
  BY DEF Calm, CallRight, CallShape
<1>2. StepsRight(r.op, r.todo)
  BY DEF Calm, CallRight
<1>3. CountRight(r) /\ ~r.due /\ First(r) \notin {"log_create", "log_update", "log_refresh"}
  BY DEF Calm, CallRight, CountRight, First, Owes
<1> QED
  BY <1>1, <1>2, <1>3 DEF Calm, CallRight

\* A call that makes a step and is not recording a 404.
LEMMA CalmMove ==
  ASSUME IInv, NEW c \in Client, Step(c) # "none",
         Step(c) \notin {"log_create", "log_update", "log_refresh", "log_referrers", "leave"}
  PROVE  /\ Calm(call[c]) /\ call[c].todo # <<>>
         /\ Calm(Pop(call[c])) /\ SameButSteps(Pop(call[c]), call[c])
<1>1. Calm(call[c])
  BY CalmStep DEF IInv
<1>2. call[c].todo # <<>>
  BY DEF Step, Idle
<1> QED
  BY <1>1, <1>2, CalmPop

\* A call whose context and answers stay as they are.
LEMMA CalmKeeps ==
  ASSUME NEW q, Calm(q), NEW r, DOMAIN r = DOMAIN NoCall,
         r.op = q.op, r.todo = q.todo, r.proc = q.proc, r.tenant = q.tenant, r.ses = q.ses, r.scope = q.scope,
         r.cause = q.cause, r.seen = q.seen, r.real = q.real, r.why = q.why,
         r.row = q.row, r.before = q.before, r.due = q.due, r.counted = q.counted
  PROVE  Calm(r)
<1>1. ContextRight(r) /\ AnswerRight(r) /\ DOMAIN r.ses = DOMAIN NewSession /\ r.ses.open \in BOOLEAN
  BY DEF Calm, CallRight, ContextRight, AnswerRight, CallShape
<1> QED
  BY <1>1, CalmChanged

\* A call that ends for want of a tenant.
LEMMA CalmStops ==
  ASSUME NEW q, Calm(q)
  PROVE  Calm([q EXCEPT !.todo = <<>>])
<1> DEFINE r == [q EXCEPT !.todo = <<>>]
<1>1. SameButSteps(r, q) /\ r.todo = <<>>
  BY StepsChanged DEF Calm, CallRight, CallShape
<1> HIDE DEF r
<1>2. StepsRight(q.op, r.todo) /\ ~QueryAhead(r.todo) /\ First(r) = "none"
  BY <1>1 DEF StepsRight, QueriesFirst, DeletesNext, ForgetsNext, LogsInOrder, QueryAhead, First
<1>3. Calm(r)
  BY <1>1, <1>2, CalmSteps
<1> QED
  BY <1>3 DEF r

\* The rest of a call, also when it has fewer steps than that.
LEMMA CalmRest ==
  ASSUME NEW r, Calm(r), NEW n \in Nat, n > 0
  PROVE  Calm(After(r, n)) /\ SameButSteps(After(r, n), r)
<1>1. CASE r.todo # <<>>
  BY <1>1, CalmAfter
<1>2. CASE r.todo = <<>>
 <2>1. SubSeq(r.todo, n + 1, Len(r.todo)) = <<>>
   BY <1>2
 <2>2. After(r, n) = [r EXCEPT !.todo = <<>>]
   BY <2>1 DEF After
 <2> DEFINE q == [r EXCEPT !.todo = <<>>]
 <2>3. DOMAIN r = DOMAIN NoCall
   BY DEF Calm, CallRight, CallShape
 <2>4. Calm(q)
   BY CalmStops
 <2>5. SameButSteps(q, r)
   BY <2>3, StepsChanged
 <2> HIDE DEF q
 <2>6. After(r, n) = q
   BY <2>2 DEF q
 <2> QED
   BY <2>4, <2>5, <2>6
<1> QED
  BY <1>1, <1>2

LEMMA LookUpStep ==
  ASSUME IInv, NEW c \in Client, LookUp(c)
  PROVE  IInv'
<1> DEFINE r == call[c]  entry == known[r.proc][r.tenant]
           next == IF entry.there THEN [After(r, 3) EXCEPT !.copy = entry] ELSE Pop(r)
<1>1. Becomes(c, next) /\ Step(c) = "look_up" /\ UNCHANGED <<dep, status, known, site, logs>>
  BY DEF LookUp, bounds, tenancy
<1>2. Calm(r) /\ r.todo # <<>> /\ Calm(Pop(r))
  BY <1>1, CalmMove
<1>3. Calm(After(r, 3))
  BY <1>2, CalmAfter
<1>4. Calm([After(r, 3) EXCEPT !.copy = entry])
 <2> DEFINE q == After(r, 3)
 <2> HIDE DEF q
 <2>1. Calm(q) /\ DOMAIN q = DOMAIN NoCall
   BY <1>3 DEF q, Calm, CallRight, CallShape
 <2>2. Calm([q EXCEPT !.copy = entry])
   BY <2>1, CalmKeeps DEF NoCall
 <2> QED
   BY <2>2 DEF q
<1>5. Calm(next)
  BY <1>2, <1>4
<1> HIDE DEF next
<1> QED
  BY <1>1, <1>2, <1>5, QuietStep

LEMMA GetTenantStep ==
  ASSUME IInv, NEW c \in Client, GetTenant(c)
  PROVE  IInv'
<1> DEFINE r == Pop(call[c])  found == [there |-> TRUE, status |-> status[r.tenant], why |-> {}]
           next == IF status[r.tenant] = "gone" THEN NoTenantFound(r) ELSE [r EXCEPT !.copy = found]
<1>1. Becomes(c, next) /\ Step(c) = "get_tenant" /\ UNCHANGED <<dep, status, known, site, logs>>
  BY DEF GetTenant, bounds, tenancy
<1>2. Calm(call[c]) /\ Calm(r)
  BY <1>1, CalmMove
<1> HIDE DEF r
<1>3. DOMAIN r = DOMAIN NoCall
  BY <1>2 DEF Calm, CallRight, CallShape
<1>4. Calm([r EXCEPT !.copy = found])
  BY <1>2, <1>3, CalmKeeps DEF NoCall
<1>5. Calm(NoTenantFound(r))
 <2>1. CASE dep.required
   BY <1>2, <2>1, CalmStops DEF NoTenantFound
 <2>2. CASE ~dep.required
  <3> DEFINE n == IF dep.caching THEN 2 ELSE 1
             q == After(r, n)
             w == [q EXCEPT !.tenant = NoTenant]
  <3>1. n \in Nat /\ n > 0
    OBVIOUS
  <3> HIDE DEF n
  <3>2. Calm(q)
    BY <1>2, <3>1, CalmRest
  <3> HIDE DEF q
  <3>3. /\ DOMAIN q = DOMAIN NoCall /\ DOMAIN w = DOMAIN NoCall
        /\ w.op = q.op /\ w.todo = q.todo /\ w.proc = q.proc /\ w.ses = q.ses /\ w.tenant = NoTenant
        /\ w.row = q.row /\ w.before = q.before /\ w.due = q.due /\ w.counted = q.counted /\ w.scope = q.scope
        /\ w.cause = q.cause /\ w.seen = q.seen /\ w.real = q.real /\ w.why = q.why
    BY <3>2 DEF Calm, CallRight, CallShape, NoCall
  <3> HIDE DEF w
  <3>4. CallShape(w)
    BY <3>2, <3>3 DEF Calm, CallRight, CallShape, Owner
  <3>5. Calm(w)
    BY <3>2, <3>3, <3>4 DEF Calm, CallRight, ContextRight, AnswerRight, CountRight, Owes, First
  <3> QED
    BY <2>2, <3>5 DEF NoTenantFound, n, q, w
 <2> QED
   BY <2>1, <2>2
<1>6. Calm(next)
  BY <1>4, <1>5
<1> HIDE DEF next
<1> QED
  BY <1>1, <1>2, <1>6, QuietStep

LEMMA KeepTenantStep ==
  ASSUME IInv, NEW c \in Client, KeepTenant(c)
  PROVE  IInv'
<1> DEFINE r == call[c]
           entry == [there |-> TRUE, status |-> r.copy.status,
                     why |-> IF r.copy.status = status[r.tenant] THEN {} ELSE {"late"}]
<1>1. /\ Step(c) = "keep_tenant" /\ known' = [known EXCEPT ![r.proc][r.tenant] = entry]
      /\ Becomes(c, Pop(r)) /\ UNCHANGED <<dep, status, site, logs>>
  BY DEF KeepTenant, bounds, Continue
<1>2. Calm(r) /\ Calm(Pop(r))
  BY <1>1, CalmMove
<1>3. Shape /\ CallsRight /\ FilesFollow /\ TenantsFollow /\ LogsRight /\ CallRight(Pop(r))
  BY <1>2 DEF IInv, Calm
<1>4. DOMAIN call' = Client /\ call'[c] = Landing(Pop(r)) /\ Alone(c) /\ CallsRight'
  BY <1>1, <1>3, CallStep DEF Alone
<1>5. Calm(call'[c])
  BY <1>2, <1>3, <1>4, LandingRight DEF Calm, First
<1>6. FilesFollow' /\ LogsRight'
  BY <1>1, <1>2, <1>3, <1>4, <1>5, FilesKept, LogsKept DEF site, logs
<1> HIDE DEF r, entry
<1>7. /\ DOMAIN known' = Process
      /\ \A p \in Process : DOMAIN known'[p] = Tenant
      /\ \A p \in Process, t \in Tenant :
           known'[p][t] = known[p][t] \/ (p = r.proc /\ t = r.tenant /\ known'[p][t] = entry)
  BY <1>1, <1>3 DEF Shape
<1>8. DOMAIN entry = DOMAIN Unknown /\ (entry.status = status[r.tenant] \/ entry.why # {})
  BY DEF entry, Unknown
<1>9. Shape'
  BY <1>1, <1>3, <1>4, <1>7, <1>8 DEF Shape, site, logs
<1>10. TenantsFollow'
 <2> SUFFICES ASSUME NEW p \in Process, NEW t \in Tenant,
                     known'[p][t].there, known'[p][t].status # status[t], known'[p][t].why = {}
              PROVE  Forgetting(p, t)'
   BY <1>1 DEF TenantsFollow
 <2>1. known'[p][t] = known[p][t]
   BY <1>7, <1>8
 <2>2. PICK d \in Client : Step(d) = "forget" /\ call[d].proc = p /\ call[d].tenant = t
   BY <1>3, <2>1 DEF TenantsFollow, Forgetting
 <2>3. call'[d] = call[d]
   BY <1>1, <1>4, <2>2 DEF Alone
 <2>4. (Step(d) = "forget" /\ call[d].proc = p /\ call[d].tenant = t)'
   BY <2>2, <2>3 DEF Step, Idle
 <2> QED
   BY <2>4 DEF Forgetting
<1> QED
  BY <1>4, <1>6, <1>9, <1>10 DEF IInv

(* -------------------------------- contexts --------------------------------- *)

LEMMA TenantSet ==
  ASSUME NEW s, DOMAIN s = DOMAIN NewSession, NEW t
  PROVE  /\ DOMAIN SetTenant(s, t) = DOMAIN NewSession /\ SetTenant(s, t).tenant = t /\ SetTenant(s, t).open = s.open
         /\ s.open /\ t # NoTenant => SetTenant(s, t).variable = t
<1>1. DOMAIN s = {"tenant", "variable", "outer", "open"}
  BY DEF NewSession
<1> QED
  BY <1>1 DEF SetTenant, SetConfig

LEMMA Sessions ==
  ASSUME NEW s, DOMAIN s = DOMAIN NewSession
  PROVE  /\ DOMAIN ClearTenant(s) = DOMAIN NewSession /\ ClearTenant(s).open = s.open
         /\ DOMAIN LeaveUsing(s) = DOMAIN NewSession /\ LeaveUsing(s).open = s.open
         /\ s.open => LeaveUsing(s).variable = LeaveUsing(s).tenant
         /\ DOMAIN OpenTransaction(s) = DOMAIN NewSession /\ OpenTransaction(s).open = TRUE
         /\ OpenTransaction(s).tenant = s.tenant /\ OpenTransaction(s).variable = s.variable
         /\ DOMAIN CloseTransaction(s) = DOMAIN NewSession /\ CloseTransaction(s).open = FALSE
         /\ CloseTransaction(s).tenant = s.tenant
<1>1. DOMAIN s = {"tenant", "variable", "outer", "open"}
  BY DEF NewSession
<1> DEFINE b == Restored(s)
<1>3. DOMAIN b = DOMAIN s /\ b.tenant = Head(s.outer) /\ b.open = s.open
  BY <1>1 DEF Restored
<1> HIDE DEF b
<1>4. DOMAIN ClearTenant(s) = DOMAIN NewSession /\ ClearTenant(s).open = s.open
  BY <1>1, <1>3 DEF ClearTenant, SetConfig, b
<1>5. /\ DOMAIN LeaveUsing(s) = DOMAIN NewSession /\ LeaveUsing(s).open = s.open
      /\ s.open => LeaveUsing(s).variable = LeaveUsing(s).tenant
  BY <1>1, <1>3 DEF LeaveUsing, SetConfig, b
<1>6. /\ DOMAIN OpenTransaction(s) = DOMAIN NewSession /\ OpenTransaction(s).open = TRUE
      /\ OpenTransaction(s).tenant = s.tenant /\ OpenTransaction(s).variable = s.variable
      /\ DOMAIN CloseTransaction(s) = DOMAIN NewSession /\ CloseTransaction(s).open = FALSE
      /\ CloseTransaction(s).tenant = s.tenant
  BY <1>1 DEF OpenTransaction, CloseTransaction
<1> QED
  BY <1>4, <1>5, <1>6

\* A context that is entered is that of its tenant, and one that is left that of
\* the outer one.
LEMMA CalmEntered ==
  ASSUME NEW q, Calm(q), NEW t
  PROVE  Calm(Entered(q, t))
<1> DEFINE r == Entered(q, t)
<1>1. DOMAIN q = DOMAIN NoCall /\ DOMAIN q.ses = DOMAIN NewSession /\ q.ses.open \in BOOLEAN
  BY DEF Calm, CallRight, CallShape
<1>2. /\ DOMAIN r = DOMAIN NoCall /\ r.ses = SetTenant(q.ses, t) /\ r.scope = t
      /\ r.cause = (IF q.ses.open THEN {} ELSE {"outside"})
      /\ r.op = q.op /\ r.todo = q.todo /\ r.proc = q.proc /\ r.tenant = q.tenant
      /\ r.row = q.row /\ r.before = q.before /\ r.due = q.due /\ r.counted = q.counted
      /\ r.seen = q.seen /\ r.real = q.real /\ r.why = q.why
  BY <1>1 DEF Entered, NoCall
<1> HIDE DEF r
<1>3. DOMAIN r.ses = DOMAIN NewSession /\ r.ses.open = q.ses.open /\ r.ses.tenant = t
      /\ (q.ses.open /\ t # NoTenant => r.ses.variable = t)
 <2> DEFINE s == q.ses
 <2>0. DOMAIN s = DOMAIN NewSession
   BY <1>1
 <2> HIDE DEF s
 <2>1. /\ DOMAIN SetTenant(s, t) = DOMAIN NewSession /\ SetTenant(s, t).tenant = t /\ SetTenant(s, t).open = s.open
       /\ s.open /\ t # NoTenant => SetTenant(s, t).variable = t
   BY <2>0, TenantSet
 <2> QED
   BY <1>2, <2>1 DEF s
<1>4. r.cause = {} => q.ses.open
  BY <1>2
<1>5. ContextRight(r) /\ AnswerRight(r)
  BY <1>2, <1>3, <1>4 DEF ContextRight, AnswerRight, Calm, CallRight
<1>6. Calm(r)
  BY <1>1, <1>2, <1>3, <1>5, CalmChanged
<1> QED
  BY <1>6 DEF r

LEMMA CalmLeft ==
  ASSUME NEW q, Calm(q), NEW s, DOMAIN s = DOMAIN NewSession, s.open \in BOOLEAN, NEW cleared \in BOOLEAN,
         s.open /\ ~cleared => s.variable = s.tenant
  PROVE  Calm(Left(q, s, cleared))
<1> DEFINE r == Left(q, s, cleared)
           cause == IF ~s.open THEN {"outside"} ELSE IF cleared /\ s.tenant # NoTenant THEN {"cleared"} ELSE {}
<1>1. DOMAIN q = DOMAIN NoCall
  BY DEF Calm, CallRight, CallShape
<1>2. cause = {} => s.open /\ (cleared => s.tenant = NoTenant)
  OBVIOUS
<1> HIDE DEF cause
<1>3. /\ DOMAIN r = DOMAIN NoCall /\ r.ses = s /\ r.scope = s.tenant /\ r.cause = cause
      /\ r.op = q.op /\ r.todo = q.todo /\ r.proc = q.proc /\ r.tenant = q.tenant
      /\ r.row = q.row /\ r.before = q.before /\ r.due = q.due /\ r.counted = q.counted
      /\ r.seen = q.seen /\ r.real = q.real /\ r.why = q.why
  BY <1>1 DEF Left, NoCall, cause
<1> HIDE DEF r
<1>4. ContextRight(r) /\ AnswerRight(r)
  BY <1>2, <1>3 DEF ContextRight, AnswerRight, Calm, CallRight
<1>5. Calm(r)
  BY <1>3, <1>4, CalmChanged
<1> QED
  BY <1>5 DEF r

LEMMA EnterStep ==
  ASSUME IInv, NEW c \in Client, Enter(c)
  PROVE  IInv'
<1> DEFINE r == Pop(call[c])
           s == IF dep.txn = "wrap" THEN OpenTransaction(r.ses) ELSE r.ses
           q == [r EXCEPT !.ses = s]
           next == IF r.copy.status # "active" THEN [r EXCEPT !.todo = <<>>] ELSE Entered(q, r.tenant)
<1>1. Becomes(c, next) /\ Step(c) = "enter" /\ UNCHANGED <<dep, status, known, site, logs>>
  BY DEF Enter, bounds, tenancy
<1>2. Calm(call[c]) /\ Calm(r)
  BY <1>1, CalmMove
<1> HIDE DEF r
<1>3. DOMAIN r = DOMAIN NoCall /\ DOMAIN r.ses = DOMAIN NewSession /\ r.ses.open \in BOOLEAN
  BY <1>2 DEF Calm, CallRight, CallShape
<1>4. /\ DOMAIN s = DOMAIN NewSession /\ s.open \in BOOLEAN /\ s.tenant = r.ses.tenant
      /\ s.variable = r.ses.variable
 <2> DEFINE s0 == r.ses
 <2> HIDE DEF s0
 <2>1. /\ DOMAIN OpenTransaction(s0) = DOMAIN NewSession /\ OpenTransaction(s0).open = TRUE
       /\ OpenTransaction(s0).tenant = s0.tenant /\ OpenTransaction(s0).variable = s0.variable
   BY <1>3, Sessions DEF s0
 <2> QED
   BY <1>3, <2>1 DEF s0
<1> HIDE DEF s
<1>5. /\ DOMAIN q = DOMAIN NoCall /\ q.ses = s /\ q.scope = r.scope /\ q.cause = r.cause
      /\ q.op = r.op /\ q.todo = r.todo /\ q.proc = r.proc /\ q.tenant = r.tenant
      /\ q.row = r.row /\ q.before = r.before /\ q.due = r.due /\ q.counted = r.counted
      /\ q.seen = r.seen /\ q.real = r.real /\ q.why = r.why
  BY <1>3 DEF NoCall
<1> HIDE DEF q
<1>6. ContextRight(q) /\ AnswerRight(q)
  BY <1>2, <1>4, <1>5 DEF ContextRight, AnswerRight, Calm, CallRight
<1>7. Calm(q)
  BY <1>2, <1>4, <1>5, <1>6, CalmChanged
<1>8. Calm(Entered(q, r.tenant)) /\ Calm([r EXCEPT !.todo = <<>>])
  BY <1>2, <1>7, CalmEntered, CalmStops
<1>9. Calm(next)
  BY <1>8
<1> HIDE DEF next
<1> QED
  BY <1>1, <1>2, <1>9, QuietStep

LEMMA EnterUsingStep ==
  ASSUME IInv, NEW c \in Client, EnterUsing(c)
  PROVE  IInv'
<1> DEFINE r == Pop(call[c])
           next == IF r.op = "command" /\ status[Arg(c)] = "gone" THEN After(r, 2) ELSE Entered(r, Arg(c))
<1>1. Becomes(c, next) /\ Step(c) = "using" /\ UNCHANGED <<dep, status, known, site, logs>>
  BY DEF EnterUsing, bounds, tenancy
<1>2. Calm(call[c]) /\ Calm(r)
  BY <1>1, CalmMove
<1> HIDE DEF r
<1>3. Calm(Entered(r, Arg(c)))
  BY <1>2, CalmEntered
<1>4. Calm(After(r, 2))
  BY <1>2, CalmRest
<1>5. Calm(next)
  BY <1>3, <1>4
<1> HIDE DEF next
<1> QED
  BY <1>1, <1>2, <1>5, QuietStep

LEMMA ExitUsingStep ==
  ASSUME IInv, NEW c \in Client, ExitUsing(c)
  PROVE  IInv'
<1> DEFINE s == LeaveUsing(call[c].ses)  next == Left(Pop(call[c]), s, FALSE)
<1>1. Becomes(c, next) /\ Step(c) = "using_end" /\ UNCHANGED <<dep, status, known, site, logs>>
  BY DEF ExitUsing, bounds, tenancy
<1>2. Calm(call[c]) /\ Calm(Pop(call[c]))
  BY <1>1, CalmMove
<1>3. DOMAIN s = DOMAIN NewSession /\ s.open \in BOOLEAN /\ (s.open => s.variable = s.tenant)
 <2> DEFINE s0 == call[c].ses
 <2>1. DOMAIN s0 = DOMAIN NewSession /\ s0.open \in BOOLEAN
   BY <1>2 DEF Calm, CallRight, CallShape
 <2> HIDE DEF s0
 <2>2. /\ DOMAIN LeaveUsing(s0) = DOMAIN NewSession /\ LeaveUsing(s0).open = s0.open
       /\ s0.open => LeaveUsing(s0).variable = LeaveUsing(s0).tenant
   BY <2>1, Sessions
 <2> QED
   BY <2>1, <2>2 DEF s0
<1> HIDE DEF s
<1>4. Calm(next)
  BY <1>2, <1>3, CalmLeft
<1> HIDE DEF next
<1> QED
  BY <1>1, <1>2, <1>4, QuietStep

LEMMA EndTaskStep ==
  ASSUME IInv, NEW c \in Client, EndTask(c)
  PROVE  IInv'
<1> DEFINE s == ClearTenant(call[c].ses)  next == Left(Pop(call[c]), s, TRUE)
<1>1. Becomes(c, next) /\ Step(c) = "task_end" /\ UNCHANGED <<dep, status, known, site, logs>>
  BY DEF EndTask, bounds, tenancy
<1>2. Calm(call[c]) /\ Calm(Pop(call[c]))
  BY <1>1, CalmMove
<1>3. DOMAIN s = DOMAIN NewSession /\ s.open \in BOOLEAN
 <2> DEFINE s0 == call[c].ses
 <2>1. DOMAIN s0 = DOMAIN NewSession /\ s0.open \in BOOLEAN
   BY <1>2 DEF Calm, CallRight, CallShape
 <2> HIDE DEF s0
 <2>2. DOMAIN ClearTenant(s0) = DOMAIN NewSession /\ ClearTenant(s0).open = s0.open
   BY <2>1, Sessions
 <2> QED
   BY <2>1, <2>2 DEF s0
<1> HIDE DEF s
<1>4. Calm(next)
  BY <1>2, <1>3, CalmLeft
<1> HIDE DEF next
<1> QED
  BY <1>1, <1>2, <1>4, QuietStep

\* Of a call that is answered or fails, at most the last step is left.
LEMMA CalmLeaving ==
  ASSUME NEW r, Calm(r)
  PROVE  Calm(Leaving(r))
<1> DEFINE s == r.todo  n == Len(s) - 1
<1>1. CASE s # <<>> /\ s[Len(s)][1] \in {"leave", "close"}
 <2>1. Leaving(r) = After(r, n)
   BY <1>1 DEF Leaving
 <2>2. StepsRight(r.op, s) /\ s \in Seq(StepName \X StepArg) /\ DOMAIN r = DOMAIN NoCall
   BY DEF Calm, CallRight, StepsRight, CallShape
 <2>3. n \in Nat /\ Len(s) \in Nat /\ Len(s) > 0 /\ s # <<>>
   BY <1>1, <2>2
 <2>4. CASE n > 0
   BY <2>1, <2>3, <2>4, CalmRest
 <2>5. CASE n = 0
  <3> DEFINE t == SubSeq(s, n + 1, Len(s))  q == After(r, n)
  <3> HIDE DEF s, n
  <3>1. n \in 0..Len(s) /\ 1 \in 1..(Len(s) - n) /\ n + 1 = 1
    BY <2>3, <2>5
  <3>2. IsRest(r.op, s, n, t)
    BY <2>2, <3>1, RestOfSteps
  <3> HIDE DEF t
  <3>3. q = [r EXCEPT !.todo = t]
    BY DEF After, t, s
  <3> HIDE DEF q
  <3>4. SameButSteps(q, r) /\ q.todo = t
    BY <2>2, <3>3, StepsChanged
  <3>5. t[1] = s[1] /\ StepsRight(r.op, t) /\ (QueryAhead(t) => QueryAhead(s))
    BY <3>1, <3>2 DEF IsRest
  <3>6. First(q) \notin {"log_create", "log_update", "log_refresh"}
    BY <2>3, <3>4, <3>5 DEF Calm, First, s
  <3>7. Calm(q)
    BY <3>4, <3>5, <3>6, CalmSteps DEF s
  <3> QED
    BY <2>1, <3>7 DEF q
 <2> HIDE DEF n
 <2>6. n \in Nat
   BY <2>3
 <2>7. n > 0 \/ n = 0
   BY <2>6
 <2> QED
   BY <2>4, <2>5, <2>7
<1>2. CASE ~(s # <<>> /\ s[Len(s)][1] \in {"leave", "close"})
 <2>1. Leaving(r) = [r EXCEPT !.todo = <<>>]
   BY <1>2 DEF Leaving
 <2>2. Calm([r EXCEPT !.todo = <<>>])
   BY CalmStops
 <2> QED
   BY <2>1, <2>2
<1> QED
  BY <1>1, <1>2

LEMMA StartTaskStep ==
  ASSUME IInv, NEW c \in Client, StartTask(c)
  PROVE  IInv'
<1> DEFINE r == Pop(call[c])
           next == IF status[Arg(c)] = "gone" THEN Leaving(r) ELSE Entered(r, Arg(c))
<1>1. Becomes(c, next) /\ Step(c) = "task" /\ UNCHANGED <<dep, status, known, site, logs>>
  BY DEF StartTask, bounds, tenancy
<1>2. Calm(call[c]) /\ Calm(r)
  BY <1>1, CalmMove
<1> HIDE DEF r
<1>3. Calm(next)
  BY <1>2, CalmEntered, CalmLeaving
<1> HIDE DEF next
<1> QED
  BY <1>1, <1>2, <1>3, QuietStep

\* No query follows the end of a transaction.
LEMMA NothingAsked ==
  ASSUME CallsRight, NEW c \in Client, Step(c) \in Ends
  PROVE  ~QueryAhead(Pop(call[c]).todo)
<1> DEFINE s == call[c].todo
<1>1. CallRight(call[c]) /\ Step(c) = First(call[c]) /\ s # <<>>
  BY StepFirst DEF Ends, Step, Idle
<1>2. s \in Seq(StepName \X StepArg) /\ QueriesFirst(s) /\ s[1][1] \in Ends /\ DOMAIN call[c] = DOMAIN NoCall
  BY <1>1 DEF CallRight, StepsRight, First, CallShape
<1>3. Pop(call[c]).todo = Tail(s)
  BY <1>2 DEF Pop, NoCall
<1> HIDE DEF s
<1>4. ASSUME NEW i \in DOMAIN Tail(s) PROVE Tail(s)[i][1] # "query"
 <2>1. Tail(s)[i] = s[i + 1] /\ i + 1 \in DOMAIN s /\ 1 \in DOMAIN s /\ 1 < i + 1
   BY <1>1, <1>2 DEF s
 <2> QED
   BY <1>2, <2>1 DEF QueriesFirst
<1> QED
  BY <1>3, <1>4 DEF QueryAhead

\* A transaction that opens leaves the context as it is; after one that closes
\* there is no query.
LEMMA CalmSession ==
  ASSUME NEW q, Calm(q), NEW s, DOMAIN s = DOMAIN NewSession, s.open \in BOOLEAN,
         (s.tenant = q.ses.tenant /\ s.variable = q.ses.variable) \/ ~QueryAhead(q.todo)
  PROVE  Calm([q EXCEPT !.ses = s])
<1> DEFINE r == [q EXCEPT !.ses = s]
<1>1. DOMAIN q = DOMAIN NoCall
  BY DEF Calm, CallRight, CallShape
<1>2. /\ DOMAIN r = DOMAIN NoCall /\ r.ses = s /\ r.scope = q.scope /\ r.cause = q.cause
      /\ r.op = q.op /\ r.todo = q.todo /\ r.proc = q.proc /\ r.tenant = q.tenant
      /\ r.row = q.row /\ r.before = q.before /\ r.due = q.due /\ r.counted = q.counted
      /\ r.seen = q.seen /\ r.real = q.real /\ r.why = q.why
  BY <1>1 DEF NoCall
<1> HIDE DEF r
<1>3. ContextRight(r) /\ AnswerRight(r)
  BY <1>2 DEF ContextRight, AnswerRight, Calm, CallRight
<1>4. Calm(r)
  BY <1>2, <1>3, CalmChanged
<1> QED
  BY <1>4 DEF r

LEMMA TransactStep ==
  ASSUME IInv, NEW c \in Client, Transact(c)
  PROVE  IInv'
<1> DEFINE r == Pop(call[c])
           opened == [r EXCEPT !.ses = OpenTransaction(r.ses)]
           closed == [r EXCEPT !.ses = CloseTransaction(r.ses)]
<1>1. /\ Step(c) \in {"open", "close", "view", "end_view"}
      /\ UNCHANGED <<dep, status, known, site, logs>>
      /\ Becomes(c, opened) \/ (Step(c) \in Ends /\ Becomes(c, closed)) \/ Becomes(c, r)
 <2>1. Step(c) \in {"open", "close", "view", "end_view"} /\ UNCHANGED <<dep, status, known, site, logs>>
   BY DEF Transact, bounds, tenancy
 <2>2. CASE Step(c) = "open"
   BY <2>1, <2>2 DEF Transact
 <2>3. CASE Step(c) = "close"
   BY <2>1, <2>3 DEF Transact, Ends
 <2>4. CASE Step(c) = "view"
   BY <2>1, <2>4 DEF Transact
 <2>5. CASE Step(c) = "end_view"
   BY <2>1, <2>5 DEF Transact, Ends
 <2> QED
   BY <2>1, <2>2, <2>3, <2>4, <2>5
<1>2. Calm(call[c]) /\ Calm(r)
  BY <1>1, CalmMove
<1>3. Step(c) \in Ends => ~QueryAhead(r.todo)
  BY NothingAsked DEF IInv
<1> HIDE DEF r
<1> DEFINE s == r.ses
<1>4. DOMAIN s = DOMAIN NewSession
  BY <1>2 DEF Calm, CallRight, CallShape
<1> HIDE DEF s
<1>5. /\ DOMAIN OpenTransaction(s) = DOMAIN NewSession /\ OpenTransaction(s).open = TRUE
      /\ OpenTransaction(s).tenant = s.tenant /\ OpenTransaction(s).variable = s.variable
      /\ DOMAIN CloseTransaction(s) = DOMAIN NewSession /\ CloseTransaction(s).open = FALSE
  BY <1>4, Sessions
<1>6. Calm(opened)
 <2> DEFINE o == OpenTransaction(s)
 <2>1. DOMAIN o = DOMAIN NewSession /\ o.open \in BOOLEAN /\ o.tenant = r.ses.tenant /\ o.variable = r.ses.variable
   BY <1>5 DEF s
 <2> HIDE DEF o
 <2>2. Calm([r EXCEPT !.ses = o])
   BY <1>2, <2>1, CalmSession
 <2> QED
   BY <2>2 DEF o, s
<1>7. Step(c) \in Ends => Calm(closed)
 <2> DEFINE o == CloseTransaction(s)
 <2>1. DOMAIN o = DOMAIN NewSession /\ o.open \in BOOLEAN
   BY <1>5
 <2> HIDE DEF o
 <2>2. ~QueryAhead(r.todo) => Calm([r EXCEPT !.ses = o])
   BY <1>2, <2>1, CalmSession
 <2> QED
   BY <1>3, <2>2 DEF o, s
<1> HIDE DEF opened, closed
<1>8. Step(c) \notin {"delete", "forget"}
  BY <1>1
<1> QED
  BY <1>1, <1>2, <1>6, <1>7, <1>8, QuietStep

\* What the manager and the policy let through of the rows.
LEMMA RowsSeen ==
  ASSUME NEW s, NEW scope, s.tenant = scope, NEW strict \in BOOLEAN, NEW rls \in BOOLEAN,
         NEW cause, scope # NoTenant /\ cause = {} => s.variable = scope
  PROVE  LET managed == Managed(rows, s, strict)
             seen == IF rls THEN Permitted(managed, s) ELSE managed
             real == IF scope = NoTenant THEN rows ELSE rows \cap {scope}
             why == IF scope = NoTenant THEN {"outside"} ELSE cause
         IN  seen \subseteq real /\ (seen # real => (rls \/ strict) /\ why # {})
<1>1. CASE scope = NoTenant
  BY <1>1 DEF Managed, Permitted
<1>2. CASE scope # NoTenant
  BY <1>2 DEF Managed, Permitted
<1> QED
  BY <1>1, <1>2

LEMMA QueryStep ==
  ASSUME IInv, NEW c \in Client, Query(c)
  PROVE  IInv'
<1> DEFINE r == Pop(call[c])
           managed == Managed(rows, r.ses, dep.strict)
           seen == IF dep.rls THEN Permitted(managed, r.ses) ELSE managed
           real == IF r.scope = NoTenant THEN rows ELSE rows \cap {r.scope}
           why == IF r.scope = NoTenant THEN {"outside"} ELSE r.cause
           next == [r EXCEPT !.seen = seen, !.real = real, !.why = why]
<1>1. Becomes(c, next) /\ Step(c) = "query" /\ UNCHANGED <<dep, status, known, site, logs>>
  BY DEF Query, bounds, tenancy
<1>2. Calm(call[c]) /\ Calm(r) /\ SameButSteps(r, call[c])
  BY <1>1, CalmMove
<1>3. QueryAhead(call[c].todo)
 <2>1. CallRight(call[c]) /\ call[c].todo # <<>> /\ call[c].todo[1][1] = "query"
   BY <1>1, StepFirst DEF IInv, First
 <2>2. 1 \in DOMAIN call[c].todo
   BY <2>1 DEF CallRight, StepsRight
 <2> QED
   BY <2>1, <2>2 DEF QueryAhead
<1> HIDE DEF r
<1>4. r.scope = r.ses.tenant /\ (r.scope # NoTenant /\ r.cause = {} => r.ses.variable = r.scope)
  BY <1>2, <1>3 DEF SameButSteps, Calm, CallRight, ContextRight
<1>5. dep.strict \in BOOLEAN /\ dep.rls \in BOOLEAN
  BY DEF IInv, Shape, Deployment
<1>6. seen \subseteq real /\ (seen # real => (dep.rls \/ dep.strict) /\ why # {})
  BY <1>4, <1>5, RowsSeen
<1> HIDE DEF seen, real, why
<1>7. DOMAIN r = DOMAIN NoCall /\ DOMAIN r.ses = DOMAIN NewSession /\ r.ses.open \in BOOLEAN
  BY <1>2 DEF Calm, CallRight, CallShape
<1>8. /\ DOMAIN next = DOMAIN NoCall /\ next.ses = r.ses /\ next.scope = r.scope /\ next.cause = r.cause
      /\ next.op = r.op /\ next.todo = r.todo /\ next.proc = r.proc /\ next.tenant = r.tenant
      /\ next.row = r.row /\ next.before = r.before /\ next.due = r.due /\ next.counted = r.counted
      /\ next.seen = seen /\ next.real = real /\ next.why = why
  BY <1>7 DEF NoCall
<1> HIDE DEF next
<1>9. ContextRight(next) /\ AnswerRight(next)
  BY <1>2, <1>6, <1>8 DEF ContextRight, AnswerRight, Calm, CallRight
<1>10. Calm(next)
  BY <1>2, <1>7, <1>8, <1>9, CalmChanged
<1> QED
  BY <1>1, <1>2, <1>10, QuietStep

LEMMA LeaveStep ==
  ASSUME IInv, NEW c \in Client, Leave(c)
  PROVE  IInv'
<1> DEFINE q == call[c]
           w == [q EXCEPT !.due = FALSE, !.counted = FALSE]
           left(r) == IF r.tenant = NoTenant THEN r ELSE Left(r, ClearTenant(r.ses), TRUE)
           next == [left(Pop(q)) EXCEPT !.ses = CloseTransaction(left(Pop(q)).ses), !.counted = FALSE, !.due = FALSE]
<1>1. Becomes(c, next) /\ Step(c) = "leave" /\ UNCHANGED <<dep, status, known, site, logs>>
  BY DEF Leave, bounds, tenancy
<1>2. CallRight(q) /\ First(q) = "leave" /\ q.todo # <<>>
  BY <1>1, StepFirst DEF IInv, Step, Idle
<1>3. ~Owes(q)
  BY <1>2 DEF CallRight, CountRight
<1>4. DOMAIN q = DOMAIN NoCall
  BY <1>2 DEF CallRight, CallShape
<1>5. Calm(w) /\ w.todo = q.todo /\ w.tenant = q.tenant /\ w.ses = q.ses /\ DOMAIN w = DOMAIN NoCall
 <2>1. /\ DOMAIN w = DOMAIN NoCall /\ w.ses = q.ses /\ w.scope = q.scope /\ w.cause = q.cause
       /\ w.op = q.op /\ w.todo = q.todo /\ w.proc = q.proc /\ w.tenant = q.tenant
       /\ w.row = q.row /\ w.before = q.before /\ w.due = FALSE /\ w.counted = FALSE
       /\ w.seen = q.seen /\ w.real = q.real /\ w.why = q.why
   BY <1>4 DEF NoCall
 <2> HIDE DEF w
 <2>2. CallShape(w)
   BY <1>2, <2>1 DEF CallRight, CallShape
 <2>3. StepsRight(w.op, w.todo) /\ ContextRight(w) /\ AnswerRight(w) /\ CountRight(w)
   BY <1>2, <2>1 DEF CallRight, ContextRight, AnswerRight, CountRight, First, Owes
 <2> QED
   BY <1>2, <2>1, <2>2, <2>3 DEF Calm, CallRight, First
<1> DEFINE x == Pop(w)
<1>6. Calm(x) /\ SameButSteps(x, w)
  BY <1>2, <1>5, CalmPop
<1>7. ~QueryAhead(Pop(q).todo) /\ Pop(q).todo = x.todo
 <2>1. ~QueryAhead(Pop(q).todo)
   BY <1>1, NothingAsked DEF IInv, Ends
 <2>2. Pop(q).todo = Tail(q.todo) /\ Pop(w).todo = Tail(w.todo)
   BY <1>4, <1>5 DEF Pop, NoCall
 <2> QED
   BY <1>5, <2>1, <2>2
<1> DEFINE p == Pop(q)
<1>8. /\ DOMAIN p = DOMAIN NoCall /\ p.op = x.op /\ p.todo = x.todo /\ p.proc = x.proc /\ p.tenant = x.tenant
      /\ p.ses = x.ses /\ p.row = x.row /\ p.before = x.before
      /\ p.seen = x.seen /\ p.real = x.real /\ p.why = x.why
 <2>1. SameButSteps(p, q)
   BY <1>4, StepsChanged DEF Pop
 <2>2. /\ w.op = q.op /\ w.proc = q.proc /\ w.tenant = q.tenant /\ w.ses = q.ses /\ w.row = q.row
       /\ w.before = q.before /\ w.seen = q.seen /\ w.real = q.real /\ w.why = q.why
   BY <1>4 DEF NoCall
 <2> HIDE DEF p, x, w, q
 <2> QED
   BY <1>6, <1>7, <2>1, <2>2 DEF SameButSteps, p
<1>9. x.due = FALSE /\ x.counted = FALSE
 <2>1. w.due = FALSE /\ w.counted = FALSE
   BY <1>4 DEF NoCall
 <2> HIDE DEF x, w
 <2> QED
   BY <1>6, <2>1 DEF SameButSteps
<1> DEFINE l == left(p)
<1>10. next = [l EXCEPT !.ses = CloseTransaction(l.ses), !.counted = FALSE, !.due = FALSE]
  OBVIOUS
<1> HIDE DEF x, w, p, next
<1>11. DOMAIN p.ses = DOMAIN NewSession
  BY <1>6, <1>8 DEF Calm, CallRight, CallShape
<1>12. /\ DOMAIN l = DOMAIN NoCall /\ l.op = p.op /\ l.todo = p.todo /\ l.proc = p.proc /\ l.tenant = p.tenant
       /\ DOMAIN l.ses = DOMAIN NewSession /\ l.row = p.row /\ l.before = p.before
       /\ l.seen = p.seen /\ l.real = p.real /\ l.why = p.why
 <2> DEFINE s == p.ses
 <2>1. DOMAIN s = DOMAIN NewSession
   BY <1>11
 <2> HIDE DEF s
 <2>2. DOMAIN ClearTenant(s) = DOMAIN NewSession
   BY <2>1, Sessions
 <2> DEFINE s2 == ClearTenant(s)
 <2> HIDE DEF s2
 <2>3. l = IF p.tenant = NoTenant THEN p ELSE Left(p, s2, TRUE)
   BY DEF s2, s
 <2> QED
   BY <1>8, <2>1, <2>2, <2>3 DEF Left, NoCall, s2, s
<1> HIDE DEF l
<1> DEFINE s == CloseTransaction(l.ses)
<1>13. DOMAIN s = DOMAIN NewSession /\ s.open = FALSE
 <2> DEFINE s0 == l.ses
 <2>1. DOMAIN s0 = DOMAIN NewSession
   BY <1>12
 <2> HIDE DEF s0
 <2>2. DOMAIN CloseTransaction(s0) = DOMAIN NewSession /\ CloseTransaction(s0).open = FALSE
   BY <2>1, Sessions
 <2> QED
   BY <2>2 DEF s0
<1> HIDE DEF s
<1>14. /\ DOMAIN next = DOMAIN NoCall /\ next.op = l.op /\ next.todo = l.todo /\ next.proc = l.proc
       /\ next.tenant = l.tenant /\ next.ses = s /\ next.row = l.row /\ next.before = l.before
       /\ next.seen = l.seen /\ next.real = l.real /\ next.why = l.why /\ next.due = FALSE /\ next.counted = FALSE
  BY <1>10, <1>12 DEF NoCall, s
<1>15. ContextRight(next) /\ AnswerRight(next)
  BY <1>6, <1>7, <1>8, <1>12, <1>14 DEF ContextRight, AnswerRight, Calm, CallRight, p
<1>16. Calm(next)
  BY <1>6, <1>8, <1>9, <1>12, <1>13, <1>14, <1>15, CalmChanged
<1> QED
  BY <1>1, <1>3, <1>16, ReleaseStep

(* ---------------------------- changes of tenants --------------------------- *)

(* What is known of a tenant after it has changed: the entry that now differs  *)
(* has a cause, but where the tenant is about to be forgotten.                 *)
Foretold(after, t, new, by, cause) ==
  /\ DOMAIN after = Process
  /\ \A p \in Process :
       /\ DOMAIN after[p] = Tenant
       /\ \A u \in Tenant :
            /\ DOMAIN after[p][u] = DOMAIN Unknown
            /\ after[p][u].there = known[p][u].there /\ after[p][u].status = known[p][u].status
            /\ after[p][u].why = {} => known[p][u].why = {}
            /\ u # t => after[p][u] = known[p][u]
       /\ t \in Tenant /\ after[p][t].there /\ after[p][t].why = {} =>
            after[p][t].status = new \/ (p = by /\ cause = "none")

LEMMA OutdatedRight ==
  ASSUME Shape, NEW t, NEW new, NEW by, NEW cause
  PROVE  Foretold(Outdated(t, new, by, cause), t, new, by, cause)
<1> DEFINE after == Outdated(t, new, by, cause)
<1>1. DOMAIN after = Process
  BY DEF Outdated
<1>2. ASSUME NEW p \in Process
      PROVE  /\ DOMAIN after[p] = Tenant
             /\ \A u \in Tenant :
                   /\ DOMAIN after[p][u] = DOMAIN Unknown
                   /\ after[p][u].there = known[p][u].there /\ after[p][u].status = known[p][u].status
                   /\ after[p][u].why = {} => known[p][u].why = {}
                   /\ u # t => after[p][u] = known[p][u]
             /\ t \in Tenant /\ after[p][t].there /\ after[p][t].why = {} =>
                  after[p][t].status = new \/ (p = by /\ cause = "none")
 <2> DEFINE k == known[p]  entry == k[t]
            reason == {IF p = by THEN cause ELSE "elsewhere"}
 <2>1. /\ DOMAIN k = Tenant
       /\ \A u \in Tenant : DOMAIN k[u] = {"there", "status", "why"}
   BY DEF Shape, Unknown
 <2>2. after[p] = IF ~entry.there \/ entry.status = new \/ (p = by /\ cause = "none") THEN k
                  ELSE [k EXCEPT ![t].why = @ \cup reason]
   BY DEF Outdated
 <2>3. reason # {}
   OBVIOUS
 <2> DEFINE a == after[p]
 <2> HIDE DEF after, k, reason, a
 <2>4. CASE ~entry.there \/ entry.status = new \/ (p = by /\ cause = "none")
  <3>1. a = k
    BY <2>2, <2>4 DEF a
  <3> QED
    BY <2>1, <2>4, <3>1 DEF a, k, Unknown
 <2>5. CASE ~(~entry.there \/ entry.status = new \/ (p = by /\ cause = "none"))
  <3>1. a = [k EXCEPT ![t].why = @ \cup reason]
    BY <2>2, <2>5 DEF a
  <3>2. DOMAIN a = Tenant /\ \A u \in Tenant : u # t => a[u] = k[u]
    BY <2>1, <3>1
  <3>3. t \in Tenant => /\ DOMAIN a[t] = {"there", "status", "why"} /\ a[t].there = k[t].there
                        /\ a[t].status = k[t].status /\ a[t].why = k[t].why \cup reason
    BY <2>1, <3>1
  <3>4. DOMAIN Unknown = {"there", "status", "why"}
    BY DEF Unknown
  <3> QED
    BY <2>1, <2>3, <3>2, <3>3, <3>4 DEF a, k
 <2> QED
   BY <2>4, <2>5
<1> HIDE DEF after
<1>3. Foretold(after, t, new, by, cause)
  BY <1>1, <1>2 DEF Foretold
<1> QED
  BY <1>3 DEF after

LEMMA CalmNone == Calm(NoCall)
<1>1. /\ NoCall.op = "none" /\ NoCall.todo = <<>> /\ NoCall.proc = "p1" /\ NoCall.tenant = NoTenant
      /\ NoCall.ses = NewSession /\ NoCall.row = NoRow /\ NoCall.before = NoRow
      /\ NoCall.due = FALSE /\ NoCall.counted = FALSE /\ NoCall.seen = {} /\ NoCall.real = {} /\ NoCall.why = {}
  BY DEF NoCall
<1>2. NoRow \in LogRow /\ NewSession.open = FALSE /\ NoTenant \in Owner /\ "p1" \in Process
  BY DEF NoRow, LogRow, NewSession, Owner, Process
<1>3. CallShape(NoCall)
  BY <1>1, <1>2 DEF CallShape
<1>4. /\ StepsRight(NoCall.op, NoCall.todo) /\ ContextRight(NoCall) /\ AnswerRight(NoCall) /\ CountRight(NoCall)
      /\ First(NoCall) = "none"
  BY <1>1 DEF StepsRight, QueriesFirst, DeletesNext, ForgetsNext, LogsInOrder, ContextRight,
              QueryAhead, AnswerRight, CountRight, Owes, First
<1> QED
  BY <1>1, <1>3, <1>4 DEF Calm, CallRight

LEMMA TailOf ==
  ASSUME NEW S, NEW s \in Seq(S), s # <<>>
  PROVE  /\ DOMAIN s = 1..Len(s) /\ Len(s) \in Nat /\ Len(s) > 0
         /\ DOMAIN Tail(s) = 1..(Len(s) - 1)
         /\ \A i \in DOMAIN Tail(s) : Tail(s)[i] = s[i + 1]
         /\ Tail(s) = <<>> <=> Len(s) = 1
<1>1. DOMAIN s = 1..Len(s) /\ Len(s) \in Nat /\ Len(s) > 0
  OBVIOUS
<1>2. Tail(s) \in Seq(S) /\ Len(Tail(s)) = Len(s) - 1 /\ \A i \in 1..(Len(s) - 1) : Tail(s)[i] = s[i + 1]
  OBVIOUS
<1> DEFINE t == Tail(s)
<1> HIDE DEF t
<1>3. t \in Seq(S) /\ Len(t) = Len(s) - 1
  BY <1>2 DEF t
<1>4. DOMAIN t = 1..(Len(s) - 1) /\ (t = <<>> <=> Len(t) = 0)
  BY <1>3
<1>5. t = <<>> <=> Len(s) = 1
  BY <1>1, <1>3, <1>4
<1> QED
  BY <1>1, <1>2, <1>4, <1>5 DEF t

\* The tail of the list of a call, step by step.
LEMMA TailRight ==
  ASSUME NEW r, CallRight(r), r.todo # <<>>
  PROVE  /\ Pop(r).todo = Tail(r.todo) /\ DOMAIN r.todo = 1..Len(r.todo) /\ Len(r.todo) \in Nat /\ Len(r.todo) > 0
         /\ DOMAIN Tail(r.todo) = 1..(Len(r.todo) - 1)
         /\ \A i \in DOMAIN Tail(r.todo) : Tail(r.todo)[i] = r.todo[i + 1]
         /\ Tail(r.todo) = <<>> <=> Len(r.todo) = 1
<1>1. r.todo \in Seq(StepName \X StepArg) /\ DOMAIN r = DOMAIN NoCall
  BY DEF CallRight, StepsRight, CallShape
<1>2. Pop(r).todo = Tail(r.todo)
  BY <1>1 DEF Pop, NoCall
<1> QED
  BY <1>1, <1>2, TailOf

\* The step after a step that has one is the next that its call makes.
LEMMA NextStep ==
  ASSUME CallsRight, NEW c \in Client, call[c].todo # <<>>, 2 \in DOMAIN call[c].todo,
         NEW q, q.todo = Pop(call[c]).todo, call'[c] = Landing(q)
  PROVE  /\ Step(c)' = call[c].todo[2][1] /\ Arg(c)' = call[c].todo[2][2]
         /\ call'[c] = q
<1> DEFINE r == call[c]  t == Tail(r.todo)
<1>1. CallRight(r)
  BY DEF CallsRight
<1>2. q.todo = t /\ t # <<>> /\ t[1] = r.todo[2]
 <2>1. 1 \in DOMAIN t /\ Len(r.todo) # 1
   BY <1>1, TailRight
 <2> QED
   BY <1>1, <2>1, TailRight
<1>3. call'[c] = q /\ call'[c].todo = t
  BY <1>2 DEF Landing
<1>4. Head(t) = t[1]
  OBVIOUS
<1>5. Head(call'[c].todo) = r.todo[2] /\ call'[c].todo # <<>>
  BY <1>2, <1>3, <1>4
<1> QED
  BY <1>3, <1>5 DEF Step, Idle, Arg

LEMMA SwitchStep ==
  ASSUME IInv, NEW c \in Client, Switch(c)
  PROVE  IInv'
<1> DEFINE r == call[c]  t == r.tenant
           new == IF status[t] = "active" THEN "inactive" ELSE "active"
           cause == CauseOf(r)
           after == Outdated(t, new, r.proc, cause)
<1>1. Step(c) = "switch" /\ UNCHANGED <<dep, site, logs>>
  BY DEF Switch, bounds
<1>2. Calm(r) /\ r.todo # <<>> /\ Calm(Pop(r)) /\ SameButSteps(Pop(r), r) /\ CallRight(r) /\ First(r) = "switch"
  BY <1>1, CalmMove, StepFirst DEF IInv
<1>3. CASE status[t] = "gone"
 <2>1. Becomes(c, NoCall) /\ UNCHANGED <<status, known>>
   BY <1>3 DEF Switch, tenancy
 <2> QED
   BY <1>1, <1>2, <2>1, CalmNone, QuietStep
<1>4. CASE status[t] # "gone"
 <2>1. Becomes(c, Pop(r)) /\ status' = [status EXCEPT ![t] = new] /\ known' = after
   BY <1>4 DEF Switch, Continue
 <2>2. Foretold(after, t, new, r.proc, cause)
   BY OutdatedRight DEF IInv
 <2>3. /\ DOMAIN status = Tenant /\ DOMAIN status' = Tenant
       /\ \A u \in Tenant : u # t => status'[u] = status[u]
       /\ t \in Tenant => status'[t] = new
   BY <2>1 DEF IInv, Shape
 <2> HIDE DEF after, new
 <2>4. ASSUME call'[c] = Landing(Pop(r)), Alone(c) PROVE TenantsFollow'
  <3> SUFFICES ASSUME NEW p \in Process, NEW u \in Tenant,
                      known'[p][u].there, known'[p][u].status # status'[u], known'[p][u].why = {}
               PROVE  Forgetting(p, u)'
    BY DEF TenantsFollow
  <3>1. CASE u # t
   <4>1. Forgetting(p, u)
     BY <2>1, <2>2, <2>3, <3>1 DEF IInv, TenantsFollow, Foretold
   <4> QED
     BY <1>1, <2>4, <4>1, OthersForget
  <3>2. CASE u = t
   <4>1. p = r.proc /\ "forget" \in Ahead(r)
     BY <2>1, <2>2, <2>3, <3>2 DEF Foretold, CauseOf
   <4>2. PICK j \in DOMAIN r.todo : r.todo[j][1] = "forget"
     BY <4>1 DEF Ahead
   <4>3. r.todo[1][1] = "switch" /\ 1 \in DOMAIN r.todo /\ ForgetsNext(r.todo) /\ DOMAIN r.todo \subseteq Nat \ {0}
     BY <1>2, TailRight DEF First, CallRight, StepsRight
   <4>4. j = 1 + 1
    <5>1. 1 < j
      BY <4>2, <4>3
    <5> QED
      BY <4>2, <4>3, <5>1 DEF ForgetsNext
   <4>5. Step(c)' = "forget" /\ call'[c] = Pop(r)
    <5>1. 2 \in DOMAIN call[c].todo /\ call[c].todo[2][1] = "forget"
      BY <4>2, <4>4
    <5> QED
      BY <1>2, <2>4, <5>1, NextStep DEF IInv
   <4>6. (Step(c) = "forget" /\ call[c].proc = p /\ call[c].tenant = u)'
     BY <1>2, <3>2, <4>1, <4>5 DEF SameButSteps
   <4> QED
     BY <4>6 DEF Forgetting
  <3> QED
    BY <3>1, <3>2
 <2>5. /\ DOMAIN known' = Process
       /\ \A p \in Process : DOMAIN known'[p] = Tenant /\ \A u \in Tenant : DOMAIN known'[p][u] = DOMAIN Unknown
   BY <2>1, <2>2 DEF Foretold
 <2> HIDE DEF r
 <2>6. Calm(call[c]) /\ Calm(Pop(r)) /\ Becomes(c, Pop(r)) /\ Step(c) # "delete"
   BY <1>1, <1>2, <2>1 DEF r
 <2> QED
   BY <1>1, <2>3, <2>4, <2>5, <2>6, TenantsStep
<1> QED
  BY <1>3, <1>4

LEMMA ForgetStep ==
  ASSUME IInv, NEW c \in Client, Forget(c)
  PROVE  IInv'
<1> DEFINE r == call[c]
<1>1. /\ Step(c) = "forget" /\ Becomes(c, Pop(r)) /\ UNCHANGED <<dep, status, site, logs>>
      /\ known' = [known EXCEPT ![r.proc] = [@ EXCEPT ![r.tenant] = Unknown]]
  BY DEF Forget, Forgotten, Continue, bounds
<1>2. Calm(r) /\ Calm(Pop(r))
  BY <1>1, CalmMove
<1>3. Shape
  BY DEF IInv
<1>4. /\ DOMAIN known' = Process /\ DOMAIN status' = Tenant
      /\ \A p \in Process : DOMAIN known'[p] = Tenant
      /\ \A p \in Process, t \in Tenant :
           known'[p][t] = known[p][t] \/ (p = r.proc /\ t = r.tenant /\ known'[p][t] = Unknown)
      /\ \A p \in Process, t \in Tenant : p = r.proc /\ t = r.tenant => known'[p][t] = Unknown
 <2> HIDE DEF r
 <2> QED
   BY <1>1, <1>3 DEF Shape
<1>5. \A p \in Process : DOMAIN known'[p] = Tenant /\ \A t \in Tenant : DOMAIN known'[p][t] = DOMAIN Unknown
  BY <1>3, <1>4 DEF Shape
<1>6. ASSUME call'[c] = Landing(Pop(r)), Alone(c) PROVE TenantsFollow'
 <2> SUFFICES ASSUME NEW p \in Process, NEW t \in Tenant,
                     known'[p][t].there, known'[p][t].status # status'[t], known'[p][t].why = {}
              PROVE  Forgetting(p, t)'
   BY DEF TenantsFollow
 <2>1. ~Unknown.there
   BY DEF Unknown
 <2>2. known'[p][t] = known[p][t] /\ ~(p = r.proc /\ t = r.tenant)
   BY <1>4, <2>1
 <2>3. Forgetting(p, t)
   BY <1>1, <2>2 DEF IInv, TenantsFollow
 <2> QED
   BY <1>6, <2>2, <2>3, OthersForget
<1> HIDE DEF r
<1>7. Calm(call[c]) /\ Step(c) # "delete"
  BY <1>1, <1>2 DEF r
<1> QED
  BY <1>1, <1>2, <1>4, <1>5, <1>6, <1>7, TenantsStep

LEMMA EraseStep ==
  ASSUME IInv, NEW c \in Client, Erase(c)
  PROVE  IInv'
<1> DEFINE r == call[c]  t == r.tenant  after == Outdated(t, "gone", r.proc, "uncommitted")
<1>1. /\ Step(c) \in {"erase_rows", "erase_tenant"} /\ Becomes(c, Pop(r)) /\ UNCHANGED <<dep, site, logs>>
      /\ UNCHANGED <<status, known>> \/ (status' = [status EXCEPT ![t] = "gone"] /\ known' = after)
  BY DEF Erase, Continue, bounds
<1>2. Calm(r) /\ Calm(Pop(r))
  BY <1>1, CalmMove
<1>3. CASE UNCHANGED <<status, known>>
  BY <1>1, <1>2, <1>3, QuietStep
<1>4. CASE status' = [status EXCEPT ![t] = "gone"] /\ known' = after
 <2>2. Foretold(after, t, "gone", r.proc, "uncommitted")
   BY OutdatedRight DEF IInv
 <2>3. /\ DOMAIN status = Tenant /\ DOMAIN status' = Tenant
       /\ \A u \in Tenant : u # t => status'[u] = status[u]
       /\ t \in Tenant => status'[t] = "gone"
   BY <1>4 DEF IInv, Shape
 <2> HIDE DEF after
 <2>4. ASSUME call'[c] = Landing(Pop(r)), Alone(c) PROVE TenantsFollow'
  <3> SUFFICES ASSUME NEW p \in Process, NEW u \in Tenant,
                      known'[p][u].there, known'[p][u].status # status'[u], known'[p][u].why = {}
               PROVE  Forgetting(p, u)'
    BY DEF TenantsFollow
  <3>1. u # t
    BY <1>4, <2>2, <2>3 DEF Foretold
  <3>2. Forgetting(p, u)
    BY <1>4, <2>2, <2>3, <3>1 DEF IInv, TenantsFollow, Foretold
  <3> QED
    BY <2>4, <3>1, <3>2, OthersForget
 <2>5. /\ DOMAIN known' = Process
       /\ \A p \in Process : DOMAIN known'[p] = Tenant /\ \A u \in Tenant : DOMAIN known'[p][u] = DOMAIN Unknown
   BY <1>4, <2>2 DEF Foretold
 <2> HIDE DEF r
 <2>6. Calm(call[c]) /\ Calm(Pop(r)) /\ Becomes(c, Pop(r)) /\ Step(c) # "delete"
   BY <1>1, <1>2 DEF r
 <2> QED
   BY <1>1, <2>3, <2>4, <2>5, <2>6, TenantsStep
<1> QED
  BY <1>1, <1>3, <1>4

(* ----------------------------- rules and texts ----------------------------- *)

LEMMA CalmVersion ==
  ASSUME NEW q, Calm(q), NEW v
  PROVE  Calm([q EXCEPT !.ver = v])
<1>1. DOMAIN q = DOMAIN NoCall
  BY DEF Calm, CallRight, CallShape
<1> QED
  BY <1>1, CalmKeeps DEF NoCall

LEMMA CalmFile ==
  ASSUME NEW r, Calm(r), NEW f
  PROVE  Calm(AfterFile(r, f))
BY CalmLeaving DEF AfterFile

LEMMA ThreeLists ==
  ASSUME NEW S, NEW x \in S, NEW y \in S, NEW z \in S
  PROVE  /\ LET w == (<<x>> \o <<y>>) \o <<z>> IN w \in Seq(S) /\ Len(w) = 3 /\ w[1] = x /\ w[2] = y /\ w[3] = z
         /\ LET w == (<<x>> \o <<>>) \o <<z>> IN w \in Seq(S) /\ Len(w) = 2 /\ w[1] = x /\ w[2] = z
OBVIOUS

\* A request that has found nothing.
LEMMA CalmNotFound ==
  ASSUME NEW r, Calm(r)
  PROVE  Calm(NotFound(r))
<1> DEFINE x == <<"end_view", "">>  y == <<"log_get", "">>  z == <<"leave", "">>
           S == StepName \X StepArg
           w == (<<x>> \o (IF dep.redirects THEN <<y>> ELSE <<>>)) \o <<z>>
           q == NotFound(r)
<1>1. x \in S /\ y \in S /\ z \in S
  BY DEF StepName, Ends, StepArg
<1>2. x[1] = "end_view" /\ y[1] = "log_get" /\ z[1] = "leave"
  OBVIOUS
<1>3. q = [r EXCEPT !.todo = w]
  BY DEF NotFound, Do
<1> HIDE DEF x, y, z, S, q
<1>4. \/ w \in Seq(S) /\ Len(w) = 3 /\ w[1] = x /\ w[2] = y /\ w[3] = z
      \/ w \in Seq(S) /\ Len(w) = 2 /\ w[1] = x /\ w[2] = z
  BY <1>1, ThreeLists
<1> HIDE DEF w
<1>5. SameButSteps(q, r) /\ q.todo = w
  BY <1>3, StepsChanged DEF Calm, CallRight, CallShape
<1>6. /\ w \in Seq(S) /\ DOMAIN w \subseteq 1..3 /\ w # <<>>
      /\ \A i \in DOMAIN w : w[i][1] \in {"end_view", "log_get", "leave"}
      /\ \A i \in DOMAIN w : w[i][1] = "log_get" => i = 2 /\ 3 \in DOMAIN w /\ w[3][1] = "leave"
      /\ w[1][1] = "end_view"
 <2>1. CASE w \in Seq(S) /\ Len(w) = 3 /\ w[1] = x /\ w[2] = y /\ w[3] = z
  <3>1. DOMAIN w = 1..3 /\ w # <<>>
    BY <2>1
  <3> QED
    BY <1>2, <2>1, <3>1
 <2>2. CASE w \in Seq(S) /\ Len(w) = 2 /\ w[1] = x /\ w[2] = z
  <3>1. DOMAIN w = 1..2 /\ w # <<>>
    BY <2>2
  <3> QED
    BY <1>2, <2>2, <3>1
 <2> QED
   BY <1>4, <2>1, <2>2
<1>7. StepsRight(r.op, w) /\ ~QueryAhead(w)
  BY <1>6 DEF StepsRight, QueriesFirst, DeletesNext, Uncovered, ForgetsNext, LogsInOrder, Precedes, QueryAhead, S
<1>8. First(q) \notin {"log_create", "log_update", "log_refresh"}
  BY <1>5, <1>6 DEF First
<1>9. Calm(q)
  BY <1>5, <1>7, <1>8, CalmSteps
<1> QED
  BY <1>9 DEF q

LEMMA CacheGetStep ==
  ASSUME IInv, NEW c \in Client, CacheGet(c)
  PROVE  IInv'
<1> DEFINE r == call[c]  entry == cache[MyKey(c)]
           next == IF entry.there THEN AfterFile([After(r, 3) EXCEPT !.ver = entry.ver], Arg(c)) ELSE Pop(r)
<1>1. Becomes(c, next) /\ Step(c) = "get" /\ UNCHANGED <<dep, status, known, site, logs>>
  BY DEF CacheGet, bounds, tenancy
<1>2. Calm(r) /\ Calm(Pop(r))
  BY <1>1, CalmMove
<1> DEFINE a == After(r, 3)
<1>3. Calm(a)
  BY <1>2, CalmRest
<1> HIDE DEF a, r, entry
<1>4. Calm([a EXCEPT !.ver = entry.ver])
  BY <1>3, CalmVersion
<1>5. Calm(AfterFile([a EXCEPT !.ver = entry.ver], Arg(c)))
  BY <1>4, CalmFile
<1>6. Calm(next)
  BY <1>2, <1>5 DEF a
<1> HIDE DEF next
<1>7. Calm(call[c])
  BY <1>2 DEF r
<1> QED
  BY <1>1, <1>6, <1>7, QuietStep

LEMMA CacheReadStep ==
  ASSUME IInv, NEW c \in Client, CacheRead(c)
  PROVE  IInv'
<1> DEFINE r == Pop(call[c])  f == Arg(c)  v == content[MyKey(c)]
           shown == [r EXCEPT !.ver = v]  empty == [r EXCEPT !.ver = NoText]
<1>1. Step(c) = "read" /\ UNCHANGED <<dep, status, known, site, logs>>
  BY DEF CacheRead, bounds, tenancy
<1>2. \E next \in {NotFound(r), shown, After(r, 1), empty, Leaving(r)} : Becomes(c, next)
 <2>1. CASE Becomes(c, IF f \in Texts /\ v <= 0 THEN NotFound(r) ELSE shown)
   BY <2>1
 <2>2. CASE Becomes(c, CASE f = "redirects" -> After(r, 1) [] f \in Texts -> Leaving(r) [] OTHER -> empty)
  <3>1. CASE f = "redirects"
    BY <2>2, <3>1 DEF Texts
  <3>2. CASE f \in Texts
    BY <2>2, <3>2 DEF Texts
  <3>3. CASE f # "redirects" /\ f \notin Texts
    BY <2>2, <3>3
  <3> QED
    BY <3>1, <3>2, <3>3
 <2> QED
   BY <2>1, <2>2 DEF CacheRead
<1>3. Calm(call[c]) /\ Calm(r)
  BY <1>1, CalmMove
<1> HIDE DEF r
<1>4. Calm(NotFound(r)) /\ Calm(shown) /\ Calm(After(r, 1)) /\ Calm(empty) /\ Calm(Leaving(r))
  BY <1>3, CalmNotFound, CalmVersion, CalmRest, CalmLeaving
<1> HIDE DEF shown, empty
<1>5. PICK next : Becomes(c, next) /\ Calm(next)
  BY <1>2, <1>4
<1> QED
  BY <1>1, <1>3, <1>5, QuietStep

LEMMA CacheSetStep ==
  ASSUME IInv, NEW c \in Client, CacheSet(c)
  PROVE  IInv'
<1> DEFINE v == call[c].ver  k == MyKey(c)  next == AfterFile(Pop(call[c]), Arg(c))
           entry == [there |-> TRUE, ver |-> v,
                     why |-> IF v = NoText THEN {"error"} ELSE IF v = content[k] THEN {} ELSE {"late"}]
<1>1. /\ Step(c) = "set" /\ Becomes(c, next) /\ cache' = [cache EXCEPT ![k] = entry]
      /\ UNCHANGED <<dep, status, known, content, logs>>
  BY DEF CacheSet, bounds, tenancy
<1>2. Calm(call[c]) /\ Calm(next)
  BY <1>1, CalmMove, CalmFile
<1>3. DOMAIN entry = DOMAIN NoEntry /\ (entry.ver = content[k] \/ entry.why # {})
  BY DEF NoEntry
<1> HIDE DEF next, entry, v, k
<1>4. /\ DOMAIN content' = Key /\ DOMAIN cache' = Key /\ \A l \in Key : DOMAIN cache'[l] = DOMAIN NoEntry
      /\ \A l \in Key : cache'[l] = IF l = k THEN entry ELSE cache[l]
  BY <1>1, <1>3 DEF IInv, Shape
<1>5. ASSUME call'[c] = Landing(next), Alone(c) PROVE FilesFollow'
 <2> SUFFICES ASSUME NEW l \in Key, cache'[l].there, cache'[l].ver # content[l], cache'[l].why = {}
              PROVE  Deleting(l)'
   BY <1>1 DEF FilesFollow
 <2>1. Deleting(l)
   BY <1>3, <1>4 DEF IInv, FilesFollow
 <2> QED
   BY <1>1, <1>5, <2>1, OthersDelete
<1>6. Step(c) # "forget" /\ UNCHANGED <<dep, status, known, logs>>
  BY <1>1
<1> QED
  BY <1>1, <1>2, <1>4, <1>5, <1>6, FilesStep

\* The entries after a change that has no handler of its own.
SpoiltKnown(after, new, keys) ==
  /\ DOMAIN after = Key
  /\ \A k \in Key :
       /\ DOMAIN after[k] = DOMAIN NoEntry
       /\ after[k].there = cache[k].there /\ after[k].ver = cache[k].ver
       /\ after[k].why = {} => cache[k].why = {}
       /\ k \in keys /\ after[k].there /\ after[k].why = {} => after[k].ver = new[k]

LEMMA SpoiltRight ==
  ASSUME Shape, NEW new, NEW keys, NEW cause
  PROVE  SpoiltKnown(Spoilt(new, keys, cause), new, keys)
<1> DEFINE after == Spoilt(new, keys, cause)
<1>1. DOMAIN after = Key
  BY DEF Spoilt
<1>2. ASSUME NEW k \in Key
      PROVE  /\ DOMAIN after[k] = DOMAIN NoEntry
             /\ after[k].there = cache[k].there /\ after[k].ver = cache[k].ver
             /\ after[k].why = {} => cache[k].why = {}
             /\ k \in keys /\ after[k].there /\ after[k].why = {} => after[k].ver = new[k]
 <2> DEFINE e == cache[k]  a == after[k]
 <2>1. DOMAIN e = {"there", "ver", "why"} /\ DOMAIN NoEntry = {"there", "ver", "why"}
   BY DEF Shape, NoEntry
 <2>2. a = IF k \in keys /\ e.there /\ e.ver # new[k] THEN [e EXCEPT !.why = @ \cup {cause}] ELSE e
   BY DEF Spoilt
 <2> HIDE DEF e, after, a
 <2>3. /\ DOMAIN a = {"there", "ver", "why"} /\ a.there = e.there /\ a.ver = e.ver
       /\ a.why = {} => e.why = {} /\ (k \in keys /\ e.there => e.ver = new[k])
   BY <2>1, <2>2
 <2> QED
   BY <2>1, <2>3 DEF a, e
<1> HIDE DEF after
<1>3. SpoiltKnown(after, new, keys)
  BY <1>1, <1>2 DEF SpoiltKnown
<1> QED
  BY <1>3 DEF after

\* A change that leaves its entry alone is followed by the deletion of it.
LEMMA DeletesThen ==
  ASSUME IInv, NEW c \in Client, Step(c) # "none", Uncovered(call[c].op, <<Step(c), Arg(c)>>),
         NEW q, q.todo = Pop(call[c]).todo, call'[c] = Landing(q),
         NEW k, k = <<Arg(c), q.tenant>>
  PROVE  Deleting(k)'
<1> DEFINE s == call[c].todo
<1>1. /\ CallRight(call[c]) /\ s # <<>> /\ s[1] = <<Step(c), Arg(c)>> /\ Arg(c) = s[1][2]
  BY StepFirst DEF IInv, Idle
<1>2. 1 \in DOMAIN s /\ DeletesNext(call[c].op, s)
 <2>1. DOMAIN s = 1..Len(s) /\ Len(s) \in Nat /\ Len(s) > 0
   BY <1>1, TailRight
 <2> QED
   BY <1>1, <2>1 DEF CallRight, StepsRight
<1>3. Uncovered(call[c].op, s[1])
  BY <1>1
<1>4. 1 + 1 \in DOMAIN s /\ s[1 + 1] = <<"delete", s[1][2]>>
  BY <1>2, <1>3 DEF DeletesNext
<1>5. 2 \in DOMAIN s /\ s[2][1] = "delete" /\ s[2][2] = Arg(c)
  BY <1>1, <1>4
<1>6. Step(c)' = "delete" /\ Arg(c)' = Arg(c) /\ call'[c] = q
  BY <1>1, <1>5, NextStep DEF IInv
<1>7. (Step(c) = "delete")' /\ (MyKey(c) = k)'
  BY <1>6 DEF MyKey
<1> QED
  BY <1>7 DEF Deleting

LEMMA WriteStep ==
  ASSUME IInv, NEW c \in Client, Write(c)
  PROVE  IInv'
<1> DEFINE k == MyKey(c)  r == call[c]
<1>1. Step(c) = "write" /\ UNCHANGED <<dep, status, known, cache, logs>>
  BY DEF Write, tenancy, bounds
<1>2. Calm(r) /\ Calm(Pop(r)) /\ SameButSteps(Pop(r), r)
  BY <1>1, CalmMove
<1>3. CASE Becomes(c, After(r, 2)) /\ UNCHANGED content
 <2>1. Calm(After(r, 2))
   BY <1>2, CalmRest
 <2> QED
   BY <1>1, <1>2, <1>3, <2>1, QuietStep DEF site
<1>4. CASE Becomes(c, Pop(r)) /\ content' = [content EXCEPT ![k] = Newer(@)]
 <2>1. /\ DOMAIN content' = Key /\ \A l \in Key : l # k => content'[l] = content[l]
       /\ DOMAIN cache' = Key /\ \A l \in Key : DOMAIN cache'[l] = DOMAIN NoEntry
   BY <1>1, <1>4 DEF IInv, Shape
 <2>2. ASSUME call'[c] = Landing(Pop(r)), Alone(c) PROVE FilesFollow'
  <3> SUFFICES ASSUME NEW l \in Key, cache'[l].there, cache'[l].ver # content'[l], cache'[l].why = {}
               PROVE  Deleting(l)'
    BY DEF FilesFollow
  <3>1. CASE l = k
   <4>1. Uncovered(r.op, <<Step(c), Arg(c)>>) /\ Step(c) # "none"
     BY <1>1 DEF Uncovered
   <4>2. l = <<Arg(c), Pop(r).tenant>>
     BY <1>2, <3>1 DEF MyKey, SameButSteps
   <4> QED
     BY <2>2, <4>1, <4>2, DeletesThen
  <3>2. CASE l # k
   <4>1. Deleting(l)
     BY <1>1, <2>1, <3>2 DEF IInv, FilesFollow
   <4> QED
     BY <1>1, <2>2, <4>1, OthersDelete
  <3> QED
    BY <3>1, <3>2
 <2> HIDE DEF r
 <2>3. Calm(call[c]) /\ Step(c) # "forget" /\ UNCHANGED <<dep, status, known, logs>>
   BY <1>1, <1>2 DEF r
 <2> QED
   BY <1>2, <1>4, <2>1, <2>2, <2>3, FilesStep
<1> QED
  BY <1>3, <1>4 DEF Write, Continue

LEMMA DraftStep ==
  ASSUME IInv, NEW c \in Client, Draft(c)
  PROVE  IInv'
<1>1. Step(c) = "draft" /\ Becomes(c, Pop(call[c])) /\ UNCHANGED <<dep, status, known, site, logs>>
  BY DEF Draft, Continue, tenancy, bounds
<1>2. Calm(call[c]) /\ Calm(Pop(call[c]))
  BY <1>1, CalmMove
<1> QED
  BY <1>1, <1>2, QuietStep

LEMMA PublishStep ==
  ASSUME IInv, NEW c \in Client, Publish(c)
  PROVE  IInv'
<1> DEFINE k == MyKey(c)  r == call[c]  after == Spoilt(content', {k}, "uncommitted")
<1> DEFINE new == IF r.op = "remove" THEN Without(Arg(c), content[k]) ELSE Newer(content[k])
<1>1. /\ Step(c) = "publish" /\ UNCHANGED <<dep, status, known, logs>> /\ Becomes(c, Pop(r))
      /\ content' = [content EXCEPT ![k] = new]
      /\ cache' = IF r.op = "set" THEN cache ELSE after
  BY DEF Publish, Continue, tenancy, bounds
<1>2. Calm(r) /\ Calm(Pop(r)) /\ SameButSteps(Pop(r), r)
  BY <1>1, CalmMove
<1>3. SpoiltKnown(after, content', {k})
  BY SpoiltRight DEF IInv
<1> HIDE DEF after, new
<1>4. DOMAIN content' = Key /\ \A l \in Key : l # k => content'[l] = content[l]
  BY <1>1 DEF IInv, Shape
<1>5. DOMAIN cache' = Key /\ \A l \in Key : DOMAIN cache'[l] = DOMAIN NoEntry
  BY <1>1, <1>3 DEF IInv, Shape, SpoiltKnown
<1>6. ASSUME call'[c] = Landing(Pop(r)), Alone(c) PROVE FilesFollow'
 <2> SUFFICES ASSUME NEW l \in Key, cache'[l].there, cache'[l].ver # content'[l], cache'[l].why = {}
              PROVE  Deleting(l)'
   BY DEF FilesFollow
 <2>1. CASE l = k
  <3>1. r.op = "set"
    BY <1>1, <1>3, <2>1 DEF SpoiltKnown
  <3>2. Uncovered(r.op, <<Step(c), Arg(c)>>) /\ Step(c) # "none"
    BY <1>1, <3>1 DEF Uncovered
  <3>3. l = <<Arg(c), Pop(r).tenant>>
    BY <1>2, <2>1 DEF MyKey, SameButSteps
  <3> QED
    BY <1>6, <3>2, <3>3, DeletesThen
 <2>2. CASE l # k
  <3>1. Deleting(l)
    BY <1>1, <1>3, <1>4, <2>2 DEF IInv, FilesFollow, SpoiltKnown
  <3> QED
    BY <1>1, <1>6, <3>1, OthersDelete
 <2> QED
   BY <2>1, <2>2
<1> HIDE DEF r
<1>7. Calm(call[c]) /\ Step(c) # "forget"
  BY <1>1, <1>2 DEF r
<1> QED
  BY <1>1, <1>2, <1>4, <1>5, <1>6, <1>7, FilesStep

LEMMA MoveStep ==
  ASSUME IInv, NEW c \in Client, Move(c)
  PROVE  IInv'
<1> DEFINE to == MyKey(c)  r == call[c]  p == Pop(r)
<1>1. Step(c) = "move" /\ UNCHANGED <<dep, status, known, logs>>
  BY DEF Move, tenancy, bounds
<1>2. Calm(r) /\ Calm(p) /\ SameButSteps(p, r)
  BY <1>1, CalmMove
<1>3. CASE Becomes(c, After(r, 2)) /\ UNCHANGED site
 <2>1. Calm(After(r, 2))
   BY <1>2, CalmRest
 <2> QED
   BY <1>1, <1>2, <1>3, <2>1, QuietStep DEF site
<1>4. ASSUME NEW from, content' = Relocated(from, to), Becomes(c, p),
             cache' = Spoilt(content', IF r.op = "move" THEN {from} ELSE {from, to}, "moved")
      PROVE  IInv'
 <2> DEFINE keys == IF r.op = "move" THEN {from} ELSE {from, to}
            after == Spoilt(content', keys, "moved")
 <2>1. SpoiltKnown(after, content', keys) /\ cache' = after
   BY <1>4, SpoiltRight DEF IInv
 <2> HIDE DEF after
 <2>2. DOMAIN content' = Key /\ \A l \in Key : l # from /\ l # to => content'[l] = content[l]
   BY <1>4 DEF Relocated
 <2>3. DOMAIN cache' = Key /\ \A l \in Key : DOMAIN cache'[l] = DOMAIN NoEntry
   BY <2>1 DEF SpoiltKnown
 <2>4. ASSUME call'[c] = Landing(p), Alone(c) PROVE FilesFollow'
  <3> SUFFICES ASSUME NEW l \in Key, cache'[l].there, cache'[l].ver # content'[l], cache'[l].why = {}
               PROVE  Deleting(l)'
    BY DEF FilesFollow
  <3>1. l \notin keys
    BY <2>1 DEF SpoiltKnown
  <3>2. CASE l = to
   <4>1. Uncovered(r.op, <<Step(c), Arg(c)>>) /\ Step(c) # "none"
     BY <1>1, <3>1, <3>2 DEF Uncovered
   <4>2. l = <<Arg(c), p.tenant>>
     BY <1>2, <3>2 DEF MyKey, SameButSteps
   <4> QED
     BY <2>4, <4>1, <4>2, DeletesThen
  <3>3. CASE l # to
   <4>1. Deleting(l)
     BY <2>1, <2>2, <3>1, <3>3 DEF IInv, FilesFollow, SpoiltKnown
   <4> QED
     BY <1>1, <2>4, <4>1, OthersDelete
  <3> QED
    BY <3>2, <3>3
 <2> HIDE DEF r, p
 <2>5. Calm(call[c]) /\ Calm(p) /\ Becomes(c, p) /\ Step(c) # "forget"
   BY <1>1, <1>2, <1>4 DEF r
 <2> QED
   BY <1>1, <2>2, <2>3, <2>4, <2>5, FilesStep
<1> QED
  BY <1>3, <1>4 DEF Move, Continue

LEMMA DeleteStep ==
  ASSUME IInv, NEW c \in Client, Delete(c)
  PROVE  IInv'
<1> DEFINE k == MyKey(c)  r == call[c]
<1>1. /\ Step(c) = "delete" /\ Becomes(c, Pop(r)) /\ cache' = [cache EXCEPT ![k] = NoEntry]
      /\ UNCHANGED <<dep, status, known, content, logs>>
  BY DEF Delete, Continue, tenancy, bounds
<1>2. Calm(r) /\ Calm(Pop(r))
  BY <1>1, CalmMove
<1>3. /\ DOMAIN content' = Key /\ DOMAIN cache' = Key /\ \A l \in Key : DOMAIN cache'[l] = DOMAIN NoEntry
      /\ \A l \in Key : cache'[l] = IF l = k THEN NoEntry ELSE cache[l]
  BY <1>1 DEF IInv, Shape
<1>4. ASSUME call'[c] = Landing(Pop(r)), Alone(c) PROVE FilesFollow'
 <2> SUFFICES ASSUME NEW l \in Key, cache'[l].there, cache'[l].ver # content[l], cache'[l].why = {}
              PROVE  Deleting(l)'
   BY <1>1 DEF FilesFollow
 <2>1. l # k
   BY <1>3 DEF NoEntry
 <2>2. Deleting(l)
   BY <1>3, <2>1 DEF IInv, FilesFollow
 <2> QED
   BY <1>4, <2>1, <2>2, OthersDelete
<1> HIDE DEF r
<1>5. Calm(call[c]) /\ Step(c) # "forget" /\ UNCHANGED <<dep, status, known, logs>>
  BY <1>1, <1>2 DEF r
<1> QED
  BY <1>1, <1>2, <1>3, <1>4, <1>5, FilesStep

LEMMA View404Step ==
  ASSUME IInv, NEW c \in Client, View404(c)
  PROVE  IInv'
<1>1. Step(c) = "not_found" /\ Becomes(c, NotFound(call[c])) /\ UNCHANGED <<dep, status, known, site, logs>>
  BY DEF View404, tenancy, bounds
<1>2. Calm(call[c]) /\ Calm(NotFound(call[c]))
  BY <1>1, CalmMove, CalmNotFound
<1> QED
  BY <1>1, <1>2, QuietStep

(* ------------------------------- 404 records ------------------------------- *)

\* A call that differs in its steps and in what it knows of its count.
LEMMA RecordChanged ==
  ASSUME NEW q, CallRight(q), NEW r, DOMAIN r = DOMAIN NoCall,
         r.op = q.op, r.proc = q.proc, r.tenant = q.tenant, r.ses = q.ses, r.scope = q.scope,
         r.cause = q.cause, r.seen = q.seen, r.real = q.real, r.why = q.why,
         StepsRight(q.op, r.todo), QueryAhead(r.todo) => QueryAhead(q.todo),
         r.row \in LogRow, r.before \in LogRow, r.due \in BOOLEAN, r.counted \in BOOLEAN, CountRight(r)
  PROVE  CallRight(r)
<1>1. CallShape(r)
  BY DEF CallRight, CallShape
<1>2. ContextRight(r) /\ AnswerRight(r)
  BY DEF CallRight, ContextRight, AnswerRight
<1> QED
  BY <1>1, <1>2 DEF CallRight

Follower(name) ==
  CASE name = "log_update" -> "log_refresh" [] name = "log_refresh" -> "log_referrers" [] OTHER -> "leave"
LogName == {"log_get", "log_update", "log_refresh", "log_referrers", "log_create"}

\* What follows a step of the record.
LEMMA LogNext ==
  ASSUME NEW q, CallRight(q), First(q) \in LogName
  PROVE  /\ q.todo # <<>> /\ Pop(q).todo = Tail(q.todo) /\ SameButSteps(Pop(q), q)
         /\ Tail(q.todo) # <<>> /\ Tail(q.todo)[1][1] = Follower(First(q))
         /\ StepsRight(q.op, Tail(q.todo)) /\ (QueryAhead(Tail(q.todo)) => QueryAhead(q.todo))
<1> DEFINE s == q.todo
<1>1. s # <<>> /\ First(q) = s[1][1] /\ StepsRight(q.op, s) /\ DOMAIN q = DOMAIN NoCall
  BY DEF First, LogName, CallRight, CallShape
<1>2. StepsRight(q.op, Tail(s)) /\ (QueryAhead(Tail(s)) => QueryAhead(s))
  BY <1>1, TailOfSteps
<1>3. SameButSteps(Pop(q), q)
  BY <1>1, StepsChanged DEF Pop
<1>4. /\ Pop(q).todo = Tail(s) /\ DOMAIN s = 1..Len(s) /\ Len(s) \in Nat /\ Len(s) > 0
      /\ DOMAIN Tail(s) = 1..(Len(s) - 1)
      /\ \A i \in DOMAIN Tail(s) : Tail(s)[i] = s[i + 1]
      /\ Tail(s) = <<>> <=> Len(s) = 1
  BY <1>1, TailRight
<1> HIDE DEF s
<1>5. 1 \in DOMAIN s /\ LogsInOrder(s)
  BY <1>1, <1>4 DEF StepsRight
<1>6. Precedes(s, 1, Follower(s[1][1]))
  BY <1>1, <1>5 DEF LogsInOrder, LogName, Follower
<1>7. 1 + 1 \in DOMAIN s /\ s[1 + 1][1] = Follower(s[1][1])
  BY <1>6 DEF Precedes
<1>8. Tail(s) # <<>> /\ 1 \in DOMAIN Tail(s)
  BY <1>4, <1>7
<1>9. Tail(s)[1][1] = Follower(First(q))
  BY <1>1, <1>4, <1>7, <1>8
<1> QED
  BY <1>1, <1>2, <1>3, <1>4, <1>8, <1>9 DEF s

\* A step of the record before what follows it.
LEMMA LogPrefixed ==
  ASSUME NEW op, NEW s, StepsRight(op, s), s # <<>>, NEW name \in LogName \ {"log_get"}, s[1][1] = Follower(name)
  PROVE  LET w == Do(name) \o s IN
         /\ StepsRight(op, w) /\ w # <<>> /\ w[1][1] = name /\ (QueryAhead(w) => QueryAhead(s))
<1> DEFINE x == <<name, "">>  w == <<x>> \o s  S == StepName \X StepArg
<1>1. x \in S /\ x[1] = name
  BY DEF LogName, StepName, StepArg
<1> HIDE DEF x
<1>2. s \in Seq(S)
  BY DEF StepsRight
<1> HIDE DEF S
<1>3. /\ w \in Seq(S) /\ Len(w) = 1 + Len(s) /\ w # <<>>
      /\ w[1] = x /\ \A i \in 1..Len(s) : w[1 + i] = s[i]
  BY <1>1, <1>2, Prefixed
<1> HIDE DEF w
<1>4. DOMAIN w = 1..(1 + Len(s)) /\ DOMAIN s = 1..Len(s) /\ Len(s) \in Nat /\ Len(s) # 0
  BY <1>2, <1>3
<1>5. \A i \in DOMAIN w : i # 1 => i - 1 \in DOMAIN s /\ w[i] = s[i - 1] /\ i > 1
 <2> SUFFICES ASSUME NEW i \in DOMAIN w, i # 1 PROVE i - 1 \in DOMAIN s /\ w[i] = s[i - 1] /\ i > 1
   OBVIOUS
 <2>1. i - 1 \in 1..Len(s) /\ 1 + (i - 1) = i
   BY <1>4
 <2> QED
   BY <1>3, <1>4, <2>1
<1>6. w[1][1] = name
  BY <1>1, <1>3
<1>7. QueriesFirst(w)
 <2> SUFFICES ASSUME NEW i \in DOMAIN w, NEW j \in DOMAIN w, i < j, w[i][1] \in Ends PROVE w[j][1] # "query"
   BY DEF QueriesFirst
 <2>1. i # 1
   BY <1>6 DEF LogName, Ends
 <2>2. j # 1
   BY <1>4
 <2>3. i - 1 < j - 1
   BY <1>4
 <2> QED
   BY <1>5, <2>1, <2>2, <2>3 DEF StepsRight, QueriesFirst
<1>8. DeletesNext(op, w)
 <2> SUFFICES ASSUME NEW i \in DOMAIN w, Uncovered(op, w[i])
              PROVE  i + 1 \in DOMAIN w /\ w[i + 1] = <<"delete", w[i][2]>>
   BY DEF DeletesNext
 <2>1. i # 1
   BY <1>6 DEF LogName, Uncovered
 <2>2. i - 1 \in DOMAIN s /\ w[i] = s[i - 1]
   BY <1>5, <2>1
 <2>3. (i - 1) + 1 \in DOMAIN s /\ s[(i - 1) + 1] = <<"delete", w[i][2]>>
   BY <2>2 DEF StepsRight, DeletesNext
 <2>4. i \in DOMAIN s /\ (i - 1) + 1 = i /\ i + 1 = 1 + i /\ i + 1 \in DOMAIN w
   BY <1>4, <2>2, <2>3
 <2> QED
   BY <1>3, <1>4, <2>3, <2>4
<1>9. ForgetsNext(w)
 <2> SUFFICES ASSUME NEW i \in DOMAIN w, NEW j \in DOMAIN w, i < j, w[i][1] = "switch", w[j][1] = "forget"
              PROVE  j = i + 1
   BY DEF ForgetsNext
 <2>1. i # 1 /\ j # 1
   BY <1>4, <1>6 DEF LogName
 <2>2. i - 1 < j - 1 /\ (j - 1 = (i - 1) + 1 => j = i + 1)
   BY <1>4
 <2> QED
   BY <1>5, <2>1, <2>2 DEF StepsRight, ForgetsNext
<1>10. LogsInOrder(s) /\ 1 \in DOMAIN s /\ s[1][1] \in {"log_refresh", "log_referrers", "leave"}
  BY <1>4 DEF StepsRight, Follower
<1>11. 2 \in DOMAIN w /\ w[2] = s[1]
 <2>1. 1 + 1 = 2
   OBVIOUS
 <2> QED
   BY <1>3, <1>4, <2>1
<1>12. LogsInOrder(w)
 <2> SUFFICES ASSUME NEW i \in DOMAIN w
              PROVE  /\ w[i][1] \in {"log_create", "log_update"} => i = 1
                     /\ w[i][1] = "log_refresh" => i = 1 \/ (i > 1 /\ w[i - 1][1] = "log_update")
                     /\ w[i][1] \in {"log_get", "log_create", "log_referrers"} => Precedes(w, i, "leave")
                     /\ w[i][1] = "log_update" => Precedes(w, i, "log_refresh")
                     /\ w[i][1] = "log_refresh" => Precedes(w, i, "log_referrers")
   BY DEF LogsInOrder
 <2>1. CASE i = 1
  <3>1. 1 + 1 = 2
    OBVIOUS
  <3> QED
    BY <1>6, <1>11, <2>1, <3>1 DEF LogName, Follower, Precedes
 <2>2. CASE i # 1
  <3> DEFINE h == i - 1
  <3>1. h \in DOMAIN s /\ w[i] = s[h] /\ i > 1 /\ h \in Nat
    BY <1>4, <1>5, <2>2
  <3>2. \A n : Precedes(s, h, n) => Precedes(w, i, n)
   <4> SUFFICES ASSUME NEW n, Precedes(s, h, n) PROVE Precedes(w, i, n)
     OBVIOUS
   <4>1. h + 1 \in DOMAIN s /\ s[h + 1][1] = n
     BY DEF Precedes
   <4>2. h + 1 = i /\ i + 1 = 1 + i /\ i \in DOMAIN s /\ i + 1 \in DOMAIN w
     BY <1>4, <3>1, <4>1
   <4> QED
     BY <1>3, <1>4, <4>1, <4>2 DEF Precedes
  <3>3. s[h][1] \notin {"log_create", "log_update"}
    BY <1>10, <3>1 DEF LogsInOrder
  <3>4. s[h][1] = "log_refresh" => h = 1
   <4> SUFFICES ASSUME s[h][1] = "log_refresh", h # 1 PROVE FALSE
     OBVIOUS
   <4>1. h - 1 \in DOMAIN s /\ s[h - 1][1] = "log_update" /\ h > 1
     BY <1>4, <1>10, <3>1 DEF LogsInOrder
   <4>2. h - 1 = 1
     BY <1>10, <4>1 DEF LogsInOrder
   <4> QED
     BY <1>10, <4>1, <4>2
  <3>5. s[h][1] = "log_refresh" => w[i - 1][1] = "log_update"
   <4> SUFFICES ASSUME s[h][1] = "log_refresh" PROVE w[i - 1][1] = "log_update"
     OBVIOUS
   <4>1. h = 1 /\ Follower(name) = "log_refresh"
     BY <3>4
   <4>2. name = "log_update"
     BY <4>1 DEF Follower, LogName
   <4> QED
     BY <1>6, <4>1, <4>2
  <3>6. /\ s[h][1] \in {"log_get", "log_create", "log_referrers"} => Precedes(s, h, "leave")
        /\ s[h][1] = "log_refresh" => Precedes(s, h, "log_referrers")
    BY <1>10, <3>1 DEF LogsInOrder
  <3> HIDE DEF h
  <3> QED
    BY <3>1, <3>2, <3>3, <3>5, <3>6
 <2> QED
   BY <2>1, <2>2
<1>13. QueryAhead(w) => QueryAhead(s)
 <2> SUFFICES ASSUME NEW i \in DOMAIN w, w[i][1] = "query" PROVE QueryAhead(s)
   BY DEF QueryAhead
 <2>1. i # 1
   BY <1>6 DEF LogName
 <2> QED
   BY <1>5, <2>1 DEF QueryAhead
<1>14. StepsRight(op, w)
  BY <1>3, <1>7, <1>8, <1>9, <1>12 DEF StepsRight, S
<1> QED
  BY <1>3, <1>6, <1>13, <1>14 DEF w, x, Do

\* How many calls owe a count, before and after a step of one of them.
LEMMA OwingCounts ==
  ASSUME NEW c \in Client, Alone(c), NEW t, t = call[c].tenant, t = call'[c].tenant \/ ~Owes(call'[c])
  PROVE  /\ \A u \in Owner : Cardinality(Owing(u)) \in Nat
         /\ \A u \in Owner : u # t => Owing(u)' = Owing(u)
         /\ (Owes(call[c]) <=> Owes(call'[c])) => Owing(t)' = Owing(t)
         /\ Owes(call[c]) /\ ~Owes(call'[c]) => Cardinality(Owing(t)') = Cardinality(Owing(t)) - 1
         /\ ~Owes(call[c]) /\ Owes(call'[c]) => Cardinality(Owing(t)') = Cardinality(Owing(t)) + 1
<1>1. \A d \in Client : d # c => call'[d] = call[d]
  BY DEF Alone
<1>2. \A u : Owing(u) \subseteq Client /\ IsFiniteSet(Owing(u))
 <2> SUFFICES ASSUME NEW u PROVE Owing(u) \subseteq Client /\ IsFiniteSet(Owing(u))
   OBVIOUS
 <2>1. Owing(u) \subseteq Client
   BY DEF Owing
 <2> QED
   BY <2>1, ClientAssumption, FS_Subset
<1>3. \A u : Cardinality(Owing(u)) \in Nat
  BY <1>2, FS_CardinalityType
<1>4. ASSUME NEW u \in Owner, u # t PROVE Owing(u)' = Owing(u)
 <2>1. \A d \in Client : (call'[d].tenant = u /\ Owes(call'[d])) <=> (call[d].tenant = u /\ Owes(call[d]))
   BY <1>1, <1>4
 <2> QED
   BY <2>1 DEF Owing
<1>5. ASSUME Owes(call[c]) <=> Owes(call'[c]) PROVE Owing(t)' = Owing(t)
 <2>1. \A d \in Client : (call'[d].tenant = t /\ Owes(call'[d])) <=> (call[d].tenant = t /\ Owes(call[d]))
   BY <1>1, <1>5
 <2> QED
   BY <2>1 DEF Owing
<1>6. ASSUME Owes(call[c]), ~Owes(call'[c]) PROVE Cardinality(Owing(t)') = Cardinality(Owing(t)) - 1
 <2>1. Owing(t)' = Owing(t) \ {c} /\ c \in Owing(t)
  <3>1. \A d \in Client : (call'[d].tenant = t /\ Owes(call'[d])) <=> (call[d].tenant = t /\ Owes(call[d]) /\ d # c)
    BY <1>1, <1>6
  <3> QED
    BY <3>1, <1>6 DEF Owing
 <2>2. Cardinality(Owing(t) \ {c}) = Cardinality(Owing(t)) - 1
   BY <1>2, <2>1, FS_RemoveElement
 <2> QED
   BY <2>1, <2>2
<1>7. ASSUME ~Owes(call[c]), Owes(call'[c]) PROVE Cardinality(Owing(t)') = Cardinality(Owing(t)) + 1
 <2>1. Owing(t)' = Owing(t) \cup {c} /\ c \notin Owing(t)
  <3>1. \A d \in Client : (call'[d].tenant = t /\ Owes(call'[d])) <=> ((call[d].tenant = t /\ Owes(call[d])) \/ d = c)
    BY <1>1, <1>7
  <3> QED
    BY <3>1, <1>7 DEF Owing
 <2>2. Cardinality(Owing(t) \cup {c}) = Cardinality(Owing(t)) + 1
   BY <1>2, <2>1, FS_AddElement
 <2> QED
   BY <2>1, <2>2
<1> QED
  BY <1>3, <1>4, <1>5, <1>6, <1>7

(* A step of a call moves a hit, a loss, a 404 or a debt of its path.           *)
Owed(r) == IF Owes(r) THEN 1 ELSE 0
Moved(c, t) ==
  /\ t = call[c].tenant /\ (t = call'[c].tenant \/ ~Owes(call'[c]))
  /\ \A u \in Owner : u # t => log'[u].hits = log[u].hits /\ lost'[u] = lost[u] /\ due'[u] = due[u]
  /\ log'[t].hits \in Int /\ lost'[t] \in Int /\ due'[t] \in Int
  /\ (log'[t].hits - log[t].hits) + (lost'[t] - lost[t]) + (Owed(call'[c]) - Owed(call[c])) = due'[t] - due[t]

LEMMA BalanceStep ==
  ASSUME IInv, NEW c \in Client, Alone(c), NEW t \in Owner, Moved(c, t)
  PROVE  Balance'
<1> SUFFICES ASSUME NEW u \in Owner
             PROVE  log'[u].hits + lost'[u] + Cardinality(Owing(u)') = due'[u]
  BY DEF Balance
<1>1. /\ log[u].hits + lost[u] + Cardinality(Owing(u)) = due[u]
      /\ log[u].hits \in Int /\ lost[u] \in Int /\ due[u] \in Int
  BY DEF IInv, LogsRight, Balance, Shape, LogRow
<1>2. /\ Cardinality(Owing(u)) \in Nat
      /\ u # t => Owing(u)' = Owing(u)
      /\ (Owes(call[c]) <=> Owes(call'[c])) => Owing(t)' = Owing(t)
      /\ Owes(call[c]) /\ ~Owes(call'[c]) => Cardinality(Owing(t)') = Cardinality(Owing(t)) - 1
      /\ ~Owes(call[c]) /\ Owes(call'[c]) => Cardinality(Owing(t)') = Cardinality(Owing(t)) + 1
  BY OwingCounts DEF Moved
<1> DEFINE n == Cardinality(Owing(u))  m == Cardinality(Owing(u)')
           h == log[u].hits  g == log'[u].hits  o == Owes(call[c])  w == Owes(call'[c])
<1>3. CASE u # t
 <2>1. Owing(u)' = Owing(u) /\ log'[u].hits = log[u].hits /\ lost'[u] = lost[u] /\ due'[u] = due[u]
   BY <1>2, <1>3 DEF Moved
 <2> QED
   BY <1>1, <2>1
<1>4. CASE u = t
 <2>1. /\ n \in Nat /\ h \in Int /\ g \in Int /\ lost[u] \in Int /\ lost'[u] \in Int /\ due[u] \in Int
       /\ due'[u] \in Int /\ h + lost[u] + n = due[u]
   BY <1>1, <1>2, <1>4 DEF Moved
 <2> DEFINE x == (IF w THEN 1 ELSE 0) - (IF o THEN 1 ELSE 0)
 <2>2. x \in Int /\ m = n + x
  <3>1. CASE o <=> w
    BY <1>2, <1>4, <2>1, <3>1
  <3>2. CASE o /\ ~w
    BY <1>2, <1>4, <2>1, <3>2
  <3>3. CASE ~o /\ w
    BY <1>2, <1>4, <2>1, <3>3
  <3> QED
    BY <3>1, <3>2, <3>3
 <2>3. (g - h) + (lost'[u] - lost[u]) + x = due'[u] - due[u]
   BY <1>4 DEF Moved, Owed
 <2> DEFINE l == lost[u]  k == lost'[u]  d == due[u]  e == due'[u]
 <2>4. /\ n \in Int /\ h \in Int /\ g \in Int /\ l \in Int /\ k \in Int /\ d \in Int /\ e \in Int /\ x \in Int
       /\ h + l + n = d /\ (g - h) + (k - l) + x = e - d
   BY <2>1, <2>2, <2>3
 <2> HIDE DEF n, m, h, g, x, l, k, d, e
 <2>5. g + k + (n + x) = e
   BY <2>4
 <2>6. g + k + m = e
   BY <2>2, <2>5
 <2> QED
   BY <2>6 DEF g, m, k, e
<1> QED
  BY <1>3, <1>4

\* A step that concerns a count.
LEMMA CountStep ==
  ASSUME IInv, NEW c \in Client, NEW r, CallRight(r), Becomes(c, r), Step(c) \notin {"delete", "forget"},
         UNCHANGED <<dep, status, known, site>>,
         log' \in [Owner -> LogRow], due' \in [Owner -> Int], lost' \in [Owner -> Int],
         ASSUME call'[c] = Landing(r), Alone(c) PROVE LogsRight'
  PROVE  IInv'
<1>1. Shape /\ CallsRight /\ FilesFollow /\ TenantsFollow
  BY DEF IInv
<1>2. DOMAIN call' = Client /\ call'[c] = Landing(r) /\ Alone(c) /\ CallsRight'
  BY <1>1, CallStep DEF Alone
<1>3. Shape'
  BY <1>1, <1>2 DEF Shape, site
<1>4. FilesFollow' /\ TenantsFollow' /\ LogsRight'
  BY <1>1, <1>2, FilesKept, TenantsKept DEF site
<1> QED
  BY <1>2, <1>3, <1>4 DEF IInv

Recording == {"log_update", "log_refresh"}

\* A step that leaves the rows and the locks as they are.
LEMMA KeptRows ==
  ASSUME IInv, NEW c \in Client, Alone(c), NEW t, t = call[c].tenant, t \in Owner,
         call'[c].counted => /\ t = call'[c].tenant /\ call[c].counted
                             /\ call'[c].before = call[c].before,
         \A u \in Owner : log'[u].hits = log[u].hits /\ log'[u].pk = log[u].pk /\ log'[u].old = log[u].old,
         First(call'[c]) \in Recording =>
           /\ t = call'[c].tenant /\ Remembers(call'[c], log[t])
           /\ \A d \in Client \ {c} : call[d].counted /\ call[d].tenant = t => Remembers(call'[c], call[d].before)
  PROVE  LocksOnce' /\ LocksRight' /\ RowsRemembered'
<1>1. \A d \in Client : d # c => call'[d] = call[d]
  BY DEF Alone
<1>2. \A d \in Client : /\ call'[d].counted => /\ call[d].counted /\ call'[d].before = call[d].before
                                             /\ call'[d].tenant = call[d].tenant
                        /\ First(call'[d]) \in Recording => call'[d].tenant = call[d].tenant
                        /\ call[d].tenant \in Owner
  BY <1>1 DEF IInv, CallsRight, CallRight, CallShape
<1>3. LocksOnce'
  BY <1>2 DEF IInv, LogsRight, LocksOnce
<1>4. LocksRight'
  BY <1>2 DEF IInv, LogsRight, LocksRight, Grown
<1>5. RowsRemembered'
 <2> SUFFICES ASSUME NEW d \in Client, First(call'[d]) \in Recording
              PROVE  /\ Remembers(call'[d], log'[call'[d].tenant])
                     /\ \A e \in Client \ {d} :
                          call'[e].counted /\ call'[e].tenant = call'[d].tenant => Remembers(call'[d], call'[e].before)
   BY DEF RowsRemembered, Recording
 <2>1. /\ Remembers(call'[d], log[call'[d].tenant])
       /\ \A e \in Client \ {d} :
            call'[e].counted /\ call'[e].tenant = call'[d].tenant => Remembers(call'[d], call'[e].before)
  <3>1. CASE d = c
    BY <1>2, <3>1
  <3>2. CASE d # c
   <4>1. call'[d] = call[d]
     BY <1>1, <3>2
   <4> QED
     BY <1>2, <4>1 DEF IInv, LogsRight, RowsRemembered, Recording
  <3> QED
    BY <3>1, <3>2
 <2>2. Remembers(call'[d], log'[call'[d].tenant])
   BY <1>2, <2>1 DEF Remembers, Missing
 <2> QED
   BY <2>1, <2>2
<1> QED
  BY <1>3, <1>4, <1>5

(* A step that changes a row which no other transaction has locked, and may    *)
(* lock it.                                                                    *)
Free(c, t) == \A d \in Client \ {c} : ~(call[d].counted /\ call[d].tenant = t)
OthersRemember(c, t, row) ==
  \A d \in Client \ {c} : call[d].tenant = t /\ First(call[d]) \in Recording => Remembers(call[d], row)
ChangesRight(c, t, row) ==
  /\ call'[c].counted => t = call'[c].tenant /\ call'[c].before = log[t] /\ Grown(row, log[t])
  /\ First(call'[c]) \in Recording => t = call'[c].tenant /\ Remembers(call'[c], row)
LEMMA ChangedRow ==
  ASSUME IInv, NEW c \in Client, Alone(c), NEW t, t = call[c].tenant, t \in Owner,
         NEW row, log' = [log EXCEPT ![t] = row],
         Free(c, t), OthersRemember(c, t, row), ChangesRight(c, t, row)
  PROVE  LocksOnce' /\ LocksRight' /\ RowsRemembered'
<1>1. \A d \in Client : d # c => call'[d] = call[d]
  BY DEF Alone
<1>2. \A d \in Client : d # c => ~(call[d].counted /\ call[d].tenant = t)
  BY DEF Free
<1>8. /\ call'[c].counted => t = call'[c].tenant /\ call'[c].before = log[t] /\ Grown(row, log[t])
      /\ First(call'[c]) \in Recording => t = call'[c].tenant /\ Remembers(call'[c], row)
      /\ \A d \in Client \ {c} : call[d].tenant = t /\ First(call[d]) \in Recording => Remembers(call[d], row)
  BY DEF OthersRemember, ChangesRight
<1>3. log'[t] = row /\ \A u \in Owner : u # t => log'[u] = log[u]
  BY DEF IInv, Shape
<1>4. \A d \in Client : call[d].tenant \in Owner
  BY DEF IInv, CallsRight, CallRight, CallShape
<1>5. LocksOnce'
 <2> SUFFICES ASSUME NEW d \in Client, NEW e \in Client,
                     call'[d].counted, call'[e].counted, call'[d].tenant = call'[e].tenant
              PROVE  d = e
   BY DEF LocksOnce
 <2>1. CASE call'[d].tenant = t
  <3>1. d = c /\ e = c
    BY <1>1, <1>2, <1>8, <2>1
  <3> QED
    BY <3>1
 <2>2. CASE call'[d].tenant # t
  <3>1. d # c /\ e # c
    BY <1>8, <2>2
  <3> QED
    BY <1>1, <3>1 DEF IInv, LogsRight, LocksOnce
 <2> QED
   BY <2>1, <2>2
<1>6. LocksRight'
 <2> SUFFICES ASSUME NEW d \in Client, call'[d].counted
              PROVE  Grown(log'[call'[d].tenant], call'[d].before)
   BY DEF LocksRight
 <2>1. CASE d = c
   BY <1>3, <1>8, <2>1
 <2>2. CASE d # c
  <3>1. call'[d] = call[d] /\ call[d].tenant # t
    BY <1>1, <1>2, <2>2
  <3> QED
    BY <1>3, <1>4, <3>1 DEF IInv, LogsRight, LocksRight
 <2> QED
   BY <2>1, <2>2
<1>7. RowsRemembered'
 <2> SUFFICES ASSUME NEW d \in Client, First(call'[d]) \in Recording
              PROVE  /\ Remembers(call'[d], log'[call'[d].tenant])
                     /\ \A e \in Client \ {d} :
                          call'[e].counted /\ call'[e].tenant = call'[d].tenant => Remembers(call'[d], call'[e].before)
   BY DEF RowsRemembered, Recording
 <2>1. CASE d = c
  <3>1. Remembers(call'[c], log'[call'[c].tenant])
    BY <1>3, <1>8, <2>1
  <3>2. \A e \in Client \ {c} : ~(call'[e].counted /\ call'[e].tenant = t)
    BY <1>1, <1>2
  <3> QED
    BY <1>8, <2>1, <3>1, <3>2
 <2>2. CASE d # c
  <3>1. call'[d] = call[d]
    BY <1>1, <2>2
  <3>2. /\ Remembers(call[d], log[call[d].tenant])
        /\ \A e \in Client \ {d} :
             call[e].counted /\ call[e].tenant = call[d].tenant => Remembers(call[d], call[e].before)
    BY <3>1 DEF IInv, LogsRight, RowsRemembered, Recording
  <3>3. Remembers(call'[d], log'[call'[d].tenant])
   <4>1. CASE call[d].tenant = t
     BY <1>3, <1>8, <2>2, <3>1, <4>1
   <4>2. CASE call[d].tenant # t
     BY <1>3, <1>4, <3>1, <3>2, <4>2
   <4> QED
     BY <4>1, <4>2
  <3>4. ASSUME NEW e \in Client \ {d}, call'[e].counted, call'[e].tenant = call'[d].tenant
        PROVE  Remembers(call'[d], call'[e].before)
   <4>1. CASE e = c
     BY <1>8, <3>1, <3>2, <3>4, <4>1
   <4>2. CASE e # c
     BY <1>1, <3>1, <3>2, <3>4, <4>2
   <4> QED
     BY <4>1, <4>2
  <3> QED
    BY <3>3, <3>4
 <2> QED
   BY <2>1, <2>2
<1> QED
  BY <1>5, <1>6, <1>7

\* A call that records a 404.
LEMMA LogCall ==
  ASSUME IInv, NEW c \in Client, Step(c) \in LogName
  PROVE  /\ CallRight(call[c]) /\ First(call[c]) = Step(c) /\ call[c].todo # <<>>
         /\ DOMAIN call[c] = DOMAIN NoCall /\ call[c].tenant \in Owner /\ log[call[c].tenant] \in LogRow
         /\ call[c].row \in LogRow /\ call[c].before \in LogRow /\ call[c].ses.open \in BOOLEAN
         /\ call[c].due \in BOOLEAN /\ call[c].counted \in BOOLEAN
<1>1. CallRight(call[c]) /\ First(call[c]) = Step(c)
  BY StepFirst DEF IInv
<1>2. call[c].todo # <<>>
  BY <1>1 DEF First, LogName
<1> QED
  BY <1>1, <1>2 DEF IInv, Shape, CallRight, CallShape

Regrouped(a, b, d, s) == ((a \o b) \o d) \o s = a \o (b \o (d \o s))
LEMMA ThreeBefore ==
  ASSUME NEW S, NEW a \in Seq(S), NEW b \in Seq(S), NEW d \in Seq(S), NEW s \in Seq(S)
  PROVE  Regrouped(a, b, d, s)
<1>1. (a \o b) \o d = a \o (b \o d)
  BY ConcatAssociative
<1>2. b \o d \in Seq(S) /\ a \o b \in Seq(S) /\ d \o s \in Seq(S)
  OBVIOUS
<1> DEFINE e == b \o d
<1> HIDE DEF e
<1>5. e \in Seq(S)
  BY <1>2 DEF e
<1>3. (a \o e) \o s = a \o (e \o s)
  BY <1>5, ConcatAssociative
<1>4. (b \o d) \o s = b \o (d \o s)
  BY ConcatAssociative
<1> QED
  BY <1>1, <1>3, <1>4 DEF e, Regrouped

\* The steps of a record, for a row that is found and for one that is not.
LEMMA RecordSteps ==
  ASSUME NEW op, NEW s, StepsRight(op, s), s # <<>>, s[1][1] = "leave"
  PROVE  /\ LET w == Do("log_create") \o s IN
            StepsRight(op, w) /\ w # <<>> /\ w[1][1] = "log_create" /\ (QueryAhead(w) => QueryAhead(s))
         /\ LET w == Do("log_update") \o Do("log_refresh") \o Do("log_referrers") \o s IN
            StepsRight(op, w) /\ w # <<>> /\ w[1][1] = "log_update" /\ (QueryAhead(w) => QueryAhead(s))
<1> DEFINE a == Do("log_update")  b == Do("log_refresh")  d == Do("log_referrers")
           x == d \o s  y == b \o x  z == a \o y  S == StepName \X StepArg  k == Do("log_create") \o s
<1>1. "log_create" \in LogName \ {"log_get"} /\ "log_update" \in LogName \ {"log_get"}
      /\ "log_refresh" \in LogName \ {"log_get"} /\ "log_referrers" \in LogName \ {"log_get"}
  BY DEF LogName
<1>2. /\ Follower("log_create") = "leave" /\ Follower("log_referrers") = "leave"
      /\ Follower("log_refresh") = "log_referrers" /\ Follower("log_update") = "log_refresh"
  BY DEF Follower
<1>3. StepsRight(op, k) /\ k # <<>> /\ k[1][1] = "log_create" /\ (QueryAhead(k) => QueryAhead(s))
  BY <1>1, <1>2, LogPrefixed
<1>4. StepsRight(op, x) /\ x # <<>> /\ x[1][1] = "log_referrers" /\ (QueryAhead(x) => QueryAhead(s))
  BY <1>1, <1>2, LogPrefixed
<1> HIDE DEF x
<1>5. StepsRight(op, y) /\ y # <<>> /\ y[1][1] = "log_refresh" /\ (QueryAhead(y) => QueryAhead(x))
  BY <1>1, <1>2, <1>4, LogPrefixed
<1> HIDE DEF y
<1>6. StepsRight(op, z) /\ z # <<>> /\ z[1][1] = "log_update" /\ (QueryAhead(z) => QueryAhead(y))
  BY <1>1, <1>2, <1>5, LogPrefixed
<1>7. a \in Seq(S) /\ b \in Seq(S) /\ d \in Seq(S) /\ s \in Seq(S)
 <2>1. <<"log_update", "">> \in S /\ <<"log_refresh", "">> \in S /\ <<"log_referrers", "">> \in S
   BY DEF StepName, StepArg
 <2>2. s \in Seq(S)
   BY DEF StepsRight
 <2> HIDE DEF S
 <2> QED
   BY <2>1, <2>2, Lists DEF Do
<1> HIDE DEF a, b, d, S, z, k
<1>8. z = ((a \o b) \o d) \o s
 <2>1. z = a \o (b \o (d \o s))
   BY DEF x, y, z
 <2>2. Regrouped(a, b, d, s)
   BY <1>7, ThreeBefore
 <2> QED
   BY <2>1, <2>2 DEF Regrouped
<1>9. StepsRight(op, z) /\ z # <<>> /\ z[1][1] = "log_update" /\ (QueryAhead(z) => QueryAhead(s))
  BY <1>4, <1>5, <1>6
<1>10. z = Do("log_update") \o Do("log_refresh") \o Do("log_referrers") \o s
  BY <1>8 DEF a, b, d
<1> QED
  BY <1>3, <1>9, <1>10 DEF k

LEMMA LogGetStep ==
  ASSUME IInv, NEW c \in Client, LogGet(c)
  PROVE  IInv'
<1> DEFINE q == call[c]  p == Pop(q)
<1>1. Step(c) = "log_get" /\ UNCHANGED <<dep, status, known, site, log, lost>>
  BY DEF LogGet, tenancy, bounds
<1>2. /\ CallRight(q) /\ First(q) = "log_get" /\ DOMAIN q = DOMAIN NoCall /\ q.tenant \in Owner
      /\ log[q.tenant] \in LogRow /\ q.row \in LogRow /\ q.before \in LogRow
  BY <1>1, LogCall DEF LogName
<1>3. Calm(q) /\ ~q.due /\ ~q.counted
 <2>1. Calm(q)
   BY <1>1, CalmMove
 <2> QED
   BY <2>1 DEF Calm, CallRight, CountRight
<1>4. PICK t \in Owner : t = q.tenant
  BY <1>2
<1> DEFINE s == Tail(q.todo)
<1>5. /\ SameButSteps(p, q) /\ p.todo = s /\ s # <<>> /\ s[1][1] = "leave" /\ StepsRight(q.op, s)
      /\ (QueryAhead(s) => QueryAhead(q.todo))
  BY <1>2, LogNext DEF LogName, Follower
<1> DEFINE x == Do("log_create") \o s
           y == Do("log_update") \o Do("log_refresh") \o Do("log_referrers") \o s
           create == [[p EXCEPT !.due = TRUE] EXCEPT !.todo = x]
           update == [[p EXCEPT !.due = TRUE] EXCEPT !.row = log[t], !.todo = y]
<1>6. /\ StepsRight(q.op, x) /\ x # <<>> /\ x[1][1] = "log_create" /\ (QueryAhead(x) => QueryAhead(s))
      /\ StepsRight(q.op, y) /\ y # <<>> /\ y[1][1] = "log_update" /\ (QueryAhead(y) => QueryAhead(s))
  BY <1>5, RecordSteps
<1>7. /\ due' = [due EXCEPT ![t] = @ + 1]
      /\ \/ Becomes(c, create)
         \/ ~NoLog(t) /\ ~Hidden(t) /\ Becomes(c, update)
 <2>1. p.todo = s /\ p.tenant = t /\ DOMAIN p = DOMAIN NoCall
   BY <1>4, <1>5 DEF SameButSteps
 <2> HIDE DEF s, q
 <2>2. [p EXCEPT !.due = TRUE].tenant = t /\ [p EXCEPT !.due = TRUE].todo = s
   BY <2>1 DEF NoCall
 <2> QED
   BY <2>1, <2>2 DEF LogGet, q
<1> HIDE DEF s, x, y
<1>8. /\ DOMAIN create = DOMAIN NoCall /\ create.op = q.op /\ create.proc = q.proc /\ create.tenant = t
      /\ create.ses = q.ses /\ create.scope = q.scope /\ create.cause = q.cause /\ create.seen = q.seen
      /\ create.real = q.real /\ create.why = q.why /\ create.todo = x /\ create.due = TRUE
      /\ create.counted = q.counted /\ create.before = q.before /\ create.row = q.row
      /\ DOMAIN update = DOMAIN NoCall /\ update.op = q.op /\ update.proc = q.proc /\ update.tenant = t
      /\ update.ses = q.ses /\ update.scope = q.scope /\ update.cause = q.cause /\ update.seen = q.seen
      /\ update.real = q.real /\ update.why = q.why /\ update.todo = y /\ update.due = TRUE
      /\ update.counted = q.counted /\ update.before = q.before /\ update.row = log[t]
 <2> HIDE DEF p
 <2> QED
   BY <1>4, <1>5 DEF SameButSteps, NoCall
<1> HIDE DEF create, update
<1>9. First(create) = "log_create" /\ First(update) = "log_update"
  BY <1>6, <1>8 DEF First
<1>10. Owes(create) /\ Owes(update) /\ ~Owes(q)
  BY <1>3, <1>8 DEF Owes
<1>11. CallRight(create)
 <2>1. CountRight(create)
   BY <1>3, <1>8, <1>9, <1>10 DEF CountRight
 <2> QED
   BY <1>2, <1>3, <1>4, <1>5, <1>6, <1>8, <2>1, RecordChanged DEF CallRight, CallShape
<1>12. CallRight(update)
 <2>1. CountRight(update)
   BY <1>3, <1>8, <1>9, <1>10 DEF CountRight
 <2> QED
   BY <1>2, <1>3, <1>4, <1>5, <1>6, <1>8, <2>1, RecordChanged DEF CallRight, CallShape
<1>13. \E r \in {create, update} :
         Becomes(c, r) /\ CallRight(r) /\ (r = update => ~NoLog(t) /\ ~Hidden(t))
 <2>1. create # update
   BY <1>9
 <2> QED
   BY <1>7, <1>11, <1>12, <2>1
<1>14. PICK r \in {create, update} :
         Becomes(c, r) /\ CallRight(r) /\ (r = update => ~NoLog(t) /\ ~Hidden(t))
  BY <1>13
<1>15. /\ r.tenant = t /\ r.counted = q.counted /\ r.before = q.before /\ r.todo # <<>> /\ Owes(r)
       /\ First(r) \in Recording => r = update
  BY <1>6, <1>8, <1>9, <1>10 DEF Recording
<1>16. log' \in [Owner -> LogRow] /\ due' \in [Owner -> Int] /\ lost' \in [Owner -> Int]
  BY <1>1, <1>7 DEF IInv, Shape
<1>17. ASSUME call'[c] = Landing(r), Alone(c) PROVE LogsRight'
 <2>1. call'[c] = r
   BY <1>15, <1>17 DEF Landing
 <2>2. First(r) \in Recording =>
         /\ Remembers(r, log[t])
         /\ \A d \in Client \ {c} : call[d].counted /\ call[d].tenant = t => Remembers(r, call[d].before)
  <3> SUFFICES ASSUME First(r) \in Recording
               PROVE /\ Remembers(r, log[t])
                     /\ \A d \in Client \ {c} : call[d].counted /\ call[d].tenant = t => Remembers(r, call[d].before)
    OBVIOUS
  <3>1. First(r) = "log_update" /\ r.row = log[t] /\ ~NoLog(t) /\ ~Hidden(t)
    BY <1>8, <1>9, <1>14, <1>15
  <3>2. log[t].pk \in Nat /\ log[t].hits \in Nat
    BY DEF IInv, Shape, LogRow
  <3>3. Remembers(r, log[t])
    BY <3>1, <3>2 DEF Remembers
  <3>4. ASSUME NEW d \in Client \ {c}, call[d].counted, call[d].tenant = t PROVE Remembers(r, call[d].before)
   <4>1. Grown(log[t], call[d].before) /\ call[d].before \in LogRow
     BY <3>4 DEF IInv, LogsRight, LocksRight, CallsRight, CallRight, CallShape
   <4>2. log[t].hits # 1
     BY <3>1, <3>4 DEF Hidden, Locked
   <4>3. log[t].pk = call[d].before.pk
     BY <4>1, <4>2 DEF Grown, LogRow
   <4> QED
     BY <3>1, <3>2, <4>3 DEF Remembers
  <3> QED
    BY <3>3, <3>4
 <2>3. LocksOnce' /\ LocksRight' /\ RowsRemembered'
  <3>1. t = call[c].tenant /\ t = call'[c].tenant /\ call'[c].counted = call[c].counted
        /\ call'[c].before = call[c].before
    BY <1>4, <1>15, <2>1
  <3> QED
    BY <1>1, <1>17, <2>1, <2>2, <3>1, KeptRows
 <2>4. Moved(c, t)
  <3>1. Owed(call'[c]) = 1 /\ Owed(call[c]) = 0
    BY <1>10, <1>15, <2>1 DEF Owed
  <3>2. log[t].hits \in Int /\ lost[t] \in Int /\ due[t] \in Int /\ due'[t] = due[t] + 1
        /\ \A u \in Owner : u # t => due'[u] = due[u]
    BY <1>7 DEF IInv, Shape, LogRow
  <3> QED
    BY <1>1, <1>4, <1>15, <2>1, <3>1, <3>2 DEF Moved
 <2> QED
   BY <1>17, <2>3, <2>4, BalanceStep DEF LogsRight
<1>18. Step(c) \notin {"delete", "forget"}
  BY <1>1
<1> QED
  BY <1>1, <1>14, <1>16, <1>17, <1>18, CountStep

\* A call whose hit is counted, in a transaction or at once.
LEMMA CountedRight ==
  ASSUME NEW q, CallRight(q), First(q) \in {"log_update", "log_create"}, NEW row \in LogRow
  PROVE  LET r == Counted(Pop(q), row) IN
         /\ CallRight(r) /\ r.tenant = q.tenant /\ r.todo = Tail(q.todo) /\ r.row = q.row
         /\ ~Owes(r) /\ (r.counted => r.before = row) /\ r.todo # <<>> /\ First(r) = Follower(First(q))
<1> DEFINE p == Pop(q)  r == Counted(p, row)  s == Tail(q.todo)
<1>1. /\ DOMAIN q = DOMAIN NoCall /\ q.ses.open \in BOOLEAN /\ q.row \in LogRow
      /\ SameButSteps(p, q) /\ p.todo = s /\ s # <<>> /\ s[1][1] = Follower(First(q)) /\ StepsRight(q.op, s)
      /\ (QueryAhead(s) => QueryAhead(q.todo))
  BY LogNext DEF LogName, CallRight, CallShape
<1> HIDE DEF p, s
<1>2. /\ DOMAIN r = DOMAIN NoCall /\ r.op = q.op /\ r.proc = q.proc /\ r.tenant = q.tenant
      /\ r.ses = q.ses /\ r.scope = q.scope /\ r.cause = q.cause /\ r.seen = q.seen
      /\ r.real = q.real /\ r.why = q.why /\ r.todo = s /\ r.due = q.ses.open
      /\ r.counted = q.ses.open /\ r.before = row /\ r.row = q.row
  BY <1>1 DEF SameButSteps, Counted, NoCall
<1> HIDE DEF r
<1>3. First(r) = Follower(First(q)) /\ First(r) \in {"log_refresh", "leave"}
  BY <1>1, <1>2 DEF First, Follower
<1>4. ~Owes(r) /\ CountRight(r)
  BY <1>2, <1>3 DEF Owes, CountRight
<1>5. CallRight(r)
  BY <1>1, <1>2, <1>4, RecordChanged
<1> QED
  BY <1>1, <1>2, <1>3, <1>4, <1>5 DEF r, p, s

\* What each statement makes of a row.
LEMMA RowWritten ==
  ASSUME NEW w \in LogRow
  PROVE  Incremented(w) \in LogRow /\ Incremented(w).hits = w.hits + 1 /\ Incremented(w).pk = w.pk /\ ~Incremented(w).old
<1> DEFINE x == [w EXCEPT !.hits = @ + 1]  y == [x EXCEPT !.old = FALSE]
<1>1. x \in LogRow /\ x.hits = w.hits + 1 /\ x.pk = w.pk
  BY DEF LogRow
<1> HIDE DEF x
<1>2. y \in LogRow /\ y.hits = x.hits /\ y.pk = x.pk /\ ~y.old
  BY <1>1 DEF LogRow
<1>3. Incremented(w) = y
  BY DEF Incremented, x
<1> QED
  BY <1>1, <1>2, <1>3

LEMMA RowSaved ==
  ASSUME NEW w \in LogRow, NEW read \in LogRow
  PROVE  /\ Saved(w, read) \in LogRow /\ Saved(w, read).hits = w.hits /\ Saved(w, read).pk = w.pk
         /\ Saved(w, read).old = w.old
BY DEF Saved, LogRow

LEMMA RowDeleted ==
  ASSUME NEW n \in Nat
  PROVE  [NoRow EXCEPT !.pk = n] \in LogRow /\ [NoRow EXCEPT !.pk = n].hits = 0 /\ [NoRow EXCEPT !.pk = n].pk = n
BY DEF NoRow, LogRow

LEMMA LogUpdateStep ==
  ASSUME IInv, NEW c \in Client, LogUpdate(c)
  PROVE  IInv'
<1> DEFINE q == call[c]  p == Pop(q)
<1>1. Step(c) = "log_update" /\ UNCHANGED <<dep, status, known, site, due, lost>>
  BY DEF LogUpdate, tenancy, bounds
<1>2. /\ CallRight(q) /\ First(q) = "log_update" /\ DOMAIN q = DOMAIN NoCall /\ q.tenant \in Owner
      /\ log[q.tenant] \in LogRow /\ q.row \in LogRow /\ q.before \in LogRow
  BY <1>1, LogCall DEF LogName
<1>3. Owes(q)
  BY <1>2 DEF CallRight, CountRight
<1>4. PICK t \in Owner : t = q.tenant
  BY <1>2
<1>5. /\ SameButSteps(p, q) /\ p.todo = Tail(q.todo) /\ p.todo # <<>> /\ First(p) = "log_refresh"
      /\ StepsRight(q.op, p.todo) /\ (QueryAhead(p.todo) => QueryAhead(q.todo))
  BY <1>2, LogNext DEF LogName, Follower, First
<1>6. /\ Remembers(q, log[t])
      /\ \A d \in Client \ {c} : call[d].counted /\ call[d].tenant = t => Remembers(q, call[d].before)
  BY <1>2, <1>4 DEF IInv, LogsRight, RowsRemembered
<1>7. log[t].pk \in Nat /\ log[t].hits \in Nat /\ q.row.pk \in Nat /\ log[t].hits \in Int
      /\ DOMAIN log = Owner /\ lost[t] \in Int /\ due[t] \in Int
  BY <1>2 DEF IInv, Shape, LogRow
<1>8. p.tenant = t /\ p.row = q.row /\ p.due = q.due /\ p.counted = q.counted /\ p.before = q.before
  BY <1>4, <1>5 DEF SameButSteps
<1>9. Step(c) \notin {"delete", "forget"}
  BY <1>1
<1>10. CASE Gone(p)
 <2>1. Becomes(c, p) /\ UNCHANGED log
   BY <1>10 DEF LogUpdate
 <2>2. CallRight(p)
  <3>1. CountRight(p)
    BY <1>3, <1>5, <1>8 DEF CountRight, Owes
  <3> HIDE DEF p, q
  <3> QED
    BY <1>2, <1>5, <3>1, RecordChanged DEF CallRight, CallShape, SameButSteps
 <2>3. log[t].hits = 0 \/ log[t].pk # q.row.pk
   BY <1>8, <1>10 DEF Gone, NoLog
 <2>4. Owes(p)
   BY <1>3, <1>8 DEF Owes
 <2>5. Remembers(p, log[t])
   BY <1>5, <1>6, <1>8, <2>3, <2>4 DEF Remembers, Missing
 <2>6. ASSUME NEW d \in Client \ {c}, call[d].counted, call[d].tenant = t PROVE Remembers(p, call[d].before)
  <3> DEFINE b == call[d].before
  <3>1. Grown(log[t], b) /\ b \in LogRow
    BY <2>6 DEF IInv, LogsRight, LocksRight, CallsRight, CallRight, CallShape
  <3>2. b.hits = 0 \/ b.pk # q.row.pk
    BY <1>7, <2>3, <3>1 DEF Grown, LogRow
  <3> QED
    BY <1>5, <1>6, <1>8, <2>4, <2>6, <3>2 DEF Remembers, Missing
 <2>7. ASSUME call'[c] = Landing(p), Alone(c) PROVE LogsRight'
  <3>1. call'[c] = p
    BY <1>5, <2>7 DEF Landing
  <3>2. LocksOnce' /\ LocksRight' /\ RowsRemembered'
   <4>1. t = call[c].tenant /\ t = call'[c].tenant /\ call'[c].counted = call[c].counted
         /\ call'[c].before = call[c].before
     BY <1>4, <1>8, <3>1
   <4>2. First(call'[c]) \in Recording =>
           /\ Remembers(call'[c], log[t])
           /\ \A d \in Client \ {c} : call[d].counted /\ call[d].tenant = t => Remembers(call'[c], call[d].before)
     BY <2>5, <2>6, <3>1
   <4> QED
     BY <2>1, <2>7, <4>1, <4>2, KeptRows
  <3>3. Moved(c, t)
    BY <1>1, <1>3, <1>4, <1>7, <1>8, <2>1, <2>4, <3>1 DEF Moved, Owed
  <3> QED
    BY <2>7, <3>2, <3>3, BalanceStep DEF LogsRight
 <2>8. log' \in [Owner -> LogRow] /\ due' \in [Owner -> Int] /\ lost' \in [Owner -> Int]
   BY <1>1, <2>1 DEF IInv, Shape
 <2> HIDE DEF p
 <2> QED
   BY <1>1, <1>9, <2>1, <2>2, <2>7, <2>8, CountStep
<1>11. CASE ~Gone(p)
 <2> DEFINE r == Counted(p, log[t])  row == Incremented(log[t])
 <2>1. ~Locked(t) /\ Becomes(c, r) /\ log' = [log EXCEPT ![t] = row]
   BY <1>8, <1>11 DEF LogUpdate
 <2>2. /\ CallRight(r) /\ r.tenant = t /\ r.row = q.row /\ ~Owes(r) /\ (r.counted => r.before = log[t])
       /\ r.todo # <<>> /\ First(r) = "log_refresh"
   BY <1>2, <1>4, CountedRight DEF Follower
 <2>3. /\ row \in LogRow /\ row.hits = log[t].hits + 1 /\ row.pk = log[t].pk /\ ~row.old
   BY <1>2, <1>4, RowWritten
 <2> HIDE DEF r, row
 <2>4. log[t].hits # 0 /\ log[t].pk = q.row.pk
   BY <1>8, <1>11 DEF Gone, NoLog
 <2>5. /\ log' \in [Owner -> LogRow] /\ due' \in [Owner -> Int] /\ lost' \in [Owner -> Int]
       /\ log'[t] = row /\ \A u \in Owner : u # t => log'[u] = log[u]
   BY <1>1, <2>1, <2>3 DEF IInv, Shape
 <2>6. Grown(row, log[t])
   BY <2>3, <2>4 DEF Grown
 <2>7. Remembers(r, row)
   BY <1>7, <2>2, <2>3, <2>4 DEF Remembers, Missing
 <2>8. ASSUME NEW d \in Client \ {c}, call[d].tenant = t, First(call[d]) \in Recording
       PROVE  Remembers(call[d], row)
  <3>1. Remembers(call[d], log[t])
    BY <2>8 DEF IInv, LogsRight, RowsRemembered, Recording
  <3> QED
    BY <1>7, <2>3, <2>4, <3>1 DEF Remembers, Missing
 <2>9. ASSUME call'[c] = Landing(r), Alone(c) PROVE LogsRight'
  <3>1. call'[c] = r
    BY <2>2, <2>9 DEF Landing
  <3>2. LocksOnce' /\ LocksRight' /\ RowsRemembered'
   <4>1. t = call[c].tenant /\ Free(c, t)
     BY <1>4, <2>1 DEF Free, Locked
   <4>2. OthersRemember(c, t, row)
     BY <2>8 DEF OthersRemember
   <4>3. ChangesRight(c, t, row)
     BY <2>2, <2>6, <2>7, <3>1 DEF ChangesRight
   <4> QED
     BY <2>1, <2>9, <4>1, <4>2, <4>3, ChangedRow
  <3>3. Moved(c, t)
   <4>1. Owed(call'[c]) = 0 /\ Owed(call[c]) = 1
     BY <1>3, <2>2, <3>1 DEF Owed
   <4>2. log'[t].hits = log[t].hits + 1
     BY <2>3, <2>5
   <4> QED
     BY <1>1, <1>4, <1>7, <2>2, <2>5, <3>1, <4>1, <4>2 DEF Moved
  <3> QED
    BY <2>9, <3>2, <3>3, BalanceStep DEF LogsRight
 <2> QED
   BY <1>1, <1>9, <2>1, <2>2, <2>5, <2>9, CountStep
<1> QED
  BY <1>10, <1>11

LEMMA LogRefreshStep ==
  ASSUME IInv, NEW c \in Client, LogRefresh(c)
  PROVE  IInv'
<1> DEFINE q == call[c]  p == Pop(q)
<1>1. Step(c) = "log_refresh" /\ UNCHANGED <<dep, status, known, site, logs>>
  BY DEF LogRefresh, tenancy, bounds
<1>2. /\ CallRight(q) /\ First(q) = "log_refresh" /\ DOMAIN q = DOMAIN NoCall /\ q.tenant \in Owner
      /\ log[q.tenant] \in LogRow /\ q.row \in LogRow /\ q.before \in LogRow
      /\ q.due \in BOOLEAN /\ q.counted \in BOOLEAN
  BY <1>1, LogCall DEF LogName
<1>3. PICK t \in Owner : t = q.tenant
  BY <1>2
<1>4. /\ SameButSteps(p, q) /\ p.todo = Tail(q.todo) /\ p.todo # <<>> /\ First(p) = "log_referrers"
      /\ StepsRight(q.op, p.todo) /\ (QueryAhead(p.todo) => QueryAhead(q.todo))
  BY <1>2, LogNext DEF LogName, Follower, First
<1>5. IF Owes(q) THEN Missing(q, log[t]) ELSE ~Missing(q, log[t])
  BY <1>2, <1>3 DEF IInv, LogsRight, RowsRemembered, Remembers
<1>6. p.tenant = t /\ p.row = q.row /\ p.due = q.due /\ p.counted = q.counted /\ p.before = q.before
  BY <1>3, <1>4 DEF SameButSteps
<1>7. Gone(p) <=> Missing(q, log[t])
  BY <1>6 DEF Gone, NoLog, Missing
<1> DEFINE s == Tail(p.todo)  create == [p EXCEPT !.todo = Do("log_create") \o s]
           found == [p EXCEPT !.row = log[t]]
<1>8. (Gone(p) /\ Becomes(c, create)) \/ (~Gone(p) /\ Becomes(c, found))
  BY <1>6 DEF LogRefresh
<1>9. CountRight(q)
  BY <1>2 DEF CallRight
<1>10. Gone(p) => CallRight(create) /\ create.todo # <<>> /\ First(create) = "log_create"
                  /\ create.tenant = t /\ create.due = q.due /\ create.counted = q.counted /\ create.before = q.before
 <2> SUFFICES ASSUME Gone(p)
              PROVE  /\ CallRight(create) /\ create.todo # <<>> /\ First(create) = "log_create"
                     /\ create.tenant = t /\ create.due = q.due /\ create.counted = q.counted
                     /\ create.before = q.before
   OBVIOUS
 <2>1. /\ s # <<>> /\ s[1][1] = "leave" /\ StepsRight(q.op, s) /\ (QueryAhead(s) => QueryAhead(p.todo))
  <3> DEFINE w == p.todo
  <3>1. w # <<>> /\ w[1][1] = "log_referrers" /\ StepsRight(q.op, w)
    BY <1>4 DEF First
  <3> HIDE DEF w, p
  <3>2. /\ StepsRight(q.op, Tail(w)) /\ (QueryAhead(Tail(w)) => QueryAhead(w))
        /\ \A i \in 1..(Len(w) - 1) : Tail(w)[i] = w[1 + i]
    BY <3>1, TailOfSteps
  <3>3. w \in Seq(StepName \X StepArg)
    BY <3>1 DEF StepsRight
  <3>4. /\ DOMAIN w = 1..Len(w) /\ Len(w) \in Nat /\ Len(w) > 0 /\ DOMAIN Tail(w) = 1..(Len(w) - 1)
        /\ Tail(w) = <<>> <=> Len(w) = 1
    BY <3>1, <3>3, TailOf
  <3>5. Precedes(w, 1, "leave")
   <4>1. 1 \in DOMAIN w
     BY <3>4
   <4> QED
     BY <3>1, <4>1 DEF StepsRight, LogsInOrder
  <3>6. 1 + 1 \in DOMAIN w /\ w[1 + 1][1] = "leave"
    BY <3>5 DEF Precedes
  <3>7. Tail(w) # <<>> /\ 1 \in 1..(Len(w) - 1)
    BY <3>4, <3>6
  <3> QED
    BY <3>2, <3>6, <3>7 DEF w
 <2> DEFINE x == Do("log_create") \o s
 <2>2. StepsRight(q.op, x) /\ x # <<>> /\ x[1][1] = "log_create" /\ (QueryAhead(x) => QueryAhead(s))
   BY <2>1, RecordSteps
 <2> HIDE DEF s, x
 <2>3. /\ DOMAIN create = DOMAIN NoCall /\ create.op = q.op /\ create.proc = q.proc /\ create.tenant = t
       /\ create.ses = q.ses /\ create.scope = q.scope /\ create.cause = q.cause /\ create.seen = q.seen
       /\ create.real = q.real /\ create.why = q.why /\ create.todo = x /\ create.due = q.due
       /\ create.counted = q.counted /\ create.before = q.before /\ create.row = q.row
  <3> HIDE DEF p
  <3> QED
    BY <1>3, <1>4 DEF SameButSteps, NoCall, x
 <2> HIDE DEF create
 <2>4. Owes(q)
   BY <1>5, <1>7
 <2>5. First(create) = "log_create" /\ Owes(create) /\ CountRight(create)
   BY <1>2, <2>2, <2>3, <2>4 DEF First, Owes, CountRight
 <2>6. CallRight(create)
   BY <1>2, <1>3, <1>4, <2>1, <2>2, <2>3, <2>5, RecordChanged
 <2> QED
   BY <2>2, <2>3, <2>5, <2>6
<1>11. ~Gone(p) => CallRight(found) /\ found.todo # <<>> /\ First(found) = "log_referrers"
                   /\ found.tenant = t /\ found.due = q.due /\ found.counted = q.counted /\ found.before = q.before
 <2> SUFFICES ASSUME ~Gone(p)
              PROVE  /\ CallRight(found) /\ found.todo # <<>> /\ First(found) = "log_referrers"
                     /\ found.tenant = t /\ found.due = q.due /\ found.counted = q.counted /\ found.before = q.before
   OBVIOUS
 <2>1. /\ DOMAIN found = DOMAIN NoCall /\ found.op = q.op /\ found.proc = q.proc /\ found.tenant = t
       /\ found.ses = q.ses /\ found.scope = q.scope /\ found.cause = q.cause /\ found.seen = q.seen
       /\ found.real = q.real /\ found.why = q.why /\ found.todo = p.todo /\ found.due = q.due
       /\ found.counted = q.counted /\ found.before = q.before /\ found.row = log[t]
  <3> HIDE DEF p
  <3> QED
    BY <1>3, <1>4 DEF SameButSteps, NoCall
 <2> HIDE DEF found
 <2>2. ~Owes(q)
   BY <1>5, <1>7
 <2>3. First(found) = "log_referrers" /\ ~Owes(found) /\ CountRight(found)
   BY <1>4, <1>9, <2>1, <2>2 DEF First, Owes, CountRight
 <2>4. CallRight(found)
   BY <1>2, <1>3, <1>4, <2>1, <2>3, RecordChanged
 <2> QED
   BY <1>4, <2>1, <2>3, <2>4
<1> HIDE DEF create, found
<1>12. \E r : /\ Becomes(c, r) /\ CallRight(r) /\ r.todo # <<>> /\ First(r) \in {"log_create", "log_referrers"}
              /\ r.tenant = t /\ r.due = q.due /\ r.counted = q.counted /\ r.before = q.before
  BY <1>8, <1>10, <1>11
<1>13. PICK r : /\ Becomes(c, r) /\ CallRight(r) /\ r.todo # <<>> /\ First(r) \in {"log_create", "log_referrers"}
                /\ r.tenant = t /\ r.due = q.due /\ r.counted = q.counted /\ r.before = q.before
  BY <1>12
<1>14. ASSUME call'[c] = Landing(r), Alone(c) PROVE LogsRight'
 <2>1. call'[c] = r
   BY <1>13, <1>14 DEF Landing
 <2>2. LocksOnce' /\ LocksRight' /\ RowsRemembered'
  <3>1. /\ t = call[c].tenant /\ t = call'[c].tenant /\ call'[c].counted = call[c].counted
        /\ call'[c].before = call[c].before /\ First(call'[c]) \notin Recording
    BY <1>3, <1>13, <2>1 DEF Recording
  <3> QED
    BY <1>1, <1>14, <3>1, KeptRows DEF logs
 <2>3. Moved(c, t)
  <3>1. Owed(call'[c]) = Owed(call[c]) /\ Owed(call[c]) \in Int
    BY <1>13, <2>1 DEF Owed, Owes
  <3>2. log[t].hits \in Int /\ lost[t] \in Int /\ due[t] \in Int
    BY DEF IInv, Shape, LogRow
  <3> QED
    BY <1>1, <1>3, <1>13, <2>1, <3>1, <3>2 DEF Moved, logs
 <2> QED
   BY <1>14, <2>2, <2>3, BalanceStep DEF LogsRight
<1>15. log' \in [Owner -> LogRow] /\ due' \in [Owner -> Int] /\ lost' \in [Owner -> Int]
  BY <1>1 DEF IInv, Shape, logs
<1>16. Step(c) \notin {"delete", "forget"}
  BY <1>1
<1> QED
  BY <1>1, <1>13, <1>14, <1>15, <1>16, CountStep

LEMMA LogReferrersStep ==
  ASSUME IInv, NEW c \in Client, LogReferrers(c)
  PROVE  IInv'
<1> DEFINE q == call[c]  p == Pop(q)
<1>1. Step(c) = "log_referrers" /\ Becomes(c, p) /\ UNCHANGED <<dep, status, known, site, due, lost>>
  BY DEF LogReferrers, Continue, tenancy, bounds
<1>2. /\ CallRight(q) /\ First(q) = "log_referrers" /\ DOMAIN q = DOMAIN NoCall /\ q.tenant \in Owner
      /\ log[q.tenant] \in LogRow /\ q.row \in LogRow /\ q.before \in LogRow
      /\ q.due \in BOOLEAN /\ q.counted \in BOOLEAN
  BY <1>1, LogCall DEF LogName
<1>3. PICK t \in Owner : t = q.tenant
  BY <1>2
<1>4. /\ SameButSteps(p, q) /\ p.todo = Tail(q.todo) /\ p.todo # <<>> /\ First(p) = "leave"
      /\ StepsRight(q.op, p.todo) /\ (QueryAhead(p.todo) => QueryAhead(q.todo))
  BY <1>2, LogNext DEF LogName, Follower, First
<1>5. ~Owes(q) /\ CountRight(q)
  BY <1>2 DEF CallRight, CountRight
<1>6. p.tenant = t /\ p.due = q.due /\ p.counted = q.counted /\ p.before = q.before /\ ~Owes(p)
  BY <1>3, <1>4, <1>5 DEF SameButSteps, Owes
<1>7. CallRight(p)
 <2>1. CountRight(p)
   BY <1>4, <1>5, <1>6 DEF CountRight
 <2> HIDE DEF p, q
 <2> QED
   BY <1>2, <1>4, <2>1, RecordChanged DEF SameButSteps
<1> DEFINE row == Saved(log[t], q.row)
<1>8. log' = log \/ log' = [log EXCEPT ![t] = row]
  BY <1>3 DEF LogReferrers
<1>9. row \in LogRow /\ row.hits = log[t].hits /\ row.pk = log[t].pk /\ row.old = log[t].old
  BY <1>2, <1>3, RowSaved
<1> HIDE DEF row, p
<1>10. /\ log' \in [Owner -> LogRow] /\ due' \in [Owner -> Int] /\ lost' \in [Owner -> Int]
       /\ \A u \in Owner : log'[u].hits = log[u].hits /\ log'[u].pk = log[u].pk /\ log'[u].old = log[u].old
  BY <1>1, <1>8, <1>9 DEF IInv, Shape
<1>11. ASSUME call'[c] = Landing(p), Alone(c) PROVE LogsRight'
 <2>1. call'[c] = p
   BY <1>4, <1>11 DEF Landing
 <2>2. LocksOnce' /\ LocksRight' /\ RowsRemembered'
  <3>1. /\ t = call[c].tenant /\ t = call'[c].tenant /\ call'[c].counted = call[c].counted
        /\ call'[c].before = call[c].before /\ First(call'[c]) \notin Recording
    BY <1>3, <1>4, <1>6, <2>1 DEF Recording
  <3> QED
    BY <1>10, <1>11, <3>1, KeptRows
 <2>3. Moved(c, t)
  <3>1. Owed(call'[c]) = 0 /\ Owed(call[c]) = 0
    BY <1>5, <1>6, <2>1 DEF Owed
  <3>2. log[t].hits \in Int /\ lost[t] \in Int /\ due[t] \in Int
    BY DEF IInv, Shape, LogRow
  <3> QED
    BY <1>1, <1>3, <1>6, <1>10, <2>1, <3>1, <3>2 DEF Moved
 <2> QED
   BY <1>11, <2>2, <2>3, BalanceStep DEF LogsRight
<1>12. Step(c) \notin {"delete", "forget"}
  BY <1>1
<1> QED
  BY <1>1, <1>7, <1>10, <1>11, <1>12, CountStep

LEMMA LogCreateStep ==
  ASSUME IInv, NEW c \in Client, LogCreate(c)
  PROVE  IInv'
<1> DEFINE q == call[c]  p == Pop(q)
<1>1. Step(c) = "log_create" /\ UNCHANGED <<dep, status, known, site, due>>
  BY DEF LogCreate, tenancy, bounds
<1>2. /\ CallRight(q) /\ First(q) = "log_create" /\ DOMAIN q = DOMAIN NoCall /\ q.tenant \in Owner
      /\ log[q.tenant] \in LogRow /\ q.row \in LogRow /\ q.before \in LogRow
      /\ q.due \in BOOLEAN /\ q.counted \in BOOLEAN
  BY <1>1, LogCall DEF LogName
<1>3. PICK t \in Owner : t = q.tenant
  BY <1>2
<1>4. /\ SameButSteps(p, q) /\ p.todo = Tail(q.todo) /\ p.todo # <<>> /\ First(p) = "leave"
      /\ StepsRight(q.op, p.todo) /\ (QueryAhead(p.todo) => QueryAhead(q.todo))
  BY <1>2, LogNext DEF LogName, Follower, First
<1>5. Owes(q) /\ ~q.counted
  BY <1>2 DEF CallRight, CountRight, Owes
<1>6. p.tenant = t /\ p.row = q.row /\ p.due = q.due /\ p.counted = q.counted /\ p.before = q.before
  BY <1>3, <1>4 DEF SameButSteps
<1>7. /\ log[t].pk \in Nat /\ log[t].hits \in Nat /\ log[t].hits \in Int /\ lost[t] \in Int /\ due[t] \in Int
      /\ ~Locked(t)
  BY <1>2, <1>3 DEF IInv, Shape, LogRow, LogCreate
<1>8. Step(c) \notin {"delete", "forget"}
  BY <1>1
<1>9. CASE NoLog(t)
 <2> DEFINE r == Counted(p, log[t])  row == [pk |-> log[t].pk + 1, hits |-> 1, refs |-> 1, old |-> FALSE]
 <2>1. Becomes(c, r) /\ log' = [log EXCEPT ![t] = row] /\ lost' = lost
   BY <1>6, <1>9 DEF LogCreate
 <2>2. /\ CallRight(r) /\ r.tenant = t /\ ~Owes(r) /\ (r.counted => r.before = log[t])
       /\ r.todo # <<>> /\ First(r) = "leave"
   BY <1>2, <1>3, CountedRight DEF Follower
 <2>3. row \in LogRow /\ row.hits = 1 /\ row.pk = log[t].pk + 1
   BY <1>7 DEF LogRow
 <2> HIDE DEF r, row
 <2>4. log[t].hits = 0
   BY <1>9 DEF NoLog
 <2>5. /\ log' \in [Owner -> LogRow] /\ due' \in [Owner -> Int] /\ lost' \in [Owner -> Int]
       /\ log'[t] = row /\ \A u \in Owner : u # t => log'[u] = log[u]
   BY <1>1, <2>1, <2>3 DEF IInv, Shape
 <2>6. Grown(row, log[t])
   BY <2>3, <2>4 DEF Grown
 <2>7. ASSUME NEW d \in Client \ {c}, call[d].tenant = t, First(call[d]) \in Recording
       PROVE  Remembers(call[d], row)
  <3>1. Remembers(call[d], log[t]) /\ call[d].row.pk \in Nat
    BY <2>7 DEF IInv, LogsRight, RowsRemembered, Recording, CallsRight, CallRight, CallShape, LogRow
  <3>2. First(call[d]) = "log_refresh" => Owes(call[d])
    BY <2>4, <3>1 DEF Remembers, Missing
  <3> QED
    BY <1>7, <2>3, <3>1, <3>2 DEF Remembers, Missing
 <2>8. ASSUME call'[c] = Landing(r), Alone(c) PROVE LogsRight'
  <3>1. call'[c] = r
    BY <2>2, <2>8 DEF Landing
  <3>2. LocksOnce' /\ LocksRight' /\ RowsRemembered'
   <4>1. t = call[c].tenant /\ Free(c, t)
     BY <1>3, <1>7 DEF Free, Locked
   <4>2. OthersRemember(c, t, row)
     BY <2>7 DEF OthersRemember
   <4>3. ChangesRight(c, t, row)
     BY <2>2, <2>6, <3>1 DEF ChangesRight, Recording
   <4> QED
     BY <2>1, <2>8, <4>1, <4>2, <4>3, ChangedRow
  <3>3. Moved(c, t)
   <4>1. Owed(call'[c]) = 0 /\ Owed(call[c]) = 1
     BY <1>5, <2>2, <3>1 DEF Owed
   <4>2. log'[t].hits = log[t].hits + 1
     BY <2>3, <2>4, <2>5
   <4> QED
     BY <1>1, <1>3, <1>7, <2>1, <2>2, <2>5, <3>1, <4>1, <4>2 DEF Moved
  <3> QED
    BY <2>8, <3>2, <3>3, BalanceStep DEF LogsRight
 <2> QED
   BY <1>1, <1>8, <2>1, <2>2, <2>5, <2>8, CountStep
<1>10. CASE ~NoLog(t)
 <2> DEFINE r == [p EXCEPT !.due = FALSE]
 <2>1. Becomes(c, r) /\ log' = log /\ lost' = [lost EXCEPT ![t] = @ + 1]
   BY <1>6, <1>10 DEF LogCreate
 <2>2. /\ DOMAIN r = DOMAIN NoCall /\ r.op = q.op /\ r.proc = q.proc /\ r.tenant = t
       /\ r.ses = q.ses /\ r.scope = q.scope /\ r.cause = q.cause /\ r.seen = q.seen
       /\ r.real = q.real /\ r.why = q.why /\ r.todo = p.todo /\ r.due = FALSE
       /\ r.counted = q.counted /\ r.before = q.before /\ r.row = q.row
  <3> HIDE DEF p
  <3> QED
    BY <1>3, <1>4 DEF SameButSteps, NoCall
 <2> HIDE DEF r
 <2>3. ~Owes(r) /\ First(r) = "leave" /\ CountRight(r)
   BY <1>4, <1>5, <2>2 DEF Owes, First, CountRight
 <2>4. CallRight(r)
   BY <1>2, <1>3, <1>4, <2>2, <2>3, RecordChanged
 <2>5. /\ log' \in [Owner -> LogRow] /\ due' \in [Owner -> Int] /\ lost' \in [Owner -> Int]
       /\ lost'[t] = lost[t] + 1 /\ \A u \in Owner : u # t => lost'[u] = lost[u]
   BY <1>1, <2>1 DEF IInv, Shape
 <2>6. ASSUME call'[c] = Landing(r), Alone(c) PROVE LogsRight'
  <3>1. call'[c] = r
    BY <1>4, <2>2, <2>6 DEF Landing
  <3>2. LocksOnce' /\ LocksRight' /\ RowsRemembered'
   <4>1. /\ t = call[c].tenant /\ t = call'[c].tenant /\ call'[c].counted = call[c].counted
         /\ call'[c].before = call[c].before /\ First(call'[c]) \notin Recording
     BY <1>3, <2>2, <2>3, <3>1 DEF Recording
   <4> QED
     BY <2>1, <2>6, <4>1, KeptRows
  <3>3. Moved(c, t)
   <4>1. Owed(call'[c]) = 0 /\ Owed(call[c]) = 1
     BY <1>5, <2>3, <3>1 DEF Owed
   <4> QED
     BY <1>1, <1>3, <1>7, <2>1, <2>2, <2>5, <3>1, <4>1 DEF Moved
  <3> QED
    BY <2>6, <3>2, <3>3, BalanceStep DEF LogsRight
 <2> QED
   BY <1>1, <1>8, <2>1, <2>4, <2>5, <2>6, CountStep
<1> QED
  BY <1>9, <1>10

LEMMA DeleteLogStep ==
  ASSUME IInv, NEW c \in Client, DeleteLog(c)
  PROVE  IInv'
<1> DEFINE q == call[c]  p == Pop(q)
<1>1. Step(c) = "delete_log" /\ Becomes(c, p) /\ UNCHANGED <<dep, status, known, site, lost>> /\ ~Locked(q.tenant)
  BY DEF DeleteLog, Continue, tenancy, bounds
<1>2. Calm(q) /\ Calm(p)
  BY <1>1, CalmMove
<1>3. PICK t \in Owner : t = q.tenant
  BY <1>2 DEF Calm, CallRight, CallShape
<1>4. CASE ~log[t].old
 <2>1. UNCHANGED <<log, due>>
   BY <1>3, <1>4 DEF DeleteLog
 <2> QED
   BY <1>1, <1>2, <2>1, QuietStep DEF logs
<1>5. CASE log[t].old
 <2> DEFINE row == [NoRow EXCEPT !.pk = log[t].pk]
 <2>1. due' = [due EXCEPT ![t] = @ - log[t].hits] /\ log' = [log EXCEPT ![t] = row]
   BY <1>3, <1>5 DEF DeleteLog
 <2>2. log[t] \in LogRow /\ log[t].pk \in Nat /\ log[t].hits \in Int /\ lost[t] \in Int /\ due[t] \in Int
   BY DEF IInv, Shape, LogRow
 <2>3. row \in LogRow /\ row.hits = 0 /\ row.pk = log[t].pk
   BY <2>2, RowDeleted
 <2> HIDE DEF row, p
 <2>4. /\ log' \in [Owner -> LogRow] /\ due' \in [Owner -> Int] /\ lost' \in [Owner -> Int]
       /\ log'[t] = row /\ \A u \in Owner : u # t => log'[u] = log[u] /\ due'[u] = due[u]
       /\ due'[t] = due[t] - log[t].hits
   BY <1>1, <2>1, <2>2, <2>3 DEF IInv, Shape
 <2>5. ASSUME NEW d \in Client \ {c}, call[d].tenant = t, First(call[d]) \in Recording
       PROVE  Remembers(call[d], row)
  <3>1. Remembers(call[d], log[t])
    BY <2>5 DEF IInv, LogsRight, RowsRemembered, Recording
  <3>2. First(call[d]) = "log_refresh" => Owes(call[d])
    BY <1>5, <3>1 DEF Remembers
  <3> QED
    BY <2>3, <3>1, <3>2 DEF Remembers, Missing
 <2>6. ASSUME call'[c] = Landing(p), Alone(c) PROVE LogsRight'
  <3>1. Calm(call'[c])
    BY <1>2, <2>6, LandingRight DEF Calm, First
  <3>2. ~call'[c].counted /\ First(call'[c]) \notin Recording /\ ~Owes(call'[c])
    BY <3>1 DEF Calm, CallRight, CountRight, Recording, Owes
  <3>3. LocksOnce' /\ LocksRight' /\ RowsRemembered'
   <4>1. t = call[c].tenant /\ Free(c, t)
     BY <1>1, <1>3 DEF Free, Locked
   <4>2. OthersRemember(c, t, row)
     BY <2>5 DEF OthersRemember
   <4>3. ChangesRight(c, t, row)
     BY <3>2 DEF ChangesRight
   <4> QED
     BY <2>1, <2>6, <4>1, <4>2, <4>3, ChangedRow
  <3>4. Moved(c, t)
   <4>1. Owed(call'[c]) = 0 /\ Owed(call[c]) = 0
     BY <1>2, <3>2 DEF Owed, Owes, Calm
   <4> QED
     BY <1>1, <1>3, <2>2, <2>3, <2>4, <3>2, <4>1 DEF Moved
  <3> QED
    BY <2>6, <3>3, <3>4, BalanceStep DEF LogsRight
 <2>7. CallRight(p) /\ Step(c) \notin {"delete", "forget"}
   BY <1>1, <1>2 DEF Calm
 <2> QED
   BY <1>1, <2>4, <2>6, <2>7, CountStep
<1> QED
  BY <1>4, <1>5

(* --------------------------------- faults ---------------------------------- *)

LEMMA ExpireStep ==
  ASSUME IInv, Expire
  PROVE  IInv'
<1>1. UNCHANGED <<log, due, lost, dep, call, status>>
  BY DEF Expire, logs, tenancy
<1>2. CallsRight'
  BY <1>1 DEF IInv, CallsRight, CallRight, AnswerRight
<1>3. LogsRight'
  BY <1>1 DEF IInv, LogsRight, LocksOnce, LocksRight, RowsRemembered, Balance, Owing
<1>4. \A k : Deleting(k)' = Deleting(k)
  BY <1>1 DEF Deleting, Step, Idle, MyKey, Arg
<1>5. \A p, t : Forgetting(p, t)' = Forgetting(p, t)
  BY <1>1 DEF Forgetting, Step, Idle
<1>6. Shape
  BY DEF IInv
<1>7. CASE \E k \in Key : /\ cache[k].there /\ cache' = [cache EXCEPT ![k] = NoEntry]
                          /\ UNCHANGED <<tenancy, content>>
 <2>1. PICK k \in Key : cache' = [cache EXCEPT ![k] = NoEntry] /\ UNCHANGED <<tenancy, content>>
   BY <1>7
 <2>2. DOMAIN cache' = Key /\ \A l \in Key : cache'[l] = IF l = k THEN NoEntry ELSE cache[l]
   BY <1>6, <2>1 DEF Shape
 <2>3. Shape'
   BY <1>1, <1>6, <2>1, <2>2 DEF Shape, tenancy
 <2>4. FilesFollow'
   BY <1>4, <2>1, <2>2 DEF IInv, FilesFollow, NoEntry
 <2>5. TenantsFollow'
   BY <1>5, <2>1 DEF IInv, TenantsFollow, tenancy
 <2> QED
   BY <1>2, <1>3, <2>3, <2>4, <2>5 DEF IInv
<1>8. CASE \E p \in Process, t \in Tenant :
             /\ known[p][t].there /\ known' = [known EXCEPT ![p][t] = Unknown]
             /\ UNCHANGED <<status, rows, site>>
 <2>1. PICK p \in Process, t \in Tenant : known' = [known EXCEPT ![p][t] = Unknown] /\ UNCHANGED site
   BY <1>8
 <2>2. /\ DOMAIN known' = Process /\ \A o \in Process : DOMAIN known'[o] = Tenant
       /\ \A o \in Process, u \in Tenant : known'[o][u] = IF o = p /\ u = t THEN Unknown ELSE known[o][u]
   BY <1>6, <2>1 DEF Shape
 <2>3. Shape'
  <3>1. \A o \in Process : DOMAIN known'[o] = Tenant /\ \A u \in Tenant : DOMAIN known'[o][u] = DOMAIN Unknown
    BY <1>6, <2>2 DEF Shape
  <3> QED
    BY <1>1, <1>6, <2>1, <2>2, <3>1 DEF Shape, site
 <2>4. FilesFollow'
   BY <1>4, <2>1 DEF IInv, FilesFollow, site
 <2>5. TenantsFollow'
   BY <1>1, <1>5, <2>2 DEF IInv, TenantsFollow, Unknown
 <2> QED
   BY <1>2, <1>3, <2>3, <2>4, <2>5 DEF IInv
<1>9. CASE \E t \in Tenant :
             LET k == <<"redirects", t>> IN
             /\ Redirecting(content[k]) /\ content' = [content EXCEPT ![k] = @ + 1]
             /\ cache' = Spoilt(content', {k}, "lapsed")
             /\ UNCHANGED tenancy
 <2>1. PICK k : /\ content' = [content EXCEPT ![k] = @ + 1]
                /\ cache' = Spoilt(content', {k}, "lapsed") /\ UNCHANGED tenancy
   BY <1>9
 <2>2. SpoiltKnown(cache', content', {k})
   BY <1>6, <2>1, SpoiltRight
 <2>3. DOMAIN content' = Key /\ \A l \in Key : l # k => content'[l] = content[l]
   BY <1>6, <2>1 DEF Shape
 <2>4. Shape'
  <3>1. DOMAIN cache' = Key /\ \A l \in Key : DOMAIN cache'[l] = DOMAIN NoEntry
    BY <2>2 DEF SpoiltKnown
  <3>2. UNCHANGED <<status, known>>
    BY <2>1 DEF tenancy
  <3> QED
    BY <1>1, <1>6, <2>3, <3>1, <3>2 DEF Shape
 <2>5. FilesFollow'
   BY <1>4, <2>2, <2>3 DEF IInv, FilesFollow, SpoiltKnown
 <2>6. TenantsFollow'
   BY <1>5, <2>1 DEF IInv, TenantsFollow, tenancy
 <2> QED
   BY <1>2, <1>3, <2>4, <2>5, <2>6 DEF IInv
<1> QED
  BY <1>7, <1>8, <1>9 DEF Expire

\* A killed client takes its part of the counts with it.
LEMMA KilledLogs ==
  ASSUME IInv, NEW c \in Client, Alone(c), Calm(call'[c]), NEW t \in Owner, t = call[c].tenant,
         due' = due,
         IF call[c].due
         THEN /\ lost' = [lost EXCEPT ![t] = @ + 1]
              /\ log' = IF call[c].counted THEN [log EXCEPT ![t] = call[c].before] ELSE log
         ELSE UNCHANGED <<lost, log>>
  PROVE  LogsRight' /\ log' \in [Owner -> LogRow] /\ lost' \in [Owner -> Int]
<1> DEFINE q == call[c]
<1>1. CallRight(q) /\ q.before \in LogRow /\ CountRight(q) /\ q.due \in BOOLEAN /\ q.counted \in BOOLEAN
  BY DEF IInv, CallsRight, CallRight, CallShape
<1>2. ~call'[c].counted /\ First(call'[c]) \notin Recording /\ ~Owes(call'[c])
  BY DEF Calm, CallRight, CountRight, Recording, Owes
<1>3. log[t].hits \in Int /\ lost[t] \in Int /\ due[t] \in Int /\ log[t].hits \in Nat /\ log[t].pk \in Nat
  BY DEF IInv, Shape, LogRow
<1>4. CASE ~q.due
 <2>1. UNCHANGED <<lost, log>> /\ ~Owes(q)
   BY <1>4 DEF Owes
 <2> QED
   BY <2>1, LogsReleased DEF IInv, Shape
<1>5. CASE q.due
 <2>1. /\ lost' \in [Owner -> Int] /\ lost'[t] = lost[t] + 1 /\ \A u \in Owner : u # t => lost'[u] = lost[u]
   BY <1>5 DEF IInv, Shape
 <2>2. CASE ~q.counted
  <3>1. log' = log /\ log' \in [Owner -> LogRow]
    BY <1>5, <2>2 DEF IInv, Shape
  <3>2. LocksOnce' /\ LocksRight' /\ RowsRemembered'
    BY <1>2, <3>1, KeptRows
  <3>3. Owed(call'[c]) = 0 /\ Owed(q) = 1
    BY <1>2, <1>5, <2>2 DEF Owed, Owes
  <3>4. Moved(c, t)
    BY <1>2, <1>3, <2>1, <3>1, <3>3 DEF Moved
  <3> QED
    BY <2>1, <3>1, <3>2, <3>4, BalanceStep DEF LogsRight
 <2>3. CASE q.counted
  <3> DEFINE row == q.before
  <3>1. log' = [log EXCEPT ![t] = row] /\ row \in LogRow
    BY <1>1, <1>5, <2>3
  <3>2. Grown(log[t], row)
    BY <2>3 DEF IInv, LogsRight, LocksRight
  <3>3. Free(c, t)
    BY <2>3 DEF IInv, LogsRight, LocksOnce, Free
  <3>4. OthersRemember(c, t, row)
   <4> SUFFICES ASSUME NEW d \in Client \ {c}, call[d].tenant = t, First(call[d]) \in Recording
                PROVE  Remembers(call[d], row)
     BY DEF OthersRemember
   <4> QED
     BY <2>3 DEF IInv, LogsRight, RowsRemembered, Recording
  <3>5. ChangesRight(c, t, row)
    BY <1>2 DEF ChangesRight
  <3> HIDE DEF row
  <3>6. LocksOnce' /\ LocksRight' /\ RowsRemembered'
    BY <3>1, <3>3, <3>4, <3>5, ChangedRow
  <3>7. Owed(call'[c]) = 0 /\ Owed(q) = 0
    BY <1>2, <2>3 DEF Owed, Owes
  <3>8. log' \in [Owner -> LogRow] /\ log'[t] = row /\ \A u \in Owner : u # t => log'[u] = log[u]
    BY <3>1 DEF IInv, Shape
  <3>9. row.hits \in Int /\ log[t].hits = row.hits + 1
    BY <3>1, <3>2 DEF Grown, LogRow
  <3>10. Moved(c, t)
   <4>1. log'[t].hits - log[t].hits = -1 /\ lost'[t] - lost[t] = 1 /\ log'[t].hits \in Int /\ lost'[t] \in Int
     BY <1>3, <2>1, <3>8, <3>9
   <4>2. due'[t] - due[t] = 0 /\ due'[t] \in Int
     BY <1>3
   <4> QED
     BY <1>2, <2>1, <3>7, <3>8, <4>1, <4>2 DEF Moved
  <3> QED
    BY <2>1, <3>6, <3>8, <3>10, BalanceStep DEF LogsRight
 <2> QED
   BY <1>1, <2>2, <2>3
<1> QED
  BY <1>1, <1>4, <1>5

LEMMA KillStep ==
  ASSUME IInv, NEW c \in Client, Kill(c)
  PROVE  IInv'
<1> DEFINE q == call[c]
<1>1. /\ Becomes(c, NoCall) /\ UNCHANGED <<dep, status, content, due>>
      /\ cache' = IF "delete" \in Ahead(q) THEN Spoilt(content, {MyKey(c)}, "killed") ELSE cache
      /\ known' = IF "forget" \in Ahead(q) THEN Outdated(q.tenant, status[q.tenant], q.proc, "killed") ELSE known
      /\ ~Idle(c)
  BY DEF Kill
<1>2. Shape /\ CallsRight /\ FilesFollow /\ TenantsFollow /\ Calm(NoCall) /\ CallRight(NoCall)
  BY CalmNone DEF IInv, Calm
<1>3. DOMAIN call' = Client /\ call'[c] = Landing(NoCall) /\ Alone(c) /\ CallsRight'
  BY <1>1, <1>2, CallStep DEF Alone
<1>4. Calm(call'[c])
  BY <1>2, <1>3, LandingRight DEF Calm, First
<1>5. PICK t \in Owner : t = q.tenant
  BY <1>2 DEF CallsRight, CallRight, CallShape
<1>6. LogsRight' /\ log' \in [Owner -> LogRow] /\ lost' \in [Owner -> Int]
 <2>1. IF q.due THEN /\ lost' = [lost EXCEPT ![t] = @ + 1]
                     /\ log' = IF q.counted THEN [log EXCEPT ![t] = q.before] ELSE log
       ELSE UNCHANGED <<lost, log>>
   BY <1>5 DEF Kill
 <2> QED
   BY <1>1, <1>3, <1>4, <1>5, <2>1, KilledLogs
<1>7. Step(c) \in Ahead(q)
 <2>1. Step(c) = First(q) /\ q.todo # <<>> /\ CallRight(q)
   BY <1>1, <1>2, StepFirst DEF Idle
 <2>2. 1 \in DOMAIN q.todo /\ Step(c) = q.todo[1][1]
   BY <2>1, TailRight DEF First
 <2> QED
   BY <2>2 DEF Ahead
<1>8. /\ DOMAIN cache' = Key
      /\ \A k \in Key : /\ DOMAIN cache'[k] = DOMAIN NoEntry
                        /\ cache'[k].there = cache[k].there /\ cache'[k].ver = cache[k].ver
                        /\ cache'[k].why = {} => cache[k].why = {}
                        /\ Step(c) = "delete" /\ k = MyKey(c) /\ cache'[k].there /\ cache'[k].why = {} =>
                             cache'[k].ver = content[k]
 <2>1. CASE "delete" \in Ahead(q)
  <3>1. SpoiltKnown(cache', content, {MyKey(c)})
    BY <1>1, <1>2, <2>1, SpoiltRight
  <3> QED
    BY <3>1 DEF SpoiltKnown
 <2>2. CASE "delete" \notin Ahead(q)
  <3>1. cache' = cache /\ Step(c) # "delete"
    BY <1>1, <1>7, <2>2
  <3> QED
    BY <1>2, <3>1 DEF Shape
 <2> QED
   BY <2>1, <2>2
<1>9. /\ DOMAIN known' = Process
      /\ \A p \in Process :
           /\ DOMAIN known'[p] = Tenant
           /\ \A u \in Tenant :
                /\ DOMAIN known'[p][u] = DOMAIN Unknown
                /\ known'[p][u].there = known[p][u].there /\ known'[p][u].status = known[p][u].status
                /\ known'[p][u].why = {} => known[p][u].why = {}
                /\ Step(c) = "forget" /\ u = t /\ known'[p][u].there /\ known'[p][u].why = {} =>
                     known'[p][u].status = status[u]
 <2>1. CASE "forget" \in Ahead(q)
  <3>1. Foretold(known', t, status[t], q.proc, "killed")
    BY <1>1, <1>2, <1>5, <2>1, OutdatedRight
  <3> QED
    BY <3>1 DEF Foretold
 <2>2. CASE "forget" \notin Ahead(q)
  <3>1. known' = known /\ Step(c) # "forget"
    BY <1>1, <1>7, <2>2
  <3> QED
    BY <1>2, <3>1 DEF Shape
 <2> QED
   BY <2>1, <2>2
<1>10. Shape'
  BY <1>1, <1>2, <1>3, <1>6, <1>8, <1>9 DEF Shape
<1>11. FilesFollow'
 <2> SUFFICES ASSUME NEW k \in Key, cache'[k].there, cache'[k].ver # content[k], cache'[k].why = {}
              PROVE  Deleting(k)'
   BY <1>1 DEF FilesFollow
 <2>1. Deleting(k) /\ ~(Step(c) = "delete" /\ MyKey(c) = k)
   BY <1>2, <1>8 DEF FilesFollow
 <2> QED
   BY <1>3, <2>1, OthersDelete
<1>12. TenantsFollow'
 <2> SUFFICES ASSUME NEW p \in Process, NEW u \in Tenant,
                     known'[p][u].there, known'[p][u].status # status[u], known'[p][u].why = {}
              PROVE  Forgetting(p, u)'
   BY <1>1 DEF TenantsFollow
 <2>1. Forgetting(p, u) /\ ~(Step(c) = "forget" /\ call[c].proc = p /\ call[c].tenant = u)
   BY <1>2, <1>5, <1>9 DEF TenantsFollow
 <2> QED
   BY <1>3, <2>1, OthersForget
<1> QED
  BY <1>3, <1>6, <1>10, <1>11, <1>12 DEF IInv

(* ------------------------------- the theorems ------------------------------- *)

LEMMA InitIInv ==
  ASSUME Init
  PROVE  IInv
<1>1. dep \in Deployment /\ dep.start \in {0, 1}
  BY DeploymentsAssumption DEF Init, Deployment
<1>2. Shape
 <2>1. /\ DOMAIN content = Key /\ DOMAIN cache = Key /\ DOMAIN known = Process /\ DOMAIN status = Tenant
       /\ DOMAIN call = Client /\ \A k \in Key : DOMAIN cache[k] = DOMAIN NoEntry
       /\ \A p \in Process : DOMAIN known[p] = Tenant /\ \A t \in Tenant : DOMAIN known[p][t] = DOMAIN Unknown
   BY DEF Init
 <2>2. [pk |-> dep.start, hits |-> dep.start, refs |-> dep.start, old |-> dep.start = 1] \in LogRow
   BY <1>1 DEF LogRow
 <2>3. log \in [Owner -> LogRow] /\ due \in [Owner -> Int] /\ lost \in [Owner -> Int]
   BY <1>1, <2>2 DEF Init
 <2> QED
   BY <1>1, <2>1, <2>3 DEF Shape
<1>3. \A c \in Client : call[c] = NoCall /\ Calm(call[c]) /\ CallRight(call[c]) /\ First(call[c]) = "none"
 <2>1. \A c \in Client : call[c] = NoCall
   BY DEF Init
 <2>2. First(NoCall) = "none"
   BY DEF First, NoCall
 <2> QED
   BY <2>1, <2>2, CalmNone DEF Calm
<1>4. \A c \in Client : ~call[c].counted /\ ~Owes(call[c])
  BY <1>3 DEF NoCall, Owes
<1>5. FilesFollow /\ TenantsFollow
  BY DEF Init, FilesFollow, TenantsFollow, NoEntry, Unknown
<1>6. LocksOnce /\ LocksRight /\ RowsRemembered
  BY <1>3, <1>4 DEF LocksOnce, LocksRight, RowsRemembered
<1>7. Balance
 <2> SUFFICES ASSUME NEW t \in Owner PROVE log[t].hits + lost[t] + Cardinality(Owing(t)) = due[t]
   BY DEF Balance
 <2>1. Owing(t) = {}
   BY <1>4 DEF Owing
 <2>2. Cardinality(Owing(t)) = 0
   BY <2>1, FS_EmptySet
 <2>3. log[t].hits = dep.start /\ lost[t] = 0 /\ due[t] = dep.start
   BY DEF Init
 <2> QED
   BY <1>1, <2>2, <2>3
<1> QED
  BY <1>2, <1>3, <1>5, <1>6, <1>7 DEF IInv, CallsRight, LogsRight

LEMMA NextIInv ==
  ASSUME IInv, [Next]_vars
  PROVE  IInv'
<1>1. CASE UNCHANGED vars
 <2>1. UNCHANGED <<dep, status, rows, content, cache, known, log, call, begun, faults, due, lost>>
   BY <1>1 DEF vars
 <2>2. Shape' /\ CallsRight'
   BY <2>1 DEF IInv, Shape, CallsRight, CallRight, AnswerRight
 <2>3. FilesFollow' /\ TenantsFollow'
   BY <2>1 DEF IInv, FilesFollow, TenantsFollow, Deleting, Forgetting, Step, Idle, MyKey, Arg
 <2>4. LogsRight'
   BY <2>1 DEF IInv, LogsRight, LocksOnce, LocksRight, RowsRemembered, Balance, Owing
 <2> QED
   BY <2>2, <2>3, <2>4 DEF IInv
<1>2. ASSUME NEW c \in Client,
             \/ AskPage(c) \/ AskFile(c) \/ AskMissing(c) \/ RunTask(c) \/ RunAll(c)
             \/ SwitchTenant(c) \/ Deprovision(c) \/ Change(c) \/ CleanLogs(c)
      PROVE  IInv'
  BY <1>2, AskPageStep, AskFileStep, AskMissingStep, RunTaskStep, RunAllStep, SwitchTenantStep,
     DeprovisionStep, ChangeStep, CleanLogsStep
<1>3. ASSUME NEW c \in Client,
             \/ LookUp(c) \/ GetTenant(c) \/ KeepTenant(c) \/ Enter(c) \/ EnterUsing(c) \/ ExitUsing(c)
             \/ StartTask(c) \/ EndTask(c) \/ Transact(c) \/ Query(c) \/ Leave(c)
      PROVE  IInv'
  BY <1>3, LookUpStep, GetTenantStep, KeepTenantStep, EnterStep, EnterUsingStep, ExitUsingStep,
     StartTaskStep, EndTaskStep, TransactStep, QueryStep, LeaveStep
<1>4. ASSUME NEW c \in Client,
             \/ Switch(c) \/ Forget(c) \/ Erase(c)
             \/ CacheGet(c) \/ CacheRead(c) \/ CacheSet(c) \/ Write(c) \/ Draft(c) \/ Publish(c)
             \/ Move(c) \/ Delete(c) \/ View404(c)
      PROVE  IInv'
  BY <1>4, SwitchStep, ForgetStep, EraseStep, CacheGetStep, CacheReadStep, CacheSetStep, WriteStep,
     DraftStep, PublishStep, MoveStep, DeleteStep, View404Step
<1>5. ASSUME NEW c \in Client,
             \/ LogGet(c) \/ LogUpdate(c) \/ LogRefresh(c) \/ LogReferrers(c) \/ LogCreate(c) \/ DeleteLog(c)
             \/ Kill(c)
      PROVE  IInv'
  BY <1>5, LogGetStep, LogUpdateStep, LogRefreshStep, LogReferrersStep, LogCreateStep, DeleteLogStep, KillStep
<1> QED
  BY <1>1, <1>2, <1>3, <1>4, <1>5, ExpireStep DEF Next

LEMMA Invariant == Spec => []IInv
<1>1. Init => IInv
  BY InitIInv
<1>2. IInv /\ [Next]_vars => IInv'
  BY NextIInv
<1> QED
  BY <1>1, <1>2, PTL DEF Spec

LEMMA RestingCalls ==
  ASSUME IInv, AtRest
  PROVE  \A c \in Client : Step(c) = "none" /\ ~Owes(call[c])
<1> SUFFICES ASSUME NEW c \in Client PROVE Step(c) = "none" /\ ~Owes(call[c])
  OBVIOUS
<1>1. call[c].todo = <<>> /\ Step(c) = "none"
  BY DEF AtRest, Idle, Step
<1>2. First(call[c]) = "none" /\ CountRight(call[c])
  BY <1>1 DEF First, IInv, CallsRight, CallRight
<1> QED
  BY <1>1, <1>2 DEF CountRight

(* Every query of every view, task and command returns rows of the tenant in   *)
(* whose context it is made and of no other, and misses some only where the    *)
(* policies or the strict manager hide them and the session variable is known  *)
(* not to follow the context (TenantContext, the managers, the policies).      *)
THEOREM QueriesSeeTheirTenant == Spec => []RowsRight
<1>1. IInv => RowsRight
  BY DEF IInv, CallsRight, CallRight, AnswerRight, RowsRight
<1> QED
  BY <1>1, Invariant, PTL

(* When no call is under way each cached list of rules and each cached text is *)
(* that of the database, or there is a cause: every change is followed by the  *)
(* deletion of its entry, whatever the calls that read, change or delete the   *)
(* same entry meanwhile (services/redirects, services/discovery, handlers).    *)
THEOREM CachedFilesAreFresh == Spec => []FilesFresh
<1>1. IInv => FilesFresh
 <2> SUFFICES ASSUME IInv, AtRest, NEW k \in Key, cache[k].there
              PROVE  cache[k].ver = content[k] \/ cache[k].why # {}
   BY DEF FilesFresh
 <2>1. ~Deleting(k)
   BY RestingCalls DEF Deleting
 <2> QED
   BY <2>1 DEF IInv, FilesFollow
<1> QED
  BY <1>1, Invariant, PTL

(* When no call is under way the status that a process keeps of a tenant is    *)
(* that of its row, or there is a cause: a change in another process, one that *)
(* nobody invalidates, a killed call, a read that was kept late (resolvers).   *)
THEOREM CachedTenantsAreFresh == Spec => []TenantsFresh
<1>1. IInv => TenantsFresh
 <2> SUFFICES ASSUME IInv, AtRest, NEW p \in Process, NEW t \in Tenant, known[p][t].there
              PROVE  known[p][t].status = status[t] \/ known[p][t].why # {}
   BY DEF TenantsFresh
 <2>1. ~Forgetting(p, t)
   BY RestingCalls DEF Forgetting
 <2> QED
   BY <2>1 DEF IInv, TenantsFollow
<1> QED
  BY <1>1, Invariant, PTL

(* When no call is under way the hits of a path and the 404s that were lost    *)
(* are all the 404s of that path, however the requests that counted them were  *)
(* interleaved, rolled back or killed, and whichever rows were deleted         *)
(* (record_404, cleanup_redirect_logs).                                        *)
THEOREM EveryMissIsCounted == Spec => []HitsExact
<1>1. IInv => HitsExact
 <2> SUFFICES ASSUME IInv, AtRest, NEW t \in Owner
              PROVE  log[t].hits + lost[t] = due[t]
   BY DEF HitsExact
 <2>1. Owing(t) = {}
   BY RestingCalls DEF Owing
 <2>2. Cardinality(Owing(t)) = 0
   BY <2>1, FS_EmptySet
 <2>3. log[t].hits + lost[t] + 0 = due[t] /\ log[t].hits \in Int /\ lost[t] \in Int
   BY <2>2 DEF IInv, LogsRight, Balance, Shape, LogRow
 <2> QED
   BY <2>3
<1> QED
  BY <1>1, Invariant, PTL
=============================================================================
