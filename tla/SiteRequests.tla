---------------------------- MODULE SiteRequests -----------------------------
(* A request of a multi-tenant site: TenantMiddleware of django-boundary finds *)
(* its tenant, RedirectMiddleware of icv-sitemaps looks for a redirect rule,   *)
(* a view reads rows or serves a discovery file, and a 404 is recorded. Tasks  *)
(* and commands enter tenant contexts of their own; other calls change the     *)
(* rules, the files and the tenants meanwhile.                                 *)
(*                                                                             *)
(* Each client runs one call, as the list of steps it still has to make        *)
(* ("todo"): a step is one access to the database, to the shared cache or to   *)
(* the resolvers' cache of its process. Between two of them others may act,    *)
(* entries may expire, and the client may be killed.                           *)
EXTENDS Integers, FiniteSets, TenantContext

CONSTANTS Client, Deployments, MaxVersion, MaxFaults

Tenant == {"t1", "t2"}
Process == {"p1", "p2"}
(* ads.txt stands for robots.txt too, security.txt for humans.txt.             *)
File == {"redirects", "ads", "app_ads", "llms", "security"}
Texts == {"llms", "security"}
(* Rules, texts and logs belong to a tenant, or to none (tenant_id "").        *)
Owner == Tenant \cup {NoTenant}
Key == File \X Owner

(* A deployment: where the transaction of a request is (around the middleware, *)
(* around the view with ATOMIC_REQUESTS, nowhere), the policies, the settings  *)
(* STRICT_MODE and REQUIRED, whether the resolver in use caches tenants,       *)
(* whether RedirectMiddleware is on; the calls explored there, and whether     *)
(* there are texts and a recorded 404 at the start.                            *)
Deployment ==
  [txn : {"wrap", "view", "none"}, rls : BOOLEAN, strict : BOOLEAN, required : BOOLEAN,
   caching : BOOLEAN, redirects : BOOLEAN, files : SUBSET File,
   kinds : SUBSET {"page", "task", "command", "save_tenant", "admin_tenant", "update_tenant",
                   "deprovision", "file", "add", "admin", "remove", "set", "move", "admin_move",
                   "import", "missing", "logs"},
   start : {0, 1}, parallel : Nat, sequels : Nat]

ASSUME DeploymentsAssumption == Deployments \subseteq Deployment
ASSUME ClientAssumption == IsFiniteSet(Client)
ASSUME BoundsAssumption == MaxVersion \in Nat /\ MaxFaults \in Nat

VARIABLES
  dep,      \* the deployment
  status,   \* each tenant: active, inactive or gone
  rows,     \* the tenants that have rows
  content,  \* the version of the rules or of the text of each tenant
  cache,    \* the shared cache of rules and texts
  known,    \* the resolvers' cache of each process
  log,      \* RedirectLog of one path: key, hits, referrers, whether it was last
            \* seen long ago; no hits: no row, and the key of the last one
  call,     \* what each client is doing
  begun, faults,   \* counters of the bounds
  due, lost  \* 404s that had to be counted, and those known to be lost

vars == <<dep, status, rows, content, cache, known, log, call, begun, faults, due, lost>>
tenancy == <<status, rows, known>>
site == <<content, cache>>
logs == <<log, due, lost>>
bounds == <<dep, begun, faults>>

(* Texts and lists of rules are versions. Every second version of the rules    *)
(* redirects the path that is asked for; a text that is not there, or not any  *)
(* longer, is version 0 or a negative one.                                     *)
Redirecting(v) == v % 2 = 1
Newer(v) == (IF v < 0 THEN -v ELSE v) + 1
Without(f, v) == IF f \in Texts THEN -Newer(v) ELSE Newer(v)
NoText == -1   \* what is served of the ads files when rendering fails

NoEntry == [there |-> FALSE, ver |-> 0, why |-> {}]
Unknown == [there |-> FALSE, status |-> "gone", why |-> {}]
NoRow == [pk |-> 0, hits |-> 0, refs |-> 0, old |-> FALSE]
NoCall == [op |-> "none", todo |-> <<>>, proc |-> "p1", tenant |-> NoTenant, scope |-> NoTenant,
           ses |-> NewSession, copy |-> Unknown, ver |-> 0, row |-> NoRow, before |-> NoRow,
           due |-> FALSE, counted |-> FALSE, seen |-> {}, real |-> {}, cause |-> {}, why |-> {}]

Idle(c) == call[c].todo = <<>>
AtRest == \A c \in Client : Idle(c)
Step(c) == IF Idle(c) THEN "none" ELSE Head(call[c].todo)[1]
Arg(c) == Head(call[c].todo)[2]
Ahead(r) == {r.todo[i][1] : i \in DOMAIN r.todo}
MyKey(c) == <<Arg(c), call[c].tenant>>

Init ==
  /\ dep \in Deployments
  /\ status = [t \in Tenant |-> "active"]
  /\ rows = Tenant
  /\ content = [k \in Key |-> IF k[1] \in {"redirects", "app_ads", "security"} THEN 0 ELSE dep.start]
  /\ cache = [k \in Key |-> NoEntry]
  /\ known = [p \in Process |-> [t \in Tenant |-> Unknown]]
  /\ log = [t \in Owner |-> [pk |-> dep.start, hits |-> dep.start, refs |-> dep.start, old |-> dep.start = 1]]
  /\ call = [c \in Client |-> NoCall]
  /\ begun = 0 /\ faults = 0
  /\ due = [t \in Owner |-> dep.start] /\ lost = [t \in Owner |-> 0]

(* --------------------------- beginning and end ----------------------------- *)

(* A call ends with its last step; what it has seen is kept.                   *)
Finished(r) == [NoCall EXCEPT !.seen = r.seen, !.real = r.real, !.scope = r.scope, !.why = r.why]
Becomes(c, r) == call' = [call EXCEPT ![c] = IF r.todo = <<>> THEN Finished(r) ELSE r]

MayBegin == begun < dep.parallel \/ (AtRest /\ begun < dep.parallel + dep.sequels)

Do(name) == <<<<name, "">>>>
Begin(c, r, todo) ==
  /\ Idle(c) /\ MayBegin /\ r.op \in dep.kinds
  /\ begun' = begun + 1
  /\ Becomes(c, [r EXCEPT !.todo = todo])
  /\ UNCHANGED <<dep, tenancy, site, logs, faults>>

FileSteps(f) == <<<<"get", f>>, <<"read", f>>, <<"set", f>>>>
ResolveSteps == (IF dep.caching THEN Do("look_up") ELSE <<>>) \o Do("get_tenant")
                \o (IF dep.caching THEN Do("keep_tenant") ELSE <<>>) \o Do("enter")
Through(view) ==
  ResolveSteps \o (IF dep.redirects THEN FileSteps("redirects") ELSE <<>>)
  \o Do("view") \o view \o Do("end_view") \o Do("leave")

(* The views of a project read rows; within a view, a block with another       *)
(* tenant, or a task that is run eagerly.                                      *)
EndOf == [using |-> "using_end", task |-> "task_end"]
Nested(how, t) == <<<<how, t>>, <<"query", "">>, <<EndOf[how], "">>>>
Views(t) == {Do("query")} \cup {Nested(how, u) \o Do("query") : how \in {"using", "task"}, u \in Tenant \ {t}}

Request(t, p) == [NoCall EXCEPT !.tenant = t, !.proc = p]
AskPage(c) ==
  \E t \in Tenant, p \in Process : \E view \in Views(t) :
    Begin(c, [Request(t, p) EXCEPT !.op = "page"], Through(view))
AskFile(c) ==
  \E t \in Tenant : \E f \in dep.files \ {"redirects"} :
    Begin(c, [Request(t, "p1") EXCEPT !.op = "file"], Through(FileSteps(f)))
AskMissing(c) ==
  \E t \in Tenant : Begin(c, [Request(t, "p1") EXCEPT !.op = "missing"], Through(Do("not_found")))

(* A task restores the tenant of its headers; boundary_run_all works through   *)
(* the tenants that are active when it starts. Either may be written inside a  *)
(* transaction.                                                                *)
InTransaction(steps, wrapped) == IF wrapped THEN Do("open") \o steps \o Do("close") ELSE steps
RunTask(c) ==
  \E t \in Tenant, wrapped \in BOOLEAN :
    /\ status[t] # "gone"
    /\ Begin(c, [NoCall EXCEPT !.op = "task"], InTransaction(Nested("task", t), wrapped))
RunAll(c) ==
  \E wrapped \in BOOLEAN :
    LET for(t) == IF status[t] = "active" THEN Nested("using", t) ELSE <<>> IN
    Begin(c, [NoCall EXCEPT !.op = "command"], InTransaction(for("t1") \o for("t2"), wrapped))

(* A tenant is activated or deactivated: by a save, whose signal invalidates   *)
(* what its process has cached; by a save in a transaction, where the signal   *)
(* comes before the commit; or by an update of a queryset, without one. Or it  *)
(* is removed with boundary_deprovision: a delete is always a transaction.     *)
SwitchSteps == [save_tenant |-> <<"switch", "forget">>, admin_tenant |-> <<"forget", "switch">>,
                update_tenant |-> <<"switch">>]
EraseSteps == <<"erase_rows", "forget", "erase_tenant">>
Named(steps, arg) == [i \in DOMAIN steps |-> <<steps[i], arg>>]
SwitchTenant(c) ==
  \E t \in Tenant, p \in Process, op \in DOMAIN SwitchSteps :
    /\ status[t] # "gone" /\ dep.caching
    /\ Begin(c, [Request(t, p) EXCEPT !.op = op], Named(SwitchSteps[op], ""))
Deprovision(c) ==
  \E t \in Tenant :
    /\ status[t] # "gone"
    /\ Begin(c, [Request(t, "p1") EXCEPT !.op = "deprovision"], Named(EraseSteps, ""))

(* The calls that change rules and texts. A row is saved in its own            *)
(* transaction, or in one around it (the admin, ATOMIC_REQUESTS) whatever      *)
(* function saves it: the deletions then precede the commit ("admin"). A       *)
(* delete is always a transaction, and its handler runs inside; so does that   *)
(* of set_discovery_file_content, which by itself deletes the entry once more  *)
(* after its transaction. An edit may move a row to another place.             *)
\* Mutant: the second deletion is left out.
SetStepsOnce == <<"draft", "delete", "publish">>
SetSteps == <<"draft", "delete", "publish", "delete">>
(* add_redirect, add_robots_rule and add_ads_entry delete what the handler of  *)
(* the save has deleted.                                                       *)
AddSteps == <<"write", "delete", "delete">>
RemoveSteps == <<"draft", "delete", "publish">>
ImportSteps == <<"write", "delete", "write", "delete", "delete">>
Writes == [add |-> AddSteps, admin |-> RemoveSteps, remove |-> RemoveSteps,
           move |-> <<"move", "delete">>, admin_move |-> <<"delete", "move">>,
           set |-> SetSteps, import |-> ImportSteps]
MayChange(op) == CASE op = "import" -> {"redirects"} [] op = "set" -> Texts [] OTHER -> File
Change(c) ==
  \E t \in Tenant, op \in DOMAIN Writes :
    \E f \in dep.files \cap MayChange(op) :
      /\ content[<<f, t>>] < MaxVersion
      /\ Begin(c, [Request(t, "p1") EXCEPT !.op = op], Named(Writes[op], f))
CleanLogs(c) ==
  \E t \in Tenant : Begin(c, [Request(t, "p1") EXCEPT !.op = "logs"], Do("delete_log"))

(* ------------------------------ common parts ------------------------------- *)

Pop(r) == [r EXCEPT !.todo = Tail(@)]
After(r, n) == [r EXCEPT !.todo = SubSeq(@, n + 1, Len(@))]
(* A response or an error ends all but the end of the middleware, or of the    *)
(* transaction around a task.                                                  *)
Leaving(r) ==
  IF r.todo # <<>> /\ r.todo[Len(r.todo)][1] \in {"leave", "close"} THEN After(r, Len(r.todo) - 1)
  ELSE [r EXCEPT !.todo = <<>>]
Continue(c) == Becomes(c, Pop(call[c]))

(* --------------------------------- tenants --------------------------------- *)

(* The middleware answers 404 for no tenant, or goes on without.               *)
NoTenantFound(r) ==
  IF dep.required THEN [r EXCEPT !.todo = <<>>]
  ELSE [After(r, IF dep.caching THEN 2 ELSE 1) EXCEPT !.tenant = NoTenant]

(* SubdomainResolver and its like: the cache of the process, else the row.     *)
LookUp(c) ==
  /\ Step(c) = "look_up"
  /\ LET r == call[c]  entry == known[r.proc][r.tenant] IN
     Becomes(c, IF entry.there THEN [After(r, 3) EXCEPT !.copy = entry]
                ELSE Pop(r))
  /\ UNCHANGED <<tenancy, site, logs, bounds>>

GetTenant(c) ==
  /\ Step(c) = "get_tenant"
  /\ LET r == Pop(call[c])  t == r.tenant IN
     Becomes(c, IF status[t] = "gone" THEN NoTenantFound(r)
                ELSE [r EXCEPT !.copy = [there |-> TRUE, status |-> status[t], why |-> {}]])
  /\ UNCHANGED <<tenancy, site, logs, bounds>>

KeepTenant(c) ==
  /\ Step(c) = "keep_tenant"
  /\ LET r == call[c] IN
     known' = [known EXCEPT ![r.proc][r.tenant] =
                 [there |-> TRUE, status |-> r.copy.status,
                  why |-> IF r.copy.status = status[r.tenant] THEN {} ELSE {"late"}]]
  /\ Continue(c)
  /\ UNCHANGED <<status, rows, site, logs, bounds>>

(* Contexts: the session after them, and why its variable would not follow.    *)
Entered(r, t) ==
  [r EXCEPT !.ses = SetTenant(@, t), !.scope = t, !.cause = IF r.ses.open THEN {} ELSE {"outside"}]
Left(r, s, cleared) ==
  [r EXCEPT !.ses = s, !.scope = s.tenant,
            !.cause = IF ~s.open THEN {"outside"} ELSE IF cleared /\ s.tenant # NoTenant THEN {"cleared"} ELSE {}]

(* An inactive tenant is refused, by the copy that was found.                  *)
Enter(c) ==
  /\ Step(c) = "enter"
  /\ LET r == Pop(call[c])
         s == IF dep.txn = "wrap" THEN OpenTransaction(r.ses) ELSE r.ses IN
     Becomes(c, IF r.copy.status # "active" THEN [r EXCEPT !.todo = <<>>]
                ELSE Entered([r EXCEPT !.ses = s], r.tenant))
  /\ UNCHANGED <<tenancy, site, logs, bounds>>

(* TenantContext.using, also of a tenant that boundary_run_all reads again.    *)
EnterUsing(c) ==
  /\ Step(c) = "using"
  /\ LET r == Pop(call[c])  t == Arg(c) IN
     Becomes(c, IF r.op = "command" /\ status[t] = "gone" THEN After(r, 2)
                ELSE Entered(r, t))
  /\ UNCHANGED <<tenancy, site, logs, bounds>>

ExitUsing(c) ==
  /\ Step(c) = "using_end"
  /\ Becomes(c, Left(Pop(call[c]), LeaveUsing(call[c].ses), FALSE))
  /\ UNCHANGED <<tenancy, site, logs, bounds>>

(* TenantTask.__call__: the tenant is read again, active or not; a tenant that *)
(* is gone is an error.                                                        *)
StartTask(c) ==
  /\ Step(c) = "task"
  /\ LET r == Pop(call[c]) IN
     Becomes(c, IF status[Arg(c)] = "gone" THEN Leaving(r) ELSE Entered(r, Arg(c)))
  /\ UNCHANGED <<tenancy, site, logs, bounds>>

EndTask(c) ==
  /\ Step(c) = "task_end"
  /\ Becomes(c, Left(Pop(call[c]), ClearTenant(call[c].ses), TRUE))
  /\ UNCHANGED <<tenancy, site, logs, bounds>>

(* The transaction of the view with ATOMIC_REQUESTS, or around a task.         *)
Transact(c) ==
  /\ Step(c) \in {"open", "close", "view", "end_view"}
  /\ LET r == Pop(call[c])  viewed == dep.txn = "view" IN
     Becomes(c, CASE Step(c) = "open" \/ (Step(c) = "view" /\ viewed) -> [r EXCEPT !.ses = OpenTransaction(@)]
                  [] Step(c) = "close" \/ (Step(c) = "end_view" /\ viewed) -> [r EXCEPT !.ses = CloseTransaction(@)]
                  [] OTHER -> r)
  /\ UNCHANGED <<tenancy, site, logs, bounds>>

(* A query through the manager of the model.                                   *)
Query(c) ==
  /\ Step(c) = "query"
  /\ LET r == Pop(call[c])
         managed == Managed(rows, r.ses, dep.strict) IN
     Becomes(c, [r EXCEPT !.seen = IF dep.rls THEN Permitted(managed, r.ses) ELSE managed,
                          !.real = IF r.scope = NoTenant THEN rows ELSE rows \cap {r.scope},
                          !.why = IF r.scope = NoTenant THEN {"outside"} ELSE r.cause])
  /\ UNCHANGED <<tenancy, site, logs, bounds>>

(* The end of the middleware, if a tenant was entered, and of its transaction. *)
Leave(c) ==
  /\ Step(c) = "leave"
  /\ LET r == Pop(call[c])
         left == IF r.tenant = NoTenant THEN r ELSE Left(r, ClearTenant(r.ses), TRUE) IN
     Becomes(c, [left EXCEPT !.ses = CloseTransaction(@), !.counted = FALSE, !.due = FALSE])
  /\ UNCHANGED <<tenancy, site, logs, bounds>>

(* The entries of other processes, and those of this one for which no signal   *)
(* is to come, with the cause.                                                 *)
Outdated(t, new, by, cause) ==
  [p \in Process |->
     LET entry == known[p][t] IN
     IF ~entry.there \/ entry.status = new \/ (p = by /\ cause = "none") THEN known[p]
     ELSE [known[p] EXCEPT ![t].why = @ \cup {IF p = by THEN cause ELSE "elsewhere"}]]
CauseOf(r) ==
  IF "forget" \in Ahead(r) THEN "none" ELSE IF r.op = "update_tenant" THEN "silent" ELSE "uncommitted"

Switch(c) ==
  /\ Step(c) = "switch"
  /\ LET r == call[c]  t == r.tenant
         new == IF status[t] = "active" THEN "inactive" ELSE "active" IN
     IF status[t] = "gone" THEN /\ Becomes(c, NoCall)
                                /\ UNCHANGED tenancy
     ELSE /\ status' = [status EXCEPT ![t] = new]
          /\ known' = Outdated(t, new, r.proc, CauseOf(r))
          /\ Continue(c) /\ UNCHANGED rows
  /\ UNCHANGED <<site, logs, bounds>>

\* Mutant: the entry is kept (the key of a tenant is not that of a pk).
ForgottenNone(entries, t) == entries
Forgotten(entries, t) == [entries EXCEPT ![t] = Unknown]

Forget(c) ==
  /\ Step(c) = "forget"
  /\ LET r == call[c] IN known' = [known EXCEPT ![r.proc] = Forgotten(@, r.tenant)]
  /\ Continue(c)
  /\ UNCHANGED <<status, rows, site, logs, bounds>>

(* boundary_deprovision: the rows of each model, then the tenant.              *)
Erase(c) ==
  /\ Step(c) \in {"erase_rows", "erase_tenant"}
  /\ LET t == call[c].tenant IN
     /\ rows' = rows \ {t}
     /\ IF Step(c) = "erase_rows" THEN UNCHANGED <<status, known>>
        ELSE /\ status' = [status EXCEPT ![t] = "gone"]
             /\ known' = Outdated(t, "gone", call[c].proc, "uncommitted")
  /\ Continue(c)
  /\ UNCHANGED <<site, logs, bounds>>

(* ----------------------------- rules and texts ----------------------------- *)

(* After the redirect rules: a redirect, or the view. After a text: the view's *)
(* answer.                                                                     *)
AfterFile(r, f) == IF f = "redirects" /\ Redirecting(r.ver) THEN Leaving(r) ELSE r

CacheGet(c) ==
  /\ Step(c) = "get"
  /\ LET r == call[c]  entry == cache[MyKey(c)] IN
     Becomes(c, IF entry.there
                THEN AfterFile([After(r, 3) EXCEPT !.ver = entry.ver], Arg(c))
                ELSE Pop(r))
  /\ UNCHANGED <<tenancy, site, logs, bounds>>

(* A 404 is recorded at the end of RedirectMiddleware.                         *)
NotFound(r) ==
  [r EXCEPT !.todo = Do("end_view") \o (IF dep.redirects THEN Do("log_get") ELSE <<>>) \o Do("leave")]

(* The rules that are active, or the rendered text. An error in the rules lets *)
(* the request pass; one in robots.txt or ads.txt is served, and kept, as an   *)
(* empty text; one in another text is an error of the view.                    *)
CacheRead(c) ==
  /\ Step(c) = "read"
  /\ LET r == Pop(call[c])  f == Arg(c)  v == content[MyKey(c)] IN
     \/ /\ Becomes(c, IF f \in Texts /\ v <= 0 THEN NotFound(r) ELSE [r EXCEPT !.ver = v])
        /\ UNCHANGED bounds
     \/ /\ faults < MaxFaults /\ faults' = faults + 1
        /\ Becomes(c, CASE f = "redirects" -> After(r, 1) [] f \in Texts -> Leaving(r)
                        [] OTHER -> [r EXCEPT !.ver = NoText])
        /\ UNCHANGED <<dep, begun>>
  /\ UNCHANGED <<tenancy, site, logs>>

CacheSet(c) ==
  /\ Step(c) = "set"
  /\ LET v == call[c].ver  k == MyKey(c) IN
     cache' = [cache EXCEPT ![k] = [there |-> TRUE, ver |-> v,
                 why |-> IF v = NoText THEN {"error"} ELSE IF v = content[k] THEN {} ELSE {"late"}]]
  /\ Becomes(c, AfterFile(Pop(call[c]), Arg(c)))
  /\ UNCHANGED <<tenancy, content, logs, bounds>>

(* The entries among some keys that do not show the new content.               *)
Spoilt(new, keys, cause) ==
  [k \in Key |-> IF k \in keys /\ cache[k].there /\ cache[k].ver # new[k]
                 THEN [cache[k] EXCEPT !.why = @ \cup {cause}] ELSE cache[k]]

(* A row is saved. A row of an import that fails is skipped, and reported.     *)
Write(c) ==
  /\ Step(c) = "write"
  /\ \/ /\ content' = [content EXCEPT ![MyKey(c)] = Newer(@)]
        /\ Continue(c) /\ UNCHANGED bounds
     \/ /\ call[c].op = "import" /\ faults < MaxFaults /\ faults' = faults + 1
        /\ Becomes(c, After(call[c], 2))
        /\ UNCHANGED <<content, dep, begun>>
  /\ UNCHANGED <<tenancy, cache, logs>>

Draft(c) ==
  /\ Step(c) = "draft" /\ Continue(c)
  /\ UNCHANGED <<tenancy, site, logs, bounds>>

(* The transaction of the change ends: the handlers ran before.                *)
Publish(c) ==
  /\ Step(c) = "publish"
  /\ content' = [content EXCEPT ![MyKey(c)] = IF call[c].op = "remove" THEN Without(Arg(c), @) ELSE Newer(@)]
  /\ cache' = IF call[c].op = "set" THEN cache ELSE Spoilt(content', {MyKey(c)}, "uncommitted")
  /\ Continue(c)
  /\ UNCHANGED <<tenancy, logs, bounds>>

(* An edit gives a row to another tenant, an entry to the other ads file, or a *)
(* text to another file; its handler knows only the new place. A text is alone *)
(* of its type, and the edit is an error where there is one already.           *)
OtherTenant(t) == IF t = "t1" THEN "t2" ELSE "t1"
Sibling == [ads |-> "app_ads", app_ads |-> "ads", llms |-> "security", security |-> "llms"]
Sources(f, t) == {<<f, OtherTenant(t)>>} \cup {<<Sibling[g], t>> : g \in {f} \cap DOMAIN Sibling}
Movable(from, to) == to[1] \in Texts => content[from] > 0 /\ content[to] <= 0
Relocated(from, to) ==
  [k \in Key |-> CASE k = from -> Without(k[1], content[k]) [] k = to -> Newer(content[k]) [] OTHER -> content[k]]
Move(c) ==
  /\ Step(c) = "move"
  /\ LET r == call[c]  to == MyKey(c)  sources == {k \in Sources(Arg(c), r.tenant) : Movable(k, to)} IN
     \/ \E from \in sources :
          /\ content' = Relocated(from, to)
          /\ cache' = Spoilt(content', IF r.op = "move" THEN {from} ELSE {from, to}, "moved")
          /\ Continue(c)
     \/ sources = {} /\ Becomes(c, After(r, 2)) /\ UNCHANGED site
  /\ UNCHANGED <<tenancy, logs, bounds>>

Delete(c) ==
  /\ Step(c) = "delete"
  /\ cache' = [cache EXCEPT ![MyKey(c)] = NoEntry]
  /\ Continue(c)
  /\ UNCHANGED <<tenancy, content, logs, bounds>>

(* -------------------------------- 404 records ------------------------------- *)

View404(c) ==
  /\ Step(c) = "not_found"
  /\ Becomes(c, NotFound(call[c]))
  /\ UNCHANGED <<tenancy, site, logs, bounds>>

(* A row that another transaction has inserted is not seen until it commits;   *)
(* one that it has written is locked.                                          *)
Locked(t) == \E o \in Client : call[o].counted /\ call[o].tenant = t
Hidden(t) == Locked(t) /\ log[t].hits = 1
NoLog(t) == log[t].hits = 0

LogGet(c) ==
  /\ Step(c) = "log_get"
  /\ LET r == [Pop(call[c]) EXCEPT !.due = TRUE]  t == r.tenant IN
     /\ due' = [due EXCEPT ![t] = @ + 1]
     /\ Becomes(c, IF NoLog(t) \/ Hidden(t) THEN [r EXCEPT !.todo = Do("log_create") \o @]
                   ELSE [r EXCEPT !.row = log[t],
                                  !.todo = Do("log_update") \o Do("log_refresh") \o Do("log_referrers") \o @])
  /\ UNCHANGED <<tenancy, site, log, lost, bounds>>

(* The row that was read is deleted, perhaps replaced: the statements that     *)
(* follow go by its key.                                                       *)
Gone(r) == NoLog(r.tenant) \/ log[r.tenant].pk # r.row.pk
Counted(r, row) == [r EXCEPT !.due = r.ses.open, !.counted = r.ses.open, !.before = row]

(* UPDATE ... SET hit_count = hit_count + 1, of no row if it is gone by now.   *)
Incremented(row) == [row EXCEPT !.hits = @ + 1, !.old = FALSE]
LogUpdate(c) ==
  /\ Step(c) = "log_update"
  /\ LET r == Pop(call[c])  t == r.tenant IN
     IF Gone(r) THEN Becomes(c, r) /\ UNCHANGED log
     ELSE /\ ~Locked(t)
          /\ Becomes(c, Counted(r, log[t])) /\ log' = [log EXCEPT ![t] = Incremented(@)]
  /\ UNCHANGED <<tenancy, site, due, lost, bounds>>

(* refresh_from_db, and the referrers that are then saved, alone.              *)
LogRefresh(c) ==
  /\ Step(c) = "log_refresh"
  /\ LET r == Pop(call[c]) IN
     Becomes(c, IF Gone(r) THEN [r EXCEPT !.todo = Do("log_create") \o Tail(@)]
                ELSE [r EXCEPT !.row = log[r.tenant]])
  /\ UNCHANGED <<tenancy, site, logs, bounds>>

\* Mutant: save() without update_fields writes the count that was read.
SavedWhole(row, read) == [read EXCEPT !.refs = @ + 1]
Saved(row, read) == [row EXCEPT !.refs = read.refs + 1]
LogReferrers(c) ==
  /\ Step(c) = "log_referrers"
  /\ LET r == call[c]  t == r.tenant IN
     IF Gone(r) THEN UNCHANGED log
     ELSE /\ \A o \in Client \ {c} : ~(call[o].counted /\ call[o].tenant = t)
          /\ log' = [log EXCEPT ![t] = Saved(@, r.row)]
  /\ Continue(c)
  /\ UNCHANGED <<tenancy, site, due, lost, bounds>>

(* The INSERT waits for a transaction that inserts the same row; the error of  *)
(* the second is logged, and this 404 is not counted.                          *)
LogCreate(c) ==
  /\ Step(c) = "log_create" /\ ~Locked(call[c].tenant)
  /\ LET r == Pop(call[c])  t == r.tenant IN
     IF NoLog(t)
     THEN /\ log' = [log EXCEPT ![t] = [pk |-> @.pk + 1, hits |-> 1, refs |-> 1, old |-> FALSE]]
          /\ Becomes(c, Counted(r, log[t])) /\ UNCHANGED lost
     ELSE /\ lost' = [lost EXCEPT ![t] = @ + 1]
          /\ Becomes(c, [r EXCEPT !.due = FALSE]) /\ UNCHANGED log
  /\ UNCHANGED <<tenancy, site, due, bounds>>

(* cleanup_redirect_logs deletes a resolved row with its count, when it was    *)
(* last seen long enough ago.                                                  *)
DeleteLog(c) ==
  /\ Step(c) = "delete_log" /\ ~Locked(call[c].tenant)
  /\ LET t == call[c].tenant IN
     IF ~log[t].old THEN UNCHANGED <<log, due>>
     ELSE /\ due' = [due EXCEPT ![t] = @ - log[t].hits]
          /\ log' = [log EXCEPT ![t] = [NoRow EXCEPT !.pk = log[t].pk]]
  /\ Continue(c)
  /\ UNCHANGED <<tenancy, site, lost, bounds>>

(* --------------------------------- faults ---------------------------------- *)

(* Entries expire, or give way to others; the time of a rule passes.           *)
Expire ==
  /\ faults < MaxFaults /\ faults' = faults + 1
  /\ \/ \E k \in Key : /\ cache[k].there /\ cache' = [cache EXCEPT ![k] = NoEntry]
                       /\ UNCHANGED <<tenancy, content>>
     \/ \E p \in Process, t \in Tenant :
          /\ known[p][t].there /\ known' = [known EXCEPT ![p][t] = Unknown]
          /\ UNCHANGED <<status, rows, site>>
     \/ \E t \in Tenant :
          LET k == <<"redirects", t>> IN
          /\ Redirecting(content[k]) /\ content' = [content EXCEPT ![k] = @ + 1]
          /\ cache' = Spoilt(content', {k}, "lapsed")
          /\ UNCHANGED tenancy
  /\ UNCHANGED <<logs, dep, call, begun>>

(* A client is killed; its open transaction is rolled back.                    *)
Kill(c) ==
  /\ ~Idle(c) /\ faults < MaxFaults /\ faults' = faults + 1
  /\ LET r == call[c]  t == r.tenant IN
     /\ cache' = IF "delete" \in Ahead(r) THEN Spoilt(content, {MyKey(c)}, "killed") ELSE cache
     /\ known' = IF "forget" \in Ahead(r) THEN Outdated(t, status[t], r.proc, "killed") ELSE known
     /\ IF r.due THEN
          /\ lost' = [lost EXCEPT ![t] = @ + 1]
          /\ log' = IF r.counted THEN [log EXCEPT ![t] = r.before] ELSE log
        ELSE UNCHANGED <<lost, log>>
  /\ Becomes(c, NoCall)
  /\ UNCHANGED <<status, rows, content, due, dep, begun>>

Next ==
  \/ \E c \in Client :
       \/ AskPage(c) \/ AskFile(c) \/ AskMissing(c) \/ RunTask(c) \/ RunAll(c)
       \/ SwitchTenant(c) \/ Deprovision(c) \/ Change(c) \/ CleanLogs(c)
       \/ LookUp(c) \/ GetTenant(c) \/ KeepTenant(c) \/ Enter(c) \/ EnterUsing(c) \/ ExitUsing(c)
       \/ StartTask(c) \/ EndTask(c) \/ Transact(c) \/ Query(c) \/ Leave(c)
       \/ Switch(c) \/ Forget(c) \/ Erase(c)
       \/ CacheGet(c) \/ CacheRead(c) \/ CacheSet(c) \/ Write(c) \/ Draft(c) \/ Publish(c)
       \/ Move(c) \/ Delete(c) \/ View404(c)
       \/ LogGet(c) \/ LogUpdate(c) \/ LogRefresh(c) \/ LogReferrers(c) \/ LogCreate(c) \/ DeleteLog(c)
       \/ Kill(c)
  \/ Expire

Spec == Init /\ [][Next]_vars

(* ------------------------------- properties -------------------------------- *)

(* A query returns rows of the tenant whose context it is in and no others,    *)
(* and all of them, unless the policies are on, or in no context it is strict, *)
(* and the context was entered outside a transaction (as the middleware does   *)
(* when ATOMIC_REQUESTS is on, and tasks and commands by themselves), or the   *)
(* end of a nested token has cleared the session variable of the outer tenant. *)
RowsRight ==
  \A c \in Client : LET r == call[c] IN
    /\ r.seen \subseteq r.real
    /\ r.seen # r.real => (dep.rls \/ dep.strict) /\ r.why # {}

(* At rest what a process knows of a tenant is what its row says, unless the   *)
(* tenant was changed by another process (elsewhere), in a transaction whose   *)
(* signal came before its commit (uncommitted), by an update of a queryset     *)
(* (silent) or by a call that was killed; or was read before the change and    *)
(* kept after it (late).                                                       *)
TenantsFresh ==
  AtRest => \A p \in Process, t \in Tenant :
    known[p][t].there => known[p][t].status = status[t] \/ known[p][t].why # {}

(* At rest the cached rules and texts are those of the database, unless they   *)
(* were read before a change and stored after it (late); the handler of the    *)
(* change ran inside its transaction (uncommitted); the edit moved a row from  *)
(* one tenant or file to another, or the time of a rule has passed (moved,     *)
(* lapsed); rendering failed (error); or the writer was killed. After a        *)
(* set_discovery_file_content that no other transaction surrounds, and which   *)
(* deletes the entry after its own, only late and killed are left.             *)
FilesFresh ==
  AtRest => \A k \in Key :
    cache[k].there => cache[k].ver = content[k] \/ cache[k].why # {}

(* At rest the hits of a path are its 404s, but those whose request was killed *)
(* and those that lost the race for the first row.                             *)
HitsExact == AtRest => \A t \in Owner : log[t].hits + lost[t] = due[t]
=============================================================================
