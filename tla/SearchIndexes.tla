---------------------------- MODULE SearchIndexes ----------------------------
(* The life of one search index of icv-search: the SearchIndex row, the index  *)
(* the engine holds for it, its settings and its documents.                    *)
(*                                                                             *)
(* Callers are threads and processes: requests, Celery workers, operators.     *)
(* Each runs one service function or task at a time, as the list of database   *)
(* and engine calls it still has to make ("todo"); between two of them any     *)
(* other caller may act, an engine call may fail or time out, and a caller may *)
(* be killed. A caller keeps the instance of its last call and may pass it to  *)
(* the next one, as the functions allow.                                       *)
EXTENDS Engine, Sequences, FiniteSets

CONSTANTS Caller, Deployments, Ops, MaxRetries, MaxFailures

ASSUME BoundsAssumption == MaxRetries \in Nat /\ MaxFailures \in Nat

(* A deployment: the backend, ICV_SEARCH_AUTO_SYNC, ICV_SEARCH_ASYNC_INDEXING, *)
(* and whether the index belongs to a tenant; with it, the bounds on the calls *)
(* that are explored there.                                                    *)
Deployment == [backend : Backend, autosync : BOOLEAN, async : BOOLEAN, tenant : BOOLEAN,
               parallel : Nat, sequels : Nat]

ASSUME DeploymentsAssumption ==
  Deployments \subseteq Deployment /\ Uid = {"live", "tmp", "default"}

VARIABLES
  dep,       \* the deployment
  row,       \* the SearchIndex row
  engine,    \* the indexes of the engine
  db,        \* versions of the rows of the indexed model, 0: no row
  queue,     \* sync_index_settings tasks waiting, by the retries they have left
  call,      \* what each caller is doing
  clearing,  \* documents that a deletion the engine goes on with has still to remove
  changes, failures,   \* counters of the bounds
  drift,     \* why the engine may lack settings of a row that is marked as synced
  gap,       \* documents the index may have wrong
  broken     \* why it may have any document wrong

vars == <<dep, row, engine, db, queue, call, clearing, changes, failures, drift, gap, broken>>

be == dep.backend

(* ------------------------------ rows and calls ----------------------------- *)

NoRow == [pk |-> 0, settings |-> NoSettings, synced |-> FALSE]
Exists == row.pk # 0

InsertSteps == <<"insert", "notify", "provision", "configure", "mark">>
SyncSteps == <<"push", "mark">>
\* Mutant: the swap comes before the new index is filled.
ZeroStepsSwapFirst == <<"tmpcreate", "tmpconfigure", "swap", "tmpread", "tmpfill", "tmpdelete">>
\* Mutant: the temporary index is deleted before the swap.
ZeroStepsDeleteFirst == <<"tmpcreate", "tmpconfigure", "tmpread", "tmpfill", "tmpdelete", "swap">>
ZeroSteps == <<"tmpcreate", "tmpconfigure", "tmpread", "tmpfill", "swap", "tmpdelete">>
AllSteps == <<"clear", "read", "fill">>

EngineSteps ==
  {"provision", "configure", "push", "erase", "clear", "fill", "send",
   "tmpcreate", "tmpconfigure", "tmpfill", "swap", "tmpdelete", "tmpclean"}

NoCall == [op |-> "none", todo |-> <<>>, inst |-> NoRow, docs |-> NoDocs, dirty |-> {}, tries |-> 0]

Idle(c) == call[c].todo = <<>>
AtRest == \A c \in Caller : Idle(c)
Step(c) == IF Idle(c) THEN "none" ELSE Head(call[c].todo)
Ahead(c) == {call[c].todo[i] : i \in DOMAIN call[c].todo}
Others(c) == Caller \ {c}

(* A reindex that fills the index it has cleared, and one that will swap in    *)
(* what it has read: what is written meanwhile either may undo.                *)
Refills(c) == "fill" \in Ahead(c) /\ "clear" \notin Ahead(c)
Rebuilds(c) == "swap" \in Ahead(c) /\ "tmpread" \notin Ahead(c)
HoldsRows(c) == Refills(c) \/ Rebuilds(c)

(* A caller whose copy of the row may still be written or pushed.              *)
Syncing(c) ==
  Ahead(c) \cap {"save", "notify", "provision", "configure", "push", "mark", "tmpconfigure", "swap"} # {}
Overtakes(c) == IF \E o \in Others(c) : Syncing(o) THEN {"overtaken"} ELSE {}

(* normalize_engine_settings: the canonical key wins over its alias.           *)
Normalized(s) ==
  [s EXCEPT !["rankingRules"] = IF @ # "missing" THEN @ ELSE s["ranking_rules"],
            !["ranking_rules"] = "missing"]

(* The engine holds what a push of these settings has to bring there.          *)
Holds(e, s) ==
  \A k \in Carried(be) :
     Normalized(s)[k] # "missing" => get_settings(be, e, "live")[k] = Normalized(s)[k]

Init ==
  /\ dep \in Deployments
  /\ db \in [Doc -> {0, 1}]
  /\ \/ row = NoRow /\ engine = [u \in Uid |-> NoIndex]
     \/ \E s \in {NoSettings, [NoSettings EXCEPT !["stopWords"] = "custom"]} :
           /\ row = [pk |-> 1, settings |-> s, synced |-> TRUE]
           /\ engine = [u \in Uid |-> IF u # "live" THEN NoIndex
                                      ELSE [FreshIndex EXCEPT !.settings = Merge(@, s, Filled(s, Carried(be)))]]
  /\ queue = [n \in 0 .. MaxRetries |-> 0]
  /\ call = [c \in Caller |-> NoCall]
  /\ clearing = {} /\ changes = 0 /\ failures = 0
  /\ drift = {} /\ broken = {}
  /\ gap = {d \in Doc : db[d] # 0}

(* ------------------------------- beginnings -------------------------------- *)

(* A primary key no row and no caller knows.                                   *)
FreshKey ==
  CHOOSE n \in 1 .. Cardinality(Caller) + 2 : n # row.pk /\ \A c \in Caller : n # call[c].inst.pk

(* resolve_index: an instance is used as it is; a name is looked up, and a row *)
(* that is missing is created and provisioned first.                           *)
Resolved(c, inst, first) ==
  \/ Exists /\ inst = row /\ first = <<>>
  \/ call[c].inst.pk # 0 /\ inst = call[c].inst /\ first = <<>>
  \/ ~Exists /\ inst = [NoRow EXCEPT !.pk = FreshKey] /\ first = InsertSteps
Instances(c) == {row, call[c].inst, [NoRow EXCEPT !.pk = FreshKey]}

(* The bounds: calls that begin while others run, and calls that begin when    *)
(* everything is at rest.                                                      *)
MayBegin == changes < dep.parallel \/ (AtRest /\ changes < dep.parallel + dep.sequels)

Begin(c, op, inst, todo) ==
  /\ Idle(c) /\ op \in Ops /\ MayBegin
  /\ changes' = changes + 1
  /\ call' = [call EXCEPT ![c] = [NoCall EXCEPT !.op = op, !.todo = todo, !.inst = inst]]

CreateIndex(c) ==
  /\ \E k \in Key \cap {"stopWords", "ranking_rules"} :
        Begin(c, "create",
              [NoRow EXCEPT !.pk = FreshKey, !.settings[k] = "custom"], InsertSteps)
  /\ UNCHANGED <<dep, row, engine, db, queue, clearing, failures, drift, gap, broken>>

(* The functions that set or reset one setting, through update_index_settings: *)
(* the setting is merged into the instance in memory.                          *)
update_setting(inst, k) == [inst EXCEPT !.settings[k] = "custom"]
reset_setting(inst, k) == [inst EXCEPT !.settings[k] = "empty"]

UpdateSettings(c) ==
  /\ \E inst \in Instances(c), k \in {"stopWords", "rankingRules"} :
        /\ Resolved(c, inst, <<>>)
        /\ \/ Begin(c, "update", update_setting(inst, k), <<"save", "notify">> \o SyncSteps)
           \/ Begin(c, "update", reset_setting(inst, k), <<"save", "notify">> \o SyncSteps)
  /\ UNCHANGED <<dep, row, engine, db, queue, clearing, failures, drift, gap, broken>>

DeleteIndex(c) ==
  /\ \E inst \in Instances(c) :
        Resolved(c, inst, <<>>) /\ Begin(c, "delete", inst, <<"erase", "drop">>)
  /\ UNCHANGED <<dep, row, engine, db, queue, clearing, failures, drift, gap, broken>>

Reindex(c) ==
  /\ \E inst \in Instances(c), first \in {<<>>, InsertSteps} :
        /\ Resolved(c, inst, first)
        /\ \/ Begin(c, "all", inst, first \o AllSteps)
           \/ Begin(c, "zero", inst, first \o ZeroSteps)
  /\ UNCHANGED <<dep, row, engine, db, queue, clearing, failures, drift, gap, broken>>

(* A row of the indexed model is saved or deleted, and the engine is told in a *)
(* step of its own. Two changes of one row do not overlap here: what then      *)
(* happens is the subject of AutoIndex.                                        *)
WriteRow(c) ==
  \E d \in Doc, version \in 0 .. 2 :
    /\ Exists /\ db[d] # version
    /\ \A o \in Caller : Step(o) = "send" => d \notin call[o].dirty
    /\ Idle(c) /\ "write" \in Ops /\ MayBegin
    /\ changes' = changes + 1
    /\ db' = [db EXCEPT ![d] = version]
    /\ gap' = gap \cup {d}
    /\ call' = [o \in Caller |->
                  IF o = c
                  THEN [NoCall EXCEPT !.op = "write", !.todo = <<"send">>, !.inst = row,
                                      !.docs[d] = version, !.dirty = {d}]
                  ELSE IF HoldsRows(o) THEN [call[o] EXCEPT !.dirty = @ \cup {d}]
                  ELSE call[o]]
    /\ UNCHANGED <<dep, row, engine, queue, clearing, failures, drift, broken>>

(* The tasks sync_index_settings and sync_all_indexes: each reads the row and  *)
(* pushes it.                                                                  *)
SyncTask(c) ==
  \E n \in DOMAIN queue :
    /\ Idle(c) /\ queue[n] > 0
    /\ queue' = [queue EXCEPT ![n] = @ - 1]
    /\ call' = IF Exists
               THEN [call EXCEPT ![c] = [NoCall EXCEPT !.op = "task", !.todo = SyncSteps, !.inst = row, !.tries = n]]
               ELSE call
    /\ UNCHANGED <<dep, row, engine, db, clearing, changes, failures, drift, gap, broken>>

SyncAll(c) ==
  /\ Idle(c) /\ Exists /\ ~row.synced
  /\ call' = [call EXCEPT ![c] = [NoCall EXCEPT !.op = "sweep", !.todo = SyncSteps, !.inst = row]]
  /\ UNCHANGED <<dep, row, engine, db, queue, clearing, changes, failures, drift, gap, broken>>

(* ------------------------------ database steps ----------------------------- *)

(* What is left of a call: the functions that change settings return their     *)
(* instance.                                                                   *)
Rest(r) ==
  IF r.todo # <<>> THEN r
  ELSE [NoCall EXCEPT !.inst = IF r.op \in {"create", "update"} THEN r.inst ELSE NoRow]
Pop(c) == Tail(call[c].todo)
Continue(c) == call' = [call EXCEPT ![c] = Rest([@ EXCEPT !.todo = Pop(c)])]
Abort(c) == call' = [call EXCEPT ![c] = Rest([@ EXCEPT !.todo = <<>>])]

(* The row a reader may still be pushing is replaced. An instance that is      *)
(* saved after its row is gone is inserted again, unless another row has taken *)
(* the name.                                                                   *)
Save(c) ==
  /\ Step(c) \in {"insert", "save"}
  /\ IF Exists /\ (Step(c) = "insert" \/ row.pk # call[c].inst.pk)
     THEN /\ Abort(c)    \* IntegrityError
          /\ UNCHANGED <<row, drift>>
     ELSE /\ row' = call[c].inst
          /\ drift' = (IF Exists THEN drift ELSE {}) \cup Overtakes(c)
          /\ Continue(c)
  /\ UNCHANGED <<dep, engine, db, queue, clearing, changes, failures, gap, broken>>

(* on_search_index_save. When the broker does not take the task, the push is   *)
(* made by the caller, and its error is the caller's.                          *)
Notify(c) ==
  /\ Step(c) = "notify"
  /\ row' = IF dep.autosync /\ call[c].inst.synced /\ row.pk = call[c].inst.pk
            THEN [row EXCEPT !.synced = FALSE] ELSE row
  /\ \/ ~dep.autosync /\ Continue(c) /\ UNCHANGED <<queue, failures>>
     \/ dep.autosync /\ dep.async
        /\ queue' = [queue EXCEPT ![MaxRetries] = @ + 1]
        /\ Continue(c) /\ UNCHANGED failures
     \/ dep.autosync
        /\ call' = [call EXCEPT ![c].todo = SyncSteps \o Pop(c)]
        /\ failures' = failures + (IF dep.async THEN 1 ELSE 0)
        /\ failures' <= MaxFailures
        /\ UNCHANGED queue
  /\ UNCHANGED <<dep, engine, db, clearing, changes, drift, gap, broken>>

(* mark_synced: an update by primary key, whatever the row says by now.        *)
\* Mutant: is_synced is set before the push.
MarkBeforePush(c) ==
  /\ Step(c) \in {"push", "mark"}
  /\ row' = IF row.pk = call[c].inst.pk THEN [row EXCEPT !.synced = TRUE] ELSE row
  /\ call' = [call EXCEPT ![c] = Rest([@ EXCEPT !.todo = Pop(c), !.inst.synced = TRUE])]
  /\ UNCHANGED <<dep, engine, db, queue, clearing, changes, failures, drift, gap, broken>>

Mark(c) ==
  /\ Step(c) = "mark"
  /\ row' = IF row.pk = call[c].inst.pk THEN [row EXCEPT !.synced = TRUE] ELSE row
  /\ call' = [call EXCEPT ![c] = Rest([@ EXCEPT !.todo = Pop(c), !.inst.synced = TRUE])]
  /\ UNCHANGED <<dep, engine, db, queue, clearing, changes, failures, drift, gap, broken>>

Drop(c) ==
  /\ Step(c) = "drop"
  /\ row' = IF row.pk = call[c].inst.pk THEN NoRow ELSE row
  /\ Continue(c)
  /\ UNCHANGED <<dep, engine, db, queue, clearing, changes, failures, drift, gap, broken>>

(* The queryset is read with one statement.                                    *)
Read(c) ==
  /\ Step(c) \in {"read", "tmpread"}
  /\ call' = [call EXCEPT ![c] = [@ EXCEPT !.todo = Pop(c), !.docs = db]]
  /\ UNCHANGED <<dep, row, engine, db, queue, clearing, changes, failures, drift, gap, broken>>

(* ------------------------------- engine steps ------------------------------ *)

(* index_model_instances addresses the index by its name alone, which is the   *)
(* index without a tenant.                                                     *)
FillTarget(c) ==
  IF Step(c) = "tmpfill" THEN "tmp" ELSE IF Step(c) = "fill" /\ dep.tenant THEN "default" ELSE "live"

(* The documents of a batch still to be sent; a write sends its one document,  *)
(* or its removal.                                                             *)
Pending(c) == IF Step(c) = "send" THEN call[c].dirty ELSE {d \in Doc : call[c].docs[d] # 0}

(* The engine call of the step, with the instance the caller holds; a batch is *)
(* one document. Settings are normalised by _sync_index_to_engine alone.       *)
Configured(u, s) == IF s = NoSettings THEN Done(engine) ELSE update_settings(be, engine, u, s)
Put(c, d) ==
  IF Pending(c) = {} THEN Done(engine)
  ELSE IF call[c].docs[d] = 0 THEN delete_document(be, engine, FillTarget(c), d)
  ELSE add_document(be, engine, FillTarget(c), d, call[c].docs[d])

Outcome(c, d) ==
  LET s == Step(c)  i == call[c].inst IN
  CASE s = "provision"                  -> create_index(be, engine, "live")
    [] s = "configure"                  -> Configured("live", i.settings)
    [] s = "push"                       -> update_settings(be, engine, "live", Normalized(i.settings))
    [] s = "erase"                      -> delete_index(be, engine, "live")
    [] s = "clear"                      -> clear_documents(be, engine, "live")
    [] s \in {"fill", "tmpfill", "send"} -> Put(c, d)
    [] s = "tmpcreate"                  -> create_index(be, engine, "tmp")
    [] s = "tmpconfigure"               -> Configured("tmp", i.settings)
    [] s = "swap"                       -> swap_indexes(be, engine, "live", "tmp")
    [] s \in {"tmpdelete", "tmpclean"}  -> delete_index(be, engine, "tmp")

Batches(c) ==
  IF Step(c) \in {"fill", "tmpfill", "send"} /\ Pending(c) # {} THEN Pending(c) ELSE {CHOOSE d \in Doc : TRUE}

(* The swap of the step exchanges the indexes.                                 *)
Swapped == Exchanges(be, engine, "live", "tmp")

(* The rows that a reindex still under way read before they changed.           *)
Unread(c) == UNION {call[o].dirty : o \in {o \in Others(c) : HoldsRows(o)}}

(* The documents that the deletion or the creation of an index takes away.     *)
Erased(c, d) ==
  IF Step(c) \in {"provision", "erase"}
  THEN {x \in Doc : Outcome(c, d).engine["live"].docs[x] # engine["live"].docs[x]} ELSE {}

GapAfter(c, d) ==
  LET s == Step(c) IN
  CASE s = "send" -> IF \E o \in Caller : Refills(o) THEN gap ELSE gap \ {d}
    [] s = "fill" /\ Pending(c) \subseteq {d} -> IF dep.tenant THEN gap ELSE call[c].dirty \cup Unread(c)
    [] s = "swap" /\ Swapped -> call[c].dirty \cup Unread(c)
    [] OTHER -> gap \cup Erased(c, d)

(* What the step may leave wrong, and a reindex that has cleared the index     *)
(* before does not put right: it adds the documents it has read.               *)
Undone(c, d) ==
  LET s == Step(c) IN
  CASE s = "fill" -> call[c].dirty \cap {d}
    [] s = "swap" /\ Swapped -> call[c].dirty
    [] OTHER -> Erased(c, d)

(* The caller goes on with the record r, and the others know of the rows in S. *)
GoesOn(c, r, S) ==
  call' = [o \in Caller |->
             IF o = c THEN Rest(r)
             ELSE IF Refills(o) THEN [call[o] EXCEPT !.dirty = @ \cup S] ELSE call[o]]

(* Another reindex uses the temporary index, whose name is fixed.              *)
UsesTemp(o) == Ahead(o) \cap {"swap", "tmpdelete", "tmpclean"} # {} /\ "tmpcreate" \notin Ahead(o)
Shared(c) ==
  IF Step(c) \in {"tmpcreate", "tmpdelete", "tmpclean"} /\ \E o \in Others(c) : UsesTemp(o)
  THEN {"shared"} ELSE {}

BrokenAfter(c, d) ==
  LET s == Step(c) IN
  broken \cup Shared(c) \cup
  (IF s = "tmpcreate" /\ Outcome(c, d).engine["tmp"].docs # NoDocs THEN {"leftover"} ELSE {}) \cup
  (IF s = "fill" /\ dep.tenant THEN {"tenant"} ELSE {})

DriftAfter(c) ==
  LET s == Step(c)  i == call[c].inst.settings IN
  drift \cup Shared(c) \cup
  (IF s \in {"push", "configure"} /\ \E k \in Carried(be) \ Resettable(be) : i[k] = "empty"
   THEN {"kept"} ELSE {}) \cup
  (IF s \in {"configure", "swap"} /\ i["ranking_rules"] # "missing" THEN {"raw"} ELSE {}) \cup
  (IF s = "swap" /\ Swapped /\ i # row.settings THEN {"overtaken"} ELSE {}) \cup
  (IF s = "tmpcreate" THEN Overtakes(c) ELSE {}) \cup
  (IF s \in {"erase", "provision"} /\ engine'["live"].settings # engine["live"].settings THEN {"erased"} ELSE {})

(* A deletion ends with its index.                                             *)
ClearingAfter(c) == IF Step(c) = "erase" THEN {} ELSE clearing

(* A batch that is not the last leaves the step on the list.                   *)
Succeed(c) ==
  /\ Step(c) \in EngineSteps
  /\ \E d \in Batches(c) :
        /\ Outcome(c, d).ok
        /\ engine' = Outcome(c, d).engine
        /\ gap' = GapAfter(c, d)
        /\ broken' = BrokenAfter(c, d)
        /\ GoesOn(c, IF Step(c) \in {"fill", "tmpfill"} /\ ~(Pending(c) \subseteq {d})
                     THEN [call[c] EXCEPT !.docs[d] = 0]
                     ELSE [call[c] EXCEPT !.todo = Pop(c),
                             !.docs = IF Step(c) \in {"fill", "tmpfill"} THEN NoDocs ELSE @],
                  Undone(c, d))
  /\ drift' = DriftAfter(c)
  /\ clearing' = ClearingAfter(c)
  /\ UNCHANGED <<dep, row, db, queue, changes, failures>>

(* The clear returns before the engine has deleted the documents.              *)
ReturnEarly(c) ==
  /\ Step(c) = "clear" /\ be \in Unwaited /\ engine["live"].there
  /\ clearing' = Doc
  /\ broken' = broken \cup {"unwaited"}
  /\ GoesOn(c, [call[c] EXCEPT !.todo = Pop(c)], {})
  /\ UNCHANGED <<dep, row, engine, db, queue, changes, failures, drift, gap>>

(* The engine goes on: it deletes a document, of whatever version, or it finds *)
(* that the document has changed, and stops.                                   *)
DeleteByQuery ==
  /\ \/ \E d \in Doc :
          /\ d \in clearing
          /\ clearing' = clearing \ {d}
          /\ engine' = Store(engine, "live", d, 0)
     \/ clearing # {} /\ clearing' = {} /\ UNCHANGED engine
  /\ UNCHANGED <<dep, row, db, queue, call, changes, failures, drift, gap, broken>>

(* What a caller does with an error of the engine. A failed clear and a failed *)
(* removal of the temporary index are ignored; a zero-downtime reindex removes *)
(* the temporary index and gives up, or falls back when the backend cannot     *)
(* swap; a task asks to be tried again.                                        *)
OnError(c) ==
  LET s == Step(c) IN
  CASE s \in {"clear", "tmpdelete", "tmpclean"} -> Pop(c)
    [] s = "swap" /\ be \in Unswappable -> <<"tmpclean">> \o AllSteps
    [] s \in {"tmpcreate", "tmpconfigure", "tmpfill", "swap"} -> <<"tmpclean">>
    [] s \in {"fill", "read"} /\ call[c].op = "zero" -> <<"tmpclean">>
    [] OTHER -> <<>>

BrokenBy(c) ==
  (IF Step(c) = "clear" THEN {"uncleared"} ELSE {}) \cup
  (IF Step(c) = "fill" THEN {"partial"} ELSE {})

DriftBy(c) == IF call[c].op = "update" /\ ~dep.autosync THEN {"unmarked"} ELSE {}

Fail(c, S) ==
  /\ GoesOn(c, [call[c] EXCEPT !.todo = OnError(c), !.dirty = {}], S)
  /\ queue' = IF call[c].op = "task" /\ call[c].tries > 0
              THEN [queue EXCEPT ![call[c].tries - 1] = @ + 1] ELSE queue
  /\ UNCHANGED <<dep, row, db, changes>>

(* The engine refuses the call.                                                *)
Refused(c) ==
  /\ Step(c) \in EngineSteps
  /\ \E d \in Batches(c) : ~Outcome(c, d).ok
  /\ Fail(c, {})
  /\ broken' = broken \cup BrokenBy(c)
  /\ drift' = drift \cup DriftBy(c)
  /\ UNCHANGED <<engine, failures, gap, clearing>>

(* The call fails on its way, or it times out after the engine has acted.      *)
Fault(c) ==
  /\ Step(c) \in EngineSteps /\ "fault" \in Ops
  /\ failures < MaxFailures /\ failures' = failures + 1
  /\ \/ /\ broken' = broken \cup BrokenBy(c)
        /\ drift' = drift \cup DriftBy(c)
        /\ Fail(c, {})
        /\ UNCHANGED <<engine, gap, clearing>>
     \/ \E d \in Batches(c) :
          /\ Outcome(c, d).ok
          /\ engine' = Outcome(c, d).engine
          /\ gap' = GapAfter(c, d)
          /\ broken' = BrokenAfter(c, d) \cup BrokenBy(c)
          /\ drift' = DriftAfter(c) \cup DriftBy(c)
          /\ clearing' = ClearingAfter(c)
          /\ Fail(c, Undone(c, d))

(* The process is killed: nothing that was to come is done.                    *)
Kill(c) ==
  /\ ~Idle(c) /\ "kill" \in Ops
  /\ failures < MaxFailures /\ failures' = failures + 1
  /\ Abort(c)
  /\ broken' = broken \cup
       (IF Ahead(c) \cap {"read", "fill"} # {} /\ "clear" \notin Ahead(c) THEN {"partial"} ELSE {})
  /\ drift' = drift \cup
       (IF Step(c) = "notify" \/ ~dep.autosync THEN {"unmarked"} ELSE {})
  /\ UNCHANGED <<dep, row, engine, db, queue, clearing, changes, gap>>

Act(c) == Save(c) \/ Notify(c) \/ Mark(c) \/ Drop(c) \/ Read(c) \/ Succeed(c) \/ Refused(c)

Next ==
  \E c \in Caller :
    \/ CreateIndex(c) \/ UpdateSettings(c) \/ DeleteIndex(c) \/ Reindex(c) \/ WriteRow(c)
    \/ SyncTask(c) \/ SyncAll(c)
    \/ Act(c) \/ ReturnEarly(c) \/ Fault(c) \/ Kill(c) \/ DeleteByQuery

Spec == Init /\ [][Next]_vars

(* ------------------------------- properties -------------------------------- *)

(* A row that says is_synced is one whose settings the engine holds, whatever  *)
(* creations, updates, deletes, reindexes, tasks, errors, retries and kills    *)
(* went before, except for the causes "drift" names: two calls held copies of  *)
(* the row at once (overtaken), a failed push without AUTO_SYNC left the flag  *)
(* of the row alone (unmarked), the backend does not send an empty value       *)
(* (kept), settings were sent under their legacy name (raw), the index was     *)
(* deleted or made anew under a row that stayed (erased), two reindexes had    *)
(* one temporary index (shared).                                               *)
SyncedUnlessDrift == AtRest /\ Exists /\ row.synced /\ drift = {} => Holds(engine, row.settings)

(* At rest the live index has exactly the documents of the rows, except for    *)
(* rows whose own update failed or was undone by a reindex that had read them  *)
(* before, and unless a reindex found documents in the temporary index         *)
(* (leftover), shared it with another (shared), filled the index of no tenant  *)
(* (tenant), ended half way (partial), could not clear (uncleared), or refilled *)
(* an index of OpenSearch, which goes on deleting meanwhile (unwaited).        *)
LiveExactUnlessGap ==
  AtRest /\ broken = {} => \A d \in Doc \ gap : engine["live"].docs[d] = db[d]

(* No step takes a right document of a row that does not change out of the     *)
(* live index, but the clear of a full reindex: a zero-downtime reindex swaps  *)
(* a complete index in, even when it fails half way and cleans up.             *)
ServedStaysServed ==
  [][\A d \in Doc :
       /\ engine["live"].docs[d] = db[d] /\ db'[d] = db[d]
       /\ engine'["live"].docs[d] # db[d]
       => d \in gap' \/ broken' # {} \/ \E c \in Caller : Step(c) = "clear" /\ call'[c] # call[c]]_vars
=============================================================================
