----------------------------- MODULE AutoIndex -----------------------------
(***************************************************************************)
(* Automatic indexing in icv-search: the signal handlers of a searchable   *)
(* model, the debounce buffer that they share in the cache, the Celery     *)
(* tasks that they start, and the documents that the engine then holds.    *)
(*                                                                         *)
(* A change of a row has a number; the row, its document and the engine's  *)
(* copy are that number, and 0 when the row is deleted or soft-deleted.    *)
(* Database, cache, broker and engine share no transaction: a step is one  *)
(* call of one of them.                                                    *)
(***************************************************************************)
EXTENDS Integers, FiniteSets, Sequences

CONSTANTS
  Doc,          \* primary keys of the rows of one auto-indexed model
  Client,       \* requests or commands that change rows
  Worker,       \* Celery workers that run flush_debounce_buffer
  MaxRetries,   \* max_retries of add_documents and remove_documents
  MaxChanges,   \* bound on the changes
  MaxFailures   \* bound on errors, roll-backs, kills and evictions

ASSUME DocAssumption    == Doc # {} /\ IsFiniteSet(Doc)
ASSUME RetryAssumption  == MaxRetries \in Nat
ASSUME BoundAssumption  == MaxChanges \in Nat /\ MaxFailures \in Nat

VARIABLES
  mode,      \* the settings: debounce and async
  rows,      \* committed rows of the search queryset: number of the change, or 0
  live,      \* documents in the engine: number of the change, or 0
  client,    \* what each client is doing
  buffer,    \* cache: documents that wait for a flush
  marker,    \* cache: a flush task has been scheduled
  flushes,   \* scheduled flush tasks that have not begun
  flusher,   \* what each worker's flush is doing
  tasks,     \* add_documents and remove_documents tasks in the broker
  gap,       \* history: rows whose last change may have missed the engine
  relied,    \* history: since a flush last read the buffer, a client has found the
             \* marker and scheduled no flush, or was killed before it scheduled
             \* one, or a flush was lost
  changes, failures

vars == <<mode, rows, live, client, buffer, marker, flushes, flusher, tasks,
          gap, relied, changes, failures>>
cache == <<buffer, marker>>
queue == <<flushes, flusher, tasks>>

Change == 1..MaxChanges
Item == [doc : Doc, change : Change, removes : BOOLEAN]
Value(i) == IF i.removes THEN 0 ELSE i.change
DocsOf(q) == {q[n].doc : n \in DOMAIN q}
ItemsOf(q) == {q[n] : n \in DOMAIN q}

\* Places of a client in its signal handler, and after it ("commit").
Places == {"idle", "engine", "delay", "append", "write", "check", "schedule",
           "mark", "drop", "commit"}
InHand == {"engine", "delay", "append", "write", "check", "schedule", "drop"}

Busy == [at : Places \ {"idle"}, item : Item, atomic : BOOLEAN, seen : Seq(Item)]
Idle == [at |-> "idle", item |-> <<>>, atomic |-> FALSE, seen |-> <<>>]
NoFlush == [at |-> "idle", docs |-> <<>>]

TypeOK ==
  /\ mode \in [debounce : BOOLEAN, async : BOOLEAN]
  /\ rows \in [Doc -> {0} \cup Change] /\ live \in [Doc -> {0} \cup Change]
  /\ client \in [Client -> {Idle} \cup Busy]
  /\ buffer \in Seq(Item)
  /\ marker \in BOOLEAN /\ flushes \in Nat
  /\ flusher \in [Worker -> [at : {"idle", "clear", "send"}, docs : Seq(Item)]]
  /\ tasks \subseteq [item : Item, tries : 0..MaxRetries]
  /\ gap \subseteq Doc /\ relied \in BOOLEAN
  /\ changes \in 0..MaxChanges /\ failures \in 0..MaxFailures

Init ==
  /\ mode \in [debounce : BOOLEAN, async : BOOLEAN]
  /\ rows = [d \in Doc |-> 0] /\ live = rows
  /\ client = [c \in Client |-> Idle]
  /\ buffer = <<>> /\ marker = FALSE
  /\ flushes = 0 /\ flusher = [w \in Worker |-> NoFlush]
  /\ tasks = {}
  /\ gap = {} /\ relied = FALSE
  /\ changes = 0 /\ failures = 0

Fails == failures < MaxFailures /\ failures' = failures + 1

-----------------------------------------------------------------------------
(***************************************************************************)
(* The engine.  A call replaces documents or removes one; of a batch that  *)
(* holds a document twice the last copy counts.                            *)
(***************************************************************************)
\* Mutant: the first copy of a document counts.
FirstOf(q, d) == CHOOSE n \in DOMAIN q :
  q[n].doc = d /\ \A k \in DOMAIN q : q[k].doc = d => n <= k

LastOf(q, d) == CHOOSE n \in DOMAIN q :
  q[n].doc = d /\ \A k \in DOMAIN q : q[k].doc = d => k <= n

Indexed(q) == [d \in Doc |->
  IF d \in DocsOf(q) THEN Value(q[LastOf(q, d)]) ELSE live[d]]

-----------------------------------------------------------------------------
(***************************************************************************)
(* Changes.  A change in a transaction locks its row until the end; in     *)
(* autocommit the handler of a save runs after the commit, and that of a   *)
(* delete still inside it, since the collector opens a transaction.        *)
(***************************************************************************)
Locked(d) == \E c \in Client :
  client[c].at # "idle" /\ client[c].atomic /\ client[c].item.doc = d

\* An older change of d that a later one does not join may be applied after it.
OnItsWay(d) ==
  \/ \E c \in Client :
       \/ client[c].at \in InHand /\ client[c].item.doc = d
       \/ client[c].at = "write" /\ d \in DocsOf(client[c].seen)
  \/ \E t \in tasks : t.item.doc = d
  \/ \E w \in Worker : d \in DocsOf(flusher[w].docs)

\* Where a handler begins: _index_instance looks at debouncing first,
\* _remove_instance does not.
Dispatch(removes) ==
  CASE mode.debounce /\ ~removes -> "append"
    [] mode.async /\ (removes \/ ~mode.debounce) -> "delay"
    [] OTHER -> "engine"

HandleChange(c, d, removes, atomic) ==
  LET item == [doc |-> d, change |-> changes + 1, removes |-> removes]
      overlaps == OnItsWay(d)
        \/ (d \in DocsOf(buffer) /\ Dispatch(removes) # "append")
  IN
  /\ changes < MaxChanges /\ changes' = changes + 1
  /\ client[c] = Idle /\ ~Locked(d)
  /\ removes => rows[d] # 0
  /\ rows' = IF atomic THEN rows ELSE [rows EXCEPT ![d] = Value(item)]
  /\ client' = [client EXCEPT ![c] =
       [at |-> Dispatch(removes), item |-> item, atomic |-> atomic, seen |-> <<>>]]
  /\ gap' = IF overlaps THEN gap \cup {d} ELSE gap \ {d}
  /\ UNCHANGED <<mode, live, cache, queue, relied, failures>>

Save(c, d, atomic) == HandleChange(c, d, FALSE, atomic)

\* A soft delete in autocommit or in a transaction, or a delete (atomic).
Remove(c, d, atomic) == HandleChange(c, d, TRUE, atomic)

\* A change whose handler returns early (skip_index_update, should_update) or
\* that sends no signal (update, bulk_create).
SkippedChange(d, removes) ==
  /\ changes < MaxChanges /\ changes' = changes + 1
  /\ ~Locked(d)
  /\ rows' = [rows EXCEPT ![d] = IF removes THEN 0 ELSE changes + 1]
  /\ gap' = gap \cup {d}
  /\ UNCHANGED <<mode, live, client, cache, queue, relied, failures>>

Leaves(c) == client' = [client EXCEPT ![c] =
  IF @.atomic THEN [@ EXCEPT !.at = "commit", !.seen = <<>>] ELSE Idle]
Goes(c, place) == client' = [client EXCEPT ![c].at = place]

Commit(c) ==
  /\ client[c].at = "commit"
  /\ rows' = [rows EXCEPT ![client[c].item.doc] = Value(client[c].item)]
  /\ client' = [client EXCEPT ![c] = Idle]
  /\ UNCHANGED <<mode, live, cache, queue, gap, relied, changes, failures>>

Rollback(c) ==
  /\ client[c].at = "commit" /\ Fails
  /\ client' = [client EXCEPT ![c] = Idle]
  /\ gap' = gap \cup {client[c].item.doc}
  /\ UNCHANGED <<mode, rows, live, cache, queue, relied, changes>>

\* The client's process is killed.  Its transaction is rolled back; a row that was
\* committed stays, and what the handler had not yet done is not done: between the
\* write of the buffer and the scheduling, nobody is left to flush it.
ClientKilled(c) ==
  /\ client[c].at # "idle" /\ Fails
  /\ client' = [client EXCEPT ![c] = Idle]
  /\ gap' = IF client[c].atomic \/ client[c].at \in {"engine", "delay", "append", "write"}
            THEN gap \cup {client[c].item.doc} ELSE gap
  /\ relied' = (relied \/ client[c].at \in {"check", "schedule", "drop"})
  /\ UNCHANGED <<mode, rows, live, cache, queue, changes>>

-----------------------------------------------------------------------------
(***************************************************************************)
(* Handlers that call the engine or start a task                           *)
(***************************************************************************)
CallEngine(c) ==
  /\ client[c].at = "engine"
  /\ live' = Indexed(<<client[c].item>>)
  /\ Leaves(c)
  /\ UNCHANGED <<mode, rows, cache, queue, gap, relied, changes, failures>>

\* An error of the engine is logged and forgotten.
EngineError(c) ==
  /\ client[c].at = "engine" /\ Fails
  /\ gap' = gap \cup {client[c].item.doc}
  /\ Leaves(c)
  /\ UNCHANGED <<mode, rows, live, cache, queue, relied, changes>>

Delay(c) ==
  /\ client[c].at = "delay"
  /\ tasks' = tasks \cup {[item |-> client[c].item, tries |-> 0]}
  /\ Leaves(c)
  /\ UNCHANGED <<mode, rows, live, cache, flushes, flusher, gap, relied, changes, failures>>

\* An error of the broker reaches the caller of save(): a transaction is rolled
\* back, a row that was committed stays.
BrokerError(c) ==
  /\ client[c].at = "delay" /\ Fails
  /\ gap' = gap \cup {client[c].item.doc}
  /\ client' = [client EXCEPT ![c] = Idle]
  /\ UNCHANGED <<mode, rows, live, cache, queue, relied, changes>>

-----------------------------------------------------------------------------
(***************************************************************************)
(* _debounce_document: the buffer is read, extended and written back, then *)
(* the marker is read, a task scheduled and the marker written.            *)
(***************************************************************************)
Unwritten(d, but) == \E c \in Client \ but :
  client[c].at \in {"append", "write"} /\ client[c].item.doc = d

\* Rows of which the buffer holds a document older than one that is not in it yet.
Outdated(but) == {d \in DocsOf(buffer) : Unwritten(d, but)}

ReadBuffer(c) ==
  /\ client[c].at = "append"
  /\ client' = [client EXCEPT ![c].at = "write", ![c].seen = buffer]
  /\ gap' = gap \cup Outdated({c})
  /\ UNCHANGED <<mode, rows, live, cache, queue, relied, changes, failures>>

WriteBuffer(c) ==
  /\ client[c].at = "write"
  /\ buffer' = Append(client[c].seen, client[c].item)
  /\ gap' = gap \cup {i.doc : i \in ItemsOf(buffer) \ ItemsOf(client[c].seen)}
  /\ client' = [client EXCEPT ![c].at = "check", ![c].seen = <<>>]
  /\ UNCHANGED <<mode, rows, live, marker, queue, relied, changes, failures>>

CheckMarker(c) ==
  /\ client[c].at = "check"
  /\ IF marker
     THEN Leaves(c) /\ relied' = TRUE
     ELSE Goes(c, "schedule") /\ UNCHANGED relied
  /\ UNCHANGED <<mode, rows, live, cache, queue, gap, changes, failures>>

ScheduleFlush(c) ==
  /\ client[c].at = "schedule"
  /\ flushes' = flushes + 1
  /\ Goes(c, "mark")
  /\ UNCHANGED <<mode, rows, live, cache, flusher, tasks, gap, relied, changes, failures>>

SetMarker(c) ==
  /\ client[c].at = "mark"
  /\ marker' = TRUE
  /\ Leaves(c)
  /\ UNCHANGED <<mode, rows, live, buffer, queue, gap, relied, changes, failures>>

\* Mutant: a flush that could not be scheduled is only logged.
ScheduleErrorLogged(c) ==
  /\ client[c].at = "schedule" /\ Fails
  /\ Leaves(c)
  /\ UNCHANGED <<mode, rows, live, cache, queue, gap, relied, changes>>

ScheduleError(c) ==
  /\ client[c].at = "schedule" /\ Fails
  /\ Goes(c, "drop")
  /\ UNCHANGED <<mode, rows, live, cache, queue, gap, relied, changes>>

\* The whole buffer is deleted, and only the client's own document is sent.
DropBuffer(c) ==
  /\ client[c].at = "drop"
  /\ buffer' = <<>>
  /\ gap' = gap \cup (DocsOf(buffer) \ {client[c].item.doc})
  /\ Goes(c, "engine")
  /\ UNCHANGED <<mode, rows, live, marker, queue, relied, changes, failures>>

\* The marker lives for one debounce window, the buffer for three since it was
\* last written; either may also be evicted.
ExpireMarker ==
  /\ marker /\ marker' = FALSE
  /\ UNCHANGED <<mode, rows, live, client, buffer, queue, gap, relied, changes, failures>>

ExpireBuffer ==
  /\ buffer # <<>> /\ buffer' = <<>>
  /\ Fails
  /\ gap' = gap \cup DocsOf(buffer)
  /\ UNCHANGED <<mode, rows, live, client, marker, queue, relied, changes>>

-----------------------------------------------------------------------------
(***************************************************************************)
(* The tasks.  A flush is not retried; an add or a removal is put back     *)
(* until it has been tried MaxRetries times more.  Celery acknowledges a   *)
(* message before the task runs: a killed worker loses it.                 *)
(***************************************************************************)
FlushReads(w) ==
  /\ flushes > 0 /\ flushes' = flushes - 1
  /\ flusher[w] = NoFlush
  /\ flusher' = IF buffer = <<>> THEN flusher
                ELSE [flusher EXCEPT ![w] = [at |-> "clear", docs |-> buffer]]
  /\ gap' = gap \cup Outdated({})
  /\ relied' = FALSE
  /\ UNCHANGED <<mode, rows, live, client, cache, tasks, changes, failures>>

FlushClears(w) ==
  /\ flusher[w].at = "clear"
  /\ buffer' = <<>>
  /\ gap' = gap \cup {i.doc : i \in ItemsOf(buffer) \ ItemsOf(flusher[w].docs)}
  /\ flusher' = [flusher EXCEPT ![w].at = "send"]
  /\ UNCHANGED <<mode, rows, live, client, marker, flushes, tasks, relied, changes, failures>>

FlushSends(w) ==
  /\ flusher[w].at = "send"
  /\ live' = Indexed(flusher[w].docs)
  /\ flusher' = [flusher EXCEPT ![w] = NoFlush]
  /\ UNCHANGED <<mode, rows, client, cache, flushes, tasks, gap, relied, changes, failures>>

\* The task or its worker is lost before the buffer is cleared.
LoseFlush ==
  /\ flushes > 0 /\ flushes' = flushes - 1 /\ Fails
  /\ relied' = TRUE
  /\ UNCHANGED <<mode, rows, live, client, cache, flusher, tasks, gap, changes>>

FlushKilled(w) ==
  /\ flusher[w].at = "clear" /\ Fails
  /\ flusher' = [flusher EXCEPT ![w] = NoFlush]
  /\ relied' = TRUE
  /\ UNCHANGED <<mode, rows, live, client, cache, flushes, tasks, gap, changes>>

\* The call fails or the worker is killed: what was taken is gone.
FlushFails(w) ==
  /\ flusher[w].at = "send" /\ Fails
  /\ gap' = gap \cup DocsOf(flusher[w].docs)
  /\ flusher' = [flusher EXCEPT ![w] = NoFlush]
  /\ UNCHANGED <<mode, rows, live, client, cache, flushes, tasks, relied, changes>>

RunTask(t) ==
  /\ live' = Indexed(<<t.item>>)
  /\ tasks' = tasks \ {t}
  /\ UNCHANGED <<mode, rows, client, cache, flushes, flusher, gap, relied, changes, failures>>

\* Mutant: one retry too many.
RetryTaskTooOften(t) ==
  /\ IF t.tries <= MaxRetries
     THEN /\ tasks' = (tasks \ {t}) \cup {[t EXCEPT !.tries = @ + 1]}
          /\ UNCHANGED gap
     ELSE /\ tasks' = tasks \ {t}
          /\ gap' = gap \cup {t.item.doc}
  /\ UNCHANGED <<mode, rows, live, client, cache, flushes, flusher, relied, changes, failures>>

RetryTask(t) ==
  /\ IF t.tries < MaxRetries
     THEN /\ tasks' = (tasks \ {t}) \cup {[t EXCEPT !.tries = @ + 1]}
          /\ UNCHANGED gap
     ELSE /\ tasks' = tasks \ {t}
          /\ gap' = gap \cup {t.item.doc}
  /\ UNCHANGED <<mode, rows, live, client, cache, flushes, flusher, relied, changes, failures>>

LoseTask(t) ==
  /\ Fails
  /\ tasks' = tasks \ {t}
  /\ gap' = gap \cup {t.item.doc}
  /\ UNCHANGED <<mode, rows, live, client, cache, flushes, flusher, relied, changes>>

-----------------------------------------------------------------------------
ClientStep(c) ==
  \/ Commit(c) \/ Rollback(c) \/ ClientKilled(c)
  \/ CallEngine(c) \/ EngineError(c) \/ Delay(c) \/ BrokerError(c)
  \/ ReadBuffer(c) \/ WriteBuffer(c) \/ CheckMarker(c) \/ ScheduleFlush(c)
  \/ SetMarker(c) \/ ScheduleError(c) \/ DropBuffer(c)

FlushStep(w) ==
  FlushReads(w) \/ FlushClears(w) \/ FlushSends(w) \/ FlushKilled(w) \/ FlushFails(w)
TaskStep == \E t \in tasks : RunTask(t) \/ RetryTask(t) \/ LoseTask(t)

Next ==
  \/ \E c \in Client, d \in Doc :
       \E atomic \in BOOLEAN : Save(c, d, atomic) \/ Remove(c, d, atomic)
  \/ \E d \in Doc, removes \in BOOLEAN : SkippedChange(d, removes)
  \/ \E c \in Client : ClientStep(c)
  \/ \E w \in Worker : FlushStep(w)
  \/ TaskStep \/ LoseFlush
  \/ ExpireMarker \/ ExpireBuffer

Spec == Init /\ [][Next]_vars

-----------------------------------------------------------------------------
AtRest(d) ==
  /\ ~OnItsWay(d) /\ ~Locked(d)
  /\ d \notin DocsOf(buffer)

\* The engine agrees with the database on every row at rest, unless the row's
\* last change is one of the named gaps: it overlapped an older change of the
\* row that it did not join in the buffer, it was rolled back after it was sent,
\* it was skipped, or an error, a kill, an eviction, or another client's or flush's
\* write to the buffer has lost it.  A later change without a gap repairs the row.
AgreesUnlessGap == \A d \in Doc : AtRest(d) /\ d \notin gap => live[d] = rows[d]

\* Documents stay in the buffer with nobody to flush them only when a client has
\* found the marker of a flush that had already read the buffer, and therefore
\* scheduled none, when it was killed between its write to the buffer and the
\* scheduling, or when a flush was lost.
UnattendedOnlyByMarker ==
  /\ buffer # <<>> /\ flushes = 0
  /\ \A w \in Worker : flusher[w].at # "clear"
  /\ \A c \in Client : client[c].at \notin {"check", "schedule", "drop"}
  => relied
=============================================================================
