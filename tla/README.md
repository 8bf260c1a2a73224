# A TLA+ verification project for icv-oss

icv-oss is a set of six reusable Django packages: `icv-core` (base models, soft
delete, audit), `icv-tree` (materialised-path trees), `icv-search` (search
indexes over pluggable engines), `icv-sitemaps` (sitemaps, redirects, discovery
files), `icv-taxonomy` (vocabularies and tagging on top of icv-tree) and
`django-boundary` (row-level multi-tenancy). None of them is a server. They run
inside the processes of a host application: web requests, Celery workers,
management commands, all against one database, one cache, one file storage and
one search engine. Their hard problems are those of such code: what one process
has read is old when it uses it, two services that share no transaction are
updated one after the other, a worker is killed in between, a signal handler
runs before the commit.

This directory holds TLA+ models of the parts where that matters most, TLC runs
that check them on small instances, and proofs, checked by TLAPS, of the central
properties for instances of every size. `PROJECT.json` maps every definition to
the lines it models and lists hazards, runs, mutants and theorems.

Contents: [1 The system](#1-the-system) - [2 Modules](#2-modules-and-code) -
[3 Runs](#3-the-runs) - [4 Proofs](#4-the-proofs) - [5 Observations](#5-observations) -
[6 Limits](#6-what-is-not-modelled) - [7 Plan](#7-plan)

## 1 The system

For each component: its state, its operations, how it interacts, what makes it
hard, what makes it correct. Paths are relative to `src/packages/<package>/src/`.

### icv-tree

*Tree mutations* (`models.py`, `handlers.py`, `services/mutations.py`). State: one
table per concrete model; a row has `parent_id`, `path` ("0001/0003"), `depth`
and `order`. Operations: insert (`pre_save` counts the siblings and computes the
row), `move_to` with four positions (closes a gap, makes room, rewrites the
subtree, one transaction), saving with a changed parent (calls `move_to`, or has
a branch of its own for roots), instance and queryset delete (`post_delete` closes
the order gap). Hard: `move_to` works with two in-memory instances that may be
older than the table; the path of the new parent is read before the gap is
closed; `pre_save` and the INSERT or UPDATE it prepares are not one transaction.
Correct when: no parent cycle; orders 0, 1, 2, ...; the path spells the chain of
orders, so that prefix queries are the subtree.

*Integrity* (`services/integrity.py`): `check_tree_integrity` (four lists of issues) and
`rebuild` (recomputes path, depth and order from the parent key, in three passes
with placeholders). Correct when rebuilding any forest gives an exact table.

*Operations, admin, template tags, checks, test helpers*: no state of their own.

### icv-search

*Bulk indexing* (`services/documents.py: bulk_index`). State: a bounded queue, an
error event, a pool of sender threads, the caller. Hard: the caller sees neither
what the senders take nor what they send; threads end on an error and the caller
goes on putting. Correct when a returned total means that every batch arrived
once, errors surface, and the call ends.

*Automatic indexing and its tasks* (`auto_index.py`, `tasks.py`). State: the rows, a
buffer of documents and a marker "flush scheduled" in the cache, tasks in the
broker, the documents in the engine. Operations: a save or a (soft) delete calls
the engine at once, starts a task, or - saves only - appends to the buffer and
schedules a flush unless the marker is set; a flush reads the buffer, deletes it
and sends the last copy of each document; tasks are retried. Hard: the
buffer is read, extended and written back by several processes; handlers run
before the commit; removals bypass the buffer; engine, cache and broker fail
separately. Correct when the engine agrees with every row that is at rest.

*Documents and index lifecycle* (`services/documents.py`, `services/indexing.py`,
`handlers.py`, `tasks.py`). State: the `SearchIndex` row with its settings and `is_synced`, the
engine's index with its settings and documents, sync tasks. Operations: create, update,
delete; index and remove; reindex in place or through a temporary index and a
swap; sync tasks with retries. Hard: row and engine are changed one after the
other; callers hold old copies of the row; documents are written during a
reindex; the temporary index has one name. Correct when settings and documents
converge and the live index is never without what it had.

*Search requests* (`services/search.py`, `services/merchandising.py`, `cache.py`,
`merchandising_cache.py`, `signals.py`). State: the cached results with the set of
their keys, the cached rules, the daily count of a query. Operations: a search passes
redirects, rewrites, the cache, the engine, the fallback and the log; documents and rules
change and signal. Hard: fill on read races delete on change; the set of keys is read,
extended and written back; handlers run before the commit; the count is updated, else
created, else updated again. Correct when what is cached at rest is what a fresh read
would give, answers are the tenant's own, counts are exact.

*Queries* (`backends/*.py`, `services/pins.py`, `services/boosts.py`,
`query.py`, `pagination.py`). State: none of their own; a caller's loop over pages is a
computation of many steps over an index that others change. Seven backends must
read one filter, one sort and one page alike. Correct when the right documents are
deleted, shown once, in order, with their own score.

*Intelligence* (`services/analytics.py`, `services/intelligence.py`, `services/click_tracking.py`,
commands). State: daily counts of queries and clicks, learned rewrites. Hard: a
report is several statements; a command looks for a rewrite and then creates it;
the roll-up reads, writes and deletes. Correct when learned rewrites help, no
click is lost or counted twice, and reports show what was counted.

*Views, admin, checks, setup commands, test helpers*: user interface, configuration.

### icv-sitemaps

*Generation* (`services/generation.py`, `tasks.py`, `auto_sections.py`). State: the section's
`is_stale`, its file records, its run log; shards and the index file in a
storage. Operations: signal handlers set the flag; a task regenerates stale
sections (hourly) or all (daily); a generation reads the rows in batches by
primary key, writes shards up to two limits, replaces the records, deletes files
no longer written, clears the flag, rewrites the index; the index view generates
a missing index; a weekly task deletes files without a record. Hard: no
transaction spans any of it, a storage write is a delete and a save, workers and
the cleanup overlap. Correct when a section without the flag is served exactly,
every row is in one shard, and the daily run repairs whatever happened.

*Redirects and 404 log*, *discovery files* (`robots.txt`, `ads.txt`, `llms.txt`,
`security.txt`). State: rules and texts, five caches with one protocol (fill on read,
delete on change), the 404 log with its hits. Hard: the change is seen by the
handler before it is committed; a hit is an update, a read, a save and a create of
several requests. Correct when caches at rest are right and every 404 is counted.

*Ping, admin, commands*: HTTP notifications and user interface.

### icv-taxonomy

*Vocabularies, terms, relationships, tagging* (`models.py`, `services/`). State: terms are
tree nodes whose default manager hides inactive rows; tags; relationships, of which a
reciprocal one is two rows. Operations: create, move, update, deactivate, merge, delete;
tag, replace, bulk tag, clean up; relate, unrelate; change a vocabulary. Hard: services
check and then write, with instances their callers loaded before; merging
reads tags and relationships and writes what it made of them; the two rows of a pair
are not one transaction.
Correct when nesting keeps to the vocabulary's rules, objects keep their terms
within its cardinality, and pairs stay pairs.

*Import / export, admin, checks, commands*: serialisation and repair.

### icv-core and django-boundary

*Soft delete, audit, context* (`icv_core`): single-row operations, a thread-local
context, field diffs taken in signals. *Deprecated tenancy and the rest*: superseded.
*Tenant context, middleware, Celery* (`boundary/context.py`, `middleware.py`, `celery.py`,
`models.py`). State: a context variable and a database session variable that must
agree over nested contexts, requests and tasks; the second lives as long as a
transaction. Correct when a query sees its tenant's rows, all of them and no others.
*Resolvers*: a per-process LRU cache, invalidated by signals of the tenant model and by calls.
*Row-level security migrations, commands*: SQL text run by PostgreSQL.

## 2 Modules and code

| Module | Models | Extends |
| --- | --- | --- |
| `TreeOps` | the rows of a tree table and the pure part of its services | community modules |
| `Tree` | sessions that insert, move, save, delete and rebuild | `TreeOps` |
| `MCTree`, `TreeProofs` | constants for TLC; types, the forest property, sibling orders, exact moves, rebuild | `Tree` |
| `Delivery` | what a bulk call promises its caller | `Naturals` |
| `BulkIndex` | `bulk_index` with its threads, an implementation of `Delivery` | community modules |
| `AutoIndex` | signal handlers, debounce buffer, flushes and tasks against one engine | standard modules |
| `MCAutoIndex`, `AutoIndexProofs` | symmetry; agreement of engine and rows, who attends to the buffer | `AutoIndex` |
| `Engine` | what each backend's methods do to the indexes of an engine | `Naturals` |
| `SearchIndexes` | one index: row, settings, documents, reindexes, sync tasks | `Engine` |
| `MCSearchIndexes`, `SearchIndexesProofs` | deployments; the live index is exact, right documents stay | `SearchIndexes` |
| `SearchRequests` | a search with its rules, caches and counts | standard modules |
| `MCSearchRequests`, `SearchRequestsProofs` | deployments; results, rules, answers and counts; bulk indexing: exactly once, blocked only after an error, `Delivery` implemented | `SearchRequests`, `BulkIndex` |
| `Sorting` | the list of a finite set in an order | community modules |
| `Filters` | what each backend makes of a filter and of a sort | community modules |
| `Queries`, `MCQueries` | deletions by filter, reading page by page, pins and boosts | `Filters`, `Sorting` |
| `Intelligence`, `MCIntelligence` | counts, reports, learned rewrites, clicks | `Sorting` |
| `SearchProofs` | deletions, pages, hits; clicks, learned rewrites, reports | `Queries`, `Intelligence` |
| `Sitemap` | sections, workers, failures, index, cleanup | standard modules |
| `MCSitemap`, `SitemapProofs` | symmetry; keyset pagination, shard limits, fresh sections and index | `Sitemap` |
| `TenantContext` | the context of a thread and the variable of its connection | `Sequences` |
| `SiteRequests` | requests, tasks and commands of a multi-tenant site with its files | `TenantContext` |
| `MCSiteRequests`, `SiteRequestsProofs` | deployments; rows of queries, files, tenants and 404s | `SiteRequests` |
| `TermLinks` | tags and relationships of terms, and what a merge does to them | - |
| `Taxonomy` | vocabularies, terms, tags, relationships under two sessions | `TreeOps`, `TermLinks` |
| `MCTaxonomy`, `TaxonomyProofs` | vocabularies and terms for TLC; pairs stay pairs, tags fit their vocabularies | `Taxonomy` |

Packages meet where the modules do: `Taxonomy` is a tree of `TreeOps` whose manager
hides rows; `SiteRequests` runs the middleware of django-boundary and of icv-sitemaps in
one request; `SearchIndexes` and `Queries` see the seven backends through `Engine` and
`Filters`.

Three conventions. A service that makes several calls to other systems is a list
of steps (`todo` in `SearchIndexes` and `SiteRequests`; the step it is `at` elsewhere): between two
of them everything else may happen. A *deployment* (`dep`) is a choice of backend and
settings, made once in `Init`; `Deployments` lists those a run explores, with the calls
that are used there and how many. A history variable (`gap`, `broken`, `drift`, `missed`, `span`,
`lost`, `why` and the like) remembers a named cause for which the code is known not
to keep a property; the step that is the cause sets it and no guard reads it, and the
property says that there is no other cause.

**TreeOps, Tree.** A table is a function from the keys in it to rows, a path the
sequence of its steps: `"0001/0003"` is `<<1, 3>>`, the test
`startswith(path + "/")` is `IsStrictPrefix`. The `__MOVING_` placeholder is a step 0 in front (it
counts for four steps against the 255 characters), the `__rebuild_n__` placeholder
is `<<-n>>`. `Moved` is `move_to`: placeholder, `ShiftSiblings` down at the source, up
at the target, the row, the subtree - in the code's order, with the subtree of a
sibling found by its *computed* path as in the code. A session loads instances
(`BeginMove`, `BeginEdit`, `BeginDelete`, `BeginInsert`) and applies them later
(`CommitMove`, `PreSave...` then `WriteRow`, `CommitDelete`, `CommitInsert`); other sessions run
in between, which makes what it holds old. The transaction inside a service is
one step. The foreign key, the non-negative order and the length of a path are
`Storable`: a violation rolls back.

**BulkIndex, Delivery.** One step per call of the queue, the event or the engine.
`at[w]` is where a sender is in its loop (`loop` tests the event, `get` waits with a
timeout, `send` calls the engine), `caller` where the caller is; `broken` is `pills` with an
exception of the iterable in flight. A send that raises may have reached the
engine all the same. `Delivery` is the call as its caller sees it: batches reach the engine
at most once while it is open, it returns only when all have and nothing failed, and
raises only when something has. `Delivers` instantiates it with `received <- engine` and with
`trouble` and `outcome` defined from the errors and the caller.

**AutoIndex.** Every change of a row gets a number, and a row, its document and the
engine's copy are that number, or 0 when there is none; so "the engine agrees" is
an equation. A client is in its handler (`client[c].at`): `HandleChange` is the write of
the row and the dispatch of `_handle_post_save`, `_handle_post_delete`,
`_index_instance` and `_remove_instance`; `ReadBuffer`, `WriteBuffer`, `CheckMarker`,
`ScheduleFlush`, `SetMarker`, `ScheduleError` and `DropBuffer` are the calls of
`_debounce_document` in its order; `CallEngine` is `index_documents` or
`remove_documents`, `Delay` the `.delay(...)` of a task. A change may be in a transaction
(`atomic`): its row is locked, the handler runs first, `Commit` or `Rollback` follows.
`FlushReads`, `FlushClears`, `FlushSends` are the three calls of `flush_debounce_buffer`,
`RunTask` and `RetryTask` the tasks. `EngineError`, `BrokerError`, `FlushFails`, `FlushKilled`,
`LoseFlush`, `LoseTask`, `ExpireBuffer` and `ExpireMarker` are the ways in which a call fails or
an entry goes.

**Engine, SearchIndexes.** An engine is a function from index names to an index: whether
it knows it, its settings, and for each row the version its document was built from. Each method
of each backend is an operator that returns the engine and whether it raised: strict
engines answer 404 for an unknown index, Meilisearch makes one of any document,
PostgreSQL keeps documents of names it does not know, and each carries another part of the
settings. Four settings are told apart (one every engine takes, one that some do not empty,
one under its new and its old name). A caller runs `create_index` (`InsertSteps`), an update, a delete,
`reindex_all` (`AllSteps`: clear, read, fill), `reindex_zero_downtime` (`ZeroSteps`: create, configure,
read, fill, swap, delete), or the write of a row with its handler; `SyncTask` and `SyncAll` are
the tasks. `Save` and `Notify` are `save()` and its `post_save` handler, `Mark` the update of `is_synced`,
`Succeed` / `Fail` / `Fault` an engine call that succeeds, is refused, or raises with or without
effect; `Kill` ends a caller. `Instances` are the copies of the row a caller may pass on.
`gap` are the rows whose document may be wrong: written and not yet sent, or undone by a reindex that had
read them before. Reindexes may overlap, so a row that one of them has undone stays a gap after another has
filled (`Unread`, `Undone` note it in the calls that still hold rows). `clearing` are the documents that OpenSearch has
still to delete after `clear_documents` has returned (`ReturnEarly`): `DeleteByQuery` removes them one by one, of
whatever version, or stops. A swap on Meilisearch exchanges the indexes only when both exist (`Exchanges`).

**SearchRequests.** The documents of a tenant are a version: `content` is what the engine has accepted, `served` what a search
finds, which follows later (`Apply`) where a call only enqueues (Meilisearch) or waits for a refresh (OpenSearch). An entry of the
cache is the version it was computed from. `Get`, `Find`, `Set`, `KeysetRead`, `KeysetWrite` are the search with its
cache, `KeysetKnown`, `DeleteMany`, `KeysetDelete` the invalidation, `RulesGet`, `RulesRead`, `RulesSet`, `RuleWrite`,
`RulesDelete` the rules and their cache, `CountUpdate` and `CountCreate` (with `count_again` when the
row was there) the daily count. `Commit` ends a request under `ATOMIC_REQUESTS`: what it wrote
is seen by others only then, and its handlers have run before. Until then `counted` remembers what
the transaction has counted, for each row of the daily counts: other counts of such a row wait
(`Locked`), a row it has inserted is not seen (`Hidden`), and a roll-back takes all of it back.

**Filters, Queries.** A document is the value of one field, a number, text, boolean or
nothing (null or absent); a condition is a lookup with a value. For each backend one
operator says which documents its translation finds; `Strays` are those it treats
differently from what the condition says (`Means`): OpenSearch maps filterable and sortable fields to
`keyword`, so that it compares numbers as texts (`keyword`: of the two numbers the larger comes first, as 10 before 9). `Delete`, `CollectFirstPage`, `CollectPage`, `DeleteIds`
are the loop of `delete_documents_by_filter`, with writes in between; the last may leave documents out (`kept`); `ReadPage` reads by offset, by
page number or with the paginator; `Search`, the pins and `Boosted` rearrange one page with its
scores and highlights.

**Intelligence.** Counts for each day, tenant and query. A `Search` may have a filter that leaves nothing
(`narrowed`): it is counted under the bare query. `BeginLearn` is the reading part of
`auto_create_rewrites`, `CheckExisting` and `CreateRewrite` its loop; `BeginRoll`, `WriteGroup`, `DeleteRaw` the
command that rolls up clicks; `ReadWeeks`, `ReadClicked`, `ReadRows` the statements of
`get_demand_signals`, `ReadStats` and `ReadPairs` those of `cluster_queries` with its union-find (`Find`, `Union`),
`ReadSearches` / `ReadRatio`, `ReadTop` / `ReadTopRatio` the click-through reports.

**Sitemap.** A row is its primary key, a shard the set of rows it lists, a path a
section and a sequence number. `run[w]` is the call in progress in a worker: the
place, what is still to do, the last key read (`last`), the batch (`chunk`), the
open shard (`shard`), the closed ones (`new`), the records seen at the start (`old`).
One step is one statement or one storage call: `BeginSection`, `ReadChunk`
(`filter(pk__gt=last).order_by("pk")[:batch]`), `WriteEntry`, `CloseShard` /
`CloseLastShard` (the delete of the destination) and `SaveShard` (the save),
`DeleteRecords`, `CreateRecord`, `RemoveStaleFiles`, `SaveSection`, `ReadRecords`, `SwapOut`,
`SwapIn`. `Add` and `Remove` change a queryset in between, `MarkSectionStale` is the
handler that follows. In a transaction the handler comes first (`Opens`): it sets the flag and holds the
section's row until the end, or finds the flag set and does nothing (`open[s]`); then `EndsTransaction`. The limit of bytes is `SplitsEarly`: a shard may be closed
before it has `MaxUrls` rows. `FailsBeforeTry`, `GenerationFails`, `IndexFails`, `Crash` and
`MarkFails` are the ways to fail.

**TenantContext, SiteRequests.** A session is the tenant of the context variable, the value
of the database variable, the tenants that tokens will restore, and whether a transaction is open:
`set_config(..., true)` lasts to its end and has no effect outside one. A request is `ResolveSteps`
(the resolver's cache of its process, then the table), `Enter` (the middleware), the
redirect look-up in the cached rules, the view (a query, a nested `using` or token, a
discovery file), the 404 log, `Leave`. `txn` places its transaction around the
middleware, around the view (`ATOMIC_REQUESTS`) or nowhere. `RunTask` and `RunAll` are Celery's
`tenant_task` and commands for every tenant. `SwitchTenant` and `Deprovision` change and remove a tenant, with the
signal that invalidates the resolvers' cache (`Forget`) after the commit, before it, or missing; `Change` are the writers of
rules and texts with their handlers before or after the commit (`Draft`, `Publish`), and edits that `Move` a row to another
tenant, ads file or file type. A text that was moved away has a negative version. A row of the
404 log is known by its primary key: `record_404` updates and refreshes by it, so that a row which was
deleted and made again meanwhile is another one.

**TermLinks, Taxonomy.** Tags and relationships are sets of records, for their tables have a
unique constraint. A session holds the instances it has loaded (`row`, `orow`, `live`, `voc`);
services read in one step and write in a later one: `BeginCreate`, `CheckCreate`, `InsertTerm`;
`BeginMove`, `CommitMove`; `BeginSave`, `BeginReparent`, `SaveActive`, `SaveParent`; `BeginMerge`, `ReadMerge`, `CommitMerge` (one
transaction, which writes by primary key: `fetched` follows what others have made of each row since it was read); `EditRow` (the admin); `BeginTag`, `CheckTag`, `InsertTag`; `Relate`, `Unrelate` and `SecondRelate` (two statements
without a transaction); `Import`, `Cleanup`, `FixTypes`, `FixPaths`. `AfterMove` and the save of a new parent
are `move_to` on the rows the default manager shows.

## 3 The runs

Each of the twelve runs explores its whole state space; distinct states in brackets.

| Run | Question | Bounds |
| --- | --- | --- |
| `tree_sequential` (45 338) | One session: are the orders always 0, 1, 2, ...? | 4 nodes, 6 operations, one scope |
| `tree_concurrent` (144 895) | Two sessions with old instances, crashes, batch deletes: which operations keep a forest a forest and an exact table exact; is `rebuild` exact on whatever they leave? | 3 nodes, 5 operations, paths of 6 steps, so that a placeholder can be too long |
| `bulk_index` (8 740) | Is the call a `Delivery`; does it end or get stuck, and stuck only after an error? | 2 senders, 6 batches, 2 failed sends, a failing source |
| `auto_index` (3 950 471, symmetric) | In each setting of debounce and async: does the engine agree with every row at rest, but for the named gaps; when is a buffer left to nobody? | 2 rows, 2 clients, 2 workers, 3 changes, 1 retry, 1 failure, loss, kill, roll-back or eviction |
| `search_indexes` (1 756 764, symmetric) | Does `is_synced` tell the truth; is the live index exact at rest; does a zero-downtime reindex ever take a right document away? | 1 row, 2 callers, 8 deployments on 7 backends, 2 overlapping calls (on one 3, the third while another is under way) or 1 with up to 2 after it, 1 retry, 1 fault or kill |
| `search_requests` (2 012 694, symmetric) | Is what is cached at rest fresh, are answers the tenant's and not old, are counts exact? | 2 clients, 2 tenants, 16 deployments, 2 overlapping calls and one at rest, 2 versions, 1 expiry or kill |
| `queries` (1 410 279) | Do the backends delete, show and score what the filter asks for? | 3 documents, pages of 2 (asked for, or an engine's own), one condition, 7 backends, 1 write during a deletion |
| `intelligence` (1 008 317, symmetric) | Do learned rewrites help, is each click counted once, do reports lie between what was and what is counted? | 3 queries, 2 tenants, up to 3 days, 2 commands, 9 deployments, each with bounds on its events |
| `sitemap_workers` (1 801 848, symmetric) | Two workers, the cleanup, the view, failures and kills: is an unflagged section served exactly, unless two generations, or one and the cleanup, overlapped? | 1 section, 1 row, 1 change, 1 failure |
| `sitemap_recovers` (1 228 492) | One worker: does a generation list each row that stays once, within the limits; does the index match between tasks; after the last change and failure, does the daily run bring everything up to date for good? | 2 sections, 2 rows, batches and shards of 1, 1 change, 1 failure or kill, forced runs, the view |
| `site_requests` (1 022 534, symmetric) | Do queries see the tenant's rows; are cached tenants, rules and texts right at rest; is every 404 counted? | 2 clients, 2 tenants, 2 processes, 30 deployments, 2 overlapping calls and one at rest, 1 expiry or kill |
| `taxonomy` (440 178, symmetric) | Do the rules of vocabularies hold, objects keep their terms and pairs stay pairs? | 8 terms in 2 vocabularies, 2 objects, 2 sessions, 15 deployments, 3 or 4 calls |

*Why these bounds are enough.* In a tree three nodes make a chain, two siblings
with a child, and a move that closes a gap above its target; four give a subtree
that moves past a sibling with children. Two sessions are all that one stale
instance needs. Six batches exceed the queue (three places) and the hands of two
senders, so that the caller waits for room. Shards of one row make a second shard
of two rows, a batch that ends where a shard does, and a last batch that is empty.
Two rows are one that a step is about and one that it might lose by the
way (a lost update of the buffer takes another row's document); three changes are
an old document, a newer one of the same row and one of another row; two clients
and two workers make every pair of overlapping calls, and the clients are free
again after their first change. In the models with deployments two calls overlap and a
third starts at rest, from whatever the two have left; a deployment holds the calls that
share state (a cache and its writers, a cardinality and its taggings), because calls that
share none only multiply the states. Three documents make a full page and one more, two
that tie and one without a value; three queries make a chain of likeness that joins two
queries which are not alike.
The counters `ops`, `changes`, `begun`, `times`, `faults` and `failures` only bound the behaviours; no
action but their own guard reads them. The proofs remove the bounds for what they cover.

*Deadlock* is switched off in every run because every model may stop: operations
and changes are bounded, a bulk call ends, and one that is stuck is what
`EndsOrStuck` speaks about.

*Fairness.* `BulkIndex`: weak fairness of each thread - the operating system
schedules threads that can run, and the `get` has a timeout, so that a sender is
never blocked for good. `Sitemap`: weak fairness of a worker's steps (a task that was
started goes on), of the handlers (they run in the request that changed the
row) and of the end of a transaction (it ends with its request), strong fairness of `RegenerateAll`: the scheduler starts the daily task again
and again although other tasks keep a worker busy in between; weak fairness would
ask for a worker that stays idle. Nothing is assumed about the hourly task, the view
or the cleanup. `Recovers` is checked for one worker: two whose daily tasks overlap may disturb
each other again every day, and nothing in the code or in Celery's schedule excludes that.
The other models state safety only and need no fairness: their tasks are retried
a bounded number of times and may then be lost, so nothing must eventually happen.

*Properties worth a remark.*
- `ExactKept` says when an operation keeps a table exact, and has the one
  condition under which the code does (`~NewParentShifts`, section 5).
- `ForestKept` says that the path-prefix test of `move_to` is as good as a walk
  along the parent key - on a table that `check_tree_integrity` finds clean,
  though that check never looks at the orders.
- `RebuildExactUnlessPlaceholder` is over every table that the other operations, stale
  ones included, can leave. Its condition `PathsFit` is what the proof asked for: a tree deeper than the path
  column has steps is not rebuilt, the transaction rolls back.
- `Delivers` is a refinement: every step of the threads is a step of `Delivery` or
  changes nothing the caller can see.
- `AgreesUnlessGap` names when the engine may be wrong for good: the row's last change
  overlapped an older one of that row which is not in the buffer with it (two
  sends in either order, a removal beside a buffered save), was rolled
  back after it had been sent, was skipped, or was lost by an error, an eviction
  or another client's or flush's write to the buffer. None of these exceptions can be
  dropped: without any one of them TLC finds a counterexample. Everything else agrees,
  and a later change without a gap repairs the row.
- `UnattendedOnlyByMarker` says who will flush a buffer: a flush scheduled, a flush that
  has read but not cleared, or a client about to schedule one. The only way
  round it is the marker - or a flush that is lost.
- `ServedStaysServed` is the promise of a zero-downtime reindex as an action property: no step
  takes a right document away.
- `ResultsFresh`, `RulesFresh`, `TenantsFresh` and `FilesFresh` are one statement about four caches with
  four protocols; their lists of causes differ, and that is what they show. Of the
  discovery files only `set_discovery_file_content` deletes after its transaction, if no other surrounds it.
  In `RowsRight` the second half is the one that says something: that no foreign row is read is nearly the query itself.
- `RowsRight` relates two copies of one fact, the context and the connection, over every
  nesting of requests, tasks, tokens and transactions.
- `PairsKept` holds at rest for every relationship that no killed, overlapping or one-row
  call has touched, nor a merge that had read it before another call or an editor moved it;
  other merges rename both rows of a pair or neither.
- `FreshUnlessMissed` names its exceptions, each a race of the code (section 5); it says that
  failures and kills at every step add none to them.
- Every property has a mutant in `PROJECT.json`: a plausible bug in one mapped
  definition that TLC finds with the same configuration.

## 4 The proofs

33 876 obligations, none left out. The assumptions are the named `ASSUME`s on the
constants: finite sets, numbers where numbers are meant, limits above zero.

**TreeProofs.** `TypeCorrect` (`Spec => []TypeOK`): the point is that orders and depths
stay natural numbers, whatever old instances are applied, because `Storable` rolls
back what is negative and every other order is a count or one more. `TypeOK` is not
inductive: writing a held row needs that its key was given out, hence
`IInv == TypeOK /\ HeldKeys`. `ForestCorrect` (`Spec => ForestKept`): a cycle would need the
moved row above its target; on a clean table every ancestor's path is a strict
prefix, which the code's test excludes. The lemmas on `Forest` speak of sets closed
under parents, so no induction over data is needed.
`RebuildCorrect` (`Spec => RebuildExactUnlessPlaceholder`) holds for any scopes too. A row is reached from a root, for
else the rows that are not would be a cycle (`ForestIsRooted`; that every parent exists is the invariant `Parented`). The rows above
a row have the levels 1, 2, ..., each once (`StepsOfLine`), so a rebuilt path is the parent's and one step more
(`RebuiltPaths`). Ranks of siblings are different and below their number, whatever sequence the database returns equal orders in
(`RanksDiffer`).
The other two are about one numbering (`OneScope`: no `tree_scope_field`); with two scopes they are false of the
code, whose prefix queries and renumbering look at the roots of all scopes together. `ExactCorrect` (`Spec => ExactKept`) is the arithmetic of
`move_to`: `Spelled(d, R)` says that the rows `R` spell the chain of orders above them; closing the gap, making
room and placing the subtree each keep it (`GapClosedFacts`, `RoomMadeFacts`, `MovedIsSpelled`), because the subtree that
each sibling's *computed* path finds is that sibling's own (`ShiftSiblings` among spelled rows) and no two siblings'
subtrees meet. `OrdersCorrect` (`Spec => []OrdersContiguous`) is about orders and parents alone, for `Sequential`:
one caller, no `queryset.delete()` of several rows, no crash between the statements of a call - without
each of these the code leaves gaps. `Numbered(d)` (distinct orders below the number of siblings, which by counting are all of them)
holds between calls; during a save it holds of the table with the row to be written, and during a delete `Closing` says that the
table is `Gapped` where one signal will close it, and that every other signal is about a parent whose children are gone.

**SearchRequestsProofs: bulk indexing.** `ReturnedIsIndexed`, `NeverSentTwice`, `StuckCorrect`, `TypeCorrect` and
`ImplementsPromise` (`BulkSpec => Delivers`), for any number of senders and batches. The
invariant: `OnePlace` (a batch is in the queue once, or in one
hand, or at the engine once, never in two of these), `NotLost` (without an error,
every batch that was put is in one of them), `PillsLast` (behind a pill there are
only pills) and `Places` (where threads may be, and that the event is set when and
only when a send has failed). When a sender has taken a pill
without an error, the queue holds no batch any more; so when all are done every
batch is at the engine. `PillsCounted` adds that without an error the pills put are those
at the end of the queue and one for each sender that has ended: if all have, all pills
were put, and nobody waits. The refinement needs no more than this: a batch in a hand
has not reached the engine, an error stands for a failed send, and when the call ends
nobody sends.

**AutoIndexProofs.** `AgreesCorrect` (`Spec => []AgreesUnlessGap`), `UnattendedCorrect` and
`TypeCorrect`, for any rows, clients, workers, retries and failures. `AgreesUnlessGap` speaks of
rows at rest only, so the invariant must say what is true on the way:
`Coherent(d)`, for each row without a gap. There is a target `v`, the committed row or
what the open transaction on it will make of it (`Target`); everything of `d` that is on its
way - in a handler, a task, a flush, the buffer - is `v` where it counts, that is in
its last copy (`Agreed`); and when nothing is left to send (`Delivered`), the engine holds
`v`. A client with a newer document that is not yet in the buffer is the
exception, and it is then the only one that holds anything of `d` outside the
buffer (`Alone`). `LastCopies` (a document in a buffer has a last copy) stands for the induction
over sequences; `OneLock` is the row lock. `FrameKeeps` carries
`Coherent` over a step for all rows that the step is not about; each action has a
lemma of its own. `UnattendedOnlyByMarker` is inductive with the types alone.

**SitemapProofs.** `KeysetCorrect` (`Spec => []KeysetExact`) and `LimitsCorrect`
(`Spec => []ShardLimits`) for any sections, rows, workers, batch size and limit. `GenerationCorrect` is the
invariant behind both: `Reading` says that of the rows up to the last key read,
each that stayed is written or in the current batch, and the batch lies behind
all that is written; rows that come later with a smaller key are rightly
missed, rows with a greater key will be read. `Separate` keeps shards disjoint,
`Limits` follows an empty shard to the only place where it may be saved. The lemmas
come in pairs: `...Facts` is about the record before and after, `...Keeps` lifts it to
the step. `SectionsAreFresh` (`Spec => []FreshUnlessMissed`) adds `JInv`: a section nobody has named, marked or
generates is `Exact`, and the cleanup spares its files (`Upheld`); a generation that was not forced
finds its section named as long as it lasts (`Flagged`), so one that fails leaves the flag; one that is
alone keeps what it has written (`Apart`, `InPlace`), so with rows that held still its end is exact; and a
record that is in another's way has a worker behind it that is further, or the section is named
(`Explained`), so a conflict never ends the last generation. `IndexIsCurrent` (`IndexMatches`) is stated for
one worker, as its run is: of two, the one that read the records first may be the last to save its list.

**TaxonomyProofs.** `PairsCorrect` (`Spec => []PairsKept`) for any terms, vocabularies,
objects, sessions and deployments. `PairsKept` speaks of rest; between the two statements of a
call one row of a pair is alone. The invariant is `PairedBut`: relationships are irreflexive,
and every row whose terms are not marked has its mirror, but for the *lonely* rows that a
call in progress will complete or remove with its second statement. `CallsOK` says what such a
call holds, `WhyOK` that marks only grow. A step that adds or removes rows on terms it marks is
harmless (`Harmless`); a merge maps each row and its mirror to the same two rows or to none, where
they are still what it has read, and marks the terms of rows that came after or were moved meanwhile.
`TagsStay` (`Spec => []TagsRight`): the deployments start with at most one tag per object in a single-term vocabulary
(`DeploymentsAssumption`). The invariant `TagInv` drops the rest state: `OneEach`, `Homes` and `Gone` hold while calls are under way,
and what these calls have read is tied to the table only by causes. `TagCall`: a tag about to be inserted was alone in what
its call read, so that it is alone in the table or the causes name the race. `MergeVoc`: a merge that writes is within
one vocabulary, hence moves a tag to a term that counts as much. `NewTerm`: a primary key given out to a create is no row yet, and so
is not merged away. `MergeKeepsLinks` is the step that matters: a tag of the source moves, stays because it was not
read, or is deleted because the target had it when it was read; in the last case the object keeps a term only if the target's
tag is still there.
`NestingStays` (`Spec => []NestingRight`): the services compare the depth *column* with the limit, the property
counts the terms above one along the parent key. `NestInv` ties them together: in a vocabulary without a cause every
depth is the parent's and one more (`Level`) and no set of terms is closed under parents (`Loose`), so that both counts
agree (`DepthRight`) and the limit holds of the column (`Fits`). No step changes the parent or depth of a term of such a
vocabulary, so the work is with what is new: a create has been checked against settings that still stand, or
the causes say not (`CreateCall`); a save of an old instance brings the parent the table has (`SaveCall`), which is why a create
and a save never hold one key (`Apart`); an import gives new terms parents that were there. Merges and moves write
the parent key within one vocabulary (`OtherCall`), and blame every vocabulary whose depths they touch.

**SiteRequestsProofs.** `QueriesSeeTheirTenant` (`Spec => []RowsRight`), `CachedFilesAreFresh`, `CachedTenantsAreFresh`
and `EveryMissIsCounted` (`Spec => []HitsExact`), for any clients, processes, deployments and any number of calls and
faults. The properties speak of rest; `IInv` says what calls under way still owe. A call is a list
of steps, so most of it is about what may follow what, said of neighbours that every rest of a list
inherits (`StepsRight`): no query after the end of its transaction, the deletion of an entry right behind
the change of its text, one line of steps that counts a 404. `ContextRight`: while a query is ahead the context
is the tenant that is meant, and the session variable too unless a cause is known. `FilesFollow`,
`TenantsFollow`: an outdated entry without a cause is about to be deleted. `LogsRight` is a ledger: hits, losses and
the 404s that calls still owe (`Owing`) are those that are due; it needs the row lock (`LocksOnce`) and what a
transaction remembers of the row it holds (`LocksRight`, `RowsRemembered`), for a roll-back puts the old row back.

**SearchRequestsProofs.** `CachedResultsAreFresh` (`Spec => []ResultsFresh`), `CachedRulesAreFresh`, `AnswersAreTheirTenants`
(`Spec => []AnswersRight`) and `EverySearchIsCounted` (`Spec => []CountsExact`), for any finite set of clients, any
deployments and bounds. `ResultsFollow`: a cached result that is outdated without a cause belongs
to an index whose invalidation is under way; `KeysKnown`: that invalidation will find its key in the set of keys, or
the key is just being registered (and is then blamed if the invalidation passes by); the two need each
other, since the next step of an invalidation deletes only what it knows. `QuietRight` carries the age
of answers: a call that began while nobody invalidated finds nothing older than itself. `Placed` is
the tenant of a cached result. `Balance` is the ledger of the counts, as above. `CachesStep` reduces a step of any
action to how single entries move, how invalidations and registrations end; each action has a
lemma of its own.

**SearchIndexesProofs.** `IndexInvariant` (`Spec => []IndexInv`), `LiveIndexIsExact` (`Spec => []LiveExactUnlessGap`) and
`RightDocumentsStay` (`Spec => ServedStaysServed`), for any callers, rows, deployments and any number of calls,
faults and kills. A call is the rest of a list of steps: plain steps, then a reindex from some step on
(`Ordered`, which every tail inherits), so that the step a caller is at says what it still has to do
(`RestOfReindex`). Each method of each backend is reduced to what it does to the documents of one index
(`OutcomeEffect`). The invariant `Served`: a row outside the gap is served as it is *or* a full reindex under way
pledges it (`Sound`, `Pledges`: it has not been written since it was read, and the read holds it); what a reindex
has read is right but for the rows noted as written (`ReadsRight`); and the temporary index of the
one zero-downtime reindex that is building holds every such row already filled (`BuildRight`, `BuildsAlone`: two
builders are the cause `shared`). A clear that returns early is the cause `unwaited`, and whatever is still to be deleted has it (`Waited`). Most steps are `Harmless`: they touch the live documents of no row outside a set that
is then a gap; the clear, the read, the last fill, the swap and the write have lemmas of their own.
`SyncInvariant` and `SyncedRowsAreHeld` (`Spec => []SyncedUnlessDrift`) are the second half. The property speaks of rest; on
the way a row may say `is_synced` while the engine lacks its settings, and then some call *owes* them (`Debts`): it
has saved the row with the flag set and is still to withdraw the flag (`on_search_index_save`), or it will push
itself, and without `ICV_SEARCH_AUTO_SYNC` its failure is a cause. A call that may still push or mark has the
row as it is (`Copies`; otherwise `overtaken`), so what it brings is what the row says. `Following` ties a `mark` to the
`push` or `configure` right before it, so the flag is set only on what the engine holds (`Marks`). `TempRight` carries the
settings of the temporary index to the swap; it needs `BuildsAlone` again. `CallHolds` is the step that matters: no
method of a backend takes from the live index a setting the row has, but for the causes (`kept`, `raw`, `erased`).

**SearchProofs: queries.** `QueriesDeletesRight` (`QueriesSpec => DeletesRight`), `QueriesPagesRight`
(`QueriesSpec => []PagesRight`) and `QueriesHitsAligned` (`QueriesSpec => []HitsAligned`), for any finite set of documents,
any page size and limit, any subset of the backends and any number of writes. `FindsAsked` is the lemma on filters: where none
of the `Strays` is named, what a backend finds is what the condition asks for - seven backends, each lookup
with each kind of value. `Sorted` says that `SortedBy` lists a finite set in the order of its relation, `RankingsAre` that
every ranking of every engine has each found document once. The invariant `QueriesInv` says how far a loop has come.
`Collected`: a deletion whose engine keeps one order, and in whose index nobody wrote, has been given exactly the documents before its offset
(`GivenSoFar`), so that a page that is not full is the last one; and what it collected was asked for unless it was written
(`stale`). `ReadSoFar`: a caller that goes on where it stopped has seen one ranking from its start to its offset
(`ReadSome`, then `ReadAll`), and missing values came last in it (`ValuesLast`) and the others in their order
(`PlacesAgree`), but for the causes `missing first` and `as text`. On PostgreSQL each page may come from another
ranking; without ties there is only one (`OneRanking`), and ties are the cause `unordered`. `SideBySide`: hits are there `Once`,
scores are `Aligned` with them or there are none; a pin takes a hit out with its score and puts both back at one place
(`InsertAtIs`), a boost sorts both by one permutation.

**SearchProofs: intelligence.** `IntelligenceClicksKept` (`IntelligenceSpec => []ClicksKept`), `IntelligenceRewritesRight`
(`IntelligenceSpec => []RewritesRight`) and `IntelligenceReportsRight` (`IntelligenceSpec => []ReportsRight`), for any commands, deployments and number of days and events.
`ClicksInv`: what a roll-up has read was made, what it has done with is written (`RollHolds`), and a day that nothing
spoilt has one command at most at work, no row deleted before it and no click since it began. `LearnInv`: a count
says what the documents of its tenant answered, unless they changed since or a filter left nothing (`CountsHold`); so a query most of whose searches
found nothing finds nothing, and one of which most found something finds something, *if* one tenant's searches
were summed up (`Good`, carried from the reading over the list of suggestions to the rewrite: `LearnersGood`, `RewritesGood`). `NotYet` and
`LearnersAlone` are the other half: between the look and the creation no other command of that tenant creates. Sums over
days and tenants are finite sums of the community modules, defined by recursion over sets; what they add up to is proved from `OneMore`, which puts
induction over finite sets as the statement about sets that it is.
`ReportsInv` is the third: a report under way holds, of each statement it has made, a figure between what the counts said
when it began and what they say now (`ReportHolds`). Counts only grow while days are open, so this stays true of every report whatever
is searched or clicked (`FiguresGrow`, `ReportStays`); a statement adds the next figure (`ReportsRead`, over `WeeksRead`,
`DemandRead`, `StatsRead` and `PairsRead`). The clusters are a union-find over
pairs whose similarity was read one by one. `Rooted` says that following parents ends at a root, `UnionIs` that one union
joins two trees and nothing else, and `UnionsAre` that after all pairs, in any order, two queries have the same root exactly when a
chain of pairs joins them (`Together`); `Joined` are the roots after one union. The step from one union to the next is made for numbers only (`StepByStep`: the least
number that fails cannot exist), since the first `n` unions are a function of `n` (`UnionsExist`).

*What the proofs found.* A `CommitDelete` of a row that was already gone emptied the table of `Tree` (the least set closed
under children that holds a key which is not there was every row), and no property that TLC checked noticed, for an empty table is a
forest; the code deletes nothing, and so does the model now. `RebuildExactUnlessPlaceholder` lacked `PathsFit`. Otherwise an
invariant that could not be proved was seven times a finding:
a row of the 404 log inserted again after a roll-back had the key of the old one (`SiteRequests`), a transaction
that counted two rows remembered one (`SearchRequests`), of three overlapping full reindexes the last forgot what
the second had undone (`SearchIndexes`, found by the failed step of `Fill`; with two overlapping calls no run
reaches it, so one deployment has three), and a merge deletes the source's tag of an object whose tag with the target is
removed between its reads and its writes, so that the object loses both (`Taxonomy`; one deployment now starts with both tags). The fifth:
a move selects the rows it rewrites by path prefix in the whole table, and roots of different vocabularies have the same paths, so that
it changes depths in another vocabulary and the next `create_term` there checks the limit against a wrong depth
(`NestingRight`; six terms and short paths could not show it, eight terms and a deployment of two vocabularies that look alike
do). The first three were mistakes of the models, which were corrected, and their properties are as they were; the next two are what
the code does, and `TagsRight` and `NestingRight` name them among their causes (`untagged`, `Crossed`). The sixth: `page()` on
an engine other than Meilisearch sends no page size either, so that a caller sees the first hits up to the engine's own limit (`PagesRight`
has the cause `few`; while that limit was larger than the index in every run, no run could show it). The seventh was a mistake of the model again: `changed`
remembered only what was still counted, and forgot with `clear_query_aggregates` that a rewrite rested on older documents.

*Only model-checked:* liveness (`Recovers`, `EndsOrStuck`): temporal proofs under
fairness are out of the prover's reach. Every invariant and every action property that a run checks is stated by a theorem.

## 5 Observations

What the models show about the code, where it differs from what a reader, a docstring
or a page of the documentation expects. Each is a cause that some property excludes by name
or a remark about a line; none is excluded silently.

**icv-tree.** `_reorder_siblings_after_removal` (`mutations.py:101`) closes the gap of a delete in
`order` and leaves the paths, and the next insert numbers itself by a count of siblings: insert a, b,
delete a, insert c gives b and c the path `0002`. `mutations.py:8` says "The path field has a unique
constraint", `models.py:223` "paths are globally unique"; the column has only an index. - The cycle test
(`mutations.py:293`) compares prefixes; after a move under a *later* sibling, whose path is read before the
gap is closed, prefixes do not spell the parent key, and a node can be moved under its own
descendant, against `mutations.py:263`. - `_clear_paths_to_placeholders` (`integrity.py:380`) replaces all
paths and only rows that were wrong get one back: `rebuild` of a table in which some rows are right
leaves these with a placeholder. - `_rebuild_cte` refers to a column its recursive query does not
have. - Siblings are selected by parent alone (`mutations.py:356`): a move or delete of a root
renumbers the roots of every `tree_scope_field`; icv-taxonomy has one scope for each vocabulary. - Deleting an
instance whose row is already gone sends `post_delete` again, and the gap is closed twice (`handlers.py:199`).

**Bulk indexing.** When the senders have ended on an error and the queue is full, the caller
waits in `put` forever and the error is never raised (`documents.py:379`, `394`). `EndsOrStuck` has this
exit and `StuckOnlyAfterError` bounds it.

**Automatic indexing.** The marker is set after the flush was
scheduled and lives as long as its countdown, so it is still there when the flush has
run: a document saved in that time waits until another save finds the marker gone,
or expires after three windows, although the docstring (`auto_index.py:162`) says
that each save "schedules (or re-schedules)" a flush. The flush says "Atomically read
and clear the buffer" (`tasks.py:182`) and does it in two calls. A removal leaves the
row's document in the buffer, and the flush indexes it again. A flush that cannot
be scheduled deletes the documents of other saves. A document is sent before its
transaction commits. A client that is killed between its write of the buffer and the scheduling (`auto_index.py:192`, `199`)
leaves a buffer that nobody flushes.

**Index lifecycle.** A zero-downtime reindex has no effect on OpenSearch, Typesense and Solr,
whose swap is an alias that nothing reads. `reindex_all` of a tenant's index fills the index of no
tenant (`documents.py:515`). Without `AUTO_SYNC` a failed push leaves `is_synced` true. `create_index` and
reindexes push settings that were not normalised. Engines that answer 404 for an unknown index
fail the first push when `AUTO_SYNC` pushes before the index is made. A temporary index left by a killed
reindex brings deleted documents back. OpenSearch clears with `wait_for_completion=False` (`opensearch.py:396`), and
`reindex_all` refills at once: the deletion may take new documents, or stop at them and leave old ones. Stop words cannot be emptied on OpenSearch,
Typesense and Solr. Errors of single documents in a bulk call are reported as success.

**Search requests.** The handler invalidates when the engine has accepted a write, and Meilisearch, the default, applies it
later: a search in between caches the old result again. A fallback search forgets the user, the metadata and whether to log.
Merchandising reads rules of the tenant it was given and the index of the middleware's. Admin
actions change rules without a signal. `update_documents`, `bulk_index` and the zero-downtime
reindex send no invalidation. Cached answers are not logged. The key of a result has the name of
the index and not its tenant. The `IntegrityError` of a first count inside a request's
transaction loses the transaction. Pinned documents are sorted again by boosts.

**Queries.** A range over something that is not a number is left out on four backends, and a deletion
by such a filter deletes everything on the in-memory backend, PostgreSQL and Vespa. A string as
filter is ignored by two backends and raises on PostgreSQL. The query builder emits Meilisearch
syntax for all engines, against `README.md:9` of icv-search. `README.md:1042` calls deletion by
filter Meilisearch-only; `backends/base.py:95` has it for all. Each engine treats missing values
in its own way. `page()` works on Meilisearch only; `paginate()` sets the limit and no offset. PostgreSQL
pages without ORDER BY. The in-memory backend scores before it filters and sorts. Documents that change
between being collected and being removed are removed all the same. OpenSearch maps every filterable or sortable field
to `keyword` (`opensearch.py:254`): 9 passes `price__gte=10`, a deletion by it takes the 9, and 10 sorts before 9. PostgreSQL orders
`NULLS LAST`, but a stored `None` is a JSON null, which sorts first (`postgres.py:466`). Errors of single
deletions are swallowed (`typesense.py:376`, `opensearch.py:392`); Solr deletes without a commit.

**Intelligence.** A search that only its filter left without hits counts against the bare query (`search.py:150`), which may be
rewritten although it finds documents. `evidence_factor` is always 1. In the default log mode the aggregate these
reports read is empty. A command of no tenant sums over all and creates global rewrites. Clicks
are stored as typed and matched against normalised queries, so that the ratio misses those with
capitals. The recent week has eight dates, the one before it seven.

**Sitemaps.** `is_stale = False` is written at the end of a generation over marks set
during it (`generation.py:642`); a handler in a transaction that finds the flag set does nothing
(`generation.py:1096`), and when a generation that read the old rows clears the flag before the commit,
the change is never marked. Between the delete and the save of
a storage write a reader gets nothing; of two workers the one with the older list
may write the index last; a cleanup that overlaps a generation can delete a
recorded shard; a failure between the creation of the run log and the `try` leaves
the log at "running". With one worker the daily run repairs all but the log (`Recovers`).

**Tenants, redirects, discovery files.** With `ATOMIC_REQUESTS` the transaction opens after the
middleware, so that the database variable is set outside one and the policies see nothing
(`how-resolution-works.md:95` and `:115` say otherwise); tasks and commands open none either.
`clear(token)` empties the variable although the token restores an outer tenant. A change
of a tenant is forgotten in the process that makes it only, by the signal of a save or delete: an update of a queryset sends none,
and in a transaction (a delete always is) it comes before the commit, so that the old tenant can be cached again. So can old rules and
texts, and those of `set_discovery_file_content` within a request's transaction. A rule that is moved
to another tenant, an entry whose `is_app_ads` and a text whose `file_type` is edited leave the entry of the old place. `robots.txt` and `ads.txt` cache an empty text when
rendering fails. Two first 404s of a path count as one.

**Taxonomy.** Merging a term into its own child makes it its own parent; merging a term into
itself deletes its tags and relationships. A merge updates by primary key (`term_management.py:417`) relationships
read before (`369`): one that was moved meanwhile is rewritten all the same, maybe to relate a term to itself. An object that has both terms and is untagged from the target between the reads and
the writes of a merge loses the source's tag too. A merge writes only the parent column, and of active children
only. `move_term` checks neither type nor depth. `update_term(parent=...)` compares the limit
with the old depth. A move rewrites paths and depths of every vocabulary that has rows with the same path
prefix (`mutations.py:328`, `376`, `424`; `handlers.py:166`). Saving a stale instance moves the term back. A term created beside inactive
siblings takes a path that is theirs, which the unique constraint of icv-taxonomy refuses. `bulk_tag` ignores
cardinality. An import skips the children of new parents and never reactivates. A cleanup may delete
the tags of an object created meanwhile.

## 6 What is not modelled

`PROJECT.json` lists every component with its status. In the modelled ones:
- Tree: the PostgreSQL variant of `rebuild` and of the check (one recursive query
  each), batch commits of the rebuild command, multi-table inheritance, and
  interleavings *inside* a service transaction (a step is a transaction, as under
  serialisable isolation). Tree scopes are a parameter of the model; its runs use one, and so do
  the theorems on paths and orders; what a move does to the other scopes of a table shows in `Taxonomy`.
- BulkIndex: the number of documents in a batch; the progress callback is part of
  the source that may raise.
- AutoIndex: one change per transaction; the index exists; errors of the cache; the
  `IndexSyncLog` rows. A transaction whose task the broker refused
  counts as a gap although its row is rolled back. A document is in the engine when the call returns: Meilisearch applies its
tasks later, but in the order in which it got them, so that this makes no difference at rest.
- SearchIndexes: batches of a reindex are of one document; Meilisearch applies what it accepts at once (its order is that of
  the calls, so that this makes no difference at rest); discovery, statistics, the setup command.
- SearchRequests: an accepted write that the engine fails to apply; two tenants, one rule of each type, one word of preprocessing; the
  trimming of the query log, windows of validity, priorities.
- Queries: one condition on one field; HTTP, SQL and query syntax; facets, highlighting markup, vector and
  geographic search. What an engine answers to a value of another type, and its order of
  missing values, is the engine's documented behaviour and not this repository's.
- Intelligence: popular, trending, suggested and zero-result queries, statistics and trends; log mode `aggregate`; a week is one day and the minima are 1; likeness of queries is given
  and not computed from trigrams; the two statements of `suggest_synonyms` are one step.
- Sitemap: creation, deletion and deactivation of sections, the news cut-off,
  the text of entries and files, gzip, ping, byte counts (only that they may end
  a shard early), files that a storage saves under another name.
- SiteRequests: how a request names its tenant, one rule and one path; the rendering of texts; the asynchronous
  path of the tenant middleware;
  region routing; checks of a saved row's tenant.
- Taxonomy: slugs are given; `ICV_TAXONOMY_ENFORCE_VOCABULARY_TYPE` is on; the order of associations, metadata,
  signals; `update_term` and `deactivate_term` write in one step.
- Everywhere: logging, wording, configuration.

Not modelled at all: icv-tree's operations, admin and checks and icv-sitemaps' ping (presentation,
HTTP), icv-core's soft delete, audit and context (single-row operations; what other packages do on a
soft delete is modelled with them), its deprecated tenancy, and the setup and user interface of all packages.

## 7 Plan

1. One abstract cache (a table, readers with what they have read, changes) that `SearchRequests` and
   `SiteRequests` both implement but for their causes; the theorem that an entry older than the last
   change stems from a read in flight at the change.
2. `Tree` with two scopes; `Rebuild` split into its read and its write.
3. `Sitemap` with deactivated sections; audit and soft delete of icv-core.
