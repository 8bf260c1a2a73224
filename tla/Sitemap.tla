------------------------------ MODULE Sitemap ------------------------------
(***************************************************************************)
(* The generation of sitemaps in icv-sitemaps: sections whose rows change, *)
(* the flag that marks a section stale, the workers that regenerate its    *)
(* shards and the index, and the weekly cleanup of orphan files.           *)
(*                                                                         *)
(* The database (items, flags, file records) and the storage (shards,      *)
(* index) share no transaction, and generate_section opens none: a step is *)
(* one statement or one call of the storage.  A row is a number, its       *)
(* primary key; a shard is the set of the rows it lists.                   *)
(***************************************************************************)
EXTENDS Integers, FiniteSets, Sequences

CONSTANTS
  Section,
  Item,         \* primary keys of the rows that may be in a section's queryset
  Worker,       \* processes that run the tasks, the commands or the views
  BatchSize,    \* ICV_SITEMAPS_BATCH_SIZE
  MaxUrls,      \* ICV_SITEMAPS_MAX_URLS_PER_FILE
  SplitsEarly,  \* may a shard reach its limit of bytes before that of URLs?
  Ops,          \* what happens besides item changes and regeneration of stale sections
  MaxChanges,   \* bound on the item changes
  MaxFailures   \* bound on the failures and crashes

AllOps == {"force", "serve", "cleanup", "fail", "early", "crash"}

ASSUME SectionAssumption == Section # {} /\ IsFiniteSet(Section)
ASSUME ItemAssumption    == Item \subseteq Nat \ {0} /\ IsFiniteSet(Item)
ASSUME LimitAssumption   == BatchSize \in Nat \ {0} /\ MaxUrls \in Nat \ {0}
ASSUME OpsAssumption     == Ops \subseteq AllOps /\ SplitsEarly \in BOOLEAN
ASSUME BoundAssumption   == MaxChanges \in Nat /\ MaxFailures \in Nat

VARIABLES
  items,     \* the rows in each section's queryset
  marks,     \* handlers still to mark each section after a change
  open,      \* open transactions that have changed rows of each section: whether the
             \* handler of one has set the flag, and how many found it set
  stale,     \* SitemapSection.is_stale
  files,     \* SitemapFile records of each section: sequence -> url_count
  store,     \* shards in the storage: path -> rows listed
  index,     \* the paths listed by the index file; no element when there is none
  run,       \* what each worker is doing
  span,      \* history of a generation: rows in the queryset throughout, rows in it
             \* at some time, whether no other worker generated the section nor
             \* the cleanup ran, and whether the section was not flagged
  missed,    \* history: sections whose last generation or mark may have missed a change
  cleaner,   \* cleanup_orphan_files
  changes, failures

vars == <<items, marks, open, stale, files, store, index, run, span, missed, cleaner, changes, failures>>
database == <<items, marks, open, stale, files>>
history == <<span, missed>>
counters == <<changes, failures>>

Path == Section \X Nat
Places == {"idle", "next", "entries", "save", "save last", "records", "create",
           "stats", "index", "swap out", "swap in"}

Run == [at : Places, todo : SUBSET Section, section : Section,
        last : Nat, chunk : SUBSET Item, shard : SUBSET Item,
        new : Seq(SUBSET Item), old : SUBSET Nat, made : Nat,
        listing : SUBSET Path, log : {"none", "running", "success", "failed"}]

\* A worker that is at the given place and has begun no generation yet.
Fresh(place, todo, section, log) ==
  [at |-> place, todo |-> todo, section |-> section, last |-> 0, chunk |-> {},
   shard |-> {}, new |-> <<>>, old |-> {}, made |-> 0, listing |-> {}, log |-> log]

SomeSection == CHOOSE s \in Section : TRUE

Generating == {"entries", "save", "save last", "records", "create", "stats"}

NoSpan == [always |-> {}, ever |-> {}, alone |-> TRUE, forced |-> FALSE]
NoCleanup == [at |-> "idle", known |-> {}, doomed |-> {}, index |-> FALSE]

Init ==
  /\ items \in [Section -> SUBSET Item]
  /\ marks = [s \in Section |-> 0]
  /\ open = [s \in Section |-> [held |-> FALSE, skipped |-> 0]]
  /\ stale = [s \in Section |-> TRUE]
  /\ files = [s \in Section |-> <<>>]
  /\ store = <<>>
  /\ index = {}
  /\ run = [w \in Worker |-> Fresh("idle", {}, SomeSection, "none")]
  /\ span = [w \in Worker |-> NoSpan]
  /\ missed = {}
  /\ cleaner = NoCleanup
  /\ changes = 0 /\ failures = 0

-----------------------------------------------------------------------------
(***************************************************************************)
(* The application.  A row that is saved outside a transaction enters or   *)
(* leaves the queryset of its section, then the signal handler marks the   *)
(* section.  In a transaction (ATOMIC_REQUESTS, and each deletion) the     *)
(* handler comes first: its UPDATE ... WHERE is_stale = FALSE holds the    *)
(* section's row until the end when it sets the flag, and does nothing     *)
(* when the flag is set already.                                           *)
(***************************************************************************)
Generates(w, s) == run[w].section = s /\ run[w].at \in Generating
Busy(s) == \E w \in Worker : Generates(w, s)

\* Another generation of a section of S, or the cleanup, has begun.
Disturbed(S) == [w \in Worker |->
  IF \E s \in S : Generates(w, s) THEN [span[w] EXCEPT !.alone = FALSE] ELSE span[w]]

Observed(s, I) == [w \in Worker |->
  IF Generates(w, s)
  THEN [span[w] EXCEPT !.always = @ \cap I, !.ever = @ \cup I]
  ELSE span[w]]

Change(s, I) ==
  /\ changes < MaxChanges /\ changes' = changes + 1
  /\ items' = [items EXCEPT ![s] = I]
  /\ marks' = [marks EXCEPT ![s] = @ + 1]
  /\ span' = Observed(s, I)
  /\ UNCHANGED <<open, stale, files, store, index, run, missed, cleaner, failures>>

Add(s, i) == i \notin items[s] /\ Change(s, items[s] \cup {i})
Remove(s, i) == i \in items[s] /\ Change(s, items[s] \ {i})

MarkSectionStale(s) ==
  /\ marks[s] > 0 /\ ~open[s].held
  /\ marks' = [marks EXCEPT ![s] = @ - 1]
  /\ stale' = [stale EXCEPT ![s] = TRUE]
  /\ UNCHANGED <<items, open, files, store, index, run, history, cleaner, counters>>

\* The handler logs an error of the database and goes on.
MarkFails(s) ==
  /\ "fail" \in Ops /\ failures < MaxFailures /\ failures' = failures + 1
  /\ marks[s] > 0
  /\ marks' = [marks EXCEPT ![s] = @ - 1]
  /\ missed' = missed \cup {s}
  /\ UNCHANGED <<items, open, stale, files, store, index, run, span, cleaner, changes>>

Opens(s) ==
  /\ changes < MaxChanges /\ changes' = changes + 1
  /\ ~open[s].held
  /\ open' = IF stale[s] THEN [open EXCEPT ![s].skipped = @ + 1]
                         ELSE [open EXCEPT ![s].held = TRUE]
  /\ UNCHANGED <<items, marks, stale, files, store, index, run, history, cleaner, failures>>

CommitsFlag(s, I) ==
  /\ open[s].held /\ open' = [open EXCEPT ![s].held = FALSE]
  /\ items' = [items EXCEPT ![s] = I]
  /\ stale' = [stale EXCEPT ![s] = TRUE]
  /\ span' = Observed(s, I)
  /\ UNCHANGED <<marks, files, store, index, run, missed, cleaner, counters>>

\* A generation that read the rows as they were may have cleared the flag.
CommitsRows(s, I) ==
  /\ open[s].skipped > 0 /\ open' = [open EXCEPT ![s].skipped = @ - 1]
  /\ items' = [items EXCEPT ![s] = I]
  /\ missed' = IF stale[s] THEN missed ELSE missed \cup {s}
  /\ span' = Observed(s, I)
  /\ UNCHANGED <<marks, stale, files, store, index, run, cleaner, counters>>

RollsBack(s) ==
  /\ \/ open[s].held /\ open' = [open EXCEPT ![s].held = FALSE]
     \/ open[s].skipped > 0 /\ open' = [open EXCEPT ![s].skipped = @ - 1]
  /\ UNCHANGED <<items, marks, stale, files, store, index, run, history, cleaner, counters>>

EndsTransaction(s) ==
  \/ RollsBack(s)
  \/ \E i \in Item : \E I \in {items[s] \cup {i}, items[s] \ {i}} :
       CommitsFlag(s, I) \/ CommitsRows(s, I)

-----------------------------------------------------------------------------
(***************************************************************************)
(* generate_all_sections and generate_section                              *)
(***************************************************************************)
Now(w, r) == run' = [run EXCEPT ![w] = r]
StoreWithout(S) == [p \in DOMAIN store \ S |-> store[p]]
OnlyRun == UNCHANGED <<database, store, index, history, cleaner, counters>>

\* The call of generate_section ends where it is.
Abandons(w, place, log) ==
  /\ Now(w, Fresh(place, IF place = "next" THEN run[w].todo ELSE {}, run[w].section, log))
  /\ span' = [span EXCEPT ![w] = NoSpan]

Starts(w, S) ==
  /\ run[w].at = "idle"
  /\ Now(w, Fresh("next", S, SomeSection, "none"))
  /\ OnlyRun

RegenerateStale(w) == Starts(w, {s \in Section : stale[s]})
\* Mutant: force is not passed on
RegenerateAllStale(w) == "force" \in Ops /\ Starts(w, {s \in Section : stale[s]})

RegenerateAll(w) == "force" \in Ops /\ Starts(w, Section)
RegenerateOne(w, s) == ("force" \in Ops \/ stale[s]) /\ Starts(w, {s})

EndsRun(w) ==
  /\ run[w].at = "next" /\ run[w].todo = {}
  /\ Now(w, [run[w] EXCEPT !.at = "idle"])
  /\ OnlyRun

\* Mutant: the flag is cleared first.
BeginSectionClearsFlag(w, s) ==
  /\ run[w].at = "next" /\ s \in run[w].todo
  /\ Now(w, [Fresh("entries", run[w].todo \ {s}, s, "running") EXCEPT !.old = DOMAIN files[s]])
  /\ stale' = [stale EXCEPT ![s] = FALSE]
  /\ span' = [Disturbed({s}) EXCEPT ![w] =
                [always |-> items[s], ever |-> items[s],
                 alone |-> ~Busy(s) /\ cleaner = NoCleanup,
                 forced |-> ~stale[s]]]
  /\ UNCHANGED <<items, marks, open, files, store, index, missed, cleaner, counters>>

\* Log entry, queryset, and the paths of the files recorded so far.
BeginSection(w, s) ==
  /\ run[w].at = "next" /\ s \in run[w].todo
  /\ Now(w, [Fresh("entries", run[w].todo \ {s}, s, "running") EXCEPT !.old = DOMAIN files[s]])
  /\ span' = [Disturbed({s}) EXCEPT ![w] =
                [always |-> items[s], ever |-> items[s],
                 alone |-> ~Busy(s) /\ cleaner = NoCleanup,
                 forced |-> ~stale[s]]]
  /\ UNCHANGED <<database, store, index, missed, cleaner, counters>>

\* The queryset or the storage backend raises: not inside the try block.
FailsBeforeTry(w, s) ==
  /\ "early" \in Ops /\ failures < MaxFailures /\ failures' = failures + 1
  /\ run[w].at = "next" /\ s \in run[w].todo
  /\ Now(w, Fresh("next", run[w].todo \ {s}, s, "running"))
  /\ UNCHANGED <<database, store, index, history, cleaner, changes>>

-----------------------------------------------------------------------------
(***************************************************************************)
(* _iter_section_entries and the shard writer                              *)
(***************************************************************************)
After(s, last) == {i \in items[s] : i > last}
\* Mutant: no order_by
IsBatchUnordered(C, S) ==
  C \subseteq S /\ IF Cardinality(S) <= BatchSize THEN C = S ELSE Cardinality(C) = BatchSize

\* The rows that .order_by("pk")[:batch_size] returns.
IsBatch(C, S) ==
  /\ C \subseteq S /\ \A i \in C, j \in S \ C : i < j
  /\ IF Cardinality(S) <= BatchSize THEN C = S ELSE Cardinality(C) = BatchSize

ReadChunk(w) ==
  LET r == run[w]
      S == After(r.section, r.last)
  IN /\ r.at = "entries" /\ r.chunk = {} /\ S # {}
     /\ \E C \in SUBSET S : \E m \in C :
          /\ IsBatch(C, S) /\ \A i \in C : i <= m
          /\ Now(w, [r EXCEPT !.chunk = C, !.last = m])
     /\ OnlyRun

\* Mutant: > for >= in the test of the limit
WriteEntryOneMore(w) ==
  LET r == run[w] IN
  /\ r.at = "entries"
  /\ Cardinality(r.shard) <= MaxUrls
  /\ \E i \in r.chunk :
       /\ \A j \in r.chunk : i <= j
       /\ Now(w, [r EXCEPT !.shard = @ \cup {i}, !.chunk = @ \ {i}])
  /\ OnlyRun

WriteEntry(w) ==
  LET r == run[w] IN
  /\ r.at = "entries"
  /\ Cardinality(r.shard) < MaxUrls
  /\ \E i \in r.chunk :
       /\ \A j \in r.chunk : i <= j
       /\ Now(w, [r EXCEPT !.shard = @ \cup {i}, !.chunk = @ \ {i}])
  /\ OnlyRun

PathOf(r) == <<r.section, Len(r.new)>>

\* _upload_temp_to_storage: the file at the destination is deleted first.
CloseShard(w) ==
  LET r == run[w] IN
  /\ r.at = "entries" /\ r.chunk # {}
  /\ Cardinality(r.shard) >= MaxUrls \/ (SplitsEarly /\ r.shard # {})
  /\ store' = StoreWithout({PathOf(r)})
  /\ Now(w, [r EXCEPT !.at = "save"])
  /\ UNCHANGED <<database, index, history, cleaner, counters>>

\* The rows are used up; a section without rows gets an empty file.
CloseLastShard(w) ==
  LET r == run[w] IN
  /\ r.at = "entries" /\ r.chunk = {} /\ After(r.section, r.last) = {}
  /\ IF r.shard # {} \/ r.new = <<>>
     THEN /\ store' = StoreWithout({PathOf(r)})
          /\ Now(w, [r EXCEPT !.at = "save last"])
     ELSE /\ UNCHANGED store
          /\ Now(w, [r EXCEPT !.at = "records"])
  /\ UNCHANGED <<database, index, history, cleaner, counters>>

\* storage.save gives a file whose name is taken another name.
Saved(p, content) ==
  IF p \in DOMAIN store THEN store
  ELSE [q \in DOMAIN store \cup {p} |-> IF q = p THEN content ELSE store[q]]

SaveShard(w) ==
  LET r == run[w] IN
  /\ r.at \in {"save", "save last"}
  /\ store' = Saved(PathOf(r), r.shard)
  /\ Now(w, [r EXCEPT !.at = IF r.at = "save" THEN "entries" ELSE "records",
                      !.new = Append(@, r.shard), !.shard = {}])
  /\ UNCHANGED <<database, index, history, cleaner, counters>>

-----------------------------------------------------------------------------
(***************************************************************************)
(* The records, the flag and the index                                     *)
(***************************************************************************)
\* Mutant: the records of all sections.
DeleteAllRecords(w) ==
  /\ run[w].at = "records"
  /\ files' = [s \in Section |-> <<>>]
  /\ Now(w, [run[w] EXCEPT !.at = "create"])
  /\ UNCHANGED <<items, marks, open, stale, store, index, history, cleaner, counters>>

DeleteRecords(w) ==
  /\ run[w].at = "records"
  /\ files' = [files EXCEPT ![run[w].section] = <<>>]
  /\ Now(w, [run[w] EXCEPT !.at = "create"])
  /\ UNCHANGED <<items, marks, open, stale, store, index, history, cleaner, counters>>

WithRecord(f, n, count) == [m \in DOMAIN f \cup {n} |-> IF m = n THEN count ELSE f[m]]

CreateRecord(w) ==
  LET r == run[w] IN
  /\ r.at = "create" /\ r.made < Len(r.new)
  /\ r.made \notin DOMAIN files[r.section]
  /\ files' = [files EXCEPT ![r.section] =
                 WithRecord(@, r.made, Cardinality(r.new[r.made + 1]))]
  /\ Now(w, [r EXCEPT !.made = @ + 1])
  /\ UNCHANGED <<items, marks, open, stale, store, index, history, cleaner, counters>>

\* Another worker has created the record: (section, sequence) is unique.
RecordConflict(w) ==
  /\ run[w].at = "create" /\ run[w].made < Len(run[w].new)
  /\ run[w].made \in DOMAIN files[run[w].section]
  /\ Abandons(w, "next", "failed")
  /\ UNCHANGED <<database, store, index, missed, cleaner, counters>>

\* Errors while the files of shards no longer written are deleted are ignored.
RemoveStaleFiles(w) ==
  LET r == run[w]
      gone == {<<r.section, n>> : n \in r.old \ 0..(Len(r.new) - 1)}
  IN /\ r.at = "create" /\ r.made = Len(r.new)
     /\ \E kept \in SUBSET gone :
          /\ kept # {} => "fail" \in Ops
          /\ store' = StoreWithout(gone \ kept)
     /\ Now(w, [r EXCEPT !.at = "stats"])
     /\ UNCHANGED <<database, index, history, cleaner, counters>>

\* Mutant: the index is not regenerated
SaveSectionOnly(w) ==
  LET r == run[w] IN
  /\ r.at = "stats" /\ ~open[r.section].held
  /\ stale' = [stale EXCEPT ![r.section] = FALSE]
  /\ missed' = IF span[w].always = span[w].ever /\ span[w].alone
               THEN missed \ {r.section}
               ELSE missed \cup {r.section}
  /\ span' = [span EXCEPT ![w] = NoSpan]
  /\ Now(w, Fresh("next", r.todo, r.section, "success"))
  /\ UNCHANGED <<items, marks, open, files, store, index, cleaner, counters>>

\* The flag is written whatever it is by now, once the section's row is free.
SaveSection(w) ==
  LET r == run[w] IN
  /\ r.at = "stats" /\ ~open[r.section].held
  /\ stale' = [stale EXCEPT ![r.section] = FALSE]
  /\ missed' = IF span[w].always = span[w].ever /\ span[w].alone
               THEN missed \ {r.section}
               ELSE missed \cup {r.section}
  /\ span' = [span EXCEPT ![w] = NoSpan]
  /\ Now(w, Fresh("index", r.todo, r.section, "success"))
  /\ UNCHANGED <<items, marks, open, files, store, index, cleaner, counters>>

RecordedPaths == UNION {{<<s, n>> : n \in DOMAIN files[s]} : s \in Section}

\* generate_index reads the records, deletes the file and saves the new one.
ReadRecords(w) ==
  /\ run[w].at = "index"
  /\ Now(w, [run[w] EXCEPT !.at = "swap out", !.listing = RecordedPaths])
  /\ OnlyRun

SwapOut(w) ==
  /\ run[w].at = "swap out"
  /\ index' = {}
  /\ Now(w, [run[w] EXCEPT !.at = "swap in"])
  /\ UNCHANGED <<database, store, history, cleaner, counters>>

SwapIn(w) ==
  /\ run[w].at = "swap in"
  /\ index' = IF index = {} THEN {run[w].listing} ELSE index
  /\ Now(w, [run[w] EXCEPT !.at = "next", !.listing = {}])
  /\ UNCHANGED <<database, store, history, cleaner, counters>>

\* sitemap_index_view: without an index file the request generates one.
ServeIndex(w) ==
  /\ "serve" \in Ops
  /\ run[w].at = "idle" /\ index = {}
  /\ Now(w, [run[w] EXCEPT !.at = "index"])
  /\ OnlyRun

-----------------------------------------------------------------------------
(***************************************************************************)
(* Failures.  Inside the try block an exception is logged; from            *)
(* generate_index it only propagates.  A killed worker does neither.       *)
(***************************************************************************)
Leaves(w, place, log) ==
  /\ failures < MaxFailures /\ failures' = failures + 1
  /\ Abandons(w, place, log)
  /\ missed' = IF run[w].at \in Generating /\ span[w].forced
               THEN missed \cup {run[w].section} ELSE missed
  /\ UNCHANGED <<database, store, index, cleaner, changes>>

GenerationFails(w) ==
  "fail" \in Ops /\ run[w].at \in Generating /\ Leaves(w, "next", "failed")

IndexFails(w) ==
  /\ "fail" \in Ops /\ run[w].at \in {"index", "swap out", "swap in"}
  /\ Leaves(w, "next", run[w].log)

Crash(w) ==
  "crash" \in Ops /\ run[w].at # "idle" /\ Leaves(w, "idle", run[w].log)

-----------------------------------------------------------------------------
(***************************************************************************)
(* cleanup_orphan_files: the recorded paths, then the directory, then one  *)
(* delete after the other.  The index is an XML file without a record.     *)
(***************************************************************************)
CleanupReads ==
  /\ "cleanup" \in Ops /\ cleaner.at = "idle"
  /\ cleaner' = [NoCleanup EXCEPT !.at = "list", !.known = RecordedPaths]
  /\ span' = Disturbed(Section)
  /\ UNCHANGED <<database, store, index, run, missed, counters>>

CleanupLists ==
  /\ cleaner.at = "list"
  /\ cleaner' = [NoCleanup EXCEPT !.at = "delete", !.index = index # {},
                                  !.doomed = DOMAIN store \ cleaner.known]
  /\ UNCHANGED <<database, store, index, run, history, counters>>

CleanupDeletes(p) ==
  /\ cleaner.at = "delete" /\ p \in cleaner.doomed
  /\ store' = StoreWithout({p})
  /\ cleaner' = [cleaner EXCEPT !.doomed = @ \ {p}]
  /\ UNCHANGED <<database, index, run, history, counters>>

CleanupDeletesIndex ==
  /\ cleaner.at = "delete" /\ cleaner.index
  /\ index' = {}
  /\ cleaner' = [cleaner EXCEPT !.index = FALSE]
  /\ UNCHANGED <<database, store, run, history, counters>>

CleanupEnds ==
  /\ cleaner.at = "delete" /\ cleaner.doomed = {} /\ ~cleaner.index
  /\ cleaner' = NoCleanup
  /\ UNCHANGED <<database, store, index, run, history, counters>>

-----------------------------------------------------------------------------
Application ==
  \E s \in Section :
    \/ \E i \in Item : Add(s, i) \/ Remove(s, i)
    \/ MarkSectionStale(s)
    \/ MarkFails(s)
    \/ Opens(s)
    \/ EndsTransaction(s)

StartTask(w) ==
  \/ RegenerateStale(w)
  \/ RegenerateAll(w)
  \/ \E s \in Section : RegenerateOne(w, s)
  \/ ServeIndex(w)

WorkerStep(w) ==
  \/ EndsRun(w)
  \/ \E s \in Section : BeginSection(w, s)
  \/ ReadChunk(w) \/ WriteEntry(w) \/ CloseShard(w) \/ CloseLastShard(w) \/ SaveShard(w)
  \/ DeleteRecords(w) \/ CreateRecord(w) \/ RecordConflict(w)
  \/ RemoveStaleFiles(w) \/ SaveSection(w)
  \/ ReadRecords(w) \/ SwapOut(w) \/ SwapIn(w)

Failure(w) ==
  \/ \E s \in Section : FailsBeforeTry(w, s)
  \/ GenerationFails(w) \/ IndexFails(w) \/ Crash(w)

Cleanup ==
  \/ CleanupReads \/ CleanupLists \/ CleanupDeletesIndex \/ CleanupEnds
  \/ \E p \in cleaner.doomed : CleanupDeletes(p)

Next ==
  \/ Application
  \/ \E w \in Worker : StartTask(w) \/ WorkerStep(w) \/ Failure(w)
  \/ Cleanup

Safe == Init /\ [][Next]_vars

\* A worker goes on, a handler runs, a transaction ends, and the daily task is started again and
\* again, also when other tasks keep a worker busy in between.
Spec ==
  /\ Safe
  /\ \A w \in Worker : WF_vars(WorkerStep(w)) /\ SF_vars(RegenerateAll(w))
  /\ \A s \in Section : WF_vars(MarkSectionStale(s)) /\ WF_vars(EndsTransaction(s))

-----------------------------------------------------------------------------
\* Keyset pagination and the split into shards: what one generation writes
\* has every row that was in the queryset throughout, none that never was,
\* and none twice - however the rows change under it, wherever a batch or a
\* shard ends, and whatever other workers do.
Shards(r) == {r.new[n] : n \in DOMAIN r.new}
KeysetExact ==
  \A w \in Worker : run[w].at \in {"records", "create", "stats"} =>
    LET r == run[w] IN
    /\ span[w].always \subseteq UNION Shards(r)
    /\ UNION Shards(r) \subseteq span[w].ever
    /\ \A m, n \in DOMAIN r.new : m # n => r.new[m] \cap r.new[n] = {}

\* No shard exceeds the limit of the protocol, and an empty one is written
\* only for a section without rows.
ShardLimits ==
  \A w \in Worker : \A n \in DOMAIN run[w].new :
    /\ Cardinality(run[w].new[n]) <= MaxUrls
    /\ run[w].new[n] = {} => Len(run[w].new) = 1

\* The files that the records name hold what the section holds, each row in
\* one file, with the recorded counts.
ShardsOf(s) == {<<s, n>> : n \in DOMAIN files[s]}
Exact(s) ==
  /\ ShardsOf(s) # {} /\ ShardsOf(s) \subseteq DOMAIN store
  /\ UNION {store[p] : p \in ShardsOf(s)} = items[s]
  /\ \A p \in ShardsOf(s) : Cardinality(store[p]) = files[s][p[2]]
  /\ \A p, q \in ShardsOf(s) : p # q => store[p] \cap store[q] = {}

\* A section that nobody has flagged, nor is about to, is served as it is,
\* unless rows changed under its last generation, whose end clears the flag
\* they set, two workers generated it at once, the cleanup ran meanwhile, a
\* transaction that had found the flag set committed after it was cleared, or a
\* generation forced upon a section without the flag failed or was killed.
\* Other generations that fail or are killed leave the flag.
FreshUnlessMissed ==
  \A s \in Section :
    ~stale[s] /\ marks[s] = 0 /\ s \notin missed /\ ~Busy(s) => Exact(s)

AtRest == \A w \in Worker : run[w].at = "idle"

\* Between two tasks the index lists the recorded files, unless it is missing
\* or something failed.
IndexMatches ==
  AtRest /\ failures = 0 => index \subseteq {RecordedPaths}

Served == (\A s \in Section : Exact(s)) /\ index = {RecordedPaths}

\* "Force regeneration of all active sections regardless of staleness": once
\* rows cease to change and steps to fail, the daily task has the last word
\* over lost marks, missing files and an old index.
Recovers == <>[](AtRest => Served) /\ []<>AtRest

=============================================================================
