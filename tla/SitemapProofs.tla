--------------------------- MODULE SitemapProofs ---------------------------
(***************************************************************************)
(* Proofs about Sitemap, for every number of sections, rows and workers    *)
(* and every batch size and shard limit: a generation writes every row     *)
(* that stays in the queryset once, in shards within the limit, whatever   *)
(* changes under it and whatever other workers and the cleanup do.         *)
(***************************************************************************)
EXTENDS Sitemap, FiniteSetTheorems, TLAPS

Writing == {"entries", "save", "save last"}
Done == {"records", "create", "stats"}

Written(r, i) == i \in r.shard \/ \E n \in DOMAIN r.new : i \in r.new[n]

Separate(r) ==
  /\ \A m, n \in DOMAIN r.new : m # n => r.new[m] \cap r.new[n] = {}
  /\ \A n \in DOMAIN r.new : r.new[n] \cap r.shard = {}

(***************************************************************************)
(* How far a generation is: of the rows up to the key that was read last,  *)
(* each that stayed is written or waits in the chunk, and the chunk lies   *)
(* behind what is written.  a and e are the rows that were in the queryset *)
(* throughout and at some time, I those that are in it.                    *)
(***************************************************************************)
Reading(r, a, e) ==
  /\ \A i \in Item : Written(r, i) => i \in e /\ i <= r.last /\ \A j \in r.chunk : i < j
  /\ \A j \in r.chunk : j \in e /\ j <= r.last
  /\ \A i \in a : i <= r.last => Written(r, i) \/ i \in r.chunk

Complete(r, a, e) ==
  /\ \A i \in a : Written(r, i)
  /\ \A i \in Item : Written(r, i) => i \in e

Progress(r, a, e, I) ==
  /\ r.at \in Generating => a \subseteq I /\ I \subseteq e
  /\ r.at \in Writing => Reading(r, a, e) /\ Separate(r)
  /\ r.at = "save last" => r.chunk = {} /\ \A i \in a : Written(r, i)
  /\ r.at \in Done => Complete(r, a, e) /\ Separate(r) /\ r.shard = {}

Limits(r) ==
  /\ Cardinality(r.shard) <= MaxUrls
  /\ \A n \in DOMAIN r.new : Cardinality(r.new[n]) <= MaxUrls
  /\ \A n \in DOMAIN r.new : r.new[n] = {} => Len(r.new) = 1 /\ r.at \in Done
  /\ r.at = "save" => r.shard # {}
  /\ r.at = "save last" => r.shard # {} \/ r.new = <<>>
  /\ r.at \notin Generating => r.new = <<>> /\ r.shard = {}

(***************************************************************************)
(* The inductive invariant, with the types it needs.                       *)
(***************************************************************************)
Types ==
  /\ items \in [Section -> SUBSET Item]
  /\ run \in [Worker -> Run]
  /\ span \in [Worker -> [always : SUBSET Item, ever : SUBSET Item, alone : BOOLEAN, forced : BOOLEAN]]

ProgressOf(w) ==
  Progress(run[w], span[w].always, span[w].ever, items[run[w].section])

RecordsOK ==
  /\ files = [s \in Section |-> files[s]]
  /\ \A s \in Section : DOMAIN files[s] \subseteq Nat

IInv == Types /\ RecordsOK /\ \A w \in Worker : ProgressOf(w) /\ Limits(run[w])

-----------------------------------------------------------------------------
\* A worker without a generation.
LEMMA FreshFacts ==
  ASSUME NEW p \in Places \ Generating, NEW t \in SUBSET Section, NEW s \in Section,
         NEW l \in {"none", "running", "success", "failed"}
  PROVE  /\ Fresh(p, t, s, l) \in Run
         /\ Limits(Fresh(p, t, s, l))
         /\ \A a, e, I : Progress(Fresh(p, t, s, l), a, e, I)
<1> DEFINE r == Fresh(p, t, s, l)
<1>1. r.at = p /\ r.shard = {} /\ r.new = <<>>
  BY DEF Fresh
<1>2. r \in Run
  BY DEF Run, Fresh
<1>3. Cardinality({}) = 0 /\ DOMAIN r.new = {}
  BY <1>1, FS_EmptySet
<1> HIDE DEF r
<1>4. Limits(r)
 <2>1. p # "save" /\ p # "save last"
   BY DEF Generating
 <2>2. Cardinality(r.shard) <= MaxUrls
   BY <1>1, <1>3, LimitAssumption
 <2>3. \A n \in DOMAIN r.new : FALSE
   BY <1>3
 <2> QED
   BY <1>1, <2>1, <2>2, <2>3 DEF Limits
<1>5. \A a, e, I : Progress(r, a, e, I)
  BY <1>1 DEF Progress, Generating, Writing, Done
<1> QED
  BY <1>2, <1>4, <1>5 DEF r

-----------------------------------------------------------------------------
(***************************************************************************)
(* What each step does to the record of its worker.  q is the record after *)
(* the step; only the fields that the invariant reads are named.           *)
(***************************************************************************)
LEMMA ReadChunkFacts ==
  ASSUME NEW r \in Run, NEW q \in Run, NEW a \in SUBSET Item, NEW e \in SUBSET Item,
         NEW I \in SUBSET Item, Progress(r, a, e, I), Limits(r),
         r.at = "entries", r.chunk = {},
         NEW C, NEW m \in C, IsBatch(C, {i \in I : i > r.last}), \A i \in C : i <= m,
         q.at = "entries", q.chunk = C, q.last = m, q.shard = r.shard, q.new = r.new
  PROVE  Progress(q, a, e, I) /\ Limits(q)
<1>1. a \subseteq I /\ I \subseteq e /\ Reading(r, a, e) /\ Separate(r)
  BY DEF Progress, Generating, Writing
<1>2. C \subseteq I /\ (\A i \in C : i > r.last)
      /\ \A i \in I : i > r.last /\ i \notin C => m < i
  BY DEF IsBatch
<1>3. \A i : Written(q, i) <=> Written(r, i)
  BY DEF Written
<1>4. \A i \in Item : i \in Nat /\ r.last \in Nat /\ m \in Nat
  BY <1>2, ItemAssumption DEF Run
<1>5. Reading(q, a, e)
 <2>1. \A i \in Item : Written(q, i) => i \in e /\ i <= m /\ \A j \in C : i < j
   BY <1>1, <1>2, <1>3, <1>4 DEF Reading
 <2>2. \A i \in a : i <= m => Written(q, i) \/ i \in C
   BY <1>1, <1>2, <1>3, <1>4 DEF Reading
 <2> QED
   BY <1>1, <1>2, <2>1, <2>2 DEF Reading
<1>6. Separate(q)
  BY <1>1 DEF Separate
<1>7. Limits(q)
  BY DEF Limits
<1> QED
  BY <1>1, <1>5, <1>6, <1>7 DEF Progress, Generating, Writing, Done

LEMMA WriteEntryFacts ==
  ASSUME NEW r \in Run, NEW q \in Run, NEW a \in SUBSET Item, NEW e \in SUBSET Item,
         NEW I \in SUBSET Item, Progress(r, a, e, I), Limits(r),
         r.at = "entries", Cardinality(r.shard) < MaxUrls,
         NEW i \in r.chunk, \A j \in r.chunk : i <= j,
         q.at = "entries", q.chunk = r.chunk \ {i}, q.shard = r.shard \cup {i},
         q.last = r.last, q.new = r.new
  PROVE  Progress(q, a, e, I) /\ Limits(q)
<1>1. a \subseteq I /\ I \subseteq e /\ Reading(r, a, e) /\ Separate(r)
  BY DEF Progress, Generating, Writing
<1>2. r.chunk \subseteq Item /\ r.shard \subseteq Item /\ Item \subseteq Nat /\ r.last \in Nat
  BY ItemAssumption DEF Run
<1>3. \A k : Written(q, k) <=> Written(r, k) \/ k = i
  BY DEF Written
<1>4. ~Written(r, i)
 <2>1. i \in Item /\ i \in Nat
   BY <1>2
 <2>2. Written(r, i) => i < i
   BY <1>1, <2>1 DEF Reading
 <2> QED
   BY <2>1, <2>2
<1>5. Reading(q, a, e)
 <2>1. \A k \in Item : Written(q, k) => k \in e /\ k <= r.last
   BY <1>1, <1>3 DEF Reading
 <2>2. \A k \in Item : Written(q, k) => \A j \in q.chunk : k < j
  <3>1. \A j \in q.chunk : j \in Nat /\ i \in Nat /\ i <= j /\ i # j
    BY <1>2
  <3>2. \A j \in q.chunk : i < j
    BY <3>1
  <3> QED
    BY <1>1, <1>3, <3>2 DEF Reading
 <2>3. \A k \in a : k <= q.last => Written(q, k) \/ k \in q.chunk
   BY <1>1, <1>3 DEF Reading
 <2> QED
   BY <1>1, <2>1, <2>2, <2>3 DEF Reading
<1>6. Separate(q)
  BY <1>1, <1>4 DEF Separate, Written
<1>7. Limits(q)
 <2>1. IsFiniteSet(r.shard)
   BY <1>2, ItemAssumption, FS_Subset
 <2>2. Cardinality(q.shard) = Cardinality(r.shard) + 1
   BY <1>4, <2>1, FS_AddElement DEF Written
 <2>3. Cardinality(r.shard) \in Nat
   BY <2>1, FS_CardinalityType
 <2>4. Cardinality(q.shard) <= MaxUrls
   BY <2>2, <2>3, LimitAssumption
 <2> QED
   BY <2>4 DEF Limits, Generating
<1> QED
  BY <1>1, <1>5, <1>6, <1>7 DEF Progress, Generating, Writing, Done

LEMMA BeginFacts ==
  ASSUME NEW q \in Run, NEW I \in SUBSET Item,
         q.at = "entries", q.last = 0, q.chunk = {}, q.shard = {}, q.new = <<>>
  PROVE  Progress(q, I, I, I) /\ Limits(q)
<1>1. DOMAIN q.new = {} /\ Cardinality({}) = 0
  BY FS_EmptySet
<1>2. \A i : ~Written(q, i)
  BY <1>1 DEF Written
<1>3. \A i \in I : ~(i <= 0)
  BY ItemAssumption
<1>4. Reading(q, I, I)
  BY <1>2, <1>3 DEF Reading
<1>5. Separate(q)
  BY <1>1 DEF Separate
<1>6. Limits(q)
  BY <1>1, LimitAssumption DEF Limits, Generating
<1> QED
  BY <1>4, <1>5, <1>6 DEF Progress, Generating, Writing, Done

LEMMA CloseShardFacts ==
  ASSUME NEW r \in Run, NEW q \in Run, NEW a \in SUBSET Item, NEW e \in SUBSET Item,
         NEW I \in SUBSET Item, Progress(r, a, e, I), Limits(r),
         r.at = "entries", Cardinality(r.shard) >= MaxUrls \/ r.shard # {},
         q.at = "save", q.chunk = r.chunk, q.shard = r.shard, q.last = r.last, q.new = r.new
  PROVE  Progress(q, a, e, I) /\ Limits(q)
<1>1. Progress(q, a, e, I)
  BY DEF Progress, Reading, Separate, Written, Generating, Writing, Done
<1>2. q.shard # {}
  BY FS_EmptySet, LimitAssumption
<1> QED
  BY <1>1, <1>2 DEF Limits, Generating, Done

LEMMA ReadToTheEnd ==
  ASSUME NEW r \in Run, NEW a \in SUBSET Item, NEW e, Reading(r, a, e), r.chunk = {},
         \A i \in a : ~(i > r.last)
  PROVE  \A i \in a : Written(r, i)
<1>1. r.last \in Nat /\ \A i \in a : i \in Nat
  BY ItemAssumption DEF Run
<1>2. \A i \in a : i <= r.last
  BY <1>1
<1> QED
  BY <1>2 DEF Reading

LEMMA CloseLastShardFacts ==
  ASSUME NEW r \in Run, NEW q \in Run, NEW a \in SUBSET Item, NEW e \in SUBSET Item,
         NEW I \in SUBSET Item, Progress(r, a, e, I), Limits(r),
         r.at = "entries", r.chunk = {}, \A i \in a : ~(i > r.last),
         q.at \in {"save last", "records"},
         q.at = "save last" => r.shard # {} \/ r.new = <<>>,
         q.at = "records" => r.shard = {},
         q.chunk = r.chunk, q.shard = r.shard, q.last = r.last, q.new = r.new
  PROVE  Progress(q, a, e, I) /\ Limits(q)
<1>1. a \subseteq I /\ I \subseteq e /\ Reading(r, a, e) /\ Separate(r)
  BY DEF Progress, Generating, Writing
<1>2. \A i \in a : Written(r, i)
  BY <1>1, ReadToTheEnd
<1>3. \A i : Written(q, i) <=> Written(r, i)
  BY DEF Written
<1>4. \A i \in a : Written(q, i)
  BY <1>2, <1>3
<1>5. Separate(q) /\ Reading(q, a, e)
  BY <1>1, <1>3 DEF Separate, Reading
<1>6. Limits(q)
  BY DEF Limits, Generating, Done
<1>7. CASE q.at = "save last"
  BY <1>1, <1>4, <1>5, <1>6, <1>7 DEF Progress, Generating, Writing, Done
<1>8. CASE q.at = "records"
 <2>1. r.shard = {}
   BY <1>8
 <2>2. Complete(q, a, e)
   BY <1>1, <1>3, <1>4 DEF Complete, Reading
 <2> QED
   BY <1>1, <1>5, <1>6, <1>8, <2>1, <2>2 DEF Progress, Generating, Writing, Done
<1> QED
  BY <1>7, <1>8

LEMMA EmptyFits == Cardinality({}) <= MaxUrls
  BY FS_EmptySet, LimitAssumption

LEMMA SaveShardFacts ==
  ASSUME NEW r \in Run, NEW q \in Run, NEW a \in SUBSET Item, NEW e \in SUBSET Item,
         NEW I \in SUBSET Item, Progress(r, a, e, I), Limits(r),
         r.at \in {"save", "save last"},
         q.at \in {"entries", "records"}, q.at = "records" <=> r.at = "save last",
         NEW k, k \notin DOMAIN r.new, DOMAIN q.new = DOMAIN r.new \cup {k}, q.new[k] = r.shard,
         \A n \in DOMAIN r.new : q.new[n] = r.new[n],
         r.shard = {} => Len(q.new) = 1 /\ r.at = "save last",
         q.shard = {}, q.chunk = r.chunk, q.last = r.last
  PROVE  Progress(q, a, e, I) /\ Limits(q)
<1>1. a \subseteq I /\ I \subseteq e /\ Reading(r, a, e) /\ Separate(r)
  BY DEF Progress, Generating, Writing
<1>2. \A i : Written(q, i) <=> Written(r, i)
  BY DEF Written
<1>3. Reading(q, a, e)
  BY <1>1, <1>2 DEF Reading
<1>4. Separate(q)
 <2>1. ASSUME NEW m \in DOMAIN q.new, NEW n \in DOMAIN q.new, m # n
       PROVE  q.new[m] \cap q.new[n] = {}
  <3>1. CASE m = k
    BY <1>1, <2>1, <3>1 DEF Separate
  <3>2. CASE n = k
    BY <1>1, <2>1, <3>2 DEF Separate
  <3>3. CASE m # k /\ n # k
    BY <1>1, <2>1, <3>3 DEF Separate
  <3> QED
    BY <3>1, <3>2, <3>3
 <2> QED
   BY <2>1 DEF Separate
<1>5. Limits(q)
 <2>1. Cardinality(q.shard) <= MaxUrls
   BY EmptyFits
 <2>2. \A n \in DOMAIN q.new : Cardinality(q.new[n]) <= MaxUrls
   BY DEF Limits
 <2>3. \A n \in DOMAIN r.new : r.new[n] # {}
   BY DEF Limits, Done
 <2>4. \A n \in DOMAIN q.new : q.new[n] = {} => Len(q.new) = 1 /\ q.at \in Done
   BY <2>3 DEF Done
 <2> QED
   BY <2>1, <2>2, <2>4 DEF Limits, Generating
<1>6. CASE r.at = "save"
  BY <1>1, <1>3, <1>4, <1>5, <1>6 DEF Progress, Generating, Writing, Done
<1>7. CASE r.at = "save last"
 <2>1. Complete(q, a, e)
   BY <1>1, <1>2, <1>7 DEF Complete, Progress, Reading
 <2> QED
   BY <1>1, <1>4, <1>5, <1>7, <2>1 DEF Progress, Generating, Writing, Done
<1> QED
  BY <1>6, <1>7

\* From the first record to the last, nothing is written any more.
LEMMA DoneFacts ==
  ASSUME NEW r \in Run, NEW q \in Run, NEW a, NEW e, NEW I, Progress(r, a, e, I), Limits(r),
         r.at \in Done, q.at \in Done, q.shard = r.shard, q.new = r.new
  PROVE  Progress(q, a, e, I) /\ Limits(q)
<1>1. Progress(q, a, e, I)
  BY DEF Progress, Complete, Separate, Written, Generating, Writing, Done
<1>2. Limits(q)
  BY DEF Limits, Generating, Done
<1> QED
  BY <1>1, <1>2

\* A row comes or goes.
LEMMA ChangeFacts ==
  ASSUME NEW r \in Run, NEW a, NEW e, NEW I, NEW J, Progress(r, a, e, I)
  PROVE  Progress(r, a \cap J, e \cup J, J)
BY DEF Progress, Reading, Complete

-----------------------------------------------------------------------------
SpanType == [always : SUBSET Item, ever : SUBSET Item, alone : BOOLEAN, forced : BOOLEAN]

\* A step of worker w that changes no row: the others are as before, whatever
\* becomes of their field alone.
LEMMA OneWorker ==
  ASSUME IInv, NEW w \in Worker, NEW q \in Run,
         items' = items, files' = files \/ RecordsOK', run' = [run EXCEPT ![w] = q], span' \in [Worker -> SpanType],
         \A v \in Worker \ {w} :
           span'[v].always = span[v].always /\ span'[v].ever = span[v].ever,
         Progress(q, span'[w].always, span'[w].ever, items[q.section]), Limits(q)
  PROVE  IInv'
<1>1. Types' /\ RecordsOK'
  BY DEF IInv, Types, RecordsOK, SpanType
<1>2. run'[w] = q /\ \A v \in Worker \ {w} : run'[v] = run[v]
  BY DEF IInv, Types
<1>3. ASSUME NEW v \in Worker PROVE ProgressOf(v)' /\ Limits(run'[v])
 <2>1. CASE v = w
   BY <1>2, <2>1 DEF ProgressOf
 <2>2. CASE v # w
  <3>1. ProgressOf(v) /\ Limits(run[v])
    BY DEF IInv
  <3> QED
    BY <1>2, <2>2, <3>1 DEF ProgressOf
 <2> QED
   BY <2>1, <2>2
<1> QED
  BY <1>1, <1>3 DEF IInv

\* A step of worker w that also leaves what was observed of its section alone.
LEMMA OneRecord ==
  ASSUME IInv, NEW w \in Worker, NEW q \in Run,
         items' = items, files' = files \/ RecordsOK', run' = [run EXCEPT ![w] = q], span' = span,
         q.section = run[w].section,
         Progress(q, span[w].always, span[w].ever, items[run[w].section]), Limits(q)
  PROVE  IInv'
<1>1. span' \in [Worker -> SpanType]
  BY DEF IInv, Types, SpanType
<1> QED
  BY <1>1, OneWorker

\* A worker drops its generation, or had none.
LEMMA ToFresh ==
  ASSUME IInv, NEW w \in Worker,
         NEW p \in Places \ Generating, NEW t \in SUBSET Section, NEW s \in Section,
         NEW l \in {"none", "running", "success", "failed"},
         items' = items, files' = files \/ RecordsOK', run' = [run EXCEPT ![w] = Fresh(p, t, s, l)],
         span' = span \/ span' = [span EXCEPT ![w] = NoSpan]
  PROVE  IInv'
<1>1. NoSpan \in SpanType
  BY DEF NoSpan, SpanType
<1>2. span \in [Worker -> SpanType]
  BY DEF IInv, Types, SpanType
<1>3. /\ span' \in [Worker -> SpanType]
      /\ \A v \in Worker \ {w} : span'[v] = span[v]
  BY <1>1, <1>2
<1>4. /\ Fresh(p, t, s, l) \in Run
      /\ Limits(Fresh(p, t, s, l))
      /\ \A a, e, I : Progress(Fresh(p, t, s, l), a, e, I)
  BY FreshFacts
<1> QED
  BY <1>3, <1>4, OneWorker

\* No worker, row or observation changes.
LEMMA NothingSeen ==
  ASSUME IInv, items' = items, files' = files, run' = run, span' = span
  PROVE  IInv'
BY DEF IInv, Types, RecordsOK, ProgressOf

LEMMA TypeFacts ==
  ASSUME IInv, NEW w \in Worker
  PROVE  /\ run[w] \in Run /\ span[w] \in SpanType
         /\ run[w].section \in Section /\ items[run[w].section] \in SUBSET Item
         /\ span[w].always \in SUBSET Item /\ span[w].ever \in SUBSET Item
         /\ Progress(run[w], span[w].always, span[w].ever, items[run[w].section])
         /\ Limits(run[w])
<1>1. run[w] \in Run /\ span[w] \in SpanType
  BY DEF IInv, Types, SpanType
<1>2. run[w].section \in Section
  BY <1>1 DEF Run
<1>3. span[w].always \in SUBSET Item /\ span[w].ever \in SUBSET Item
  BY <1>1 DEF SpanType
<1> QED
  BY <1>1, <1>2, <1>3 DEF IInv, Types, ProgressOf

LEMMA InitIInv == Init => IInv
<1> SUFFICES ASSUME Init PROVE IInv
  OBVIOUS
<1> DEFINE r == Fresh("idle", {}, SomeSection, "none")
<1>1. SomeSection \in Section
  BY SectionAssumption DEF SomeSection
<1>2. "idle" \in Places \ Generating /\ "none" \in {"none", "running", "success", "failed"}
  BY DEF Places, Generating
<1>3. {} \in SUBSET Section
  OBVIOUS
<1>4. r \in Run /\ Limits(r) /\ \A a, e, I : Progress(r, a, e, I)
  BY <1>1, <1>2, <1>3, FreshFacts
<1>5. NoSpan \in SpanType
  BY DEF NoSpan, SpanType
<1> HIDE DEF r
<1>6. run = [w \in Worker |-> r] /\ span = [w \in Worker |-> NoSpan]
      /\ items \in [Section -> SUBSET Item]
  BY DEF Init, r
<1>7. Types
  BY <1>4, <1>5, <1>6 DEF Types, SpanType
<1>8. \A w \in Worker : run[w] = r
  BY <1>6
<1>9. RecordsOK
  BY DEF Init, RecordsOK
<1> QED
  BY <1>4, <1>7, <1>8, <1>9 DEF IInv, ProgressOf

-----------------------------------------------------------------------------
(***************************************************************************)
(* The steps of the application and the cleanup.                           *)
(***************************************************************************)
LEMMA ChangeKeeps ==
  ASSUME IInv, NEW s \in Section, NEW J \in SUBSET Item,
         Change(s, J) \/ CommitsFlag(s, J) \/ CommitsRows(s, J)
  PROVE  IInv'
<1>1. /\ items' = [items EXCEPT ![s] = J] /\ run' = run /\ span' = Observed(s, J)
      /\ files' = files
  BY DEF Change, CommitsFlag, CommitsRows
<1>2. ASSUME NEW w \in Worker
      PROVE  IF Generates(w, s)
             THEN span'[w] = [span[w] EXCEPT !.always = @ \cap J, !.ever = @ \cup J]
             ELSE span'[w] = span[w]
  BY <1>1 DEF Observed
<1>3. ASSUME NEW w \in Worker PROVE span'[w] \in SpanType
 <2>1. span[w] \in SpanType
   BY TypeFacts
 <2>2. [span[w] EXCEPT !.always = @ \cap J, !.ever = @ \cup J] \in SpanType
   BY <2>1 DEF SpanType
 <2> QED
   BY <1>2, <2>1, <2>2
<1>4. Types'
 <2>1. items' \in [Section -> SUBSET Item]
   BY <1>1 DEF IInv, Types
 <2>2. span' = [w \in Worker |-> span'[w]]
   BY <1>1 DEF Observed
 <2>3. span' \in [Worker -> SpanType]
   BY <1>3, <2>2
 <2> QED
   BY <1>1, <2>1, <2>3 DEF IInv, Types, SpanType
<1>5. ASSUME NEW w \in Worker PROVE ProgressOf(w)'
 <2> DEFINE I == items[run[w].section]
            K == items'[run[w].section]
 <2>1. run'[w] = run[w]
   BY <1>1
 <2>2. CASE Generates(w, s)
  <3>1. K = J
    BY <1>1, <2>2, TypeFacts DEF Generates, IInv, Types
  <3>2. span'[w].always = span[w].always \cap J /\ span'[w].ever = span[w].ever \cup J
    BY <1>2, <2>2, TypeFacts DEF SpanType
  <3>3. Progress(run[w], span[w].always \cap J, span[w].ever \cup J, J)
    BY ChangeFacts, TypeFacts
  <3> QED
    BY <2>1, <3>1, <3>2, <3>3 DEF ProgressOf
 <2>3. CASE ~Generates(w, s) /\ run[w].section # s
  <3>1. K = I
    BY <1>1, <2>3, TypeFacts DEF IInv, Types
  <3> QED
    BY <1>2, <2>1, <2>3, <3>1, TypeFacts DEF ProgressOf
 <2>4. CASE run[w].at \notin Generating
  <3>1. \A a, e, L : Progress(run[w], a, e, L)
    BY <2>4 DEF Progress, Generating, Writing, Done
  <3> QED
    BY <2>1, <3>1 DEF ProgressOf
 <2> QED
   BY <2>2, <2>3, <2>4 DEF Generates
<1> QED
  BY <1>1, <1>4, <1>5 DEF IInv, RecordsOK

LEMMA ApplicationKeeps ==
  ASSUME IInv, Application
  PROVE  IInv'
<1>1. ASSUME NEW s \in Section, NEW i \in Item, Add(s, i) \/ Remove(s, i) PROVE IInv'
 <2>1. items[s] \cup {i} \in SUBSET Item /\ items[s] \ {i} \in SUBSET Item
   BY DEF IInv, Types
 <2> QED
   BY <1>1, <2>1, ChangeKeeps DEF Add, Remove
<1>2. ASSUME NEW s \in Section, MarkSectionStale(s) \/ MarkFails(s) \/ Opens(s) \/ RollsBack(s)
      PROVE  IInv'
  BY <1>2, NothingSeen DEF MarkSectionStale, MarkFails, Opens, RollsBack, history
<1>3. ASSUME NEW s \in Section, NEW i \in Item, NEW I \in {items[s] \cup {i}, items[s] \ {i}},
             CommitsFlag(s, I) \/ CommitsRows(s, I)
      PROVE  IInv'
 <2>1. I \in SUBSET Item
   BY DEF IInv, Types
 <2> QED
   BY <1>3, <2>1, ChangeKeeps
<1> QED
  BY <1>1, <1>2, <1>3 DEF Application, EndsTransaction

LEMMA CleanupKeeps ==
  ASSUME IInv, Cleanup
  PROVE  IInv'
<1>1. CASE CleanupReads
 <2>1. items' = items /\ files' = files /\ run' = run /\ span' = Disturbed(Section)
   BY <1>1 DEF CleanupReads, database
 <2>2. ASSUME NEW w \in Worker
       PROVE  /\ span'[w] \in SpanType
              /\ span'[w].always = span[w].always /\ span'[w].ever = span[w].ever
   BY <2>1, TypeFacts DEF Disturbed, SpanType
 <2>3. span' \in [Worker -> SpanType]
   BY <2>1, <2>2 DEF Disturbed
 <2>4. Types'
   BY <2>1, <2>3 DEF IInv, Types, SpanType
 <2> QED
   BY <2>1, <2>2, <2>4 DEF IInv, RecordsOK, ProgressOf
<1>2. CASE CleanupLists \/ CleanupDeletesIndex \/ CleanupEnds
           \/ \E p \in cleaner.doomed : CleanupDeletes(p)
  BY <1>2, NothingSeen
     DEF CleanupLists, CleanupDeletesIndex, CleanupEnds, CleanupDeletes, database, history
<1> QED
  BY <1>1, <1>2 DEF Cleanup

-----------------------------------------------------------------------------
(***************************************************************************)
(* The steps outside a generation, and those that end or drop one.         *)
(***************************************************************************)
Logs == {"none", "running", "success", "failed"}

LEMMA PlacesOutside ==
  /\ \A p \in {"idle", "next", "index", "swap out", "swap in"} : p \in Places \ Generating
  /\ \A l \in {"none", "running", "success", "failed"} : l \in Logs
BY DEF Places, Generating, Logs

\* A step between two places where no generation is under way.
LEMMA OutsideKeeps ==
  ASSUME IInv, NEW w \in Worker, NEW q \in Run,
         run[w].at \notin Generating, q.at \notin Generating,
         q.section = run[w].section, q.new = run[w].new, q.shard = run[w].shard,
         items' = items, files' = files \/ RecordsOK', run' = [run EXCEPT ![w] = q], span' = span
  PROVE  IInv'
<1>1. Limits(run[w])
  BY TypeFacts
<1>2. Limits(q)
  BY <1>1 DEF Limits, Generating, Done
<1>3. Progress(q, span[w].always, span[w].ever, items[run[w].section])
  BY DEF Progress, Generating, Writing, Done
<1> QED
  BY <1>2, <1>3, OneRecord

LEMMA StartTaskKeeps ==
  ASSUME IInv, NEW w \in Worker, StartTask(w)
  PROVE  IInv'
<1>1. ASSUME NEW S \in SUBSET Section, Starts(w, S) PROVE IInv'
 <2>1. items' = items /\ files' = files /\ span' = span
   BY <1>1 DEF Starts, OnlyRun, database, history
 <2>2. run' = [run EXCEPT ![w] = Fresh("next", S, SomeSection, "none")]
   BY <1>1 DEF Starts, Now
 <2>3. SomeSection \in Section
   BY SectionAssumption DEF SomeSection
 <2>4. "next" \in Places \ Generating
   BY PlacesOutside
 <2> QED
   BY <2>1, <2>2, <2>3, <2>4, ToFresh
<1>2. CASE RegenerateStale(w) \/ RegenerateAll(w) \/ \E s \in Section : RegenerateOne(w, s)
 <2>1. {s \in Section : stale[s]} \in SUBSET Section /\ Section \in SUBSET Section
       /\ \A s \in Section : {s} \in SUBSET Section
   OBVIOUS
 <2> QED
   BY <1>1, <1>2, <2>1 DEF RegenerateStale, RegenerateAll, RegenerateOne
<1>3. CASE ServeIndex(w)
 <2> DEFINE q == [run[w] EXCEPT !.at = "index"]
 <2>1. run[w] \in Run
   BY TypeFacts
 <2>2. q \in Run
  <3>1. "index" \in Places
    BY PlacesOutside
  <3> QED
    BY <2>1, <3>1 DEF Run
 <2>3. /\ q.at = "index" /\ q.section = run[w].section
       /\ q.new = run[w].new /\ q.shard = run[w].shard
   BY <2>1 DEF Run
 <2>4. items' = items /\ files' = files /\ span' = span /\ run' = [run EXCEPT ![w] = q] /\ run[w].at = "idle"
   BY <1>3 DEF ServeIndex, Now, OnlyRun, database, history
 <2> HIDE DEF q
 <2>5. "index" \notin Generating /\ "idle" \notin Generating
   BY DEF Generating
 <2> QED
   BY <2>2, <2>3, <2>4, <2>5, OutsideKeeps
<1> QED
  BY <1>2, <1>3 DEF StartTask

LEMMA AbandonsKeeps ==
  ASSUME IInv, NEW w \in Worker, NEW p \in {"idle", "next"}, NEW l \in Logs,
         Abandons(w, p, l), items' = items, files' = files
  PROVE  IInv'
<1> DEFINE t == IF p = "next" THEN run[w].todo ELSE {}
<1>1. t \in SUBSET Section /\ run[w].section \in Section
  BY TypeFacts DEF Run
<1>2. run' = [run EXCEPT ![w] = Fresh(p, t, run[w].section, l)]
      /\ span' = [span EXCEPT ![w] = NoSpan]
  BY DEF Abandons, Now
<1>3. p \in Places \ Generating
  BY PlacesOutside
<1> HIDE DEF t
<1> QED
  BY <1>1, <1>2, <1>3, ToFresh DEF Logs

LEMMA FailureKeeps ==
  ASSUME IInv, NEW w \in Worker, Failure(w)
  PROVE  IInv'
<1>1. run[w].log \in Logs
  BY TypeFacts DEF Run, Logs
<1>2. ASSUME NEW s \in Section, FailsBeforeTry(w, s) PROVE IInv'
 <2>1. run' = [run EXCEPT ![w] = Fresh("next", run[w].todo \ {s}, s, "running")]
   BY <1>2 DEF FailsBeforeTry, Now
 <2>2. items' = items /\ files' = files /\ span' = span
   BY <1>2 DEF FailsBeforeTry, database, history
 <2>3. run[w].todo \ {s} \in SUBSET Section
   BY TypeFacts DEF Run
 <2>4. "next" \in Places \ Generating
   BY PlacesOutside
 <2> QED
   BY <2>1, <2>2, <2>3, <2>4, ToFresh
<1>3. ASSUME NEW p \in {"idle", "next"}, NEW l \in Logs, Leaves(w, p, l) PROVE IInv'
  BY <1>3, AbandonsKeeps DEF Leaves, database
<1>4. "failed" \in Logs
  BY DEF Logs
<1>5. CASE GenerationFails(w) \/ IndexFails(w) \/ Crash(w)
  BY <1>1, <1>3, <1>4, <1>5 DEF GenerationFails, IndexFails, Crash
<1> QED
  BY <1>2, <1>5 DEF Failure

-----------------------------------------------------------------------------
(***************************************************************************)
(* The steps of a generation.                                              *)
(***************************************************************************)
LEMMA BeginSectionKeeps ==
  ASSUME IInv, NEW w \in Worker, NEW s \in Section, BeginSection(w, s)
  PROVE  IInv'
<1> DEFINE f == Fresh("entries", run[w].todo \ {s}, s, "running")
           q == [f EXCEPT !.old = DOMAIN files[s]]
           n == [always |-> items[s], ever |-> items[s],
                 alone |-> ~Busy(s) /\ cleaner = NoCleanup, forced |-> ~stale[s]]
<1>1. run[w].todo \ {s} \in SUBSET Section
  BY TypeFacts DEF Run
<1>2. items[s] \in SUBSET Item /\ DOMAIN files[s] \in SUBSET Nat
  BY DEF IInv, Types, RecordsOK
<1>3. /\ f \in Run /\ f.at = "entries" /\ f.section = s /\ f.last = 0 /\ f.chunk = {}
      /\ f.shard = {} /\ f.new = <<>>
 <2>1. "entries" \in Places
   BY DEF Places
 <2> QED
   BY <1>1, <2>1 DEF Fresh, Run
<1> HIDE DEF f
<1>4. q \in Run
  BY <1>2, <1>3 DEF Run
<1>5. /\ q.at = "entries" /\ q.section = s /\ q.last = 0 /\ q.chunk = {}
      /\ q.shard = {} /\ q.new = <<>>
  BY <1>3 DEF Run
<1>6. Progress(q, items[s], items[s], items[s]) /\ Limits(q)
  BY <1>2, <1>4, <1>5, BeginFacts
<1>7. run' = [run EXCEPT ![w] = q] /\ items' = items /\ files' = files
      /\ span' = [Disturbed({s}) EXCEPT ![w] = n]
  BY DEF BeginSection, Now, f, database
<1>8. n \in SpanType /\ n.always = items[s] /\ n.ever = items[s]
  BY <1>2 DEF SpanType
<1>9. ASSUME NEW v \in Worker
      PROVE  /\ Disturbed({s})[v] \in SpanType
             /\ Disturbed({s})[v].always = span[v].always
             /\ Disturbed({s})[v].ever = span[v].ever
  BY TypeFacts DEF Disturbed, SpanType
<1>10. Disturbed({s}) \in [Worker -> SpanType]
  BY <1>9 DEF Disturbed
<1> HIDE DEF q, n
<1>11. /\ span' \in [Worker -> SpanType] /\ span'[w] = n
       /\ \A v \in Worker \ {w} : span'[v] = Disturbed({s})[v]
  BY <1>7, <1>8, <1>10
<1>12. \A v \in Worker \ {w} :
         span'[v].always = span[v].always /\ span'[v].ever = span[v].ever
  BY <1>9, <1>11
<1> QED
  BY <1>4, <1>5, <1>6, <1>7, <1>8, <1>11, <1>12, OneWorker

LEMMA ReadChunkKeeps ==
  ASSUME IInv, NEW w \in Worker, ReadChunk(w)
  PROVE  IInv'
<1> DEFINE r == run[w]
           I == items[r.section]
           S == After(r.section, r.last)
<1>1. PICK C \in SUBSET S : \E m \in C :
        IsBatch(C, S) /\ (\A i \in C : i <= m) /\ Now(w, [r EXCEPT !.chunk = C, !.last = m])
  BY DEF ReadChunk
<1>2. PICK m \in C :
        IsBatch(C, S) /\ (\A i \in C : i <= m) /\ Now(w, [r EXCEPT !.chunk = C, !.last = m])
  BY <1>1
<1> DEFINE q == [r EXCEPT !.chunk = C, !.last = m]
<1>3. r \in Run
  BY TypeFacts
<1>4. C \in SUBSET Item /\ m \in Nat
  BY TypeFacts, ItemAssumption DEF After
<1>5. q \in Run
  BY <1>3, <1>4 DEF Run
<1>6. /\ q.at = r.at /\ q.section = r.section /\ q.chunk = C /\ q.last = m
      /\ q.shard = r.shard /\ q.new = r.new
  BY <1>3 DEF Run
<1>7. items' = items /\ files' = files /\ span' = span /\ r.at = "entries" /\ r.chunk = {}
  BY DEF ReadChunk, OnlyRun, database, history
<1>8. run' = [run EXCEPT ![w] = q]
  BY <1>2 DEF Now
<1>9. S = {i \in I : i > r.last}
  BY DEF After
<1> HIDE DEF q
<1>10. Progress(q, span[w].always, span[w].ever, I) /\ Limits(q)
 <2>1. /\ span[w].always \in SUBSET Item /\ span[w].ever \in SUBSET Item
       /\ items[r.section] \in SUBSET Item /\ Limits(r)
       /\ Progress(r, span[w].always, span[w].ever, items[r.section])
   BY TypeFacts
 <2>2. IsBatch(C, {i \in I : i > r.last}) /\ \A i \in C : i <= m
   BY <1>2, <1>9
 <2> HIDE DEF I, S
 <2>3. r.at = "entries" /\ r.chunk = {} /\ q.at = "entries"
   BY <1>6, <1>7
 <2> QED
   BY <1>3, <1>5, <1>6, <2>1, <2>2, <2>3, ReadChunkFacts DEF I
<1> QED
  BY <1>5, <1>6, <1>7, <1>8, <1>10, OneRecord

LEMMA WriteEntryKeeps ==
  ASSUME IInv, NEW w \in Worker, WriteEntry(w)
  PROVE  IInv'
<1> DEFINE r == run[w]
<1>1. PICK i \in r.chunk :
        /\ \A j \in r.chunk : i <= j
        /\ Now(w, [r EXCEPT !.shard = @ \cup {i}, !.chunk = @ \ {i}])
  BY DEF WriteEntry
<1> DEFINE q == [r EXCEPT !.shard = @ \cup {i}, !.chunk = @ \ {i}]
<1>2. r \in Run
  BY TypeFacts
<1>3. q \in Run
  BY <1>2 DEF Run
<1>4. /\ q.at = r.at /\ q.section = r.section /\ q.chunk = r.chunk \ {i} /\ q.last = r.last
      /\ q.shard = r.shard \cup {i} /\ q.new = r.new
  BY <1>2 DEF Run
<1>5. /\ items' = items /\ files' = files /\ span' = span
      /\ r.at = "entries" /\ Cardinality(r.shard) < MaxUrls
  BY DEF WriteEntry, OnlyRun, database, history
<1>6. run' = [run EXCEPT ![w] = q]
  BY <1>1 DEF Now
<1> HIDE DEF q
<1>7. Progress(q, span[w].always, span[w].ever, items[r.section]) /\ Limits(q)
  BY <1>1, <1>2, <1>3, <1>4, <1>5, WriteEntryFacts, TypeFacts
<1> QED
  BY <1>3, <1>4, <1>5, <1>6, <1>7, OneRecord

\* A step that only moves the worker to another place.
LEMMA MoveFacts ==
  ASSUME NEW r \in Run, NEW p \in Places
  PROVE  /\ [r EXCEPT !.at = p] \in Run /\ [r EXCEPT !.at = p].at = p
         /\ [r EXCEPT !.at = p].section = r.section /\ [r EXCEPT !.at = p].last = r.last
         /\ [r EXCEPT !.at = p].chunk = r.chunk /\ [r EXCEPT !.at = p].shard = r.shard
         /\ [r EXCEPT !.at = p].new = r.new
<1>1. [r EXCEPT !.at = p] \in Run
  BY DEF Run
<1> QED
  BY <1>1 DEF Run

LEMMA PlacesInside ==
  {"entries", "save", "save last", "records", "create", "stats"} \subseteq Places
BY DEF Places

LEMMA CloseShardKeeps ==
  ASSUME IInv, NEW w \in Worker, CloseShard(w)
  PROVE  IInv'
<1> DEFINE r == run[w]
           q == [r EXCEPT !.at = "save"]
<1>1. r \in Run /\ "save" \in Places
  BY TypeFacts, PlacesInside
<1>2. /\ q \in Run /\ q.at = "save" /\ q.section = r.section /\ q.last = r.last
      /\ q.chunk = r.chunk /\ q.shard = r.shard /\ q.new = r.new
  BY <1>1, MoveFacts
<1>3. /\ items' = items /\ files' = files /\ span' = span /\ run' = [run EXCEPT ![w] = q]
      /\ r.at = "entries" /\ (Cardinality(r.shard) >= MaxUrls \/ r.shard # {})
  BY DEF CloseShard, Now, database, history
<1> HIDE DEF q
<1>4. Progress(q, span[w].always, span[w].ever, items[r.section]) /\ Limits(q)
 <2>1. /\ span[w].always \in SUBSET Item /\ span[w].ever \in SUBSET Item
       /\ items[r.section] \in SUBSET Item /\ Limits(r)
       /\ Progress(r, span[w].always, span[w].ever, items[r.section])
   BY TypeFacts
 <2> QED
   BY <1>1, <1>2, <1>3, <2>1, CloseShardFacts
<1> QED
  BY <1>2, <1>3, <1>4, OneRecord

LEMMA CloseLastShardKeeps ==
  ASSUME IInv, NEW w \in Worker, CloseLastShard(w)
  PROVE  IInv'
<1> DEFINE r == run[w]
<1>1. /\ items' = items /\ files' = files /\ span' = span
      /\ r.at = "entries" /\ r.chunk = {} /\ After(r.section, r.last) = {}
  BY DEF CloseLastShard, database, history
<1>2. \A i \in span[w].always : ~(i > r.last)
 <2>1. span[w].always \subseteq items[r.section]
   BY <1>1, TypeFacts DEF Progress, Generating
 <2>2. \A i \in items[r.section] : ~(i > r.last)
   BY <1>1 DEF After
 <2> QED
   BY <2>1, <2>2
<1>3. ASSUME NEW p \in {"save last", "records"},
             p = "save last" => r.shard # {} \/ r.new = <<>>, p = "records" => r.shard = {},
             run' = [run EXCEPT ![w] = [r EXCEPT !.at = p]]
      PROVE  IInv'
 <2> DEFINE q == [r EXCEPT !.at = p]
 <2>1. r \in Run /\ p \in Places
   BY TypeFacts, PlacesInside
 <2>2. /\ q \in Run /\ q.at = p /\ q.section = r.section /\ q.last = r.last
       /\ q.chunk = r.chunk /\ q.shard = r.shard /\ q.new = r.new
   BY <2>1, MoveFacts
 <2> HIDE DEF q
 <2>3. Progress(q, span[w].always, span[w].ever, items[r.section]) /\ Limits(q)
  <3>1. /\ span[w].always \in SUBSET Item /\ span[w].ever \in SUBSET Item
        /\ items[r.section] \in SUBSET Item /\ Limits(r)
        /\ Progress(r, span[w].always, span[w].ever, items[r.section])
    BY TypeFacts
  <3>2. q.at \in {"save last", "records"} /\ r.at = "entries" /\ r.chunk = {}
    BY <1>1, <2>2
  <3>3. q.at = "save last" => r.shard # {} \/ r.new = <<>>
    BY <1>3, <2>2
  <3>4. q.at = "records" => r.shard = {}
    BY <1>3, <2>2
  <3> HIDE DEF r
  <3> QED
    BY <1>2, <2>1, <2>2, <3>1, <3>2, <3>3, <3>4, CloseLastShardFacts
 <2>4. run' = [run EXCEPT ![w] = q]
   BY <1>3 DEF q
 <2> QED
   BY <1>1, <2>2, <2>3, <2>4, OneRecord
<1>4. CASE r.shard # {} \/ r.new = <<>>
 <2>1. run' = [run EXCEPT ![w] = [r EXCEPT !.at = "save last"]]
   BY <1>4 DEF CloseLastShard, Now
 <2> QED
   BY <1>3, <1>4, <2>1
<1>5. CASE ~(r.shard # {} \/ r.new = <<>>)
 <2>1. run' = [run EXCEPT ![w] = [r EXCEPT !.at = "records"]]
   BY <1>5 DEF CloseLastShard, Now
 <2> QED
   BY <1>3, <1>5, <2>1
<1> QED
  BY <1>4, <1>5

LEMMA AppendShard ==
  ASSUME NEW f \in Seq(SUBSET Item), NEW x \in SUBSET Item, NEW k, k = Len(f) + 1
  PROVE  /\ Append(f, x) \in Seq(SUBSET Item) /\ k \notin DOMAIN f
         /\ DOMAIN Append(f, x) = DOMAIN f \cup {k} /\ Append(f, x)[k] = x
         /\ \A n \in DOMAIN f : Append(f, x)[n] = f[n]
         /\ f = <<>> => Len(Append(f, x)) = 1
OBVIOUS

LEMMA SaveShardKeeps ==
  ASSUME IInv, NEW w \in Worker, SaveShard(w)
  PROVE  IInv'
<1> DEFINE r == run[w]
           p == IF r.at = "save" THEN "entries" ELSE "records"
           q == [r EXCEPT !.at = p, !.new = Append(r.new, r.shard), !.shard = {}]
           k == Len(r.new) + 1
<1>1. r \in Run /\ r.new \in Seq(SUBSET Item) /\ r.shard \in SUBSET Item
  BY TypeFacts DEF Run
<1>2. /\ Append(r.new, r.shard) \in Seq(SUBSET Item) /\ k \notin DOMAIN r.new
      /\ DOMAIN Append(r.new, r.shard) = DOMAIN r.new \cup {k}
      /\ Append(r.new, r.shard)[k] = r.shard
      /\ \A n \in DOMAIN r.new : Append(r.new, r.shard)[n] = r.new[n]
      /\ r.new = <<>> => Len(Append(r.new, r.shard)) = 1
  BY <1>1, AppendShard
<1>3. /\ items' = items /\ files' = files /\ span' = span
      /\ r.at \in {"save", "save last"} /\ run' = [run EXCEPT ![w] = q]
  BY DEF SaveShard, Now, database, history
<1>4. p \in Places /\ p \in {"entries", "records"} /\ (p = "records" <=> r.at = "save last")
  BY <1>3, PlacesInside
<1> DEFINE g == Append(r.new, r.shard)
<1> HIDE DEF p, g, k
<1>5. /\ q = [r EXCEPT !.at = p, !.new = g, !.shard = {}]
      /\ g \in Seq(SUBSET Item)
  BY <1>2 DEF g
<1> HIDE DEF q
<1>6. q \in Run
  BY <1>1, <1>4, <1>5 DEF Run
<1>7. /\ q.at = p /\ q.section = r.section /\ q.chunk = r.chunk /\ q.last = r.last
      /\ q.shard = {} /\ q.new = g
  BY <1>1, <1>5 DEF Run
<1>8. /\ span[w].always \in SUBSET Item /\ span[w].ever \in SUBSET Item
      /\ items[r.section] \in SUBSET Item /\ Limits(r)
      /\ Progress(r, span[w].always, span[w].ever, items[r.section])
  BY TypeFacts
<1>9. r.shard = {} => Len(q.new) = 1 /\ r.at = "save last"
 <2>1. r.shard = {} => r.at = "save last" /\ r.new = <<>>
   BY <1>3, <1>8 DEF Limits
 <2> QED
   BY <1>2, <1>7, <2>1 DEF g
<1>10. /\ k \notin DOMAIN r.new /\ DOMAIN q.new = DOMAIN r.new \cup {k} /\ q.new[k] = r.shard
       /\ \A n \in DOMAIN r.new : q.new[n] = r.new[n]
  BY <1>2, <1>7 DEF g
<1>11. /\ q.at \in {"entries", "records"} /\ (q.at = "records" <=> r.at = "save last")
       /\ q.shard = {} /\ q.chunk = r.chunk /\ q.last = r.last
       /\ r.at \in {"save", "save last"}
  BY <1>3, <1>4, <1>7
<1>12. Progress(q, span[w].always, span[w].ever, items[r.section]) /\ Limits(q)
  BY <1>1, <1>6, <1>8, <1>9, <1>10, <1>11, SaveShardFacts
<1> QED
  BY <1>3, <1>6, <1>7, <1>12, OneRecord

\* The steps between the first record and the section's flag.
LEMMA DoneKeeps ==
  ASSUME IInv, NEW w \in Worker, NEW q \in Run,
         run[w].at \in Done, q.at \in Done, q.section = run[w].section,
         q.shard = run[w].shard, q.new = run[w].new,
         items' = items, files' = files \/ RecordsOK', span' = span,
         run' = [run EXCEPT ![w] = q]
  PROVE  IInv'
<1>1. /\ run[w] \in Run /\ Limits(run[w])
      /\ Progress(run[w], span[w].always, span[w].ever, items[run[w].section])
  BY TypeFacts
<1>2. Progress(q, span[w].always, span[w].ever, items[run[w].section]) /\ Limits(q)
  BY <1>1, DoneFacts
<1> QED
  BY <1>2, OneRecord

LEMMA DeleteRecordsKeeps ==
  ASSUME IInv, NEW w \in Worker, DeleteRecords(w)
  PROVE  IInv'
<1> DEFINE q == [run[w] EXCEPT !.at = "create"]
<1>1. run[w] \in Run /\ run[w].section \in Section /\ "create" \in Places
  BY TypeFacts, PlacesInside
<1>2. /\ q \in Run /\ q.at = "create" /\ q.section = run[w].section
      /\ q.shard = run[w].shard /\ q.new = run[w].new
  BY <1>1, MoveFacts
<1>3. /\ items' = items /\ span' = span /\ run' = [run EXCEPT ![w] = q]
      /\ run[w].at = "records" /\ files' = [files EXCEPT ![run[w].section] = <<>>]
  BY DEF DeleteRecords, Now, history
<1>4. RecordsOK'
 <2>1. \A s \in Section : files'[s] = IF s = run[w].section THEN <<>> ELSE files[s]
   BY <1>3 DEF IInv, RecordsOK
 <2>2. files' = [s \in Section |-> files'[s]]
   BY <1>3 DEF IInv, RecordsOK
 <2>3. \A s \in Section : DOMAIN files'[s] \subseteq Nat
  <3>1. DOMAIN <<>> = {}
    OBVIOUS
  <3> QED
    BY <2>1, <3>1 DEF IInv, RecordsOK
 <2> QED
   BY <2>2, <2>3 DEF RecordsOK
<1>5. run[w].at \in Done /\ q.at \in Done
  BY <1>2, <1>3 DEF Done
<1> HIDE DEF q
<1> QED
  BY <1>2, <1>3, <1>4, <1>5, DoneKeeps

LEMMA CreateRecordKeeps ==
  ASSUME IInv, NEW w \in Worker, CreateRecord(w)
  PROVE  IInv'
<1> DEFINE r == run[w]
           q == [r EXCEPT !.made = @ + 1]
           f == WithRecord(files[r.section], r.made, Cardinality(r.new[r.made + 1]))
<1>1. r \in Run /\ r.section \in Section /\ r.made \in Nat
  BY TypeFacts DEF Run
<1>2. /\ q \in Run /\ q.at = r.at /\ q.section = r.section
      /\ q.shard = r.shard /\ q.new = r.new
 <2>1. q \in Run
   BY <1>1 DEF Run
 <2> QED
   BY <1>1, <2>1 DEF Run
<1>3. /\ items' = items /\ span' = span /\ run' = [run EXCEPT ![w] = q]
      /\ r.at = "create" /\ files' = [files EXCEPT ![r.section] = f]
  BY DEF CreateRecord, Now, history
<1>4. DOMAIN f = DOMAIN files[r.section] \cup {r.made}
  BY DEF WithRecord
<1> HIDE DEF q, f
<1>5. RecordsOK'
 <2>1. \A s \in Section : files'[s] = IF s = r.section THEN f ELSE files[s]
   BY <1>3 DEF IInv, RecordsOK
 <2>2. files' = [s \in Section |-> files'[s]]
   BY <1>3 DEF IInv, RecordsOK
 <2>3. \A s \in Section : DOMAIN files'[s] \subseteq Nat
   BY <1>1, <1>4, <2>1 DEF IInv, RecordsOK
 <2> QED
   BY <2>2, <2>3 DEF RecordsOK
<1>6. r.at \in Done /\ q.at \in Done
  BY <1>2, <1>3 DEF Done
<1> QED
  BY <1>2, <1>3, <1>5, <1>6, DoneKeeps

LEMMA RemoveStaleFilesKeeps ==
  ASSUME IInv, NEW w \in Worker, RemoveStaleFiles(w)
  PROVE  IInv'
<1> DEFINE q == [run[w] EXCEPT !.at = "stats"]
<1>1. run[w] \in Run /\ "stats" \in Places
  BY TypeFacts, PlacesInside
<1>2. /\ q \in Run /\ q.at = "stats" /\ q.section = run[w].section
      /\ q.shard = run[w].shard /\ q.new = run[w].new
  BY <1>1, MoveFacts
<1>3. /\ items' = items /\ files' = files /\ span' = span
      /\ run' = [run EXCEPT ![w] = q] /\ run[w].at = "create"
  BY DEF RemoveStaleFiles, Now, database, history
<1>4. run[w].at \in Done /\ q.at \in Done
  BY <1>2, <1>3 DEF Done
<1> HIDE DEF q
<1> QED
  BY <1>2, <1>3, <1>4, DoneKeeps

LEMMA RecordConflictKeeps ==
  ASSUME IInv, NEW w \in Worker, RecordConflict(w)
  PROVE  IInv'
<1>1. Abandons(w, "next", "failed") /\ items' = items /\ files' = files
  BY DEF RecordConflict, database
<1>2. "failed" \in Logs /\ "next" \in {"idle", "next"}
  BY DEF Logs
<1> QED
  BY <1>1, <1>2, AbandonsKeeps

LEMMA SaveSectionKeeps ==
  ASSUME IInv, NEW w \in Worker, SaveSection(w)
  PROVE  IInv'
<1>1. /\ items' = items /\ files' = files /\ span' = [span EXCEPT ![w] = NoSpan]
      /\ run' = [run EXCEPT ![w] = Fresh("index", run[w].todo, run[w].section, "success")]
  BY DEF SaveSection, Now
<1>2. "index" \in Places \ Generating /\ "success" \in {"none", "running", "success", "failed"}
  BY PlacesOutside
<1>3. run[w].todo \in SUBSET Section /\ run[w].section \in Section
  BY TypeFacts DEF Run
<1> QED
  BY <1>1, <1>2, <1>3, ToFresh

(***************************************************************************)
(* The steps of a worker that generates no section.                        *)
(***************************************************************************)
LEMMA EndsRunKeeps ==
  ASSUME IInv, NEW w \in Worker, EndsRun(w)
  PROVE  IInv'
<1> DEFINE q == [run[w] EXCEPT !.at = "idle"]
<1>1. run[w] \in Run /\ "idle" \in Places
  BY TypeFacts, PlacesOutside
<1>2. /\ q \in Run /\ q.at = "idle" /\ q.section = run[w].section
      /\ q.shard = run[w].shard /\ q.new = run[w].new
  BY <1>1, MoveFacts
<1>3. /\ items' = items /\ files' = files /\ span' = span
      /\ run' = [run EXCEPT ![w] = q] /\ run[w].at = "next"
  BY DEF EndsRun, Now, OnlyRun, database, history
<1>4. run[w].at \notin Generating /\ q.at \notin Generating
  BY <1>2, <1>3, PlacesOutside
<1> HIDE DEF q
<1> QED
  BY <1>2, <1>3, <1>4, OutsideKeeps

LEMMA RecordedPathsType == RecordsOK => RecordedPaths \in SUBSET Path
BY DEF RecordsOK, RecordedPaths, Path

LEMMA ReadRecordsKeeps ==
  ASSUME IInv, NEW w \in Worker, ReadRecords(w)
  PROVE  IInv'
<1> DEFINE L == RecordedPaths
           q == [run[w] EXCEPT !.at = "swap out", !.listing = L]
<1>1. run[w] \in Run /\ "swap out" \in Places /\ L \in SUBSET Path
  BY TypeFacts, PlacesOutside, RecordedPathsType DEF IInv
<1>2. /\ items' = items /\ files' = files /\ span' = span
      /\ run' = [run EXCEPT ![w] = q] /\ run[w].at = "index"
  BY DEF ReadRecords, Now, OnlyRun, database, history
<1> HIDE DEF L
<1>3. q \in Run
  BY <1>1 DEF Run
<1>4. /\ q.at = "swap out" /\ q.section = run[w].section
      /\ q.shard = run[w].shard /\ q.new = run[w].new
  BY <1>1 DEF Run
<1> HIDE DEF q
<1>5. run[w].at \notin Generating /\ q.at \notin Generating
  BY <1>2, <1>4, PlacesOutside
<1> QED
  BY <1>2, <1>3, <1>4, <1>5, OutsideKeeps

LEMMA SwapOutKeeps ==
  ASSUME IInv, NEW w \in Worker, SwapOut(w)
  PROVE  IInv'
<1> DEFINE q == [run[w] EXCEPT !.at = "swap in"]
<1>1. run[w] \in Run /\ "swap in" \in Places
  BY TypeFacts, PlacesOutside
<1>2. /\ q \in Run /\ q.at = "swap in" /\ q.section = run[w].section
      /\ q.shard = run[w].shard /\ q.new = run[w].new
  BY <1>1, MoveFacts
<1>3. /\ items' = items /\ files' = files /\ span' = span
      /\ run' = [run EXCEPT ![w] = q] /\ run[w].at = "swap out"
  BY DEF SwapOut, Now, database, history
<1>4. run[w].at \notin Generating /\ q.at \notin Generating
  BY <1>2, <1>3, PlacesOutside
<1> HIDE DEF q
<1> QED
  BY <1>2, <1>3, <1>4, OutsideKeeps

LEMMA SwapInKeeps ==
  ASSUME IInv, NEW w \in Worker, SwapIn(w)
  PROVE  IInv'
<1> DEFINE q == [run[w] EXCEPT !.at = "next", !.listing = {}]
<1>1. run[w] \in Run /\ "next" \in Places /\ {} \in SUBSET Path
  BY TypeFacts, PlacesOutside
<1>2. /\ items' = items /\ files' = files /\ span' = span
      /\ run' = [run EXCEPT ![w] = q] /\ run[w].at = "swap in"
  BY DEF SwapIn, Now, database, history
<1>3. q \in Run
  BY <1>1 DEF Run
<1>4. /\ q.at = "next" /\ q.section = run[w].section
      /\ q.shard = run[w].shard /\ q.new = run[w].new
  BY <1>1 DEF Run
<1> HIDE DEF q
<1>5. run[w].at \notin Generating /\ q.at \notin Generating
  BY <1>2, <1>4, PlacesOutside
<1> QED
  BY <1>2, <1>3, <1>4, <1>5, OutsideKeeps

-----------------------------------------------------------------------------
LEMMA WorkerStepKeeps ==
  ASSUME IInv, NEW w \in Worker, WorkerStep(w)
  PROVE  IInv'
<1>1. CASE EndsRun(w) \/ ReadRecords(w) \/ SwapOut(w) \/ SwapIn(w)
  BY <1>1, EndsRunKeeps, ReadRecordsKeeps, SwapOutKeeps, SwapInKeeps
<1>2. CASE \E s \in Section : BeginSection(w, s)
  BY <1>2, BeginSectionKeeps
<1>3. CASE ReadChunk(w) \/ WriteEntry(w)
  BY <1>3, ReadChunkKeeps, WriteEntryKeeps
<1>4. CASE CloseShard(w) \/ CloseLastShard(w) \/ SaveShard(w)
  BY <1>4, CloseShardKeeps, CloseLastShardKeeps, SaveShardKeeps
<1>5. CASE DeleteRecords(w) \/ CreateRecord(w) \/ RecordConflict(w)
  BY <1>5, DeleteRecordsKeeps, CreateRecordKeeps, RecordConflictKeeps
<1>6. CASE RemoveStaleFiles(w) \/ SaveSection(w)
  BY <1>6, RemoveStaleFilesKeeps, SaveSectionKeeps
<1> QED
  BY <1>1, <1>2, <1>3, <1>4, <1>5, <1>6 DEF WorkerStep

LEMMA NextIInv == IInv /\ [Next]_vars => IInv'
<1> SUFFICES ASSUME IInv, [Next]_vars PROVE IInv'
  OBVIOUS
<1>1. CASE Application
  BY <1>1, ApplicationKeeps
<1>2. ASSUME NEW w \in Worker, StartTask(w) \/ WorkerStep(w) \/ Failure(w) PROVE IInv'
  BY <1>2, StartTaskKeeps, WorkerStepKeeps, FailureKeeps
<1>3. CASE Cleanup
  BY <1>3, CleanupKeeps
<1>4. CASE UNCHANGED vars
  BY <1>4, NothingSeen DEF vars
<1> QED
  BY <1>1, <1>2, <1>3, <1>4 DEF Next

\* The invariant holds from the first state on, however the tasks, the
\* changes of rows, the failures and the cleanup are interleaved.
THEOREM GenerationCorrect == Safe => []IInv
BY InitIInv, NextIInv, PTL DEF Safe

-----------------------------------------------------------------------------
LEMMA IInvKeyset == IInv => KeysetExact
<1> SUFFICES ASSUME IInv, NEW w \in Worker, run[w].at \in {"records", "create", "stats"}
             PROVE  LET r == run[w] IN
                    /\ span[w].always \subseteq UNION Shards(r)
                    /\ UNION Shards(r) \subseteq span[w].ever
                    /\ \A m, n \in DOMAIN r.new : m # n => r.new[m] \cap r.new[n] = {}
  BY DEF KeysetExact
<1> DEFINE r == run[w]
<1>1. /\ Complete(r, span[w].always, span[w].ever) /\ Separate(r) /\ r.shard = {}
  BY TypeFacts DEF Progress, Done
<1>2. \A i : i \in UNION Shards(r) <=> Written(r, i)
  BY <1>1 DEF Shards, Written
<1>3. UNION Shards(r) \subseteq Item
 <2>1. r.new \in Seq(SUBSET Item)
   BY TypeFacts DEF Run
 <2>2. \A n \in DOMAIN r.new : r.new[n] \subseteq Item
   BY <2>1
 <2> QED
   BY <2>2 DEF Shards
<1>4. span[w].always \subseteq UNION Shards(r)
  BY <1>1, <1>2 DEF Complete
<1>5. UNION Shards(r) \subseteq span[w].ever
  BY <1>1, <1>2, <1>3 DEF Complete
<1> QED
  BY <1>1, <1>4, <1>5 DEF Separate

\* Keyset pagination loses no row that stays, lists none that never was there
\* and none twice, for every batch size, shard limit and number of workers,
\* while rows come and go between the batches.
THEOREM KeysetCorrect == Spec => []KeysetExact
BY GenerationCorrect, IInvKeyset, PTL DEF Spec

LEMMA IInvLimits == IInv => ShardLimits
BY TypeFacts DEF ShardLimits, Limits

\* No shard that any worker writes exceeds the limit, and none is empty but
\* the only one of a section without rows.
THEOREM LimitsCorrect == Spec => []ShardLimits
BY GenerationCorrect, IInvLimits, PTL DEF Spec

-----------------------------------------------------------------------------
(***************************************************************************)
(* What the section shows its visitors.  A section that nobody has named,  *)
(* and nobody generates, is exact, and the cleanup does not spare it by    *)
(* chance: it knows the recorded files, or has left them off its list.     *)
(***************************************************************************)
Named(s) == stale[s] \/ s \in missed
Spared(s) ==
  /\ cleaner.at = "list" => ShardsOf(s) \subseteq cleaner.known
  /\ cleaner.at = "delete" => ShardsOf(s) \cap cleaner.doomed = {}
Upheld(s) == Named(s) \/ marks[s] > 0 \/ Busy(s) \/ (Exact(s) /\ Spared(s))

(***************************************************************************)
(* A generation that was not forced finds its section named as long as it  *)
(* lasts; one that is alone has the section and the storage to itself, and *)
(* what it has written stays in place.                                     *)
(***************************************************************************)
Flagged(w, s) == Generates(w, s) => span[w].forced \/ Named(s)
Apart(w, s) ==
  Generates(w, s) /\ span[w].alone =>
    cleaner.at = "idle" /\ \A v \in Worker \ {w} : ~Generates(v, s)
InPlace(w, s) ==
  Generates(w, s) /\ span[w].alone =>
    /\ \A n \in 0..(Len(run[w].new) - 1) :
         <<s, n>> \in DOMAIN store /\ store[<<s, n>>] = run[w].new[n + 1]
    /\ run[w].at \in {"save", "save last"} => <<s, Len(run[w].new)>> \notin DOMAIN store
    /\ run[w].at \in Done => run[w].new # <<>>
    /\ run[w].at \in Writing \cup {"records"} => run[w].made = 0
    /\ run[w].at \in {"create", "stats"} =>
         /\ run[w].made <= Len(run[w].new)
         /\ DOMAIN files[s] = 0..(run[w].made - 1)
         /\ \A n \in DOMAIN files[s] : files[s][n] = Cardinality(run[w].new[n + 1])
    /\ run[w].at = "stats" => run[w].made = Len(run[w].new)

(***************************************************************************)
(* The record that a worker would run into has another worker behind it    *)
(* which is further and will have the last word, or the section is named.  *)
(***************************************************************************)
Recording(w, s) == run[w].section = s /\ run[w].at \in {"create", "stats"}
Ahead(s, n) == \E x \in Worker : Recording(x, s) /\ run[x].made > n
Explained(w, s) ==
  Recording(w, s) => \A n \in DOMAIN files[s] : n < run[w].made \/ Named(s) \/ Ahead(s, n)

Kinds ==
  /\ marks \in [Section -> Nat] /\ DOMAIN stale = Section
  /\ DOMAIN cleaner = DOMAIN NoCleanup

Upright(w, s) == Flagged(w, s) /\ Apart(w, s) /\ InPlace(w, s) /\ Explained(w, s)
JInv == Kinds /\ (\A s \in Section : Upheld(s)) /\ \A w \in Worker, s \in Section : Upright(w, s)

SameShard(p) ==
  /\ p \in DOMAIN store' <=> p \in DOMAIN store
  /\ p \in DOMAIN store => store'[p] = store[p]
SameShards(s) == \A n : SameShard(<<s, n>>)

LEMMA RecordingGenerates ==
  ASSUME NEW w, NEW s
  PROVE  (Recording(w, s) => Generates(w, s)) /\ (Recording(w, s)' => Generates(w, s)')
BY DEF Recording, Generates, Generating

\* Exact and spared, it stays so while its rows, records and shards do.
LEMMA ExactStays ==
  ASSUME NEW s \in Section, Exact(s), items'[s] = items[s], files'[s] = files[s],
         \A p \in ShardsOf(s) : SameShard(p)
  PROVE  Exact(s)'
<1>1. ShardsOf(s)' = ShardsOf(s)
  BY DEF ShardsOf
<1>2. \A p \in ShardsOf(s) : p \in DOMAIN store' /\ store'[p] = store[p]
  BY DEF Exact, SameShard
<1>3. UNION {store'[p] : p \in ShardsOf(s)} = UNION {store[p] : p \in ShardsOf(s)}
  BY <1>2
<1> QED
  BY <1>1, <1>2, <1>3 DEF Exact

\* What is said of a worker and of a section depends on these only.
LEMMA UpheldStays ==
  ASSUME NEW s \in Section, Upheld(s), Named(s) => Named(s)', marks'[s] = marks[s],
         Busy(s) => Busy(s)' \/ Named(s)',
         items'[s] = items[s], files'[s] = files[s], SameShards(s), UNCHANGED cleaner
  PROVE  Upheld(s)'
<1>1. ASSUME Exact(s), Spared(s) PROVE Exact(s)' /\ Spared(s)'
 <2>1. \A p \in ShardsOf(s) : SameShard(p)
   BY DEF ShardsOf, SameShards
 <2>2. Exact(s)'
   BY <1>1, <2>1, ExactStays
 <2>3. Spared(s)'
   BY <1>1 DEF Spared, ShardsOf
 <2> QED
   BY <2>2, <2>3
<1> QED
  BY <1>1 DEF Upheld

LEMMA UprightStays ==
  ASSUME NEW v \in Worker, NEW s \in Section, Upright(v, s),
         run'[v] = run[v], span'[v].forced = span[v].forced, span'[v].alone => span[v].alone,
         Named(s) => Named(s)', UNCHANGED cleaner, files'[s] = files[s], SameShards(s),
         \A u \in Worker : Generates(u, s)' => Generates(u, s),
         \A x \in Worker : Recording(x, s) => Recording(x, s)' /\ run'[x].made = run[x].made
  PROVE  Upright(v, s)'
<1>1. Generates(v, s)' <=> Generates(v, s)
  BY DEF Generates
<1>2. Flagged(v, s)'
  BY <1>1 DEF Upright, Flagged
<1>3. Apart(v, s)'
  BY <1>1 DEF Upright, Apart
<1>4. InPlace(v, s)'
  BY <1>1 DEF Upright, InPlace, SameShards, SameShard
<1>5. Explained(v, s)'
 <2>1. \A n : Ahead(s, n) => Ahead(s, n)'
   BY DEF Ahead
 <2>2. Recording(v, s)' => Recording(v, s)
   BY DEF Recording
 <2> QED
   BY <2>1, <2>2 DEF Upright, Explained
<1> QED
  BY <1>2, <1>3, <1>4, <1>5 DEF Upright

\* Nothing generates before or after the step what did not before and after.
Aside(v) ==
  \/ run'[v] = run[v] /\ span'[v] = span[v]
  \/ run[v].at \notin Generating /\ run'[v].at \notin Generating

LEMMA AsideStep ==
  ASSUME JInv, \A v \in Worker : Aside(v),
         UNCHANGED <<items, marks, stale, files, store, missed, cleaner>>
  PROVE  JInv'
<1>1. Kinds'
  BY DEF JInv, Kinds
<1>2. \A s \in Section : SameShards(s) /\ (Named(s)' <=> Named(s))
  BY DEF SameShards, SameShard, Named
<1>3. \A v \in Worker, s \in Section : Generates(v, s)' <=> Generates(v, s)
  BY DEF Aside, Generates
<1>4. \A v \in Worker, s \in Section : Recording(v, s) => Recording(v, s)' /\ run'[v].made = run[v].made
  BY DEF Aside, Recording, Generating
<1>5. ASSUME NEW s \in Section PROVE Upheld(s)'
 <2>1. Busy(s) => Busy(s)'
   BY <1>3 DEF Busy
 <2> QED
   BY <1>2, <2>1, UpheldStays DEF JInv
<1>6. ASSUME NEW v \in Worker, NEW s \in Section PROVE Upright(v, s)'
 <2>1. CASE run'[v] = run[v] /\ span'[v] = span[v]
   BY <1>2, <1>3, <1>4, <2>1, UprightStays DEF JInv
 <2>2. CASE run[v].at \notin Generating /\ run'[v].at \notin Generating
  <3>1. ~Generates(v, s)' /\ ~Recording(v, s)'
    BY <2>2, RecordingGenerates DEF Generates
  <3> QED
    BY <3>1 DEF Upright, Flagged, Apart, InPlace, Explained
 <2> QED
   BY <2>1, <2>2 DEF Aside
<1> QED
  BY <1>1, <1>5, <1>6 DEF JInv

LEMMA RunStep ==
  ASSUME IInv, NEW w \in Worker, NEW q, run' = [run EXCEPT ![w] = q]
  PROVE  run'[w] = q /\ \A v \in Worker \ {w} : run'[v] = run[v]
BY DEF IInv, Types

\* A step of a generation goes on with it.
LEMMA InsideStep ==
  ASSUME IInv, JInv, NEW w \in Worker, NEW s \in Section, Generates(w, s), NEW q,
         q.section = s, q.at \in Generating, run' = [run EXCEPT ![w] = q],
         UNCHANGED <<items, marks, stale, span, missed, cleaner>>,
         \A t \in Section \ {s} : files'[t] = files[t] /\ SameShards(t),
         InPlace(w, s) => InPlace(w, s)',
         (\A v \in Worker : Explained(v, s)) => \A v \in Worker : Explained(v, s)'
  PROVE  JInv'
<1>1. run'[w] = q /\ \A v \in Worker \ {w} : run'[v] = run[v]
  BY RunStep
<1>2. \A t : Named(t)' <=> Named(t)
  BY DEF Named
<1>3. \A v \in Worker, t \in Section : Generates(v, t)' <=> Generates(v, t)
  BY <1>1 DEF Generates
<1>4. \A v \in Worker, t \in Section \ {s} :
         Recording(v, t) => Recording(v, t)' /\ run'[v].made = run[v].made
  BY <1>1 DEF Recording, Generates
<1>5. Kinds'
  BY DEF JInv, Kinds
<1>6. ASSUME NEW t \in Section PROVE Upheld(t)'
 <2>1. CASE t = s
   BY <1>3, <2>1 DEF Upheld, Busy
 <2>2. CASE t # s
  <3>1. Busy(t) => Busy(t)'
    BY <1>3 DEF Busy
  <3> QED
    BY <1>2, <2>2, <3>1, UpheldStays DEF JInv
 <2> QED
   BY <2>1, <2>2
<1>7. ASSUME NEW v \in Worker, NEW t \in Section PROVE Upright(v, t)'
 <2>1. CASE t # s
  <3>1. CASE v # w
    BY <1>1, <1>2, <1>3, <1>4, <2>1, <3>1, UprightStays DEF JInv
  <3>2. CASE v = w
   <4>1. ~Generates(v, t)' /\ ~Recording(v, t)'
     BY <1>1, <2>1, <3>2 DEF Generates, Recording
   <4> QED
     BY <4>1 DEF Upright, Flagged, Apart, InPlace, Explained
  <3> QED
    BY <3>1, <3>2
 <2>2. CASE t = s
  <3>1. Upright(v, s)
    BY DEF JInv
  <3>2. Flagged(v, s)' /\ Apart(v, s)'
    BY <1>2, <1>3, <3>1 DEF Upright, Flagged, Apart
  <3>3. Explained(v, s)'
    BY DEF JInv, Upright
  <3>4. InPlace(v, s)'
   <4>1. CASE v = w
     BY <3>1, <4>1 DEF Upright
   <4>2. CASE v # w
    <5>1. ~(Generates(v, s) /\ span[v].alone)
      BY <3>1, <4>2 DEF Upright, Apart
    <5> QED
      BY <1>3, <5>1 DEF InPlace
   <4> QED
     BY <4>1, <4>2
  <3> QED
    BY <2>2, <3>2, <3>3, <3>4 DEF Upright
 <2> QED
   BY <2>1, <2>2
<1> QED
  BY <1>5, <1>6, <1>7 DEF JInv

\* A worker leaves its generation.
LEMMA LeavingStep ==
  ASSUME IInv, JInv, NEW w \in Worker, NEW s \in Section, Generates(w, s), NEW q,
         q.at \notin Generating, run' = [run EXCEPT ![w] = q],
         \A v \in Worker \ {w} : span'[v] = span[v],
         UNCHANGED <<items, marks, files, store, cleaner>>, Kinds',
         \A t \in Section \ {s} : Named(t)' <=> Named(t),
         Upheld(s)', \A v \in Worker \ {w} : Flagged(v, s)' /\ Explained(v, s)'
  PROVE  JInv'
<1>1. run'[w] = q /\ \A v \in Worker \ {w} : run'[v] = run[v]
  BY RunStep
<1>2. \A t : SameShards(t)
  BY DEF SameShards, SameShard
<1>3. \A v \in Worker, t \in Section : Generates(v, t)' => Generates(v, t) /\ v # w
  BY <1>1 DEF Generates
<1>4. \A v \in Worker, t \in Section \ {s} :
         /\ Generates(v, t) => Generates(v, t)'
         /\ Recording(v, t) => Recording(v, t)' /\ run'[v].made = run[v].made
  BY <1>1 DEF Recording, Generates
<1>5. ASSUME NEW t \in Section PROVE Upheld(t)'
 <2>1. CASE t # s
  <3>1. Busy(t) => Busy(t)'
    BY <1>4, <2>1 DEF Busy
  <3> QED
    BY <1>2, <2>1, <3>1, UpheldStays DEF JInv
 <2> QED
   BY <2>1
<1>6. ASSUME NEW v \in Worker, NEW t \in Section PROVE Upright(v, t)'
 <2>1. CASE v = w
  <3>1. ~Generates(v, t)' /\ ~Recording(v, t)'
    BY <1>3, <2>1, RecordingGenerates
  <3> QED
    BY <3>1 DEF Upright, Flagged, Apart, InPlace, Explained
 <2>2. CASE v # w /\ t # s
   BY <1>1, <1>2, <1>3, <1>4, <2>2, UprightStays DEF JInv
 <2>3. CASE v # w /\ t = s
  <3>1. Upright(v, s) /\ run'[v] = run[v] /\ span'[v] = span[v]
    BY <1>1, <2>3 DEF JInv
  <3>2. Apart(v, s)'
    BY <1>3, <3>1 DEF Upright, Apart
  <3>3. InPlace(v, s)'
    BY <1>3, <3>1 DEF Upright, InPlace
  <3> QED
    BY <2>3, <3>2, <3>3 DEF Upright
 <2> QED
   BY <2>1, <2>2, <2>3
<1> QED
  BY <1>5, <1>6 DEF JInv

\* A worker that generates nothing moves, and begins nothing.
LEMMA MoveAside ==
  ASSUME IInv, JInv, NEW w \in Worker, NEW q, run' = [run EXCEPT ![w] = q],
         run[w].at \notin Generating, q.at \notin Generating,
         \A v \in Worker \ {w} : span'[v] = span[v],
         UNCHANGED <<items, marks, stale, files, store, missed, cleaner>>
  PROVE  JInv'
<1>1. run'[w] = q /\ \A v \in Worker \ {w} : run'[v] = run[v]
  BY RunStep
<1>2. \A v \in Worker : Aside(v)
  BY <1>1 DEF Aside
<1> QED
  BY <1>2, AsideStep

LEMMA StartTaskJInv ==
  ASSUME IInv, JInv, NEW w \in Worker, StartTask(w)
  PROVE  JInv'
<1>1. ASSUME NEW S, Starts(w, S) PROVE JInv'
 <2> DEFINE q == Fresh("next", S, SomeSection, "none")
 <2>1. /\ run' = [run EXCEPT ![w] = q] /\ run[w].at = "idle"
       /\ UNCHANGED <<items, marks, stale, files, store, span, missed, cleaner>>
   BY <1>1 DEF Starts, Now, OnlyRun, database, history
 <2>2. q.at = "next"
   BY DEF Fresh
 <2> HIDE DEF q
 <2>3. run[w].at \notin Generating /\ q.at \notin Generating
   BY <2>1, <2>2 DEF Generating
 <2> QED
   BY <2>1, <2>3, MoveAside
<1>2. CASE RegenerateStale(w) \/ RegenerateAll(w) \/ \E s \in Section : RegenerateOne(w, s)
  BY <1>1, <1>2 DEF RegenerateStale, RegenerateAll, RegenerateOne
<1>3. CASE ServeIndex(w)
 <2> DEFINE q == [run[w] EXCEPT !.at = "index"]
 <2>1. /\ run' = [run EXCEPT ![w] = q] /\ run[w].at = "idle"
       /\ UNCHANGED <<items, marks, stale, files, store, span, missed, cleaner>>
   BY <1>3 DEF ServeIndex, Now, OnlyRun, database, history
 <2>2. q.at = "index"
   BY TypeFacts, PlacesOutside, MoveFacts
 <2> HIDE DEF q
 <2>3. run[w].at \notin Generating /\ q.at \notin Generating
   BY <2>1, <2>2 DEF Generating
 <2> QED
   BY <2>1, <2>3, MoveAside
<1> QED
  BY <1>2, <1>3 DEF StartTask

LEMMA OutsideJInv ==
  ASSUME IInv, JInv, NEW w \in Worker,
         EndsRun(w) \/ ReadRecords(w) \/ SwapOut(w) \/ SwapIn(w)
  PROVE  JInv'
<1>1. PICK q : /\ run' = [run EXCEPT ![w] = q]
               /\ q.at \in {"idle", "swap out", "swap in", "next"}
 <2>1. CASE EndsRun(w)
  <3>1. [run[w] EXCEPT !.at = "idle"].at = "idle"
    BY TypeFacts, PlacesOutside, MoveFacts
  <3> QED
    BY <2>1, <3>1 DEF EndsRun, Now
 <2>2. CASE ReadRecords(w)
  <3> DEFINE L == RecordedPaths
  <3>1. run' = [run EXCEPT ![w] = [run[w] EXCEPT !.at = "swap out", !.listing = L]]
    BY <2>2 DEF ReadRecords, Now
  <3> HIDE DEF L
  <3>2. [run[w] EXCEPT !.at = "swap out", !.listing = L].at = "swap out"
    BY TypeFacts DEF Run
  <3> QED
    BY <3>1, <3>2
 <2>3. CASE SwapOut(w)
  <3>1. [run[w] EXCEPT !.at = "swap in"].at = "swap in"
    BY TypeFacts, PlacesOutside, MoveFacts
  <3> QED
    BY <2>3, <3>1 DEF SwapOut, Now
 <2>4. CASE SwapIn(w)
  <3>1. [run[w] EXCEPT !.at = "next", !.listing = {}].at = "next"
    BY TypeFacts DEF Run
  <3> QED
    BY <2>4, <3>1 DEF SwapIn, Now
 <2> QED
   BY <2>1, <2>2, <2>3, <2>4
<1>2. /\ run[w].at \in {"next", "index", "swap out", "swap in"}
      /\ UNCHANGED <<items, marks, stale, files, store, span, missed, cleaner>>
  BY DEF EndsRun, ReadRecords, SwapOut, SwapIn, OnlyRun, database, history
<1>3. run[w].at \notin Generating /\ q.at \notin Generating
  BY <1>1, <1>2 DEF Generating
<1> QED
  BY <1>1, <1>2, <1>3, MoveAside

\* The queryset or the storage raises before anything is generated.
LEMMA FailsEarlyJInv ==
  ASSUME IInv, JInv, NEW w \in Worker, NEW s \in Section, FailsBeforeTry(w, s)
  PROVE  JInv'
<1> DEFINE q == Fresh("next", run[w].todo \ {s}, s, "running")
<1>1. /\ run' = [run EXCEPT ![w] = q] /\ run[w].at = "next"
      /\ UNCHANGED <<items, marks, stale, files, store, span, missed, cleaner>>
  BY DEF FailsBeforeTry, Now, database, history
<1>2. q.at = "next"
  BY DEF Fresh
<1> HIDE DEF q
<1>3. run[w].at \notin Generating /\ q.at \notin Generating
  BY <1>1, <1>2 DEF Generating
<1> QED
  BY <1>1, <1>3, MoveAside

-----------------------------------------------------------------------------
(***************************************************************************)
(* The application: a change leaves a mark to be made, and a mark names    *)
(* the section.                                                            *)
(***************************************************************************)
LEMMA ApplicationJInv ==
  ASSUME IInv, JInv, Application
  PROVE  JInv'
<1>1. PICK s \in Section :
         \/ \E J : Change(s, J) \/ CommitsFlag(s, J) \/ CommitsRows(s, J)
         \/ MarkSectionStale(s) \/ MarkFails(s) \/ Opens(s) \/ RollsBack(s)
  BY DEF Application, Add, Remove, EndsTransaction
<1>2. UNCHANGED <<files, store, run, cleaner>>
  BY <1>1 DEF Change, CommitsFlag, CommitsRows, MarkSectionStale, MarkFails, Opens, RollsBack
<1>3. /\ \A t \in Section \ {s} :
           items'[t] = items[t] /\ marks'[t] = marks[t] /\ stale'[t] = stale[t]
      /\ \A t \in Section : Named(t) => Named(t)'
      /\ Kinds'
      /\ marks'[s] > 0 \/ Named(s)' \/ UNCHANGED <<items, marks, stale>>
 <2>1. marks \in [Section -> Nat] /\ DOMAIN stale = Section
       /\ DOMAIN cleaner = DOMAIN NoCleanup
       /\ DOMAIN items = Section
   BY DEF JInv, Kinds, IInv, Types
 <2>2. CASE \E J : Change(s, J)
  <3>1. PICK J : Change(s, J)
    BY <2>2
  <3>2. /\ items' = [items EXCEPT ![s] = J] /\ marks' = [marks EXCEPT ![s] = @ + 1]
        /\ stale' = stale /\ missed' = missed
    BY <3>1 DEF Change
  <3>3. marks' \in [Section -> Nat] /\ marks'[s] > 0
    BY <2>1, <3>2
  <3> QED
    BY <1>2, <2>1, <3>2, <3>3 DEF Kinds, Named
 <2>3. CASE MarkSectionStale(s)
  <3>1. /\ marks[s] > 0 /\ marks' = [marks EXCEPT ![s] = @ - 1]
        /\ stale' = [stale EXCEPT ![s] = TRUE] /\ items' = items /\ missed' = missed
    BY <2>3 DEF MarkSectionStale, history
  <3>2. marks' \in [Section -> Nat]
    BY <2>1, <3>1
  <3> QED
    BY <1>2, <2>1, <3>1, <3>2 DEF Kinds, Named
 <2>4. CASE MarkFails(s)
  <3>1. /\ marks[s] > 0 /\ marks' = [marks EXCEPT ![s] = @ - 1]
        /\ stale' = stale /\ items' = items /\ missed' = missed \cup {s}
    BY <2>4 DEF MarkFails
  <3>2. marks' \in [Section -> Nat]
    BY <2>1, <3>1
  <3> QED
    BY <1>2, <2>1, <3>1, <3>2 DEF Kinds, Named
 <2>5. CASE \E J : CommitsFlag(s, J) \/ CommitsRows(s, J)
  <3>1. PICK J : CommitsFlag(s, J) \/ CommitsRows(s, J)
    BY <2>5
  <3>2. /\ items' = [items EXCEPT ![s] = J] /\ marks' = marks
        /\ \/ stale' = [stale EXCEPT ![s] = TRUE] /\ missed' = missed
           \/ stale' = stale /\ missed' = IF stale[s] THEN missed ELSE missed \cup {s}
    BY <3>1 DEF CommitsFlag, CommitsRows
  <3> QED
    BY <1>2, <2>1, <3>2 DEF Kinds, Named
 <2>6. CASE Opens(s) \/ RollsBack(s)
  <3>1. UNCHANGED <<items, marks, stale, missed>>
    BY <2>6 DEF Opens, RollsBack, history
  <3> QED
    BY <1>2, <2>1, <3>1 DEF Kinds, Named
 <2> QED
   BY <1>1, <2>2, <2>3, <2>4, <2>5, <2>6
<1>4. \A v \in Worker : span'[v].forced = span[v].forced /\ span'[v].alone = span[v].alone
 <2>1. CASE span' = span
   BY <2>1
 <2>2. ASSUME NEW J, span' = Observed(s, J), NEW v \in Worker
       PROVE  span'[v].forced = span[v].forced /\ span'[v].alone = span[v].alone
   BY <2>2, TypeFacts DEF Observed, SpanType
 <2> QED
   BY <1>1, <2>1, <2>2 DEF Change, CommitsFlag, CommitsRows, MarkSectionStale, MarkFails,
                           Opens, RollsBack, history
<1>5. \A t \in Section : SameShards(t)
  BY <1>2 DEF SameShards, SameShard
<1>6. \A v \in Worker, t \in Section :
         (Generates(v, t)' <=> Generates(v, t)) /\ (Recording(v, t)' <=> Recording(v, t))
  BY <1>2 DEF Generates, Recording
<1>7. ASSUME NEW t \in Section PROVE Upheld(t)'
 <2>1. Busy(t) => Busy(t)'
   BY <1>6 DEF Busy
 <2>2. CASE t = s /\ (marks'[s] > 0 \/ Named(s)')
   BY <2>2 DEF Upheld
 <2>3. CASE t # s \/ UNCHANGED <<items, marks, stale>>
   BY <1>2, <1>3, <1>5, <2>1, <2>3, UpheldStays DEF JInv
 <2> QED
   BY <1>3, <2>2, <2>3
<1>8. ASSUME NEW v \in Worker, NEW t \in Section PROVE Upright(v, t)'
  BY <1>2, <1>3, <1>4, <1>5, <1>6, UprightStays DEF JInv
<1> QED
  BY <1>3, <1>7, <1>8 DEF JInv

-----------------------------------------------------------------------------
(***************************************************************************)
(* The steps that write shards.                                            *)
(***************************************************************************)
LEMMA RecordersStay ==
  ASSUME NEW s \in Section, files'[s] = files[s], Named(s)' <=> Named(s),
         \A v \in Worker : Recording(v, s)' <=> Recording(v, s),
         \A v \in Worker : Recording(v, s) => run'[v].made = run[v].made,
         NEW v \in Worker, Explained(v, s)
  PROVE  Explained(v, s)'
<1>1. \A n : Ahead(s, n)' <=> Ahead(s, n)
  BY DEF Ahead
<1> QED
  BY <1>1 DEF Explained

LEMMA WritingStep ==
  ASSUME IInv, JInv, NEW w \in Worker, NEW s \in Section, NEW q,
         run[w].section = s, run[w].at \in Writing,
         q.section = s, q.at \in Writing \cup {"records"}, run' = [run EXCEPT ![w] = q],
         UNCHANGED <<items, marks, stale, files, span, missed, cleaner>>,
         \A t \in Section \ {s} : SameShards(t),
         InPlace(w, s) => InPlace(w, s)'
  PROVE  JInv'
<1>1. run'[w] = q /\ \A v \in Worker \ {w} : run'[v] = run[v]
  BY RunStep
<1>2. Generates(w, s) /\ q.at \in Generating
  BY DEF Generates, Generating, Writing
<1>3. \A v \in Worker : /\ Recording(v, s)' <=> Recording(v, s)
                        /\ Recording(v, s) => run'[v].made = run[v].made
  BY <1>1 DEF Recording, Writing
<1>4. Named(s)' <=> Named(s)
  BY DEF Named
<1>5. (\A v \in Worker : Explained(v, s)) => \A v \in Worker : Explained(v, s)'
  BY <1>3, <1>4, RecordersStay
<1>6. \A t \in Section \ {s} : files'[t] = files[t] /\ SameShards(t)
  OBVIOUS
<1> QED
  BY <1>2, <1>5, <1>6, InsideStep

LEMMA LengthIsNat ==
  ASSUME NEW f \in Seq(SUBSET Item)
  PROVE  Len(f) \in Nat /\ DOMAIN f = 1..Len(f) /\ (f # <<>> <=> Len(f) > 0)
OBVIOUS

LEMMA SectionFact ==
  ASSUME IInv, NEW w \in Worker
  PROVE  /\ run[w].section \in Section /\ run[w].made \in Nat
         /\ run[w].new \in Seq(SUBSET Item) /\ Len(run[w].new) \in Nat
<1>1. run[w].section \in Section /\ run[w].made \in Nat /\ run[w].new \in Seq(SUBSET Item)
  BY TypeFacts DEF Run
<1> QED
  BY <1>1, LengthIsNat

LEMMA EntriesJInv ==
  ASSUME IInv, JInv, NEW w \in Worker, ReadChunk(w) \/ WriteEntry(w)
  PROVE  JInv'
<1>1. run[w] \in Run
  BY TypeFacts
<1> PICK s \in Section : run[w].section = s
  BY SectionFact
<1>2. PICK q : /\ run' = [run EXCEPT ![w] = q] /\ q.at = run[w].at /\ q.section = s
               /\ q.new = run[w].new /\ q.made = run[w].made
 <2>1. CASE ReadChunk(w)
  <3>1. PICK C, m : Now(w, [run[w] EXCEPT !.chunk = C, !.last = m])
    BY <2>1 DEF ReadChunk
  <3> DEFINE q == [run[w] EXCEPT !.chunk = C, !.last = m]
  <3>2. q.at = run[w].at /\ q.section = s /\ q.new = run[w].new /\ q.made = run[w].made
    BY <1>1 DEF Run
  <3> HIDE DEF q
  <3> QED
    BY <3>1, <3>2 DEF Now, q
 <2>2. CASE WriteEntry(w)
  <3>1. PICK i : Now(w, [run[w] EXCEPT !.shard = @ \cup {i}, !.chunk = @ \ {i}])
    BY <2>2 DEF WriteEntry
  <3> DEFINE q == [run[w] EXCEPT !.shard = @ \cup {i}, !.chunk = @ \ {i}]
  <3>2. q.at = run[w].at /\ q.section = s /\ q.new = run[w].new /\ q.made = run[w].made
    BY <1>1 DEF Run
  <3> HIDE DEF q
  <3> QED
    BY <3>1, <3>2 DEF Now, q
 <2> QED
   BY <2>1, <2>2
<1>3. /\ run[w].at = "entries"
      /\ UNCHANGED <<items, marks, stale, files, store, span, missed, cleaner>>
  BY DEF ReadChunk, WriteEntry, OnlyRun, database, history
<1>4. run'[w] = q
  BY <1>2, RunStep
<1>5. InPlace(w, s) => InPlace(w, s)'
  BY <1>2, <1>3, <1>4 DEF InPlace, Generates
<1>6. \A t \in Section : SameShards(t)
  BY <1>3 DEF SameShards, SameShard
<1>7. run[w].at \in Writing /\ q.at \in Writing
  BY <1>2, <1>3 DEF Writing
<1> QED
  BY <1>1, <1>2, <1>3, <1>5, <1>6, <1>7, WritingStep

LEMMA WithoutOne ==
  ASSUME NEW p, store' = StoreWithout({p})
  PROVE  p \notin DOMAIN store' /\ \A x : x # p => SameShard(x)
BY DEF StoreWithout, SameShard

LEMMA BelowDiffers ==
  ASSUME NEW s, NEW k \in Nat, NEW n \in 0..(k - 1)
  PROVE  <<s, n>> # <<s, k>>
<1>1. n # k
  OBVIOUS
<1> QED
  BY <1>1

\* What was at the destination is deleted; what was written before is not.
LEMMA ClosingStep ==
  ASSUME IInv, JInv, NEW w \in Worker, NEW s \in Section, NEW q,
         run[w].section = s, run[w].at = "entries", q.section = s, q.at \in {"save", "save last"},
         q.new = run[w].new, q.made = run[w].made, run' = [run EXCEPT ![w] = q],
         store' = StoreWithout({<<s, Len(run[w].new)>>}),
         UNCHANGED <<items, marks, stale, files, span, missed, cleaner>>
  PROVE  JInv'
<1> DEFINE k == Len(run[w].new)
<1>1. k \in Nat
  BY SectionFact
<1>2. /\ <<s, k>> \notin DOMAIN store'
      /\ \A x : x # <<s, k>> => SameShard(x)
  BY WithoutOne
<1>3. run'[w] = q
  BY RunStep
<1>4. run[w].at \in Generating /\ run[w].at \in Writing /\ q.at \in Generating
      /\ q.at \in Writing /\ q.at \notin Done
  BY DEF Generating, Writing, Done
<1>5. \A t \in Section \ {s} : SameShards(t)
  BY <1>2 DEF SameShards
<1>6. ASSUME InPlace(w, s), Generates(w, s), span[w].alone
      PROVE  InPlace(w, s)'
 <2>1. \A n \in 0..(k - 1) : <<s, n>> \in DOMAIN store /\ store[<<s, n>>] = run[w].new[n + 1]
   BY <1>6 DEF InPlace
 <2>2. \A n \in 0..(k - 1) : <<s, n>> # <<s, k>>
   BY <1>1, BelowDiffers
 <2>3. \A n \in 0..(k - 1) : <<s, n>> \in DOMAIN store' /\ store'[<<s, n>>] = q.new[n + 1]
   BY <1>2, <2>1, <2>2 DEF SameShard
 <2>4. q.made = 0
   BY <1>4, <1>6 DEF InPlace
 <2>5. q.at \notin {"create", "stats"}
   OBVIOUS
 <2> QED
   BY <1>2, <1>3, <1>4, <2>3, <2>4, <2>5 DEF InPlace
<1>7. InPlace(w, s) => InPlace(w, s)'
 <2>1. Generates(w, s)' /\ span'[w].alone => Generates(w, s) /\ span[w].alone
   BY <1>4 DEF Generates
 <2>2. CASE Generates(w, s)' /\ span'[w].alone
   BY <1>6, <2>1, <2>2
 <2>3. CASE ~(Generates(w, s)' /\ span'[w].alone)
   BY <2>3 DEF InPlace
 <2> QED
   BY <2>2, <2>3
<1> QED
  BY <1>4, <1>5, <1>7, WritingStep

LEMMA CloseShardJInv ==
  ASSUME IInv, JInv, NEW w \in Worker, CloseShard(w)
  PROVE  JInv'
<1> PICK s \in Section : run[w].section = s
  BY SectionFact
<1> DEFINE q == [run[w] EXCEPT !.at = "save"]
<1>1. q.at = "save" /\ q.section = s /\ q.new = run[w].new /\ q.made = run[w].made
  BY TypeFacts DEF Run
<1>2. /\ run[w].at = "entries" /\ run' = [run EXCEPT ![w] = q]
      /\ store' = StoreWithout({<<s, Len(run[w].new)>>})
      /\ UNCHANGED <<items, marks, stale, files, span, missed, cleaner>>
  BY DEF CloseShard, Now, PathOf, database, history
<1> HIDE DEF q
<1> QED
  BY <1>1, <1>2, ClosingStep

LEMMA CloseLastShardJInv ==
  ASSUME IInv, JInv, NEW w \in Worker, CloseLastShard(w)
  PROVE  JInv'
<1> PICK s \in Section : run[w].section = s
  BY SectionFact
<1>1. /\ run[w].at = "entries"
      /\ UNCHANGED <<items, marks, stale, files, span, missed, cleaner>>
  BY DEF CloseLastShard, database, history
<1>2. CASE run[w].shard # {} \/ run[w].new = <<>>
 <2> DEFINE q == [run[w] EXCEPT !.at = "save last"]
 <2>1. q.at = "save last" /\ q.section = s /\ q.new = run[w].new /\ q.made = run[w].made
   BY TypeFacts DEF Run
 <2>2. /\ run' = [run EXCEPT ![w] = q]
       /\ store' = StoreWithout({<<s, Len(run[w].new)>>})
   BY <1>2 DEF CloseLastShard, Now, PathOf
 <2> HIDE DEF q
 <2> QED
   BY <1>1, <2>1, <2>2, ClosingStep
<1>3. CASE ~(run[w].shard # {} \/ run[w].new = <<>>)
 <2> DEFINE q == [run[w] EXCEPT !.at = "records"]
 <2>1. q.at = "records" /\ q.section = s /\ q.new = run[w].new /\ q.made = run[w].made
   BY TypeFacts DEF Run
 <2>2. run' = [run EXCEPT ![w] = q] /\ UNCHANGED store
   BY <1>3 DEF CloseLastShard, Now
 <2> HIDE DEF q
 <2>3. run'[w] = q
   BY <2>2, RunStep
 <2>4. run[w].at \in Writing
   BY <1>1 DEF Writing
 <2>5. InPlace(w, s) => InPlace(w, s)'
  <3>1. run[w].at \in Generating /\ q.at \notin {"save", "save last", "create", "stats"}
    BY <1>1, <2>1 DEF Generating
  <3>2. Generates(w, s) /\ q.new # <<>>
    BY <1>3, <2>1, <3>1 DEF Generates
  <3>3. (Generates(w, s) /\ span[w].alone => q.made = 0) => (InPlace(w, s) => InPlace(w, s)')
    BY <1>1, <2>1, <2>2, <2>3, <3>1, <3>2 DEF InPlace
  <3>4. InPlace(w, s) => (Generates(w, s) /\ span[w].alone => q.made = 0)
    BY <2>1, <2>4 DEF InPlace
  <3> QED
    BY <3>3, <3>4
 <2>6. \A t \in Section : SameShards(t)
   BY <2>2 DEF SameShards, SameShard
 <2> QED
   BY <1>1, <2>1, <2>2, <2>4, <2>5, <2>6, WritingStep
<1> QED
  BY <1>2, <1>3

LEMMA SavedAt ==
  ASSUME NEW p, NEW content, p \notin DOMAIN store, store' = Saved(p, content)
  PROVE  /\ p \in DOMAIN store' /\ store'[p] = content
         /\ \A x : x # p => SameShard(x)
BY DEF Saved, SameShard

LEMMA SavedElsewhere ==
  ASSUME NEW p, NEW content, store' = Saved(p, content)
  PROVE  \A x : x # p => SameShard(x)
<1>1. CASE p \in DOMAIN store
  BY <1>1 DEF Saved, SameShard
<1>2. CASE p \notin DOMAIN store
  BY <1>2, SavedAt
<1> QED
  BY <1>1, <1>2

LEMMA SaveShardJInv ==
  ASSUME IInv, JInv, NEW w \in Worker, SaveShard(w)
  PROVE  JInv'
<1> PICK s \in Section : run[w].section = s
  BY SectionFact
<1> PICK k \in Nat : Len(run[w].new) = k
  BY SectionFact
<1> DEFINE r == run[w]
           p == IF r.at = "save" THEN "entries" ELSE "records"
           g == Append(r.new, r.shard)
           q == [r EXCEPT !.at = p, !.new = g, !.shard = {}]
<1>1. r \in Run /\ r.new \in Seq(SUBSET Item) /\ r.shard \in SUBSET Item
  BY TypeFacts DEF Run
<1>2. /\ Len(g) = k + 1 /\ g # <<>> /\ g[k + 1] = r.shard
      /\ \A n \in 0..(k - 1) : g[n + 1] = r.new[n + 1]
  BY <1>1
<1>3. /\ r.at \in {"save", "save last"} /\ run' = [run EXCEPT ![w] = q]
      /\ store' = Saved(<<s, k>>, r.shard)
      /\ UNCHANGED <<items, marks, stale, files, span, missed, cleaner>>
  BY DEF SaveShard, Now, PathOf, database, history
<1> HIDE DEF g
<1>4. q.at = p /\ q.section = s /\ q.new = g /\ q.made = r.made
  BY <1>1 DEF Run
<1>5. p \in {"entries", "records"}
  OBVIOUS
<1> HIDE DEF q, p
<1>6. run'[w] = q
  BY <1>3, RunStep
<1>7. \A x : x # <<s, k>> => SameShard(x)
  BY <1>3, SavedElsewhere
<1>8. \A t \in Section \ {s} : SameShards(t)
  BY <1>7 DEF SameShards
<1>9. /\ r.at \in Generating /\ r.at \in Writing /\ q.at \in Generating
      /\ q.at \in Writing \cup {"records"}
      /\ q.at \notin {"save", "save last", "create", "stats"}
  BY <1>3, <1>4, <1>5 DEF Generating, Writing
<1>10. ASSUME InPlace(w, s), span[w].alone PROVE InPlace(w, s)'
 <2>1. Generates(w, s)
   BY <1>9 DEF Generates
 <2>2. /\ \A n \in 0..(k - 1) : <<s, n>> \in DOMAIN store /\ store[<<s, n>>] = r.new[n + 1]
       /\ <<s, k>> \notin DOMAIN store /\ r.made = 0
   BY <1>3, <1>9, <1>10, <2>1 DEF InPlace
 <2>3. <<s, k>> \in DOMAIN store' /\ store'[<<s, k>>] = r.shard
   BY <1>3, <2>2, SavedAt
 <2>4. ASSUME NEW n \in 0..((k + 1) - 1)
       PROVE  <<s, n>> \in DOMAIN store' /\ store'[<<s, n>>] = g[n + 1]
  <3>1. CASE n = k
    BY <1>2, <2>3, <3>1
  <3>2. CASE n \in 0..(k - 1)
   <4>1. SameShard(<<s, n>>)
     BY <1>7, <3>2, BelowDiffers
   <4> QED
     BY <1>2, <2>2, <3>2, <4>1 DEF SameShard
  <3> QED
    BY <3>1, <3>2
 <2>5. run'[w].new = g /\ Len(g) = k + 1 /\ g # <<>> /\ run'[w].at = q.at /\ run'[w].made = 0
   BY <1>2, <1>4, <1>6, <2>2
 <2>6. \A n \in 0..(Len(run'[w].new) - 1) : <<s, n>> \in DOMAIN store' /\ store'[<<s, n>>] = run'[w].new[n + 1]
   BY <2>4, <2>5
 <2> QED
   BY <1>9, <2>5, <2>6 DEF InPlace
<1>11. InPlace(w, s) => InPlace(w, s)'
 <2>1. span'[w].alone => span[w].alone
   BY <1>3
 <2>2. CASE span[w].alone
   BY <1>10, <2>2
 <2>3. CASE ~span'[w].alone
   BY <2>3 DEF InPlace
 <2> QED
   BY <2>1, <2>2, <2>3
<1> QED
  BY <1>3, <1>4, <1>8, <1>9, <1>11, WritingStep

-----------------------------------------------------------------------------
(***************************************************************************)
(* The steps that replace the records.                                     *)
(***************************************************************************)
LEMMA DeleteRecordsJInv ==
  ASSUME IInv, JInv, NEW w \in Worker, DeleteRecords(w)
  PROVE  JInv'
<1> PICK s \in Section : run[w].section = s
  BY SectionFact
<1> DEFINE q == [run[w] EXCEPT !.at = "create"]
<1>1. q.at = "create" /\ q.section = s /\ q.new = run[w].new /\ q.made = run[w].made
  BY TypeFacts DEF Run
<1>2. /\ run[w].at = "records" /\ run' = [run EXCEPT ![w] = q]
      /\ files' = [files EXCEPT ![s] = <<>>]
      /\ UNCHANGED <<items, marks, stale, store, span, missed, cleaner>>
  BY DEF DeleteRecords, Now, history
<1> HIDE DEF q
<1>3. run'[w] = q
  BY <1>2, RunStep
<1>4. /\ DOMAIN files = Section
      /\ files'[s] = <<>> /\ \A t \in Section \ {s} : files'[t] = files[t]
  BY <1>2 DEF IInv, RecordsOK
<1>5. DOMAIN files'[s] = {}
  BY <1>4
<1>6. \A v \in Worker : Explained(v, s)'
  BY <1>5 DEF Explained
<1>7. Generates(w, s) /\ q.at \in Generating /\ run[w].at \in Done
  BY <1>1, <1>2 DEF Generates, Generating, Done
<1>8. InPlace(w, s) => InPlace(w, s)'
 <2>1. Generates(w, s) /\ span[w].alone /\ InPlace(w, s) =>
         /\ \A n \in 0..(Len(q.new) - 1) : <<s, n>> \in DOMAIN store' /\ store'[<<s, n>>] = q.new[n + 1]
         /\ q.new # <<>> /\ q.made = 0
   BY <1>1, <1>2, <1>7 DEF InPlace
 <2>2. q.made = 0 => q.made <= Len(q.new) /\ DOMAIN files'[s] = 0..(q.made - 1)
  <3>1. Len(q.new) \in Nat
    BY <1>1, SectionFact
  <3> QED
    BY <1>5, <3>1
 <2>3. q.at \notin {"save", "save last", "stats", "records"} /\ q.at \notin Writing
   BY <1>1 DEF Writing
 <2>4. span' = span /\ Generates(w, s)
   BY <1>2, <1>7
 <2> QED
   BY <1>3, <1>5, <2>1, <2>2, <2>3, <2>4 DEF InPlace
<1>9. \A t \in Section : SameShards(t)
  BY <1>2 DEF SameShards, SameShard
<1> QED
  BY <1>1, <1>2, <1>4, <1>6, <1>7, <1>8, <1>9, InsideStep

\* Whoever runs into the new record finds its writer further.
LEMMA CreateRecordJInv ==
  ASSUME IInv, JInv, NEW w \in Worker, CreateRecord(w)
  PROVE  JInv'
<1> PICK s \in Section : run[w].section = s
  BY SectionFact
<1> PICK m \in Nat : run[w].made = m
  BY SectionFact
<1> PICK k \in Nat : Len(run[w].new) = k
  BY SectionFact
<1> DEFINE q == [run[w] EXCEPT !.made = @ + 1]
           c == Cardinality(run[w].new[m + 1])
           f == WithRecord(files[s], m, c)
<1>1. q.at = run[w].at /\ q.section = s /\ q.new = run[w].new /\ q.made = m + 1
  BY TypeFacts DEF Run
<1>2. /\ run[w].at = "create" /\ m < k /\ m \notin DOMAIN files[s]
      /\ run' = [run EXCEPT ![w] = q] /\ files' = [files EXCEPT ![s] = f]
      /\ UNCHANGED <<items, marks, stale, store, span, missed, cleaner>>
  BY DEF CreateRecord, Now, history
<1>3. DOMAIN f = DOMAIN files[s] \cup {m} /\ f[m] = c /\ \A n \in DOMAIN files[s] \ {m} : f[n] = files[s][n]
  BY DEF WithRecord
<1> HIDE DEF q, f, c
<1>4. run'[w] = q /\ \A v \in Worker \ {w} : run'[v] = run[v]
  BY <1>2, RunStep
<1>5. files'[s] = f /\ \A t \in Section \ {s} : files'[t] = files[t]
  BY <1>2 DEF IInv, RecordsOK
<1>6. /\ Generates(w, s) /\ q.at \in Generating
      /\ q.at \in {"create", "stats"} /\ q.at \in Done
      /\ q.at \notin {"save", "save last", "stats"} /\ q.at \notin Writing \cup {"records"}
  BY <1>1, <1>2 DEF Generates, Generating, Done, Writing
<1>7. InPlace(w, s) => InPlace(w, s)'
 <2>1. ASSUME InPlace(w, s), span[w].alone PROVE InPlace(w, s)'
  <3>1. /\ \A n \in 0..(k - 1) : <<s, n>> \in DOMAIN store /\ store[<<s, n>>] = run[w].new[n + 1]
        /\ run[w].new # <<>>
        /\ DOMAIN files[s] = 0..(m - 1)
        /\ \A n \in DOMAIN files[s] : files[s][n] = Cardinality(run[w].new[n + 1])
    BY <1>1, <1>6, <2>1 DEF InPlace
  <3>2. DOMAIN f = 0..((m + 1) - 1)
    BY <1>3, <3>1
  <3>3. \A n \in DOMAIN f : f[n] = Cardinality(q.new[n + 1])
    BY <1>1, <1>3, <3>1 DEF c
  <3>4. /\ q.made <= Len(q.new) /\ DOMAIN files'[s] = 0..(q.made - 1)
        /\ \A n \in DOMAIN files'[s] : files'[s][n] = Cardinality(q.new[n + 1])
    BY <1>1, <1>2, <1>5, <3>2, <3>3
  <3>5. \A n \in 0..(Len(q.new) - 1) :
          <<s, n>> \in DOMAIN store' /\ store'[<<s, n>>] = q.new[n + 1]
    BY <1>1, <1>2, <3>1
  <3> QED
    BY <1>1, <1>4, <1>6, <3>1, <3>4, <3>5 DEF InPlace
 <2>2. CASE ~span'[w].alone
   BY <2>2 DEF InPlace
 <2> QED
   BY <1>2, <2>1, <2>2
<1>8. ASSUME NEW v \in Worker, Explained(v, s) PROVE Explained(v, s)'
 <2>1. \A x \in Worker : /\ Recording(x, s)' <=> Recording(x, s)
                         /\ x # w => run'[x].made = run[x].made
   BY <1>1, <1>4 DEF Recording
 <2>2. Named(s)' <=> Named(s)
   BY <1>2 DEF Named
 <2>3. Recording(w, s)' /\ run'[w].made = m + 1
   BY <1>1, <1>4, <1>6 DEF Recording
 <2>4. ASSUME NEW n \in Nat, Ahead(s, n) PROVE Ahead(s, n)'
  <3>1. PICK x \in Worker : Recording(x, s) /\ run[x].made > n
    BY <2>4 DEF Ahead
  <3>2. Recording(x, s)' /\ run'[x].made > n
   <4>1. CASE x = w
     BY <2>3, <3>1, <4>1
   <4>2. CASE x # w
     BY <2>1, <3>1, <4>2
   <4> QED
     BY <4>1, <4>2
  <3> QED
    BY <3>2 DEF Ahead
 <2>5. DOMAIN files[s] \subseteq Nat
   BY DEF IInv, RecordsOK
 <2>6. ASSUME Recording(v, s)', NEW n \in DOMAIN files'[s]
       PROVE  n < run'[v].made \/ Named(s)' \/ Ahead(s, n)'
  <3>1. CASE n = m
   <4>1. m + 1 > m
     OBVIOUS
   <4> QED
     BY <2>3, <3>1, <4>1 DEF Ahead
  <3>2. CASE n \in DOMAIN files[s]
   <4>1. n < run[v].made \/ Named(s) \/ Ahead(s, n)
     BY <1>8, <2>1, <2>6, <3>2 DEF Explained
   <4>2. n < run[v].made => n < run'[v].made
    <5>1. CASE v = w
      BY <2>3, <2>5, <3>2, <5>1
    <5>2. CASE v # w
      BY <2>1, <5>2
    <5> QED
      BY <5>1, <5>2
   <4> QED
     BY <2>2, <2>4, <2>5, <3>2, <4>1, <4>2
  <3> QED
    BY <1>3, <1>5, <2>6, <3>1, <3>2
 <2> QED
   BY <2>6 DEF Explained
<1>9. \A t \in Section : SameShards(t)
  BY <1>2 DEF SameShards, SameShard
<1> QED
  BY <1>1, <1>2, <1>5, <1>6, <1>7, <1>8, <1>9, InsideStep

LEMMA RemoveStaleFilesJInv ==
  ASSUME IInv, JInv, NEW w \in Worker, RemoveStaleFiles(w)
  PROVE  JInv'
<1> PICK s \in Section : run[w].section = s
  BY SectionFact
<1> PICK k \in Nat : Len(run[w].new) = k
  BY SectionFact
<1> DEFINE q == [run[w] EXCEPT !.at = "stats"]
           gone == {<<s, n>> : n \in run[w].old \ 0..(k - 1)}
<1>1. q.at = "stats" /\ q.section = s /\ q.new = run[w].new /\ q.made = run[w].made
  BY TypeFacts DEF Run
<1>2. /\ run[w].at = "create" /\ run[w].made = k /\ run' = [run EXCEPT ![w] = q]
      /\ UNCHANGED <<items, marks, stale, files, span, missed, cleaner>>
  BY DEF RemoveStaleFiles, Now, database, history
<1>3. PICK kept \in SUBSET gone : store' = StoreWithout(gone \ kept)
  BY DEF RemoveStaleFiles
<1>4. \A x : x \notin gone => SameShard(x)
  BY <1>3 DEF StoreWithout, SameShard
<1>5. \A t \in Section \ {s} : SameShards(t)
  BY <1>4 DEF SameShards
<1>6. \A n \in 0..(k - 1) : SameShard(<<s, n>>)
  BY <1>4
<1> HIDE DEF q, gone
<1>7. run'[w] = q /\ \A v \in Worker \ {w} : run'[v] = run[v]
  BY <1>2, RunStep
<1>8. /\ Generates(w, s) /\ q.at \in Generating
      /\ run[w].at \in {"create", "stats"} /\ run[w].at \in Done
      /\ q.at \notin {"save", "save last"} /\ q.at \notin Writing \cup {"records"}
  BY <1>1, <1>2 DEF Generates, Generating, Done, Writing
<1>9. InPlace(w, s) => InPlace(w, s)'
 <2>1. ASSUME InPlace(w, s), span[w].alone PROVE InPlace(w, s)'
  <3>1. /\ \A n \in 0..(k - 1) : <<s, n>> \in DOMAIN store /\ store[<<s, n>>] = run[w].new[n + 1]
        /\ run[w].new # <<>>
        /\ DOMAIN files[s] = 0..(run[w].made - 1)
        /\ \A n \in DOMAIN files[s] : files[s][n] = Cardinality(run[w].new[n + 1])
    BY <1>8, <2>1 DEF InPlace
  <3>2. \A n \in 0..(k - 1) : <<s, n>> \in DOMAIN store' /\ store'[<<s, n>>] = q.new[n + 1]
    BY <1>1, <1>6, <3>1 DEF SameShard
  <3>3. /\ run'[w].at = q.at /\ run'[w].made = k /\ run'[w].new = run[w].new /\ Len(run'[w].new) = k
        /\ run[w].made = k /\ files' = files /\ run'[w].new = q.new
    BY <1>1, <1>2, <1>7
  <3>4. \A n \in 0..(Len(run'[w].new) - 1) : <<s, n>> \in DOMAIN store' /\ store'[<<s, n>>] = run'[w].new[n + 1]
    BY <3>2, <3>3
  <3>5. /\ DOMAIN files'[s] = 0..(run'[w].made - 1)
        /\ \A n \in DOMAIN files'[s] : files'[s][n] = Cardinality(run'[w].new[n + 1])
    BY <3>1, <3>3
  <3>6. run'[w].new # <<>> /\ run'[w].made <= Len(run'[w].new) /\ run'[w].made = Len(run'[w].new)
    BY <3>1, <3>3
  <3> QED
    BY <1>8, <3>3, <3>4, <3>5, <3>6 DEF InPlace
 <2>2. CASE ~span'[w].alone
   BY <2>2 DEF InPlace
 <2> QED
   BY <1>2, <2>1, <2>2
<1>10. (\A v \in Worker : Explained(v, s)) => \A v \in Worker : Explained(v, s)'
 <2>1. \A v \in Worker : /\ Recording(v, s)' <=> Recording(v, s)
                         /\ Recording(v, s) => run'[v].made = run[v].made
   BY <1>1, <1>2, <1>7 DEF Recording
 <2>2. Named(s)' <=> Named(s)
   BY <1>2 DEF Named
 <2> QED
   BY <1>2, <2>1, <2>2, RecordersStay
<1> QED
  BY <1>1, <1>2, <1>5, <1>8, <1>9, <1>10, InsideStep

-----------------------------------------------------------------------------
(***************************************************************************)
(* The steps that end a generation, and those that drop it.                *)
(***************************************************************************)
\* What a generation that had the section to itself, and whose rows held
\* still, has written is what the section holds.
LEMMA AloneExact ==
  ASSUME IInv, JInv, NEW w \in Worker, NEW s \in Section, run[w].section = s, run[w].at = "stats",
         span[w].alone, span[w].always = span[w].ever
  PROVE  Exact(s) /\ Spared(s)
<1> PICK k \in Nat : Len(run[w].new) = k
  BY SectionFact
<1>1. Generates(w, s)
  BY DEF Generates, Generating
<1>2. /\ \A n \in 0..(k - 1) : <<s, n>> \in DOMAIN store /\ store[<<s, n>>] = run[w].new[n + 1]
      /\ run[w].new # <<>> /\ DOMAIN files[s] = 0..(k - 1)
      /\ \A n \in DOMAIN files[s] : files[s][n] = Cardinality(run[w].new[n + 1])
 <2>1. InPlace(w, s)
   BY DEF JInv, Upright
 <2> QED
   BY <1>1, <2>1 DEF InPlace, Done
<1>3. DOMAIN run[w].new = 1..k /\ k > 0
  BY <1>2, SectionFact, LengthIsNat
<1>4. /\ UNION Shards(run[w]) = items[s]
      /\ \A m, n \in DOMAIN run[w].new : m # n => run[w].new[m] \cap run[w].new[n] = {}
 <2>1. span[w].always \subseteq items[s] /\ items[s] \subseteq span[w].ever
   BY TypeFacts DEF Progress, Generating
 <2>2. KeysetExact
   BY IInvKeyset
 <2>3. /\ span[w].always \subseteq UNION Shards(run[w])
       /\ UNION Shards(run[w]) \subseteq span[w].ever
       /\ \A m, n \in DOMAIN run[w].new : m # n => run[w].new[m] \cap run[w].new[n] = {}
   BY <2>2 DEF KeysetExact
 <2> QED
   BY <2>1, <2>3
<1>5. ShardsOf(s) = {<<s, n>> : n \in 0..(k - 1)}
  BY <1>2 DEF ShardsOf
<1>6. ShardsOf(s) # {} /\ ShardsOf(s) \subseteq DOMAIN store
 <2>1. 0 \in 0..(k - 1)
   BY <1>3
 <2> QED
   BY <1>2, <1>5, <2>1
<1>7. UNION {store[p] : p \in ShardsOf(s)} = items[s]
 <2>1. ASSUME NEW i, NEW p \in ShardsOf(s), i \in store[p] PROVE i \in items[s]
  <3>1. PICK n \in 0..(k - 1) : p = <<s, n>>
    BY <1>5
  <3>2. n + 1 \in DOMAIN run[w].new
    BY <1>3
  <3> QED
    BY <1>2, <1>4, <2>1, <3>1, <3>2 DEF Shards
 <2>2. ASSUME NEW i \in items[s] PROVE \E p \in ShardsOf(s) : i \in store[p]
  <3>1. PICK m \in DOMAIN run[w].new : i \in run[w].new[m]
    BY <1>4, <2>2 DEF Shards
  <3>2. m - 1 \in 0..(k - 1) /\ (m - 1) + 1 = m
    BY <1>3
  <3>3. <<s, m - 1>> \in ShardsOf(s) /\ store[<<s, m - 1>>] = run[w].new[m]
    BY <1>2, <1>5, <3>2
  <3> QED
    BY <3>1, <3>3
 <2> QED
   BY <2>1, <2>2
<1>8. \A p \in ShardsOf(s) : Cardinality(store[p]) = files[s][p[2]]
  BY <1>2, <1>5
<1>9. ASSUME NEW p \in ShardsOf(s), NEW x \in ShardsOf(s), p # x PROVE store[p] \cap store[x] = {}
 <2>1. PICK n \in 0..(k - 1) : p = <<s, n>>
   BY <1>5
 <2>2. PICK m \in 0..(k - 1) : x = <<s, m>>
   BY <1>5
 <2>3. n + 1 # m + 1 /\ n + 1 \in DOMAIN run[w].new /\ m + 1 \in DOMAIN run[w].new
   BY <1>3, <1>9, <2>1, <2>2
 <2> QED
   BY <1>2, <1>4, <2>1, <2>2, <2>3
<1>10. Spared(s)
 <2>1. cleaner.at = "idle"
   BY <1>1 DEF JInv, Upright, Apart
 <2> QED
   BY <2>1 DEF Spared
<1> QED
  BY <1>6, <1>7, <1>8, <1>9, <1>10 DEF Exact

\* A worker that leaves a section named.
LEMMA LeavingNamed ==
  ASSUME IInv, JInv, NEW w \in Worker, NEW s \in Section, Generates(w, s), NEW q,
         q.at \notin Generating, run' = [run EXCEPT ![w] = q],
         \A v \in Worker \ {w} : span'[v] = span[v],
         UNCHANGED <<items, marks, files, store, cleaner>>, Kinds',
         \A t \in Section \ {s} : Named(t)' <=> Named(t), Named(s)'
  PROVE  JInv'
<1>1. Upheld(s)' /\ \A v \in Worker \ {w} : Flagged(v, s)' /\ Explained(v, s)'
  BY DEF Upheld, Flagged, Explained
<1> QED
  BY <1>1, LeavingStep

LEMMA SaveSectionJInv ==
  ASSUME IInv, JInv, NEW w \in Worker, SaveSection(w)
  PROVE  JInv'
<1> PICK s \in Section : run[w].section = s
  BY SectionFact
<1> DEFINE q == Fresh("index", run[w].todo, s, "success")
           clean == span[w].always = span[w].ever /\ span[w].alone
<1>1. q.at = "index"
  BY DEF Fresh
<1>2. /\ run[w].at = "stats" /\ run' = [run EXCEPT ![w] = q]
      /\ stale' = [stale EXCEPT ![s] = FALSE]
      /\ missed' = IF clean THEN missed \ {s} ELSE missed \cup {s}
      /\ span' = [span EXCEPT ![w] = NoSpan]
      /\ UNCHANGED <<items, marks, files, store, cleaner>>
  BY DEF SaveSection, Now
<1> HIDE DEF q
<1>3. Generates(w, s) /\ q.at \notin Generating
  BY <1>1, <1>2 DEF Generates, Generating
<1>4. DOMAIN stale = Section /\ Kinds'
  BY <1>2 DEF JInv, Kinds
<1>5. \A t \in Section \ {s} : Named(t)' <=> Named(t)
  BY <1>2, <1>4 DEF Named
<1>6. \A v \in Worker \ {w} : span'[v] = span[v]
  BY <1>2 DEF IInv, Types
<1>7. CASE clean
 <2>1. Exact(s) /\ Spared(s)
   BY <1>2, <1>7, AloneExact
 <2>2. Exact(s)' /\ Spared(s)'
  <3>1. \A p \in ShardsOf(s) : SameShard(p)
    BY <1>2 DEF SameShard
  <3>2. Exact(s)'
    BY <1>2, <2>1, <3>1, ExactStays
  <3>3. Spared(s)'
    BY <1>2, <2>1 DEF Spared, ShardsOf
  <3> QED
    BY <3>2, <3>3
 <2>3. \A v \in Worker \ {w} : ~Generates(v, s)
   BY <1>3, <1>7 DEF JInv, Upright, Apart
 <2>4. \A v \in Worker \ {w} : ~Generates(v, s)' /\ ~Recording(v, s)'
  <3>1. \A v \in Worker \ {w} : run'[v] = run[v]
    BY <1>2, RunStep
  <3> QED
    BY <2>3, <3>1, RecordingGenerates DEF Generates
 <2>5. Upheld(s)' /\ \A v \in Worker \ {w} : Flagged(v, s)' /\ Explained(v, s)'
   BY <2>2, <2>4 DEF Upheld, Flagged, Explained
 <2> QED
   BY <1>2, <1>3, <1>4, <1>5, <1>6, <2>5, LeavingStep
<1>8. CASE ~clean
 <2>1. Named(s)'
   BY <1>2, <1>8 DEF Named
 <2> QED
   BY <1>2, <1>3, <1>4, <1>5, <1>6, <2>1, LeavingNamed
<1> QED
  BY <1>7, <1>8

LEMMA AbandonsFacts ==
  ASSUME IInv, NEW w \in Worker, NEW p \in {"idle", "next"}, NEW l, Abandons(w, p, l)
  PROVE  /\ \A v \in Worker \ {w} : span'[v] = span[v]
         /\ \E q : q.at \notin Generating /\ run' = [run EXCEPT ![w] = q]
<1> DEFINE q == Fresh(p, IF p = "next" THEN run[w].todo ELSE {}, run[w].section, l)
<1>1. run' = [run EXCEPT ![w] = q] /\ span' = [span EXCEPT ![w] = NoSpan]
  BY DEF Abandons, Now
<1>2. q.at \notin Generating
  BY DEF Fresh, Generating
<1> HIDE DEF q
<1>3. \A v \in Worker \ {w} : span'[v] = span[v]
  BY <1>1 DEF IInv, Types
<1> QED
  BY <1>1, <1>2, <1>3

\* A record that is in the way belongs to a worker that goes on, or the
\* section is named.
LEMMA RecordConflictJInv ==
  ASSUME IInv, JInv, NEW w \in Worker, RecordConflict(w)
  PROVE  JInv'
<1> PICK s \in Section : run[w].section = s
  BY SectionFact
<1> PICK m \in Nat : run[w].made = m
  BY SectionFact
<1>1. /\ run[w].at = "create" /\ m \in DOMAIN files[s]
      /\ UNCHANGED <<items, marks, stale, files, store, missed, cleaner>>
  BY DEF RecordConflict, database
<1>2. \A v \in Worker \ {w} : span'[v] = span[v]
  BY AbandonsFacts DEF RecordConflict
<1>3. PICK q : q.at \notin Generating /\ run' = [run EXCEPT ![w] = q]
  BY AbandonsFacts DEF RecordConflict
<1>4. run'[w] = q /\ \A v \in Worker \ {w} : run'[v] = run[v]
  BY <1>3, RunStep
<1>5. Generates(w, s) /\ Recording(w, s)
  BY <1>1 DEF Generates, Generating, Recording
<1>6. Kinds' /\ \A t \in Section : Named(t)' <=> Named(t)
  BY <1>1 DEF JInv, Kinds, Named
<1>7. Named(s) \/ Ahead(s, m)
 <2>1. Explained(w, s)
   BY DEF JInv, Upright
 <2>2. ~(m < m)
   OBVIOUS
 <2> QED
   BY <1>1, <1>5, <2>1, <2>2 DEF Explained
<1>8. CASE Named(s)
 <2>1. Named(s)'
   BY <1>6, <1>8
 <2> QED
   BY <1>1, <1>2, <1>3, <1>5, <1>6, <2>1, LeavingNamed
<1>9. CASE Ahead(s, m)
 <2>1. PICK x \in Worker : Recording(x, s) /\ run[x].made > m
   BY <1>9 DEF Ahead
 <2>2. x # w
   BY <2>1
 <2>3. Recording(x, s)' /\ Generates(x, s)' /\ run'[x].made > m
   BY <1>4, <2>1, <2>2, RecordingGenerates DEF Recording
 <2>4. Upheld(s)'
   BY <2>3 DEF Upheld, Busy
 <2>5. ASSUME NEW v \in Worker \ {w} PROVE Flagged(v, s)'
  <3>1. Flagged(v, s)
    BY DEF JInv, Upright
  <3> QED
    BY <1>2, <1>4, <1>6, <3>1 DEF Flagged, Generates
 <2>6. ASSUME NEW v \in Worker \ {w} PROVE Explained(v, s)'
  <3>1. Explained(v, s)
    BY DEF JInv, Upright
  <3>2. ASSUME NEW n \in Nat, Ahead(s, n) PROVE Ahead(s, n)'
   <4>1. PICK y \in Worker : Recording(y, s) /\ run[y].made > n
     BY <3>2 DEF Ahead
   <4>2. CASE y = w
    <5>1. run'[x].made > n
     <6>1. run[x].made \in Nat
       BY SectionFact
     <6> QED
       BY <1>4, <2>1, <2>2, <4>1, <4>2, <6>1
    <5> QED
      BY <2>3, <5>1 DEF Ahead
   <4>3. CASE y # w
    <5>1. Recording(y, s)' /\ run'[y].made > n
      BY <1>4, <4>1, <4>3 DEF Recording
    <5> QED
      BY <5>1 DEF Ahead
   <4> QED
     BY <4>2, <4>3
  <3>3. DOMAIN files[s] \subseteq Nat
    BY DEF IInv, RecordsOK
  <3>4. Recording(v, s)' => Recording(v, s) /\ run'[v].made = run[v].made
    BY <1>4 DEF Recording
  <3> QED
    BY <1>1, <1>6, <3>1, <3>2, <3>3, <3>4 DEF Explained
 <2> QED
   BY <1>1, <1>2, <1>3, <1>5, <1>6, <2>4, <2>5, <2>6, LeavingStep
<1> QED
  BY <1>7, <1>8, <1>9

LEMMA LeavesJInv ==
  ASSUME IInv, JInv, NEW w \in Worker, NEW p \in {"idle", "next"}, NEW l, Leaves(w, p, l)
  PROVE  JInv'
<1> PICK s \in Section : run[w].section = s
  BY SectionFact
<1>1. /\ UNCHANGED <<items, marks, stale, files, store, cleaner>>
      /\ missed' = IF run[w].at \in Generating /\ span[w].forced THEN missed \cup {s} ELSE missed
  BY DEF Leaves, database
<1>2. \A v \in Worker \ {w} : span'[v] = span[v]
  BY AbandonsFacts DEF Leaves
<1>3. PICK q : q.at \notin Generating /\ run' = [run EXCEPT ![w] = q]
  BY AbandonsFacts DEF Leaves
<1>4. Kinds' /\ \A t \in Section \ {s} : Named(t)' <=> Named(t)
  BY <1>1 DEF JInv, Kinds, Named
<1>5. CASE run[w].at \in Generating
 <2>1. Generates(w, s)
   BY <1>5 DEF Generates
 <2>2. Flagged(w, s)
   BY DEF JInv, Upright
 <2>3. Named(s)'
   BY <1>1, <1>5, <2>1, <2>2 DEF Flagged, Named
 <2> QED
   BY <1>1, <1>2, <1>3, <1>4, <2>1, <2>3, LeavingNamed
<1>6. CASE run[w].at \notin Generating
  BY <1>1, <1>2, <1>3, <1>6, MoveAside
<1> QED
  BY <1>5, <1>6

LEMMA FailureJInv ==
  ASSUME IInv, JInv, NEW w \in Worker, Failure(w)
  PROVE  JInv'
<1>1. CASE \E s \in Section : FailsBeforeTry(w, s)
  BY <1>1, FailsEarlyJInv
<1>2. CASE GenerationFails(w) \/ IndexFails(w) \/ Crash(w)
 <2>1. PICK p \in {"idle", "next"} : \E l : Leaves(w, p, l)
   BY <1>2 DEF GenerationFails, IndexFails, Crash
 <2> QED
   BY <2>1, LeavesJInv
<1> QED
  BY <1>1, <1>2 DEF Failure

-----------------------------------------------------------------------------
\* A generation begins: the others of the section are not alone any more.
LEMMA BeginSectionJInv ==
  ASSUME IInv, JInv, NEW w \in Worker, NEW s \in Section, BeginSection(w, s)
  PROVE  JInv'
<1> DEFINE f == Fresh("entries", run[w].todo \ {s}, s, "running")
           q == [f EXCEPT !.old = DOMAIN files[s]]
           n == [always |-> items[s], ever |-> items[s],
                 alone |-> ~Busy(s) /\ cleaner = NoCleanup, forced |-> ~stale[s]]
<1>1. q.at = "entries" /\ q.section = s /\ q.new = <<>> /\ q.made = 0
  BY DEF Fresh
<1>2. /\ run[w].at = "next" /\ run' = [run EXCEPT ![w] = q]
      /\ span' = [Disturbed({s}) EXCEPT ![w] = n]
      /\ UNCHANGED <<items, marks, stale, files, store, missed, cleaner>>
  BY DEF BeginSection, Now, database
<1>3. (n.alone => ~Busy(s) /\ cleaner = NoCleanup) /\ (~n.forced => stale[s])
  OBVIOUS
<1> HIDE DEF q, f, n
<1>4. run'[w] = q /\ \A v \in Worker \ {w} : run'[v] = run[v]
  BY <1>2, RunStep
<1>5. span'[w] = n /\ \A v \in Worker \ {w} : span'[v] = Disturbed({s})[v]
 <2>1. Disturbed({s}) = [v \in Worker |-> Disturbed({s})[v]]
   BY DEF Disturbed
 <2> DEFINE d == Disturbed({s})
 <2> HIDE DEF d
 <2>2. span' = [d EXCEPT ![w] = n] /\ d = [v \in Worker |-> d[v]]
   BY <1>2, <2>1 DEF d
 <2>3. span'[w] = n /\ \A v \in Worker \ {w} : span'[v] = d[v]
   BY <2>2
 <2> QED
   BY <2>3 DEF d
<1>6. ASSUME NEW v \in Worker \ {w}
      PROVE  /\ span'[v].forced = span[v].forced
             /\ span'[v].alone => span[v].alone
             /\ Generates(v, s) => ~span'[v].alone
 <2>1. span'[v] = IF Generates(v, s) THEN [span[v] EXCEPT !.alone = FALSE] ELSE span[v]
   BY <1>5 DEF Disturbed
 <2>2. [span[v] EXCEPT !.alone = FALSE].alone = FALSE
       /\ [span[v] EXCEPT !.alone = FALSE].forced = span[v].forced
   BY TypeFacts DEF SpanType
 <2> QED
   BY <2>1, <2>2
<1>7. Generates(w, s)' /\ q.at \notin {"save", "save last", "create", "stats"}
      /\ q.at \notin Done
  BY <1>1, <1>4 DEF Generates, Generating, Done
<1>8. \A t \in Section : ~Generates(w, t) /\ ~Recording(w, t) /\ ~Recording(w, t)'
  BY <1>1, <1>2, <1>4 DEF Generates, Generating, Recording
<1>9. \A v \in Worker \ {w}, t \in Section :
         /\ Generates(v, t)' <=> Generates(v, t)
         /\ Recording(v, t)' <=> Recording(v, t)
  BY <1>4 DEF Generates, Recording
<1>10. \A t \in Section : SameShards(t) /\ (Named(t)' <=> Named(t))
  BY <1>2 DEF SameShards, SameShard, Named
<1>11. Kinds'
  BY <1>2 DEF JInv, Kinds
<1>12. ASSUME NEW t \in Section PROVE Upheld(t)'
 <2>1. CASE t = s
   BY <1>7, <2>1 DEF Upheld, Busy
 <2>2. CASE t # s
  <3>1. Busy(t) => Busy(t)'
    BY <1>8, <1>9 DEF Busy
  <3> QED
    BY <1>2, <1>10, <3>1, UpheldStays DEF JInv
 <2> QED
   BY <2>1, <2>2
<1>13. Upright(w, s)'
 <2>1. Flagged(w, s)'
   BY <1>2, <1>3, <1>5 DEF Flagged, Named
 <2>2. Apart(w, s)'
  <3>1. n.alone => cleaner.at = "idle" /\ \A v \in Worker \ {w} : ~Generates(v, s)'
    BY <1>3, <1>9 DEF Busy, NoCleanup
  <3> QED
    BY <1>2, <1>5, <3>1 DEF Apart
 <2>3. InPlace(w, s)'
  <3>1. Len(q.new) = 0 /\ 0..(0 - 1) = {}
    BY <1>1
  <3> QED
    BY <1>1, <1>4, <1>7, <3>1 DEF InPlace
 <2>4. Explained(w, s)'
   BY <1>8 DEF Explained
 <2> QED
   BY <2>1, <2>2, <2>3, <2>4 DEF Upright
<1>14. ASSUME NEW t \in Section \ {s} PROVE Upright(w, t)'
 <2>1. ~Generates(w, t)' /\ ~Recording(w, t)'
   BY <1>1, <1>4, <1>8 DEF Generates
 <2> QED
   BY <2>1 DEF Upright, Flagged, Apart, InPlace, Explained
<1>15. ASSUME NEW v \in Worker \ {w} PROVE Upright(v, s)'
 <2>1. Upright(v, s)
   BY DEF JInv
 <2>2. Flagged(v, s)'
   BY <1>6, <1>9, <1>10, <2>1 DEF Upright, Flagged
 <2>3. Apart(v, s)' /\ InPlace(v, s)'
   BY <1>6, <1>9 DEF Apart, InPlace
 <2>4. Explained(v, s)'
  <3>1. \A x \in Worker : /\ Recording(x, s)' <=> Recording(x, s)
                          /\ Recording(x, s) => run'[x].made = run[x].made
    BY <1>4, <1>8, <1>9
  <3> QED
    BY <1>2, <1>10, <2>1, <3>1, RecordersStay DEF Upright
 <2> QED
   BY <2>2, <2>3, <2>4 DEF Upright
<1>16. ASSUME NEW v \in Worker \ {w}, NEW t \in Section \ {s} PROVE Upright(v, t)'
 <2>1. \A u \in Worker : Generates(u, t)' => Generates(u, t)
  <3>1. ~Generates(w, t)'
    BY <1>1, <1>4 DEF Generates
  <3> QED
    BY <1>9, <3>1
 <2>2. \A x \in Worker : Recording(x, t) => Recording(x, t)' /\ run'[x].made = run[x].made
   BY <1>4, <1>8, <1>9
 <2> QED
   BY <1>2, <1>4, <1>6, <1>10, <2>1, <2>2, UprightStays DEF JInv
<1> QED
  BY <1>11, <1>12, <1>13, <1>14, <1>15, <1>16 DEF JInv

-----------------------------------------------------------------------------
(***************************************************************************)
(* The cleanup.  While it runs no generation counts as alone.              *)
(***************************************************************************)
LEMMA CleanupStep ==
  ASSUME IInv, JInv, UNCHANGED <<items, marks, stale, files, run, missed>>, Kinds',
         \A v \in Worker : span'[v].forced = span[v].forced,
         \A v \in Worker, s \in Section : Generates(v, s) => ~span'[v].alone,
         \A s \in Section : Exact(s) /\ Spared(s) => Exact(s)' /\ Spared(s)'
  PROVE  JInv'
<1>1. \A v \in Worker, s \in Section : (Generates(v, s)' <=> Generates(v, s))
                                       /\ (Recording(v, s)' <=> Recording(v, s))
  BY DEF Generates, Recording
<1>2. \A s \in Section : Named(s)' <=> Named(s)
  BY DEF Named
<1>3. ASSUME NEW s \in Section PROVE Upheld(s)'
 <2>1. Busy(s)' <=> Busy(s)
   BY <1>1 DEF Busy
 <2>2. Upheld(s)
   BY DEF JInv
 <2> QED
   BY <1>2, <2>1, <2>2 DEF Upheld
<1>4. ASSUME NEW v \in Worker, NEW s \in Section PROVE Upright(v, s)'
 <2>1. Flagged(v, s)'
   BY <1>1, <1>2 DEF JInv, Upright, Flagged
 <2>2. Apart(v, s)' /\ InPlace(v, s)'
   BY <1>1 DEF Apart, InPlace
 <2>3. Explained(v, s)'
   BY <1>1, <1>2, RecordersStay DEF JInv, Upright
 <2> QED
   BY <2>1, <2>2, <2>3 DEF Upright
<1> QED
  BY <1>3, <1>4 DEF JInv

\* Alone means that no cleanup runs, so while one runs nobody is.
LEMMA NobodyAlone ==
  ASSUME JInv, cleaner.at # "idle", NEW v \in Worker, NEW s \in Section, Generates(v, s)
  PROVE  ~span[v].alone
BY DEF JInv, Upright, Apart

LEMMA CleanupReadsJInv ==
  ASSUME IInv, JInv, CleanupReads
  PROVE  JInv'
<1> DEFINE L == RecordedPaths
<1>1. /\ UNCHANGED <<items, marks, stale, files, store, run, missed>>
      /\ cleaner' = [NoCleanup EXCEPT !.at = "list", !.known = L]
      /\ span' = Disturbed(Section)
  BY DEF CleanupReads, database
<1>2. \A s \in Section : ShardsOf(s) \subseteq L
  BY DEF ShardsOf, RecordedPaths
<1> HIDE DEF L
<1>3. cleaner'.at = "list" /\ cleaner'.known = L /\ DOMAIN cleaner' = DOMAIN NoCleanup
  BY <1>1 DEF NoCleanup
<1>4. Kinds'
  BY <1>1, <1>3 DEF JInv, Kinds
<1>5. ASSUME NEW v \in Worker
      PROVE  /\ span'[v].forced = span[v].forced
             /\ \A s \in Section : Generates(v, s) => ~span'[v].alone
 <2>1. span'[v] = IF \E s \in Section : Generates(v, s)
                  THEN [span[v] EXCEPT !.alone = FALSE] ELSE span[v]
   BY <1>1 DEF Disturbed
 <2>2. [span[v] EXCEPT !.alone = FALSE].alone = FALSE
       /\ [span[v] EXCEPT !.alone = FALSE].forced = span[v].forced
   BY TypeFacts DEF SpanType
 <2> QED
   BY <2>1, <2>2
<1>6. ASSUME NEW s \in Section, Exact(s) PROVE Exact(s)' /\ Spared(s)'
 <2>1. \A p \in ShardsOf(s) : SameShard(p)
   BY <1>1 DEF SameShard
 <2>2. Exact(s)'
   BY <1>1, <1>6, <2>1, ExactStays
 <2>3. ShardsOf(s)' = ShardsOf(s)
   BY <1>1 DEF ShardsOf
 <2> QED
   BY <1>2, <1>3, <2>2, <2>3 DEF Spared
<1> QED
  BY <1>1, <1>4, <1>5, <1>6, CleanupStep

LEMMA CleanupListsJInv ==
  ASSUME IInv, JInv, CleanupLists
  PROVE  JInv'
<1> DEFINE L == index # {}
           D == DOMAIN store \ cleaner.known
<1>1. /\ UNCHANGED <<items, marks, stale, files, store, run, missed, span>>
      /\ cleaner.at = "list"
      /\ cleaner' = [NoCleanup EXCEPT !.at = "delete", !.index = L, !.doomed = D]
  BY DEF CleanupLists, database, history
<1>2. \A p \in cleaner.known : p \notin D
  OBVIOUS
<1> HIDE DEF L, D
<1>3. cleaner'.at = "delete" /\ cleaner'.doomed = D /\ DOMAIN cleaner' = DOMAIN NoCleanup
  BY <1>1 DEF NoCleanup
<1>4. Kinds'
  BY <1>1, <1>3 DEF JInv, Kinds
<1>5. \A v \in Worker, s \in Section : Generates(v, s) => ~span'[v].alone
  BY <1>1, NobodyAlone
<1>6. ASSUME NEW s \in Section, Exact(s), Spared(s) PROVE Exact(s)' /\ Spared(s)'
 <2>1. \A p \in ShardsOf(s) : SameShard(p)
   BY <1>1 DEF SameShard
 <2>2. Exact(s)'
   BY <1>1, <1>6, <2>1, ExactStays
 <2>3. ShardsOf(s)' = ShardsOf(s)
   BY <1>1 DEF ShardsOf
 <2>4. ShardsOf(s) \cap D = {}
   BY <1>1, <1>2, <1>6 DEF Spared
 <2> QED
   BY <1>3, <2>2, <2>3, <2>4 DEF Spared
<1> QED
  BY <1>1, <1>4, <1>5, <1>6, CleanupStep

LEMMA CleanupDeletesJInv ==
  ASSUME IInv, JInv, NEW p \in cleaner.doomed, CleanupDeletes(p)
  PROVE  JInv'
<1> DEFINE D == cleaner.doomed \ {p}
<1>1. /\ UNCHANGED <<items, marks, stale, files, run, missed, span>>
      /\ cleaner.at = "delete" /\ store' = StoreWithout({p})
      /\ cleaner' = [cleaner EXCEPT !.doomed = D]
  BY DEF CleanupDeletes, database, history
<1>2. DOMAIN cleaner = DOMAIN NoCleanup /\ "doomed" \in DOMAIN NoCleanup
  BY DEF JInv, Kinds, NoCleanup
<1>3. D \subseteq cleaner.doomed
  OBVIOUS
<1> HIDE DEF D
<1>4. cleaner'.at = "delete" /\ cleaner'.doomed = D /\ DOMAIN cleaner' = DOMAIN NoCleanup
  BY <1>1, <1>2
<1>5. Kinds'
  BY <1>1, <1>4 DEF JInv, Kinds
<1>6. \A v \in Worker, s \in Section : Generates(v, s) => ~span'[v].alone
  BY <1>1, NobodyAlone
<1>7. ASSUME NEW s \in Section, Exact(s), Spared(s) PROVE Exact(s)' /\ Spared(s)'
 <2>1. ShardsOf(s) \cap cleaner.doomed = {}
   BY <1>1, <1>7 DEF Spared
 <2>2. \A x \in ShardsOf(s) : SameShard(x)
   BY <1>1, <2>1, WithoutOne
 <2>3. Exact(s)'
   BY <1>1, <1>7, <2>2, ExactStays
 <2>4. ShardsOf(s)' = ShardsOf(s)
   BY <1>1 DEF ShardsOf
 <2> QED
   BY <1>3, <1>4, <2>1, <2>3, <2>4 DEF Spared
<1> QED
  BY <1>1, <1>5, <1>6, <1>7, CleanupStep

LEMMA CleanupDoneJInv ==
  ASSUME IInv, JInv, CleanupDeletesIndex \/ CleanupEnds
  PROVE  JInv'
<1>1. /\ UNCHANGED <<items, marks, stale, files, store, run, missed, span>>
      /\ cleaner.at = "delete"
  BY DEF CleanupDeletesIndex, CleanupEnds, database, history
<1>2. /\ DOMAIN cleaner' = DOMAIN NoCleanup
      /\ cleaner'.at # "list"
      /\ cleaner'.at = "delete" => cleaner'.doomed = cleaner.doomed
 <2>1. CASE CleanupEnds
  <3>1. cleaner' = NoCleanup
    BY <2>1 DEF CleanupEnds
  <3> QED
    BY <3>1 DEF NoCleanup
 <2>2. CASE CleanupDeletesIndex
  <3>1. cleaner' = [cleaner EXCEPT !.index = FALSE]
    BY <2>2 DEF CleanupDeletesIndex
  <3>2. DOMAIN cleaner = DOMAIN NoCleanup /\ DOMAIN NoCleanup = {"at", "known", "doomed", "index"}
    BY DEF JInv, Kinds, NoCleanup
  <3> QED
    BY <1>1, <3>1, <3>2
 <2> QED
   BY <2>1, <2>2
<1>3. Kinds'
  BY <1>1, <1>2 DEF JInv, Kinds
<1>4. \A v \in Worker, s \in Section : Generates(v, s) => ~span'[v].alone
  BY <1>1, NobodyAlone
<1>5. ASSUME NEW s \in Section, Exact(s), Spared(s) PROVE Exact(s)' /\ Spared(s)'
 <2>1. \A p \in ShardsOf(s) : SameShard(p)
   BY <1>1 DEF SameShard
 <2>2. Exact(s)'
   BY <1>1, <1>5, <2>1, ExactStays
 <2>3. ShardsOf(s)' = ShardsOf(s)
   BY <1>1 DEF ShardsOf
 <2> QED
   BY <1>1, <1>2, <1>5, <2>2, <2>3 DEF Spared
<1> QED
  BY <1>1, <1>3, <1>4, <1>5, CleanupStep

-----------------------------------------------------------------------------
LEMMA InitJInv == Init => JInv
<1> SUFFICES ASSUME Init PROVE JInv
  OBVIOUS
<1>1. /\ marks = [s \in Section |-> 0] /\ stale = [s \in Section |-> TRUE] /\ cleaner = NoCleanup
      /\ run = [w \in Worker |-> Fresh("idle", {}, SomeSection, "none")]
  BY DEF Init
<1>2. Kinds
  BY <1>1 DEF Kinds
<1>3. \A s \in Section : Upheld(s)
  BY <1>1 DEF Upheld, Named
<1>4. \A w \in Worker : run[w].at = "idle"
  BY <1>1 DEF Fresh
<1>5. \A w \in Worker, s \in Section : ~Generates(w, s) /\ ~Recording(w, s)
  BY <1>4 DEF Generates, Generating, Recording
<1>6. \A w \in Worker, s \in Section : Upright(w, s)
  BY <1>5 DEF Upright, Flagged, Apart, InPlace, Explained
<1> QED
  BY <1>2, <1>3, <1>6 DEF JInv

LEMMA NextJInv == IInv /\ JInv /\ [Next]_vars => JInv'
<1> SUFFICES ASSUME IInv, JInv, [Next]_vars PROVE JInv'
  OBVIOUS
<1>1. CASE Application
  BY <1>1, ApplicationJInv
<1>2. ASSUME NEW w \in Worker, WorkerStep(w) PROVE JInv'
 <2>1. CASE EndsRun(w) \/ ReadRecords(w) \/ SwapOut(w) \/ SwapIn(w)
   BY <2>1, OutsideJInv
 <2>2. CASE \E s \in Section : BeginSection(w, s)
   BY <2>2, BeginSectionJInv
 <2>3. CASE ReadChunk(w) \/ WriteEntry(w)
   BY <2>3, EntriesJInv
 <2>4. CASE CloseShard(w) \/ CloseLastShard(w) \/ SaveShard(w)
   BY <2>4, CloseShardJInv, CloseLastShardJInv, SaveShardJInv
 <2>5. CASE DeleteRecords(w) \/ CreateRecord(w) \/ RecordConflict(w)
   BY <2>5, DeleteRecordsJInv, CreateRecordJInv, RecordConflictJInv
 <2>6. CASE RemoveStaleFiles(w) \/ SaveSection(w)
   BY <2>6, RemoveStaleFilesJInv, SaveSectionJInv
 <2> QED
   BY <1>2, <2>1, <2>2, <2>3, <2>4, <2>5, <2>6 DEF WorkerStep
<1>3. ASSUME NEW w \in Worker, StartTask(w) \/ Failure(w) PROVE JInv'
  BY <1>3, StartTaskJInv, FailureJInv
<1>4. CASE Cleanup
  BY <1>4, CleanupReadsJInv, CleanupListsJInv, CleanupDeletesJInv, CleanupDoneJInv DEF Cleanup
<1>5. CASE UNCHANGED vars
 <2>1. \A v \in Worker : Aside(v)
   BY <1>5 DEF vars, Aside
 <2> QED
   BY <1>5, <2>1, AsideStep DEF vars
<1> QED
  BY <1>1, <1>2, <1>3, <1>4, <1>5 DEF Next

LEMMA JInvFresh == JInv => FreshUnlessMissed
<1> SUFFICES ASSUME JInv, NEW s \in Section,
                    ~stale[s], marks[s] = 0, s \notin missed, ~Busy(s)
             PROVE  Exact(s)
  BY DEF FreshUnlessMissed
<1>1. Upheld(s) /\ ~(marks[s] > 0)
  BY DEF JInv
<1> QED
  BY <1>1 DEF Upheld, Named

\* A section that is not flagged is served as it is, for every number of
\* workers, rows and failures, but for the cases its definition names.
THEOREM SectionsAreFresh == Spec => []FreshUnlessMissed
BY GenerationCorrect, InitJInv, NextJInv, JInvFresh, PTL DEF Spec, Safe

-----------------------------------------------------------------------------
(***************************************************************************)
(* The index, for a deployment with one worker.  From the first record of  *)
(* a generation to the end of generate_index it may be old, and nothing    *)
(* else happens in between; the listing that is read then stays true, and  *)
(* no record is in the way.  Two workers would break this: the one that    *)
(* read the records first may be the last to save its listing.             *)
(***************************************************************************)
Late == {"create", "stats", "index", "swap out", "swap in"}

Listed(w) ==
  /\ run[w].at \notin Late => index \subseteq {RecordedPaths}
  /\ run[w].at \in {"swap out", "swap in"} => run[w].listing = RecordedPaths
  /\ run[w].at = "swap in" => index = {}
  /\ run[w].at = "create" => \A n \in DOMAIN files[run[w].section] : n < run[w].made

IndexInv(w) == failures \in Nat /\ (failures = 0 => Listed(w))

LEMMA IndexQuiet ==
  ASSUME NEW w, IndexInv(w), UNCHANGED <<files, failures>>, index' = index \/ index' = {},
         \/ run'[w] = run[w]
         \/ run[w].at \notin Late /\ run'[w].at \notin Late
  PROVE  IndexInv(w)'
<1>1. RecordedPaths' = RecordedPaths
  BY DEF RecordedPaths
<1>2. ASSUME Listed(w) PROVE Listed(w)'
 <2>1. CASE run'[w] = run[w]
  <3>1. index' \subseteq index
    OBVIOUS
  <3> QED
    BY <1>1, <1>2, <2>1, <3>1 DEF Listed
 <2>2. CASE run[w].at \notin Late /\ run'[w].at \notin Late
   BY <1>1, <1>2, <2>2 DEF Listed, Late
 <2> QED
   BY <2>1, <2>2
<1> QED
  BY <1>2 DEF IndexInv

LEMMA IndexFailed ==
  ASSUME NEW w, IndexInv(w), failures' = failures + 1
  PROVE  IndexInv(w)'
BY DEF IndexInv

\* A step to another place, that leaves the index alone.
LEMMA IndexMoves ==
  ASSUME IInv, NEW w \in Worker, IndexInv(w),
         \/ EndsRun(w) \/ \E s \in Section : BeginSection(w, s)
         \/ ReadChunk(w) \/ WriteEntry(w) \/ CloseShard(w) \/ CloseLastShard(w) \/ SaveShard(w)
         \/ \E S : Starts(w, S)
  PROVE  IndexInv(w)'
<1>1. run[w].at \notin Late /\ UNCHANGED <<files, failures, index>>
  BY DEF EndsRun, BeginSection, ReadChunk, WriteEntry, CloseShard, CloseLastShard, SaveShard,
         Starts, OnlyRun, database, counters, Late
<1>2. \A p : [run[w] EXCEPT !.at = p].at = p
  BY TypeFacts DEF Run
<1>3. ASSUME NEW q, Now(w, q) PROVE run'[w] = q
  BY <1>3, RunStep DEF Now
<1>4. run'[w].at \notin Late
 <2>1. CASE EndsRun(w)
   BY <1>2, <1>3, <2>1 DEF EndsRun, Late
 <2>2. CASE \E s \in Section : BeginSection(w, s)
  <3>1. PICK s \in Section :
          Now(w, [Fresh("entries", run[w].todo \ {s}, s, "running") EXCEPT !.old = DOMAIN files[s]])
    BY <2>2 DEF BeginSection
  <3>2. run'[w] = [Fresh("entries", run[w].todo \ {s}, s, "running") EXCEPT !.old = DOMAIN files[s]]
    BY <1>3, <3>1
  <3> QED
    BY <3>2 DEF Fresh, Late
 <2>3. CASE ReadChunk(w)
  <3>1. PICK C, m : Now(w, [run[w] EXCEPT !.chunk = C, !.last = m])
    BY <2>3 DEF ReadChunk
  <3>2. [run[w] EXCEPT !.chunk = C, !.last = m].at = run[w].at
    BY TypeFacts DEF Run
  <3> QED
    BY <1>1, <1>3, <3>1, <3>2
 <2>4. CASE WriteEntry(w)
  <3>1. PICK i : Now(w, [run[w] EXCEPT !.shard = @ \cup {i}, !.chunk = @ \ {i}])
    BY <2>4 DEF WriteEntry
  <3>2. [run[w] EXCEPT !.shard = @ \cup {i}, !.chunk = @ \ {i}].at = run[w].at
    BY TypeFacts DEF Run
  <3> QED
    BY <1>1, <1>3, <3>1, <3>2
 <2>5. CASE CloseShard(w)
   BY <1>2, <1>3, <2>5 DEF CloseShard, Late
 <2>6. CASE CloseLastShard(w)
  <3>1. Now(w, [run[w] EXCEPT !.at = "save last"]) \/ Now(w, [run[w] EXCEPT !.at = "records"])
    BY <2>6 DEF CloseLastShard
  <3> QED
    BY <1>2, <1>3, <3>1 DEF Late
 <2>7. CASE SaveShard(w)
  <3> DEFINE p == IF run[w].at = "save" THEN "entries" ELSE "records"
             g == Append(run[w].new, run[w].shard)
             q == [run[w] EXCEPT !.at = p, !.new = g, !.shard = {}]
  <3>1. Now(w, q)
    BY <2>7 DEF SaveShard
  <3>2. p \notin Late
    BY DEF Late
  <3> HIDE DEF p, g
  <3>3. q.at = p
    BY TypeFacts DEF Run
  <3> HIDE DEF q
  <3> QED
    BY <1>3, <3>1, <3>2, <3>3
 <2>8. CASE \E S : Starts(w, S)
  <3>1. PICK S : Now(w, Fresh("next", S, SomeSection, "none"))
    BY <2>8 DEF Starts
  <3>2. run'[w] = Fresh("next", S, SomeSection, "none")
    BY <1>3, <3>1
  <3> QED
    BY <3>2 DEF Fresh, Late
 <2> QED
   BY <2>1, <2>2, <2>3, <2>4, <2>5, <2>6, <2>7, <2>8
<1> QED
  BY <1>1, <1>4, IndexQuiet

LEMMA IndexRecords ==
  ASSUME IInv, NEW w \in Worker, IndexInv(w),
         \/ DeleteRecords(w) \/ CreateRecord(w) \/ RecordConflict(w)
         \/ RemoveStaleFiles(w) \/ SaveSection(w) \/ ServeIndex(w)
  PROVE  IndexInv(w)'
<1> PICK s \in Section : run[w].section = s
  BY SectionFact
<1> PICK m \in Nat : run[w].made = m
  BY SectionFact
<1>1. failures' = failures
  BY DEF DeleteRecords, CreateRecord, RecordConflict, RemoveStaleFiles, SaveSection, ServeIndex,
         OnlyRun, counters
<1>2. ASSUME NEW q, Now(w, q) PROVE run'[w] = q
  BY <1>2, RunStep DEF Now
<1>3. \A p : [run[w] EXCEPT !.at = p].at = p /\ [run[w] EXCEPT !.at = p].section = s
  BY TypeFacts DEF Run
<1>4. ASSUME failures = 0, Listed(w) PROVE Listed(w)'
 <2>1. CASE DeleteRecords(w)
  <3>1. run'[w].at = "create" /\ run'[w].section = s
   <4>1. run'[w] = [run[w] EXCEPT !.at = "create"]
     BY <1>2, <2>1 DEF DeleteRecords
   <4> QED
     BY <1>3, <4>1
  <3>2. DOMAIN files'[s] = {}
   <4>1. files'[s] = <<>>
     BY <2>1 DEF DeleteRecords, IInv, RecordsOK
   <4> QED
     BY <4>1
  <3> QED
    BY <3>1, <3>2 DEF Listed, Late
 <2>2. CASE CreateRecord(w)
  <3> DEFINE c == Cardinality(run[w].new[m + 1])
             f == WithRecord(files[s], m, c)
             q == [run[w] EXCEPT !.made = @ + 1]
  <3>1. Now(w, q) /\ run[w].at = "create" /\ files' = [files EXCEPT ![s] = f]
    BY <2>2 DEF CreateRecord
  <3>2. DOMAIN f = DOMAIN files[s] \cup {m}
    BY DEF WithRecord
  <3>3. q.at = run[w].at /\ q.section = s /\ q.made = m + 1
    BY TypeFacts DEF Run
  <3> HIDE DEF f, q, c
  <3>4. run'[w] = q /\ files'[s] = f
    BY <1>2, <3>1 DEF IInv, RecordsOK
  <3>5. \A n \in DOMAIN files[s] : n \in Nat /\ n < m
    BY <1>4, <3>1 DEF Listed, IInv, RecordsOK
  <3>6. \A n \in DOMAIN f : n < m + 1
    BY <3>2, <3>5
  <3> QED
    BY <3>1, <3>3, <3>4, <3>6 DEF Listed, Late
 <2>3. CASE RecordConflict(w)
  <3>1. run[w].at = "create" /\ m \in DOMAIN files[s]
    BY <2>3 DEF RecordConflict
  <3>2. m < m
    BY <1>4, <3>1 DEF Listed
  <3> QED
    BY <3>2
 <2>4. CASE RemoveStaleFiles(w)
  <3>1. run'[w].at = "stats"
    BY <1>2, <1>3, <2>4 DEF RemoveStaleFiles
  <3> QED
    BY <3>1 DEF Listed, Late
 <2>5. CASE SaveSection(w)
  <3>1. run'[w] = Fresh("index", run[w].todo, run[w].section, "success")
    BY <1>2, <2>5 DEF SaveSection
  <3>2. run'[w].at = "index"
    BY <3>1 DEF Fresh
  <3> QED
    BY <3>2 DEF Listed, Late
 <2>6. CASE ServeIndex(w)
  <3>1. run'[w].at = "index"
    BY <1>2, <1>3, <2>6 DEF ServeIndex
  <3> QED
    BY <3>1 DEF Listed, Late
 <2> QED
   BY <2>1, <2>2, <2>3, <2>4, <2>5, <2>6
<1> QED
  BY <1>1, <1>4 DEF IndexInv

LEMMA IndexSwaps ==
  ASSUME IInv, NEW w \in Worker, IndexInv(w), ReadRecords(w) \/ SwapOut(w) \/ SwapIn(w)
  PROVE  IndexInv(w)'
<1>1. UNCHANGED <<files, failures>>
  BY DEF ReadRecords, SwapOut, SwapIn, OnlyRun, database, counters
<1>2. ASSUME NEW q, Now(w, q) PROVE run'[w] = q
  BY <1>2, RunStep DEF Now
<1>3. RecordedPaths' = RecordedPaths
  BY <1>1 DEF RecordedPaths
<1>4. ASSUME Listed(w) PROVE Listed(w)'
 <2>1. CASE ReadRecords(w)
  <3> DEFINE L == RecordedPaths
             q == [run[w] EXCEPT !.at = "swap out", !.listing = L]
  <3>1. Now(w, q)
    BY <2>1 DEF ReadRecords
  <3> HIDE DEF L
  <3>2. q.at = "swap out" /\ q.listing = L
    BY TypeFacts DEF Run
  <3> HIDE DEF q
  <3>3. run'[w].at = "swap out" /\ run'[w].listing = L
    BY <1>2, <3>1, <3>2
  <3> QED
    BY <1>3, <3>3 DEF Listed, Late, L
 <2>2. CASE SwapOut(w)
  <3> DEFINE q == [run[w] EXCEPT !.at = "swap in"]
  <3>1. Now(w, q) /\ index' = {} /\ run[w].at = "swap out"
    BY <2>2 DEF SwapOut
  <3>2. q.at = "swap in" /\ q.listing = run[w].listing
    BY TypeFacts DEF Run
  <3> HIDE DEF q
  <3>3. run'[w].at = "swap in" /\ run'[w].listing = run[w].listing
    BY <1>2, <3>1, <3>2
  <3> QED
    BY <1>3, <1>4, <3>1, <3>3 DEF Listed, Late
 <2>3. CASE SwapIn(w)
  <3> DEFINE q == [run[w] EXCEPT !.at = "next", !.listing = {}]
  <3>1. /\ Now(w, q) /\ run[w].at = "swap in"
        /\ index' = IF index = {} THEN {run[w].listing} ELSE index
    BY <2>3 DEF SwapIn
  <3>2. q.at = "next"
    BY TypeFacts DEF Run
  <3> HIDE DEF q
  <3>3. run'[w].at = "next"
    BY <1>2, <3>1, <3>2
  <3> QED
    BY <1>3, <1>4, <3>1, <3>3 DEF Listed, Late
 <2> QED
   BY <2>1, <2>2, <2>3
<1> QED
  BY <1>1, <1>4 DEF IndexInv

LEMMA IndexElsewhere ==
  ASSUME NEW w \in Worker, IndexInv(w), Application \/ Cleanup \/ UNCHANGED vars \/ Failure(w)
  PROVE  IndexInv(w)'
<1>1. CASE Application
 <2>1. PICK s \in Section :
         \/ \E J : Change(s, J) \/ CommitsFlag(s, J) \/ CommitsRows(s, J)
         \/ MarkSectionStale(s) \/ MarkFails(s) \/ Opens(s) \/ RollsBack(s)
   BY <1>1 DEF Application, Add, Remove, EndsTransaction
 <2>2. UNCHANGED <<files, index, run>> /\ (failures' = failures \/ failures' = failures + 1)
   BY <2>1 DEF Change, CommitsFlag, CommitsRows, MarkSectionStale, MarkFails, Opens, RollsBack,
               counters
 <2> QED
   BY <2>2, IndexQuiet, IndexFailed
<1>2. CASE Cleanup
 <2>1. UNCHANGED <<files, failures, run>> /\ (index' = index \/ index' = {})
   BY <1>2 DEF Cleanup, CleanupReads, CleanupLists, CleanupDeletesIndex, CleanupEnds,
               CleanupDeletes, database, counters
 <2> QED
   BY <2>1, IndexQuiet
<1>3. CASE UNCHANGED vars
  BY <1>3, IndexQuiet DEF vars
<1>4. CASE Failure(w)
 <2>1. failures' = failures + 1
   BY <1>4 DEF Failure, FailsBeforeTry, GenerationFails, IndexFails, Crash, Leaves
 <2> QED
   BY <2>1, IndexFailed
<1> QED
  BY <1>1, <1>2, <1>3, <1>4

LEMMA InitIndexInv ==
  ASSUME Init, NEW w \in Worker
  PROVE  IndexInv(w)
<1>1. run[w].at = "idle" /\ index = {} /\ failures = 0
  BY DEF Init, Fresh
<1> QED
  BY <1>1 DEF IndexInv, Listed, Late

LEMMA NextIndexInv ==
  ASSUME IInv, [Next]_vars, NEW w, Worker = {w}, IndexInv(w)
  PROVE  IndexInv(w)'
<1>1. CASE StartTask(w)
 <2>1. (\E S : Starts(w, S)) \/ ServeIndex(w)
   BY <1>1 DEF StartTask, RegenerateStale, RegenerateAll, RegenerateOne
 <2> QED
   BY <2>1, IndexMoves, IndexRecords
<1>2. CASE WorkerStep(w)
  BY <1>2, IndexMoves, IndexRecords, IndexSwaps DEF WorkerStep
<1>3. CASE Application \/ Cleanup \/ UNCHANGED vars \/ Failure(w)
  BY <1>3, IndexElsewhere
<1> QED
  BY <1>1, <1>2, <1>3 DEF Next

LEMMA IndexInvMatches ==
  ASSUME NEW w, Worker = {w}, IndexInv(w)
  PROVE  IndexMatches
<1>1. AtRest => run[w].at \notin Late
  BY DEF AtRest, Late
<1> QED
  BY <1>1 DEF IndexMatches, IndexInv, Listed

\* One worker, that nothing fails, leaves an index that lists the recorded
\* files, or none, whatever rows change and whenever the cleanup runs.
THEOREM IndexIsCurrent ==
  ASSUME NEW w, Worker = {w}
  PROVE  Spec => []IndexMatches
<1>1. w \in Worker
  OBVIOUS
<1>2. Init => IndexInv(w)
  BY <1>1, InitIndexInv
<1>3. IInv /\ IndexInv(w) /\ [Next]_vars => IndexInv(w)'
  BY NextIndexInv
<1>4. IndexInv(w) => IndexMatches
  BY IndexInvMatches
<1> QED
  BY <1>2, <1>3, <1>4, GenerationCorrect, PTL DEF Spec, Safe
=============================================================================
