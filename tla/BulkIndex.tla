------------------------------ MODULE BulkIndex ------------------------------
(***************************************************************************)
(* bulk_index() of icv-search: the calling thread reads batches from an    *)
(* iterable and puts them in a bounded queue; a pool of sender threads     *)
(* takes them out and sends them to the search engine.  The caller ends    *)
(* the senders with one poison pill each and waits for them.               *)
(***************************************************************************)
EXTENDS Integers, SequencesExt, FiniteSets

CONSTANTS
  Worker,        \* the sender threads
  Batches,       \* how many batches the iterable yields
  MaxFailures,   \* bound on the sends that fail
  MaySourceFail  \* whether the iterable or the progress callback may raise

ASSUME WorkerAssumption  == IsFiniteSet(Worker) /\ Worker # {}
ASSUME BatchesAssumption == Batches \in Nat
ASSUME FailuresAssumption == MaxFailures \in Nat /\ MaySourceFail \in BOOLEAN

Batch == 1..Batches
Pill == 0
concurrency == Cardinality(Worker)
Capacity == concurrency + 1            \* Queue(maxsize=concurrency + 1)

VARIABLES
  queue,      \* send_queue
  error,      \* error_event, set with the first entry of first_error
  failed,     \* the batches whose send raised
  engine,     \* how often each batch reached the engine
  at,         \* where each sender is
  hand,       \* the batch a sender holds, Pill when it holds none
  caller,     \* where the calling thread is
  next,       \* the batch that the iterable yields next
  pills       \* poison pills put so far

bulkVars == <<queue, error, failed, engine, at, hand, caller, next, pills>>

TypeOK ==
  /\ queue \in Seq(Batch \cup {Pill}) /\ Len(queue) <= Capacity
  /\ error \in BOOLEAN
  /\ failed \in SUBSET Batch
  /\ engine \in [Batch -> Nat]
  /\ at \in [Worker -> {"loop", "get", "send", "done"}]
  /\ hand \in [Worker -> Batch \cup {Pill}]
  /\ caller \in {"next", "put", "pills", "broken", "returned", "raised"}
  /\ next \in 1..Batches + 1
  /\ pills \in 0..concurrency

BulkInit ==
  /\ queue = <<>>
  /\ error = FALSE
  /\ failed = {}
  /\ engine = [b \in Batch |-> 0]
  /\ at = [w \in Worker |-> "loop"]
  /\ hand = [w \in Worker |-> Pill]
  /\ caller = "next"
  /\ next = 1
  /\ pills = 0

-----------------------------------------------------------------------------
(***************************************************************************)
(* sender_worker                                                           *)
(***************************************************************************)
Moves(w, place) == at' = [at EXCEPT ![w] = place]

\* while not error_event.is_set()
WorkerLoops(w) ==
  /\ at[w] = "loop"
  /\ Moves(w, IF error THEN "done" ELSE "get")
  /\ UNCHANGED <<queue, error, failed, engine, hand, caller, next, pills>>

\* send_queue.get(timeout=1.0)
WorkerGets(w) ==
  /\ at[w] = "get" /\ queue # <<>>
  /\ queue' = Tail(queue)
  /\ hand' = [hand EXCEPT ![w] = Head(queue)]
  /\ Moves(w, IF Head(queue) = Pill THEN "done" ELSE "send")
  /\ UNCHANGED <<error, failed, engine, caller, next, pills>>

\* except Empty: continue
WorkerTimesOut(w) ==
  /\ at[w] = "get" /\ queue = <<>>
  /\ Moves(w, "loop")
  /\ UNCHANGED <<queue, error, failed, engine, hand, caller, next, pills>>

Received(w) == engine' = [engine EXCEPT ![hand[w]] = @ + 1]

WorkerSends(w) ==
  /\ at[w] = "send"
  /\ Received(w)
  /\ hand' = [hand EXCEPT ![w] = Pill]
  /\ Moves(w, "loop")
  /\ UNCHANGED <<queue, error, failed, caller, next, pills>>

\* Mutant: the batch of a failed send goes back to the queue.
WorkerRequeues(w) ==
  /\ at[w] = "send" /\ Cardinality(failed) < MaxFailures
  /\ Received(w) \/ UNCHANGED engine
  /\ failed' = failed \cup {hand[w]}
  /\ queue' = <<hand[w]>> \o queue
  /\ hand' = [hand EXCEPT ![w] = Pill]
  /\ Moves(w, "loop")
  /\ UNCHANGED <<error, caller, next, pills>>

\* Mutant: the error is recorded but the event is not set.
WorkerFailsSilently(w) ==
  /\ at[w] = "send" /\ Cardinality(failed) < MaxFailures
  /\ Received(w) \/ UNCHANGED engine
  /\ failed' = failed \cup {hand[w]}
  /\ hand' = [hand EXCEPT ![w] = Pill]
  /\ Moves(w, "done")
  /\ UNCHANGED <<queue, error, caller, next, pills>>

\* The send raises; the engine may have stored the batch all the same.
WorkerFails(w) ==
  /\ at[w] = "send" /\ Cardinality(failed) < MaxFailures
  /\ Received(w) \/ UNCHANGED engine
  /\ failed' = failed \cup {hand[w]}
  /\ error' = TRUE
  /\ hand' = [hand EXCEPT ![w] = Pill]
  /\ Moves(w, "done")
  /\ UNCHANGED <<queue, caller, next, pills>>

-----------------------------------------------------------------------------
(***************************************************************************)
(* The calling thread.  "broken" is "pills" with an exception of the       *)
(* iterable or the callback on its way out.                                *)
(***************************************************************************)
CallerTakes ==
  /\ caller = "next" /\ next <= Batches /\ ~error
  /\ caller' = "put"
  /\ UNCHANGED <<queue, error, failed, engine, at, hand, next, pills>>

\* The iterable is used up, or the error event is seen.
CallerStops ==
  /\ caller = "next" /\ (next > Batches \/ error)
  /\ caller' = "pills"
  /\ UNCHANGED <<queue, error, failed, engine, at, hand, next, pills>>

SourceFails ==
  /\ MaySourceFail /\ caller = "next"
  /\ caller' = "broken"
  /\ UNCHANGED <<queue, error, failed, engine, at, hand, next, pills>>

\* Mutant: no wait for room.
CallerPutsUnbounded ==
  /\ caller = "put"
  /\ queue' = Append(queue, next)
  /\ next' = next + 1
  /\ caller' = "next"
  /\ UNCHANGED <<error, failed, engine, at, hand, pills>>

\* send_queue.put(batch) waits for room.
CallerPuts ==
  /\ caller = "put" /\ Len(queue) < Capacity
  /\ queue' = Append(queue, next)
  /\ next' = next + 1
  /\ caller' = "next"
  /\ UNCHANGED <<error, failed, engine, at, hand, pills>>

\* Mutant: one pill short.
CallerPutsTooFewPills ==
  /\ caller \in {"pills", "broken"} /\ pills < concurrency
  /\ Len(queue) < Capacity
  /\ queue' = IF pills = 0 THEN queue ELSE Append(queue, Pill)
  /\ pills' = pills + 1
  /\ UNCHANGED <<error, failed, engine, at, hand, caller, next>>

CallerPutsPill ==
  /\ caller \in {"pills", "broken"} /\ pills < concurrency
  /\ Len(queue) < Capacity
  /\ queue' = Append(queue, Pill)
  /\ pills' = pills + 1
  /\ UNCHANGED <<error, failed, engine, at, hand, caller, next>>

\* Mutant: the senders are not waited for.
CallerReturnsAtOnce ==
  /\ caller \in {"pills", "broken"} /\ pills = concurrency
  /\ caller' = IF caller = "broken" \/ error THEN "raised" ELSE "returned"
  /\ UNCHANGED <<queue, error, failed, engine, at, hand, next, pills>>

\* The pool waits for its threads; then the exception goes on, or the first
\* error of a sender is raised, or the total is returned.
CallerJoins ==
  /\ caller \in {"pills", "broken"} /\ pills = concurrency
  /\ \A w \in Worker : at[w] = "done"
  /\ caller' = IF caller = "broken" \/ error THEN "raised" ELSE "returned"
  /\ UNCHANGED <<queue, error, failed, engine, at, hand, next, pills>>

WorkerStep(w) ==
  \/ WorkerLoops(w)
  \/ WorkerGets(w)
  \/ WorkerTimesOut(w)
  \/ WorkerSends(w)
  \/ WorkerFails(w)

CallerStep ==
  \/ CallerTakes
  \/ CallerStops
  \/ SourceFails
  \/ CallerPuts
  \/ CallerPutsPill
  \/ CallerJoins

BulkNext == CallerStep \/ \E w \in Worker : WorkerStep(w)

Safe == BulkInit /\ [][BulkNext]_bulkVars

\* Each thread is scheduled again and again.
BulkSpec == Safe /\ WF_bulkVars(CallerStep) /\ \A w \in Worker : WF_bulkVars(WorkerStep(w))

-----------------------------------------------------------------------------
\* "Returns: Total number of documents sent to the engine": the call returns
\* only when every batch of the iterable was put, each has reached the engine
\* exactly once and no send failed - although the caller sees neither what
\* the senders took nor what they sent.
ReturnsWhenAllIndexed ==
  caller = "returned" =>
    /\ next = Batches + 1
    /\ failed = {}
    /\ \A b \in Batch : engine[b] = 1

\* No batch is sent twice, whichever threads fail.
SentAtMostOnce == \A b \in Batch : engine[b] <= 1

\* The senders are gone and the caller is still to put something.
Stuck == /\ \A w \in Worker : at[w] = "done"
         /\ caller \in {"put", "pills", "broken"}
         /\ pills < concurrency /\ Len(queue) = Capacity

\* The caller waits for room in vain only after a send has failed: without
\* an error the senders outlive every put.
StuckOnlyAfterError == Stuck => error

\* The call ends, also when the iterable or a send raises, unless it gets
\* stuck: every sender finds its pill or the error.
EndsOrStuck == <>(caller \in {"returned", "raised"} \/ Stuck)

\* Seen from its caller, the call is a Delivery: the threads, the queue and the
\* pills add no second send, no early or late one, no return that hides a
\* failure and no error without one.
trouble == failed # {} \/ caller \in {"broken", "raised"}
outcome == IF caller \in {"returned", "raised"} THEN caller ELSE "open"

Promise == INSTANCE Delivery WITH received <- engine

Delivers == Promise!Spec
=============================================================================
