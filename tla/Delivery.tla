------------------------------ MODULE Delivery -------------------------------
(***************************************************************************)
(* What bulk_index() of icv-search promises its caller, whatever threads   *)
(* and queues it works with: while the call is open, batches reach the     *)
(* engine, each at most once and in any order, also the batch of a send    *)
(* that fails; the call returns only when all of them have and nothing     *)
(* failed, and raises only when something has; then nothing more happens.  *)
(***************************************************************************)
EXTENDS Naturals

CONSTANT Batch

VARIABLES
  received,   \* how often each batch reached the engine
  trouble,    \* a send, the iterable or the callback raised
  outcome     \* "open", "returned" or "raised"

vars == <<received, trouble, outcome>>

Init ==
  /\ received = [b \in Batch |-> 0]
  /\ trouble = FALSE
  /\ outcome = "open"

Reaches(b) == received[b] = 0 /\ received' = [received EXCEPT ![b] = 1]

Deliver ==
  /\ outcome = "open"
  /\ \E b \in Batch : Reaches(b)
  /\ UNCHANGED <<trouble, outcome>>

Fail ==
  /\ outcome = "open"
  /\ UNCHANGED received \/ \E b \in Batch : Reaches(b)
  /\ trouble' = TRUE
  /\ UNCHANGED outcome

Return ==
  /\ outcome = "open" /\ ~trouble
  /\ \A b \in Batch : received[b] = 1
  /\ outcome' = "returned"
  /\ UNCHANGED <<received, trouble>>

Raise ==
  /\ outcome = "open" /\ trouble
  /\ outcome' = "raised"
  /\ UNCHANGED <<received, trouble>>

Next == Deliver \/ Fail \/ Return \/ Raise

Spec == Init /\ [][Next]_vars
=============================================================================
