------------------------------- MODULE Sorting ------------------------------
(* Lists in an order that a relation gives, for sorts that never leave open    *)
(* which of two elements comes first.                                          *)
EXTENDS Integers, FiniteSets

(* R puts any two members of S in one order.                                   *)
Orders(R, S) ==
  /\ \A d \in S : <<d, d>> \notin R
  /\ \A d, e \in S : d = e \/ <<d, e>> \in R \/ <<e, d>> \in R
  /\ \A d, e, g \in S : <<d, e>> \in R /\ <<e, g>> \in R => <<d, g>> \in R

(* The member with i - 1 others before it is at place i.                       *)
SortedBy(S, R) ==
  [i \in 1..Cardinality(S) |-> CHOOSE d \in S : Cardinality({e \in S : <<e, d>> \in R}) = i - 1]
=============================================================================
