---------------------------- MODULE MCAutoIndex ----------------------------
(***************************************************************************)
(* Model values for AutoIndex.  Rows, clients and workers are alike.       *)
(***************************************************************************)
EXTENDS AutoIndex, TLC

Symmetry == Permutations(Doc) \cup Permutations(Client) \cup Permutations(Worker)
=============================================================================
