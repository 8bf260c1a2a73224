------------------------------- MODULE MCTree -------------------------------
(***************************************************************************)
(* Small tables for TLC.  Primary keys are numbers because the delete      *)
(* signals are sent by descending key.                                     *)
(***************************************************************************)
EXTENDS Tree

CONSTANT NodeCount

MCNode == 1..NodeCount
MCOneScope == [n \in MCNode |-> "all"]
=============================================================================
