----------------------------- MODULE MCSitemap -----------------------------
(***************************************************************************)
(* Sitemap with interchangeable workers and sections: no section is told   *)
(* from another, for the one of a worker that generates none (SomeSection) *)
(* is not read.                                                            *)
(***************************************************************************)
EXTENDS Sitemap, TLC

Interchangeable == Permutations(Section) \cup Permutations(Worker)
=============================================================================
