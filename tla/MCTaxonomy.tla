----------------------------- MODULE MCTaxonomy -----------------------------
(* The terms 1 to 4 of vocabulary "a" and 5 to 8 of "b".                       *)
(* Each use has the operations that meet over one rule: nesting, types and     *)
(* limits, merges, imports, cardinality, cleanups, relationships.              *)
EXTENDS Taxonomy

MCVocOf == [t \in Term |-> IF t <= 4 THEN "a" ELSE "b"]
MCSlugOf == [t \in Term |-> IF t <= 4 THEN t ELSE t - 4]

Voc(flat, multiple, max) == [flat |-> flat, open |-> TRUE, multiple |-> multiple, max |-> max]
Root(i) == [parent |-> NoParent, path |-> <<i>>, depth |-> 0, order |-> i - 1]
Below1 == [parent |-> 1, path |-> <<1, 1>>, depth |-> 1, order |-> 0]

Use(ops, calls, voc, d) ==
  [ops |-> ops, calls |-> calls, vocs |-> [v \in Vocab |-> voc], db |-> d,
   tags |-> {}, unborn |-> {}, types |-> {"synonym"}]

Nested == 1 :> Root(1) @@ 2 :> Below1
Flat   == 1 :> Root(1) @@ 2 :> Root(2)
Tree   == Voc(FALSE, TRUE, 1)
Single == Voc(TRUE, FALSE, Unlimited)

Three  == Flat @@ 3 :> Root(3)
(* A chain in each vocabulary, of the same paths.                              *)
Chained(p, n) == [parent |-> p, path |-> [i \in 1..n |-> 1], depth |-> n - 1, order |-> 0]
Alike  == 1 :> Root(1) @@ 2 :> Chained(1, 2) @@ 3 :> Chained(2, 3) @@ 5 :> Root(1) @@ 6 :> Chained(5, 2)
Open   == Voc(TRUE, TRUE, Unlimited)

Doubly == {Tag(t, o) : t \in {1, 2}, o \in Obj}

MCDeployments ==
  {Use({"create", "delete", "clear", "configure"}, 3, voc, Flat) : voc \in {Tree, Open}}
  \cup {Use({"create", "move", "set_parent"}, 3, Tree, Nested)}
  \cup {Use({"create", "move"}, 2, Voc(FALSE, TRUE, 2), Alike)}
  \cup {Use({"create", "deactivate", "activate", "configure"}, 3, Tree, Nested)}
  \cup {Use({"create", "set_parent", "activate"}, 3, Tree, Nested)}
  \cup {Use({"create", "merge", "deactivate"}, 3, Tree, Nested)}
  \cup {Use({"import", "create", "deactivate", "configure"}, 3, Tree, Nested)}
  \cup {Use({"merge", "set_parent", "fix", "configure"}, 3, Tree, Nested)}
  \cup {Use({"tag", "replace", "untag", "merge", "activate"}, 3, Single, Flat)}
  \cup {Use({"tag", "tag_many", "configure", "delete"}, 3, voc, Flat) : voc \in {Single, Open}}
  \cup {[Use({"tag", "untag", "merge", "configure"}, 3, Open, Flat) EXCEPT !.tags = Doubly]}
  \cup {[Use({"tag", "object", "cleanup"}, 4, Open, Flat) EXCEPT !.unborn = Obj]}
  \cup {Use({"relate", "unrelate", "merge", "kill", "inline", "delete"}, 3, Open, Three)}
Symmetry == Permutations(Obj) \cup Permutations(Session)
=============================================================================
