------------------------------- MODULE TreeOps -------------------------------
(***************************************************************************)
(* The table of an icv-tree model and the pure part of its services.       *)
(*                                                                         *)
(* A table d is a function from the primary keys in it to rows.  A path is *)
(* the sequence of its steps: the string "0001/0003" is <<1, 3>>, and the  *)
(* prefix test path.startswith(other + separator) is IsStrictPrefix.  Two  *)
(* kinds of step are never produced from a sibling order: 0 marks the      *)
(* "__MOVING_<uuid>__" prefix that a move puts in front of a path, and -n  *)
(* is the whole path "__rebuild_<n>__" of the row n.                       *)
(*                                                                         *)
(* V is the set of rows the model's default manager shows.  It is the      *)
(* whole table for a plain TreeNode; a model whose default manager filters *)
(* rows passes fewer.                                                      *)
(***************************************************************************)
EXTENDS Integers, SequencesExt, FiniteSets

NoParent == 0                          \* parent_id IS NULL
Positions == {"first-child", "last-child", "left", "right"}

(***************************************************************************)
(* Reading the table                                                       *)
(***************************************************************************)
Children(d, V, p) == {x \in V : d[x].parent = p}

\* The path prefix that a child of p continues.
PathOfParent(d, p) == IF p = NoParent THEN <<>> ELSE d[p].path

\* _compute_new_path: a 0-based sibling order becomes a 1-based path step.
NewPath(base, order) == Append(base, order + 1)

\* path__startswith = p + separator
Below(d, V, p) == {x \in V : IsStrictPrefix(p, d[x].path)}

(***************************************************************************)
(* Rows reached through the parent key.  The rows at or under S are those  *)
(* in every set that holds S and is closed under children.                 *)
(***************************************************************************)
ClosedUnderChildren(d, C) == \A x \in DOMAIN d : d[x].parent \in C => x \in C

Subtrees(d, S) ==
  {x \in DOMAIN d : \A C \in SUBSET DOMAIN d :
     S \subseteq C /\ ClosedUnderChildren(d, C) => x \in C}

\* No set of rows has all its parents inside itself: no parent cycle.
Forest(d) ==
  \A C \in SUBSET DOMAIN d :
    C # {} => \E x \in C : d[x].parent \notin C

\* x and its ancestors
Lineage(d, x) == {a \in DOMAIN d : x \in Subtrees(d, {a})}

(***************************************************************************)
(* handle_pre_save on a new row: the row computed for a node created under *)
(* p, beside sibs, when the instance of p in memory has the row held.      *)
(***************************************************************************)
RowForInsert(sibs, p, held) ==
  LET order == Cardinality(sibs) IN
  [parent |-> p,
   path   |-> NewPath(IF p = NoParent THEN <<>> ELSE held.path, order),
   depth  |-> IF p = NoParent THEN 0 ELSE held.depth + 1,
   order  |-> order]

\* Mutant: the filter order__gt is missing.
CloseOrderGapUnfiltered(d, p, removed) ==
  [x \in DOMAIN d |->
    IF d[x].parent = p THEN [d[x] EXCEPT !.order = @ - 1] ELSE d[x]]

\* _reorder_siblings_after_removal: one UPDATE of the order column, over
\* every row of the table; paths are left as they are.
CloseOrderGap(d, p, removed) ==
  [x \in DOMAIN d |->
    IF d[x].parent = p /\ d[x].order > removed
    THEN [d[x] EXCEPT !.order = @ - 1] ELSE d[x]]

(***************************************************************************)
(* Steps 1 and 2 of move_to.  Every sibling in S gets the order and, from  *)
(* it, the path that is delta further on.  The subtree of a sibling is     *)
(* found by the path COMPUTED from base and the sibling's order, not by    *)
(* the path the row holds; its rows get new paths and the depth of these.  *)
(* Siblings are updated one by one, by ascending order when the gap is     *)
(* closed (delta = -1) and by descending order when room is made, and a    *)
(* row that is written both as a sibling and as part of a subtree keeps    *)
(* what was written last.                                                  *)
(***************************************************************************)
ShiftSiblings(d, V, S, base, delta) ==
  LET WritesSubtree(s, x) ==
        /\ IsStrictPrefix(NewPath(base, d[s].order), d[x].path)
        /\ x \in S => (d[s].order - d[x].order) * delta <= 0
      AsSibling(x) ==
        [d[x] EXCEPT !.path  = NewPath(base, d[x].order + delta),
                     !.order = @ + delta]
      InSubtree(r, path) == [r EXCEPT !.path = path, !.depth = Len(path) - 1]
  IN [x \in DOMAIN d |->
       LET r == IF x \in S THEN AsSibling(x) ELSE d[x]
       IN  IF x \in V /\ \E s \in S : WritesSubtree(s, x)
           THEN InSubtree(r, [d[x].path EXCEPT ![Len(base) + 1] = @ + delta])
           ELSE r]

\* The rows D, whose paths in src continue old, are written with new in
\* place of old; depth follows the path, order and parent stay.
Rebase(path, old, new) == new \o SubSeq(path, Len(old) + 1, Len(path))

\* Mutant: bulk_update(descendants, ["path"]) leaves the old depth.
RerootedSameDepth(d, src, D, old, new) ==
  [x \in DOMAIN d |->
    IF x \in D THEN [d[x] EXCEPT !.path = Rebase(src[x].path, old, new)] ELSE d[x]]

Rerooted(d, src, D, old, new) ==
  [x \in DOMAIN d |->
    IF x \in D
    THEN LET path == Rebase(src[x].path, old, new)
         IN  [d[x] EXCEPT !.path = path, !.depth = Len(path) - 1]
    ELSE d[x]]

(***************************************************************************)
(* move_to(node, target, position).  r and t are the rows that the caller's*)
(* instances of the node n and of the target hold; they may be older than  *)
(* the table.  What the function itself fetches (the parents of the two    *)
(* instances, the sibling count) is read from the table.                   *)
(***************************************************************************)
\* Mutant: the node itself is counted among the children it is moved behind.
MovePlanCountsSelf(d, V, r, tgt, t, pos) ==
  LET inside == pos \in {"first-child", "last-child"}
      p      == IF inside THEN tgt ELSE t.parent
      at     == CASE pos = "first-child" -> 0
                  [] pos = "last-child"  -> Cardinality(Children(d, V, tgt))
                  [] pos = "left"        -> t.order
                  [] pos = "right"       -> t.order + 1
  IN [parent |-> p,
      base   |-> IF inside THEN t.path ELSE PathOfParent(d, p),
      depth  |-> IF p = NoParent THEN 0
                 ELSE IF inside THEN t.depth + 1 ELSE d[p].depth + 1,
      order  |-> IF ~inside /\ r.parent = p /\ r.order < at THEN at - 1 ELSE at]

MovePlan(d, V, r, tgt, t, pos) ==
  LET inside == pos \in {"first-child", "last-child"}
      p      == IF inside THEN tgt ELSE t.parent
      at     == CASE pos = "first-child" -> 0
                  [] pos = "last-child"  -> Cardinality(Children(d, V, tgt))
                                            - (IF r.parent = tgt THEN 1 ELSE 0)
                  [] pos = "left"        -> t.order
                  [] pos = "right"       -> t.order + 1
  IN [parent |-> p,
      base   |-> IF inside THEN t.path ELSE PathOfParent(d, p),
      depth  |-> IF p = NoParent THEN 0
                 ELSE IF inside THEN t.depth + 1 ELSE d[p].depth + 1,
      order  |-> IF ~inside /\ r.parent = p /\ r.order < at THEN at - 1 ELSE at]

\* Mutant: the descendant test is missing.
MoveRejectedSelfOnly(d, n, r, tgt, t, pos) ==
  \/ tgt = n
  \/ r.parent \notin DOMAIN d \cup {NoParent}
  \/ pos \in {"left", "right"} /\ t.parent \notin DOMAIN d \cup {NoParent}

\* The two TreeStructureErrors, and the fetch of a parent that is gone.
MoveRejected(d, n, r, tgt, t, pos) ==
  \/ tgt = n
  \/ IsStrictPrefix(r.path, t.path)
  \/ r.parent \notin DOMAIN d \cup {NoParent}
  \/ pos \in {"left", "right"} /\ t.parent \notin DOMAIN d \cup {NoParent}

MoveIsNoOp(r, plan) == r.parent = plan.parent /\ r.order = plan.order

\* The rows at the end of the transaction.
Moved(d, V, n, r, plan) ==
  LET D  == Below(d, V, r.path)
      d0 == [x \in DOMAIN d |-> IF x = n \/ x \in D
                                THEN [d[x] EXCEPT !.path = <<0>> \o @]
                                ELSE d[x]]
      S1 == {x \in Children(d0, V, r.parent) : d0[x].order > r.order}
      d1 == ShiftSiblings(d0, V, S1, PathOfParent(d, r.parent), -1)
      S2 == {x \in Children(d1, V, plan.parent) : d1[x].order >= plan.order}
      d2 == ShiftSiblings(d1, V, S2, plan.base, 1)
      path == NewPath(plan.base, plan.order)
      d3 == [x \in DOMAIN d |->
              IF x = n
              THEN [d2[x] EXCEPT !.parent = plan.parent, !.path = path,
                                 !.depth = plan.depth, !.order = plan.order]
              ELSE d2[x]]
  IN Rerooted(d3, d, D, r.path, path)

(***************************************************************************)
(* The root branch of handle_pre_save: parent set to None on an existing   *)
(* row n and saved.  roots are the rows counted as root siblings.  The row *)
(* itself is written later, by the save.                                   *)
(***************************************************************************)
RowForRoot(roots) ==
  LET order == Cardinality(roots) IN
  [parent |-> NoParent, path |-> NewPath(<<>>, order), depth |-> 0, order |-> order]

RootedSubtree(d, V, r, newRow) ==
  Rerooted(CloseOrderGap(d, r.parent, r.order), d, Below(d, V, r.path),
           r.path, newRow.path)

(***************************************************************************)
(* The constraints of the table, which roll a transaction back: the parent *)
(* key exists, the order column holds no negative number, and a path holds *)
(* at most maxPath steps (CharField(max_length=255), 51 steps of 4 digits).*)
(***************************************************************************)
Storable(d, maxPath) ==
  \A x \in DOMAIN d : /\ d[x].parent \in DOMAIN d \cup {NoParent}
                      /\ d[x].order >= 0
                      /\ Len(d[x].path) <= maxPath

\* During a move the paths of the subtree carry "__MOVING_<8 digits>__" in
\* front, which takes the room of 4 steps.
PlaceholderSteps == 4
PlaceholderFits(d, V, n, r, maxPath) ==
  /\ n \in DOMAIN d => Len(r.path) + PlaceholderSteps <= maxPath
  /\ \A x \in Below(d, V, r.path) : Len(d[x].path) + PlaceholderSteps <= maxPath

(***************************************************************************)
(* rebuild().  Siblings are ranked by the order column, the roots within   *)
(* each scope; the database may return equal orders in any sequence, which *)
(* tie stands for.  A row in a parent cycle is reached from no root and    *)
(* gets nothing computed.                                                  *)
(***************************************************************************)
TieBreaks(d) ==
  IF \E x, y \in DOMAIN d :
       x # y /\ d[x].parent = d[y].parent /\ d[x].order = d[y].order
  THEN Bijection(DOMAIN d, DOMAIN d)
  ELSE {[x \in DOMAIN d |-> x]}

\* Mutant: equal orders get the same rank.
RankWithoutTies(d, scope, tie, x) ==
  Cardinality({y \in DOMAIN d :
    /\ d[y].parent = d[x].parent
    /\ d[x].parent = NoParent => scope[y] = scope[x]
    /\ d[y].order < d[x].order})

Rank(d, scope, tie, x) ==
  Cardinality({y \in DOMAIN d :
    /\ d[y].parent = d[x].parent
    /\ d[x].parent = NoParent => scope[y] = scope[x]
    /\ \/ d[y].order < d[x].order
       \/ d[y].order = d[x].order /\ tie[y] < tie[x]})

RebuiltRow(d, scope, tie, x) ==
  LET line  == Lineage(d, x)
      at(i) == CHOOSE a \in line : Cardinality(Lineage(d, a)) = i
  IN [parent |-> d[x].parent,
      path   |-> [i \in 1..Cardinality(line) |-> Rank(d, scope, tie, at(i)) + 1],
      depth  |-> Cardinality(line) - 1,
      order  |-> Rank(d, scope, tie, x)]

Rooted(d) == {x \in DOMAIN d : \E a \in Lineage(d, x) : d[a].parent = NoParent}

\* Only the rows that differ are written back, but when there is one, every
\* path of the table has first been replaced by its placeholder.
Rebuilt(d, scope, tie) ==
  LET toUpdate == {x \in Rooted(d) : d[x] # RebuiltRow(d, scope, tie, x)}
  IN IF toUpdate = {} THEN d
     ELSE [x \in DOMAIN d |-> IF x \in toUpdate
                              THEN RebuiltRow(d, scope, tie, x)
                              ELSE [d[x] EXCEPT !.path = <<-x>>]]

(***************************************************************************)
(* check_tree_integrity(): the four lists of issues.                       *)
(***************************************************************************)
Orphans(d) == {x \in DOMAIN d : d[x].parent \notin DOMAIN d \cup {NoParent}}
DepthMismatches(d) == {x \in DOMAIN d : d[x].depth # Len(d[x].path) - 1}
PrefixViolations(d) ==
  {x \in DOMAIN d : /\ d[x].parent \in DOMAIN d
                    /\ ~IsStrictPrefix(d[d[x].parent].path, d[x].path)}
DuplicatePaths(d, scope) ==
  {x \in DOMAIN d : \E y \in DOMAIN d \ {x} :
     d[y].path = d[x].path /\ scope[y] = scope[x]}

Clean(d, scope) ==
  Orphans(d) \cup DepthMismatches(d) \cup PrefixViolations(d)
    \cup DuplicatePaths(d, scope) = {}

(***************************************************************************)
(* What the fields of a row are meant to be: siblings numbered without a   *)
(* gap (roots within their scope), the path made of the parent's path and  *)
(* the order.                                                              *)
(***************************************************************************)
Exact(d, scope) ==
  /\ Forest(d)
  /\ Orphans(d) = {}
  /\ \A x \in DOMAIN d :
       LET sibs == {y \in DOMAIN d : /\ d[y].parent = d[x].parent
                                     /\ d[x].parent = NoParent => scope[y] = scope[x]}
       IN /\ d[x].order < Cardinality(sibs)
          /\ \A y \in sibs : d[y].order = d[x].order => y = x
          /\ d[x].path = NewPath(PathOfParent(d, d[x].parent), d[x].order)
          /\ d[x].depth = Len(d[x].path) - 1
=============================================================================
