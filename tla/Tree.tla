-------------------------------- MODULE Tree --------------------------------
(***************************************************************************)
(* One icv-tree table and the code that works on it: inserts, moves, saves *)
(* of loaded instances, deletes, and rebuild().                            *)
(*                                                                         *)
(* A session is one unit of application code that loads a model instance,  *)
(* keeps it in memory and later calls a method of it: a request, a thread, *)
(* or one of two instances that a single function holds.  Between the two  *)
(* steps other sessions run, so that what a session holds may be older     *)
(* than the table.  The transaction in each service is one step.           *)
(***************************************************************************)
EXTENDS TreeOps

CONSTANTS
  Node,      \* the primary keys
  Session,
  ScopeOf,   \* the scope (tree_scope_field) of each node; one value if unscoped
  Ops,       \* the operations the application uses
  MaxPath,   \* how many steps the path column holds
  MaxOps,    \* bound on the operations started
  MaxBatch   \* bound on the rows named by one queryset.delete()

AllOps == {"insert", "move", "edit", "delete", "delete_many", "rebuild", "crash"}

ASSUME NodeAssumption  == Node \subseteq Nat \ {0} /\ IsFiniteSet(Node)
ASSUME OpsAssumption   == Ops \subseteq AllOps
ASSUME ScopeAssumption == DOMAIN ScopeOf = Node
ASSUME BoundAssumption == MaxPath \in Nat /\ MaxOps \in Nat /\ MaxBatch \in Nat

VARIABLES
  db,      \* the table: primary key -> row
  sess,    \* what each session holds
  used,    \* primary keys given to an instance so far
  purge,   \* deleted instances whose post_delete signal is still to be sent
  ops      \* operations started so far

vars == <<db, sess, used, purge, ops>>

Path == Seq(Int) \ {<<>>}
Row == [parent : Node \cup {NoParent}, path : Path, depth : Nat, order : Nat]
Blank == [parent |-> NoParent, path |-> <<1>>, depth |-> 0, order |-> 0]

Held == [op : {"idle", "insert", "move", "edit", "write", "delete"},
         node : Node \cup {NoParent}, row : Row,
         target : Node \cup {NoParent}, trow : Row, pos : Positions]

Idle == [op |-> "idle", node |-> NoParent, row |-> Blank,
         target |-> NoParent, trow |-> Blank, pos |-> "last-child"]

Doomed == [node : Node, parent : Node \cup {NoParent}, order : Nat]

TypeOK ==
  /\ DOMAIN db \subseteq Node
  /\ db \in [DOMAIN db -> Row]
  /\ sess \in [Session -> Held]
  /\ used \subseteq Node
  /\ purge \subseteq Doomed
  /\ ops \in 0..MaxOps

Init ==
  /\ db = [x \in {} |-> Blank]
  /\ sess = [s \in Session |-> Idle]
  /\ used = {}
  /\ purge = {}
  /\ ops = 0

-----------------------------------------------------------------------------
Rows == DOMAIN db
ParentExists(p) == p \in Rows \cup {NoParent}
SameScope(n, p) == p # NoParent => ScopeOf[n] = ScopeOf[p]
LoadedRow(p) == IF p = NoParent THEN Blank ELSE db[p]

\* A delete sends its signals inside its own transaction, so that nothing
\* else comes between them.
Ready(s, op) == purge = {} /\ sess[s].op = op

\* An idle session begins an operation.
Start(s, op) ==
  /\ op \in Ops /\ ops < MaxOps /\ ops' = ops + 1
  /\ Ready(s, "idle")

Hold(s, op, n, row, t, trow, pos) ==
  sess' = [sess EXCEPT ![s] =
    [op |-> op, node |-> n, row |-> row, target |-> t, trow |-> trow, pos |-> pos]]

Release(s) == sess' = [sess EXCEPT ![s] = Idle]

(***************************************************************************)
(* Insert.  pre_save counts the siblings and fills in the row; the INSERT  *)
(* follows in a later statement.  A parent deleted in between makes it     *)
(* fail on the foreign key.                                                *)
(***************************************************************************)
BeginInsert(s, n, p) ==
  /\ Start(s, "insert")
  /\ n \notin used /\ \A m \in Node \ used : n <= m
  /\ ParentExists(p) /\ SameScope(n, p)
  /\ used' = used \cup {n}
  /\ LET sibs == {x \in Children(db, Rows, p) : ScopeOf[x] = ScopeOf[n]}
         row  == RowForInsert(sibs, p, LoadedRow(p))
     IN Hold(s, "insert", n, row, NoParent, Blank, "last-child")
  /\ UNCHANGED <<db, purge>>

WithRow(n, row) == [x \in Rows \cup {n} |-> IF x = n THEN row ELSE db[x]]

\* The statement or transaction takes effect, or is rolled back.
Store(d) == db' = IF Storable(d, MaxPath) THEN d ELSE db

CommitInsert(s) ==
  /\ Ready(s, "insert")
  /\ Store(WithRow(sess[s].node, sess[s].row))
  /\ Release(s)
  /\ UNCHANGED <<used, purge, ops>>

(***************************************************************************)
(* move_to                                                                 *)
(***************************************************************************)
BeginMove(s, n, t, pos) ==
  /\ Start(s, "move")
  /\ SameScope(n, t)
  /\ Hold(s, "move", n, db[n], t, db[t], pos)
  /\ UNCHANGED <<db, used, purge>>

PlanOf(r, t, u, pos) == MovePlan(db, Rows, r, t, u, pos)
MoveResult(n, r, t, u, pos) == Moved(db, Rows, n, r, PlanOf(r, t, u, pos))

\* move_to(n, t, pos) with r and u the rows in the two instances: it does not
\* raise, it has something to do, and no constraint rolls it back.
MoveApplies(n, r, t, u, pos) ==
  /\ ~MoveRejected(db, n, r, t, u, pos)
  /\ ~MoveIsNoOp(r, PlanOf(r, t, u, pos))
  /\ PlaceholderFits(db, Rows, n, r, MaxPath)
  /\ Storable(MoveResult(n, r, t, u, pos), MaxPath)

CommitMove(s) ==
  LET h == sess[s] IN
  /\ Ready(s, "move")
  /\ MoveApplies(h.node, h.row, h.target, h.trow, h.pos)
  /\ db' = MoveResult(h.node, h.row, h.target, h.trow, h.pos)
  /\ Release(s)
  /\ UNCHANGED <<used, purge, ops>>

AbandonMove(s) ==
  LET h == sess[s] IN
  /\ Ready(s, "move")
  /\ ~MoveApplies(h.node, h.row, h.target, h.trow, h.pos)
  /\ Release(s)
  /\ UNCHANGED <<db, used, purge, ops>>

(***************************************************************************)
(* save() of a loaded instance, its parent perhaps set to p meanwhile.     *)
(* pre_save looks at the row in the table; if the parent differs it moves  *)
(* the subtree and the instance takes the new fields.  The UPDATE of all   *)
(* columns of the instance follows, outside that transaction.              *)
(***************************************************************************)
BeginEdit(s, n, p) ==
  /\ Start(s, "edit")
  /\ SameScope(n, p)
  /\ Hold(s, "edit", n, db[n], p, LoadedRow(p), "last-child")
  /\ UNCHANGED <<db, used, purge>>

ThenWrite(s, row) == Hold(s, "write", sess[s].node, row, NoParent, Blank, "last-child")

\* The row is gone, or its parent is the instance's parent: nothing to do.
PreSaveUnmoved(s) ==
  LET h == sess[s] IN
  /\ Ready(s, "edit")
  /\ h.node \in Rows => db[h.node].parent = h.target
  /\ ThenWrite(s, [h.row EXCEPT !.parent = h.target])
  /\ UNCHANGED <<db, used, purge, ops>>

PreSaveMoves(s) ==
  LET h == sess[s]
      r == db[h.node]
      plan == PlanOf(r, h.target, h.trow, "last-child")
  IN /\ Ready(s, "edit")
     /\ h.node \in Rows /\ h.target # NoParent /\ r.parent # h.target
     /\ IF MoveApplies(h.node, r, h.target, h.trow, "last-child")
        THEN /\ db' = MoveResult(h.node, r, h.target, h.trow, "last-child")
             /\ ThenWrite(s, [parent |-> plan.parent, path |-> NewPath(plan.base, plan.order),
                              depth |-> plan.depth, order |-> plan.order])
        ELSE Release(s) /\ UNCHANGED db
     /\ UNCHANGED <<used, purge, ops>>

PreSaveToRoot(s) ==
  LET n == sess[s].node
      r == db[n]
      roots == {x \in Children(db, Rows, NoParent) : ScopeOf[x] = ScopeOf[n]}
      row == RowForRoot(roots)
  IN /\ Ready(s, "edit")
     /\ n \in Rows /\ sess[s].target = NoParent /\ r.parent # NoParent
     /\ db' = RootedSubtree(db, Rows, r, row)
     /\ ThenWrite(s, row)
     /\ UNCHANGED <<used, purge, ops>>

\* UPDATE of every column; Django inserts the row when there is none.
WriteRow(s) ==
  /\ Ready(s, "write")
  /\ Store(WithRow(sess[s].node, sess[s].row))
  /\ Release(s)
  /\ UNCHANGED <<used, purge, ops>>

(***************************************************************************)
(* Delete.  The cascade follows the parent key.  post_delete is sent for   *)
(* each deleted instance, the greatest primary key first, and closes the   *)
(* order gap with what the instance holds in memory.                       *)
(***************************************************************************)
BeginDelete(s, n) ==
  /\ Start(s, "delete")
  /\ Hold(s, "delete", n, db[n], NoParent, Blank, "last-child")
  /\ UNCHANGED <<db, used, purge>>

Signal(n, row) == [node |-> n, parent |-> row.parent, order |-> row.order]
Without(S) == [x \in Rows \ S |-> db[x]]

\* instance.delete().  When another session has deleted the row there is
\* nothing left to collect, but the signal is sent all the same.
CommitDelete(s) ==
  LET n == sess[s].node
      S == Subtrees(db, {n} \cap Rows)
  IN /\ Ready(s, "delete")
     /\ db' = Without(S)
     /\ purge' = {Signal(n, sess[s].row)} \cup {Signal(x, db[x]) : x \in S \ {n}}
     /\ Release(s)
     /\ UNCHANGED <<used, ops>>

\* queryset.delete(): the collector fetches the rows itself.
DeleteMany(s, S) ==
  /\ Start(s, "delete_many")
  /\ S # {} /\ Cardinality(S) <= MaxBatch
  /\ db' = Without(Subtrees(db, S))
  /\ purge' = {Signal(x, db[x]) : x \in Subtrees(db, S)}
  /\ UNCHANGED <<sess, used>>

PostDelete(p) ==
  /\ \A q \in purge : q.node <= p.node
  /\ db' = CloseOrderGap(db, p.parent, p.order)
  /\ purge' = purge \ {p}
  /\ UNCHANGED <<sess, used, ops>>

-----------------------------------------------------------------------------
Rebuild(s) ==
  /\ Start(s, "rebuild")
  /\ \E tie \in TieBreaks(db) : Store(Rebuilt(db, ScopeOf, tie))
  /\ UNCHANGED <<sess, used, purge>>

\* The process ends, or an exception leaves the calling code, between two
\* statements that share no transaction.
Crash(s) ==
  /\ "crash" \in Ops
  /\ purge = {} /\ sess[s].op # "idle"
  /\ Release(s)
  /\ UNCHANGED <<db, used, purge, ops>>

Next ==
  \/ \E s \in Session :
       \/ \E n \in Node, p \in Rows \cup {NoParent} : BeginInsert(s, n, p)
       \/ \E n, t \in Rows, pos \in Positions : BeginMove(s, n, t, pos)
       \/ \E n \in Rows, p \in Rows \cup {NoParent} : BeginEdit(s, n, p)
       \/ \E n \in Rows : BeginDelete(s, n)
       \/ \E S \in SUBSET Rows : DeleteMany(s, S)
       \/ CommitInsert(s)
       \/ CommitMove(s)
       \/ AbandonMove(s)
       \/ PreSaveUnmoved(s)
       \/ PreSaveMoves(s)
       \/ PreSaveToRoot(s)
       \/ WriteRow(s)
       \/ CommitDelete(s)
       \/ Rebuild(s)
       \/ Crash(s)
  \/ \E p \in purge : PostDelete(p)

Spec == Init /\ [][Next]_vars

\* Keys: a row exists only under a key that was given out; the key of an
\* instance being inserted belongs to that session alone; an application
\* moves and saves within one scope.  Part of the inductive invariant.
HeldKeys ==
  /\ Rows \subseteq used
  /\ \A s \in Session :
       LET h == sess[s] IN
       /\ h.node \in used \/ (h.op = "idle" /\ h.node = NoParent)
       /\ h.op = "insert" =>
            /\ h.node \notin Rows /\ h.row.parent # h.node
            /\ \A u \in Session \ {s} : sess[u].node # h.node
       /\ h.op \in {"move", "edit"} => SameScope(h.node, h.target)

-----------------------------------------------------------------------------
(***************************************************************************)
(* Properties                                                              *)
(***************************************************************************)
Acts(s) == sess'[s] # sess[s]

\* What a session holds still matches the table.
InsertUpToDate(s) ==
  LET h == sess[s]
      p == h.row.parent
      sibs == {x \in Children(db, Rows, p) : ScopeOf[x] = ScopeOf[h.node]}
  IN ParentExists(p) /\ h.row = RowForInsert(sibs, p, LoadedRow(p))

MoveUpToDate(s) ==
  LET h == sess[s] IN
  /\ {h.node, h.target} \subseteq Rows
  /\ db[h.node] = h.row /\ db[h.target] = h.trow

TargetUpToDate(s) ==
  LET h == sess[s] IN
  h.target # NoParent => h.target \in Rows /\ db[h.target] = h.trow

WriteUpToDate(s) ==
  LET h == sess[s] IN
  h.node \in Rows /\ h.row.parent \in {db[h.node].parent, NoParent}

UpToDate(s) ==
  CASE sess[s].op = "move"  -> MoveUpToDate(s)
    [] sess[s].op = "edit"  -> TargetUpToDate(s)
    [] sess[s].op = "write" -> WriteUpToDate(s)
    [] OTHER                -> TRUE

\* On a table that check_tree_integrity finds clean, and with instances that
\* are not older than the table, the path-prefix test of move_to is as good
\* as a walk along the parent key: no operation closes a parent cycle.
ForestStep ==
  Clean(db, ScopeOf) /\ Forest(db) /\ (\A s \in Session : Acts(s) => UpToDate(s))
    => Forest(db')
ForestKept == [][ForestStep]_vars

\* Closing the gap that the node leaves renumbers the new parent or one of
\* its ancestors.
NewParentShifts(r, plan) ==
  \E x \in Children(db, Rows, r.parent) :
    db[x].order > r.order /\ plan.parent \in Subtrees(db, {x})

ExactInsert(s) == CommitInsert(s) /\ InsertUpToDate(s)
ExactMove(s) ==
  LET h == sess[s] IN
  /\ CommitMove(s) /\ MoveUpToDate(s)
  /\ ~NewParentShifts(h.row, PlanOf(h.row, h.target, h.trow, h.pos))

\* An insert or a move, of whichever of the four kinds, that works on current
\* instances renumbers both sibling groups and rewrites every path below them
\* so that each path again spells the chain of orders above it - provided
\* that closing the gap does not renumber the new parent itself.
ExactStep ==
  Exact(db, ScopeOf) /\ (\E s \in Session : ExactInsert(s) \/ ExactMove(s))
    => Exact(db', ScopeOf)
ExactKept == [][ExactStep]_vars

\* rebuild() recomputes any forest whose paths have room in their column,
\* whatever the paths, depths and orders were: a table in which it leaves no
\* placeholder behind is exact.
PathsFit == \A x \in Rows : Cardinality(Lineage(db, x)) <= MaxPath
RebuildStep ==
  (\E s \in Session : Rebuild(s)) /\ Forest(db) /\ PathsFit
    => \/ Exact(db', ScopeOf)
       \/ \E x \in Rows : db'[x].path = <<-x>>
RebuildExactUnlessPlaceholder == [][RebuildStep]_vars

\* The sibling orders are 0, 1, 2, ... without gap or repetition, between
\* operations.  Inserts count siblings to find the next order, so that a gap
\* or a repetition is what makes two later siblings collide.
OrdersContiguous ==
  purge = {} /\ (\A s \in Session : sess[s].op # "write") =>
    \A x \in Rows :
      {db[y].order : y \in Children(db, Rows, db[x].parent)}
        = 0..Cardinality(Children(db, Rows, db[x].parent)) - 1
=============================================================================
