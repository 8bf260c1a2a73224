----------------------------- MODULE TreeProofs -----------------------------
(***************************************************************************)
(* Proofs about Tree: types; that no operation closes a parent cycle on a  *)
(* clean table with current instances; and, for a table that is one        *)
(* numbering, that one caller leaves the siblings numbered without a gap,  *)
(* and that inserts and moves keep order, path and depth exact; and that   *)
(* rebuild() makes any forest exact.                                       *)
(***************************************************************************)
(* Forest takes the place of an induction along the tree: of the rows that *)
(* break a statement, one has a parent that does not.                      *)
(***************************************************************************)
EXTENDS Tree, SequenceTheorems, FiniteSetTheorems, TLAPS

(***************************************************************************)
(* Prefixes                                                                *)
(***************************************************************************)
\* s is a prefix of t when t repeats s step by step.
LEMMA PrefixByElements ==
  ASSUME NEW S, NEW s \in Seq(S), NEW t \in Seq(S)
  PROVE  IsPrefix(s, t) <=>
           Len(s) <= Len(t) /\ \A i \in 1..Len(s) : s[i] = t[i]
<1>1. SubSeq(s, 1, Len(s)) = s
  BY SubSeqFull
<1>2. ASSUME Len(s) <= Len(t)
      PROVE  /\ SubSeq(t, 1, Len(s)) \in Seq(S)
             /\ Len(SubSeq(t, 1, Len(s))) = Len(s)
             /\ \A i \in 1..Len(s) : SubSeq(t, 1, Len(s))[i] = t[i]
  BY <1>2, SubSeqProperties, LenProperties
<1>3. QED
  BY <1>1, <1>2, SeqEqual DEF IsPrefix

LEMMA PrefixReflexive ==
  ASSUME NEW S, NEW s \in Seq(S)
  PROVE  IsPrefix(s, s)
BY PrefixByElements, LenProperties

LEMMA PrefixTransitive ==
  ASSUME NEW S, NEW s \in Seq(S), NEW t \in Seq(S), NEW u \in Seq(S),
         IsPrefix(s, t), IsPrefix(t, u)
  PROVE  IsPrefix(s, u)
BY PrefixByElements, LenProperties

\* A strict prefix is shorter, so that adding a prefix in front keeps it strict.
LEMMA PrefixThenStrict ==
  ASSUME NEW S, NEW s \in Seq(S), NEW t \in Seq(S), NEW u \in Seq(S),
         IsPrefix(s, t), IsStrictPrefix(t, u)
  PROVE  IsStrictPrefix(s, u)
<1>1. IsPrefix(s, u)
  BY PrefixTransitive DEF IsStrictPrefix
<1>2. s # u
 <2>1. Len(t) < Len(u)
   BY PrefixByElements, SeqEqual, LenProperties DEF IsStrictPrefix
 <2>2. Len(s) <= Len(t)
   BY PrefixByElements
 <2>3. QED
   BY <2>1, <2>2, LenProperties
<1>3. QED
  BY <1>1, <1>2 DEF IsStrictPrefix

(***************************************************************************)
(* Parent cycles                                                           *)
(***************************************************************************)
Paths(d) == \A x \in DOMAIN d : d[x].path \in Seq(Int)
PrefixesHold(d) == PrefixViolations(d) = {}

\* Giving n the parent q closes no cycle when the path of n is not a prefix
\* of the path of q: the rows of a cycle whose paths do not continue n's
\* would be a cycle of the old table.
LEMMA ReparentKeepsForest ==
  ASSUME NEW d, NEW e, NEW n, NEW q,
         DOMAIN e = DOMAIN d, Paths(d), PrefixesHold(d), Forest(d),
         \A x \in DOMAIN d \ {n} : e[x].parent = d[x].parent,
         n \in DOMAIN d => e[n].parent = q,
         q \in DOMAIN d /\ n \in DOMAIN d => ~IsPrefix(d[n].path, d[q].path)
  PROVE  Forest(e)
<1> SUFFICES ASSUME NEW C \in SUBSET DOMAIN d, C # {},
                    \A x \in C : e[x].parent \in C
             PROVE  FALSE
  BY DEF Forest
<1>1. n \in C
 <2> SUFFICES ASSUME n \notin C PROVE FALSE
   OBVIOUS
 <2>1. \A x \in C : d[x].parent \in C
   OBVIOUS
 <2> QED
   BY <2>1 DEF Forest
<1> DEFINE E == {x \in C : ~IsPrefix(d[n].path, d[x].path)}
<1>2. ASSUME NEW x \in E PROVE d[x].parent \in E
 <2>1. x # n
   BY <1>1, PrefixReflexive DEF Paths
 <2>2. d[x].parent \in C
   BY <2>1
 <2>3. IsStrictPrefix(d[d[x].parent].path, d[x].path)
   BY <2>2 DEF PrefixesHold, PrefixViolations
 <2>4. ~IsPrefix(d[n].path, d[d[x].parent].path)
   BY <1>1, <2>2, <2>3, PrefixTransitive DEF Paths, IsStrictPrefix
 <2> QED
   BY <2>2, <2>4
<1>3. E = {}
  BY <1>2 DEF Forest
<1>4. q \in C
  BY <1>1
<1> QED
  BY <1>1, <1>3, <1>4

\* The same parents, the same cycles.
LEMMA SameParentsForest ==
  ASSUME NEW d, NEW e, DOMAIN e = DOMAIN d, Forest(d),
         \A x \in DOMAIN d : e[x].parent = d[x].parent
  PROVE  Forest(e)
BY DEF Forest

\* Taking rows away opens cycles, it closes none.
LEMMA FewerRowsForest ==
  ASSUME NEW d, NEW e, DOMAIN e \subseteq DOMAIN d, Forest(d),
         \A x \in DOMAIN e : e[x] = d[x]
  PROVE  Forest(e)
<1> SUFFICES ASSUME NEW C \in SUBSET DOMAIN e, C # {}
             PROVE  \E x \in C : e[x].parent \notin C
  BY DEF Forest
<1>1. C \in SUBSET DOMAIN d
  OBVIOUS
<1>2. PICK x \in C : d[x].parent \notin C
  BY <1>1 DEF Forest
<1> QED
  BY <1>2

\* A new row that no row has as its parent, and that is not its own parent.
LEMMA NewRowForest ==
  ASSUME NEW d, NEW e, NEW n, n \notin DOMAIN d,
         DOMAIN e = DOMAIN d \cup {n}, Forest(d),
         \A x \in DOMAIN d : e[x] = d[x] /\ d[x].parent # n,
         e[n].parent # n
  PROVE  Forest(e)
<1> SUFFICES ASSUME NEW C \in SUBSET DOMAIN e, C # {},
                    \A x \in C : e[x].parent \in C
             PROVE  FALSE
  BY DEF Forest
<1> DEFINE E == C \ {n}
<1>1. E \in SUBSET DOMAIN d /\ E # {}
  OBVIOUS
<1>2. \A x \in E : d[x].parent \in E
  OBVIOUS
<1> QED
  BY <1>1, <1>2 DEF Forest

(***************************************************************************)
(* What the services of TreeOps do to types and parents.  A transaction    *)
(* may hold a negative order before its constraint is checked.             *)
(***************************************************************************)
WideRow == [parent : Node \cup {NoParent}, path : Path, depth : Nat, order : Int]
WideTable(d) == DOMAIN d \subseteq Node /\ d \in [DOMAIN d -> WideRow]
Table(d) == DOMAIN d \subseteq Node /\ d \in [DOMAIN d -> Row]

LEMMA TableIsWide == ASSUME NEW d, Table(d) PROVE WideTable(d)
BY DEF Table, WideTable, Row, WideRow

LEMMA PathFacts ==
  ASSUME NEW p \in Path
  PROVE  /\ p \in Seq(Int)
         /\ Len(p) \in Nat
         /\ Len(p) - 1 \in Nat
         /\ \A q \in Seq(Int) : Len(q) = Len(p) => q \in Path
BY LenProperties, EmptySeq DEF Path

LEMMA NewPathType ==
  ASSUME NEW base \in Seq(Int), NEW order \in Int
  PROVE  NewPath(base, order) \in Path
<1>1. order + 1 \in Int
  OBVIOUS
<1> QED
  BY <1>1, AppendProperties DEF NewPath, Path

LEMMA RebaseType ==
  ASSUME NEW p \in Path, NEW old \in Path, NEW new \in Path
  PROVE  Rebase(p, old, new) \in Path
<1> DEFINE tail == SubSeq(p, Len(old) + 1, Len(p))
<1>1. Len(old) + 1 \in 1..Len(p) + 1 \/ Len(old) + 1 > Len(p)
  BY PathFacts
<1>2. tail \in Seq(Int)
  BY <1>1, SubSeqProperties, SubSeqEmpty, EmptySeq, PathFacts
<1>3. new \o tail \in Seq(Int) /\ Len(new \o tail) = Len(new) + Len(tail)
  BY <1>2, ConcatProperties, PathFacts
<1>4. Len(new \o tail) # 0
  BY <1>2, <1>3, PathFacts, LenProperties
<1> QED
  BY <1>3, <1>4, EmptySeq DEF Rebase, Path

\* Changing one step of a path.
LEMMA StepChangeType ==
  ASSUME NEW p \in Path, NEW i \in Nat, NEW delta \in Int
  PROVE  [p EXCEPT ![i] = @ + delta] \in Path
<1>1. [p EXCEPT ![i] = @ + delta] \in Seq(Int)
      /\ Len([p EXCEPT ![i] = @ + delta]) = Len(p)
 <2>1. p \in [1..Len(p) -> Int]
   BY PathFacts, LenProperties
 <2> DEFINE f == [j \in 1..Len(p) |-> IF j = i THEN p[j] + delta ELSE p[j]]
 <2>2. [p EXCEPT ![i] = @ + delta] = f
   BY <2>1
 <2>3. f \in [1..Len(p) -> Int]
   BY <2>1
 <2>4. f \in Seq(Int) /\ Len(f) = Len(p)
   BY <2>3, PathFacts, IsASeq, LenProperties
 <2> QED
   BY <2>2, <2>4
<1> QED
  BY <1>1, PathFacts

LEMMA ShiftSiblingsFacts ==
  ASSUME NEW d, NEW V, NEW S, NEW base \in Seq(Int), NEW delta \in Int,
         WideTable(d), S \subseteq DOMAIN d
  PROVE  LET e == ShiftSiblings(d, V, S, base, delta) IN
         /\ WideTable(e) /\ DOMAIN e = DOMAIN d
         /\ \A x \in DOMAIN d : e[x].parent = d[x].parent
<1> DEFINE e == ShiftSiblings(d, V, S, base, delta)
           sib(x) == [d[x] EXCEPT !.path = NewPath(base, d[x].order + delta),
                                  !.order = @ + delta]
           r(x) == IF x \in S THEN sib(x) ELSE d[x]
           q(x) == [d[x].path EXCEPT ![Len(base) + 1] = @ + delta]
           sub(x) == [r(x) EXCEPT !.path = q(x), !.depth = Len(q(x)) - 1]
<1>1. DOMAIN e = DOMAIN d /\ \A x \in DOMAIN d : e[x] \in {r(x), sub(x)}
  BY DEF ShiftSiblings
<1>2. ASSUME NEW x \in DOMAIN d
      PROVE  /\ r(x) \in WideRow /\ sub(x) \in WideRow
             /\ r(x).parent = d[x].parent /\ sub(x).parent = d[x].parent
 <2>1. d[x] \in WideRow
   BY DEF WideTable
 <2>2. d[x].order + delta \in Int /\ NewPath(base, d[x].order + delta) \in Path
   BY <2>1, NewPathType DEF WideRow
 <2>3. r(x) \in WideRow /\ r(x).parent = d[x].parent
   BY <2>1, <2>2 DEF WideRow
 <2>4. q(x) \in Path /\ Len(q(x)) - 1 \in Nat
   BY <2>1, StepChangeType, PathFacts, LenProperties DEF WideRow
 <2>5. sub(x) \in WideRow /\ sub(x).parent = r(x).parent
   BY <2>3, <2>4 DEF WideRow
 <2> QED
   BY <2>3, <2>5
<1>3. e \in [DOMAIN d -> WideRow]
  BY <1>1, <1>2 DEF ShiftSiblings
<1> QED
  BY <1>1, <1>2, <1>3 DEF WideTable

LEMMA RerootedFacts ==
  ASSUME NEW d, NEW src, NEW D, NEW old \in Path, NEW new \in Path,
         WideTable(d), WideTable(src), DOMAIN src = DOMAIN d
  PROVE  LET e == Rerooted(d, src, D, old, new) IN
         /\ WideTable(e) /\ DOMAIN e = DOMAIN d
         /\ \A x \in DOMAIN d : e[x].parent = d[x].parent /\ e[x].order = d[x].order
<1> DEFINE e == Rerooted(d, src, D, old, new)
           p(x) == Rebase(src[x].path, old, new)
           r(x) == [d[x] EXCEPT !.path = p(x), !.depth = Len(p(x)) - 1]
<1>1. DOMAIN e = DOMAIN d /\ \A x \in DOMAIN d : e[x] \in {d[x], r(x)}
  BY DEF Rerooted
<1>2. ASSUME NEW x \in DOMAIN d
      PROVE  /\ r(x) \in WideRow /\ d[x] \in WideRow
             /\ r(x).parent = d[x].parent /\ r(x).order = d[x].order
 <2>1. d[x] \in WideRow /\ src[x].path \in Path
   BY DEF WideTable, WideRow
 <2>2. p(x) \in Path /\ Len(p(x)) - 1 \in Nat
   BY <2>1, RebaseType, PathFacts
 <2> QED
   BY <2>1, <2>2 DEF WideRow
<1>3. e \in [DOMAIN d -> WideRow]
  BY <1>1, <1>2 DEF Rerooted
<1> QED
  BY <1>1, <1>2, <1>3 DEF WideTable

LEMMA FiniteRows ==
  ASSUME NEW S \in SUBSET Node
  PROVE  IsFiniteSet(S) /\ Cardinality(S) \in Nat
BY NodeAssumption, FS_Subset, FS_CardinalityType

\* Only the order can be out of the type of the table.
LEMMA StoredTable ==
  ASSUME NEW d, WideTable(d), \A x \in DOMAIN d : d[x].order >= 0
  PROVE  Table(d)
<1>1. ASSUME NEW x \in DOMAIN d PROVE d[x] \in Row
 <2>1. d[x] \in WideRow
   BY DEF WideTable
 <2> QED
   BY <2>1 DEF WideRow, Row
<1> QED
  BY <1>1 DEF WideTable, Table

LEMMA CloseOrderGapFacts ==
  ASSUME NEW d, NEW p, NEW removed \in Nat, Table(d)
  PROVE  LET e == CloseOrderGap(d, p, removed) IN
         /\ Table(e) /\ DOMAIN e = DOMAIN d
         /\ \A x \in DOMAIN d : e[x].parent = d[x].parent
<1> DEFINE e == CloseOrderGap(d, p, removed)
           r(x) == [d[x] EXCEPT !.order = @ - 1]
<1>1. DOMAIN e = DOMAIN d
      /\ \A x \in DOMAIN d :
           e[x] = IF d[x].parent = p /\ d[x].order > removed THEN r(x) ELSE d[x]
  BY DEF CloseOrderGap
<1>2. ASSUME NEW x \in DOMAIN d
      PROVE  /\ d[x] \in Row
             /\ d[x].order > removed => r(x) \in Row
             /\ r(x).parent = d[x].parent
 <2>1. d[x] \in Row
   BY DEF Table
 <2>2. d[x].order > removed => d[x].order - 1 \in Nat
   BY <2>1 DEF Row
 <2> QED
   BY <2>1, <2>2 DEF Row
<1>3. e \in [DOMAIN d -> Row]
  BY <1>1, <1>2 DEF CloseOrderGap
<1> QED
  BY <1>1, <1>2, <1>3 DEF Table

Plan == [parent : Node \cup {NoParent}, base : Seq(Int), depth : Nat, order : Int]

LEMMA MovePlanType ==
  ASSUME NEW d, NEW n, NEW r \in Row, NEW tgt \in Node \cup {NoParent}, NEW t \in Row,
         NEW pos \in Positions, Table(d), ~MoveRejected(d, n, r, tgt, t, pos)
  PROVE  /\ MovePlan(d, DOMAIN d, r, tgt, t, pos) \in Plan
         /\ r.parent \in DOMAIN d \cup {NoParent}
<1> DEFINE inside == pos \in {"first-child", "last-child"}
           p == IF inside THEN tgt ELSE t.parent
           kids == Cardinality(Children(d, DOMAIN d, tgt))
           at == CASE pos = "first-child" -> 0
                   [] pos = "last-child"  -> kids - (IF r.parent = tgt THEN 1 ELSE 0)
                   [] pos = "left"        -> t.order
                   [] pos = "right"       -> t.order + 1
<1>1. p \in Node \cup {NoParent}
  BY DEF Row
<1>2. ~inside /\ p # NoParent => p \in DOMAIN d /\ d[p] \in Row
  BY DEF MoveRejected, Positions, Table
<1>3. (IF inside THEN t.path ELSE PathOfParent(d, p)) \in Seq(Int)
  BY <1>2, PathFacts, EmptySeq DEF PathOfParent, Row
<1>4. (IF p = NoParent THEN 0 ELSE IF inside THEN t.depth + 1 ELSE d[p].depth + 1) \in Nat
  BY <1>2 DEF Row
<1>5. at \in Int
 <2>1. kids \in Nat
   BY FiniteRows DEF Children, Table
 <2>2. t.order \in Nat
   BY DEF Row
 <2> QED
   BY <2>1, <2>2 DEF Positions
<1> HIDE DEF at
<1>6. (IF ~inside /\ r.parent = p /\ r.order < at THEN at - 1 ELSE at) \in Int
  BY <1>5
<1>7. r.parent \in DOMAIN d \cup {NoParent}
  BY DEF MoveRejected
<1> QED
  BY <1>1, <1>3, <1>4, <1>6, <1>7 DEF MovePlan, Plan, at

\* A move changes the parent of the moved node and of no other row.
LEMMA MovedFacts ==
  ASSUME NEW d, NEW V \in SUBSET DOMAIN d, NEW n, NEW r \in Row, NEW plan \in Plan,
         Table(d), r.parent \in DOMAIN d \cup {NoParent}
  PROVE  LET e == Moved(d, V, n, r, plan) IN
         /\ WideTable(e) /\ DOMAIN e = DOMAIN d
         /\ \A x \in DOMAIN d \ {n} : e[x].parent = d[x].parent
         /\ n \in DOMAIN d => e[n].parent = plan.parent /\ e[n].order = plan.order
<1> DEFINE D  == Below(d, V, r.path)
           m(x) == [d[x] EXCEPT !.path = <<0>> \o @]
           d0 == [x \in DOMAIN d |-> IF x = n \/ x \in D
                                THEN [d[x] EXCEPT !.path = <<0>> \o @]
                                ELSE d[x]]
           S1 == {x \in Children(d0, V, r.parent) : d0[x].order > r.order}
           d1 == ShiftSiblings(d0, V, S1, PathOfParent(d, r.parent), -1)
           S2 == {x \in Children(d1, V, plan.parent) : d1[x].order >= plan.order}
           d2 == ShiftSiblings(d1, V, S2, plan.base, 1)
           path == NewPath(plan.base, plan.order)
           w == [d2[n] EXCEPT !.parent = plan.parent, !.path = path,
                              !.depth = plan.depth, !.order = plan.order]
           d3 == [x \in DOMAIN d |->
              IF x = n
              THEN [d2[x] EXCEPT !.parent = plan.parent, !.path = path,
                                 !.depth = plan.depth, !.order = plan.order]
              ELSE d2[x]]
<1>1. WideTable(d0) /\ DOMAIN d0 = DOMAIN d
      /\ \A x \in DOMAIN d : d0[x].parent = d[x].parent
 <2>1. ASSUME NEW x \in DOMAIN d
       PROVE  m(x) \in WideRow /\ d[x] \in WideRow /\ m(x).parent = d[x].parent
  <3>1. d[x] \in WideRow
    BY TableIsWide DEF WideTable
  <3>2. <<0>> \in Seq(Int) /\ Len(<<0>>) = 1
    OBVIOUS
  <3>3. <<0>> \o d[x].path \in Seq(Int)
        /\ Len(<<0>> \o d[x].path) = 1 + Len(d[x].path)
    BY <3>1, <3>2, ConcatProperties, PathFacts DEF WideRow
  <3>4. <<0>> \o d[x].path \in Path
    BY <3>1, <3>3, PathFacts, EmptySeq DEF Path, WideRow
  <3> QED
    BY <3>1, <3>4 DEF WideRow
 <2>2. \A x \in DOMAIN d : d0[x] \in {m(x), d[x]}
   OBVIOUS
 <2> HIDE DEF D
 <2> QED
   BY <2>1, <2>2 DEF WideTable, Table
<1> HIDE DEF d0
<1>2. PathOfParent(d, r.parent) \in Seq(Int)
  BY EmptySeq, PathFacts DEF PathOfParent, Table, Row
<1>3. WideTable(d1) /\ DOMAIN d1 = DOMAIN d
      /\ \A x \in DOMAIN d : d1[x].parent = d[x].parent
 <2>1. S1 \subseteq DOMAIN d0
   BY <1>1 DEF Children
 <2> HIDE DEF S1
 <2> QED
   BY <1>1, <1>2, <2>1, ShiftSiblingsFacts
<1> HIDE DEF d1
<1>4. WideTable(d2) /\ DOMAIN d2 = DOMAIN d
      /\ \A x \in DOMAIN d : d2[x].parent = d[x].parent
 <2>1. S2 \subseteq DOMAIN d1
   BY <1>3 DEF Children
 <2>2. plan.base \in Seq(Int)
   BY DEF Plan
 <2> HIDE DEF S2
 <2> QED
   BY <1>3, <2>1, <2>2, ShiftSiblingsFacts
<1> HIDE DEF d2
<1>5. path \in Path
  BY NewPathType DEF Plan
<1>6. /\ WideTable(d3) /\ DOMAIN d3 = DOMAIN d
      /\ \A x \in DOMAIN d \ {n} : d3[x].parent = d[x].parent
      /\ n \in DOMAIN d => d3[n].parent = plan.parent /\ d3[n].order = plan.order
 <2>1. n \in DOMAIN d => w \in WideRow /\ w.parent = plan.parent /\ w.order = plan.order
  <3> HIDE DEF path
  <3> QED
    BY <1>4, <1>5 DEF WideTable, WideRow, Plan
 <2>2. \A x \in DOMAIN d \ {n} : d3[x] = d2[x] /\ d2[x] \in WideRow
   BY <1>4 DEF WideTable
 <2>3. n \in DOMAIN d => d3[n] = w
   OBVIOUS
 <2>4. \A x \in DOMAIN d : d3[x] \in WideRow
   BY <2>1, <2>2, <2>3
 <2>5. DOMAIN d3 = DOMAIN d /\ d3 \in [DOMAIN d -> WideRow]
   BY <2>4
 <2> HIDE DEF w, d3
 <2> QED
   BY <1>4, <2>1, <2>2, <2>3, <2>5 DEF WideTable
<1>7. Moved(d, V, n, r, plan) = Rerooted(d3, d, D, r.path, path)
  BY DEF Moved, d0, d1, d2
<1> HIDE DEF d3, path, D
<1>8. r.path \in Path /\ WideTable(d)
  BY TableIsWide DEF Row
<1> QED
  BY <1>5, <1>6, <1>7, <1>8, RerootedFacts

LEMMA RootedSubtreeFacts ==
  ASSUME NEW d, NEW V, NEW r \in Row, NEW newRow \in Row, Table(d)
  PROVE  LET e == RootedSubtree(d, V, r, newRow) IN
         /\ Table(e) /\ DOMAIN e = DOMAIN d
         /\ \A x \in DOMAIN d : e[x].parent = d[x].parent
<1> DEFINE c == CloseOrderGap(d, r.parent, r.order)
           e == RootedSubtree(d, V, r, newRow)
<1>1. r.path \in Path /\ r.order \in Nat /\ newRow.path \in Path
  BY DEF Row
<1>2. /\ Table(c) /\ DOMAIN c = DOMAIN d
      /\ \A x \in DOMAIN d : c[x].parent = d[x].parent
  BY <1>1, CloseOrderGapFacts
<1>3. WideTable(c) /\ WideTable(d)
  BY <1>2, TableIsWide
<1>4. e = Rerooted(c, d, Below(d, V, r.path), r.path, newRow.path)
  BY DEF RootedSubtree
<1> HIDE DEF c, e
<1>5. /\ WideTable(e) /\ DOMAIN e = DOMAIN c
      /\ \A x \in DOMAIN c : e[x].parent = c[x].parent /\ e[x].order = c[x].order
 <2> DEFINE D == Below(d, V, r.path)
            new == newRow.path
 <2>1. new \in Path /\ DOMAIN d = DOMAIN c
   BY <1>1, <1>2
 <2> HIDE DEF D, new
 <2>2. LET f == Rerooted(c, d, D, r.path, new) IN
       /\ WideTable(f) /\ DOMAIN f = DOMAIN c
       /\ \A x \in DOMAIN c : f[x].parent = c[x].parent /\ f[x].order = c[x].order
   BY <1>1, <1>3, <2>1, RerootedFacts
 <2> QED
   BY <1>4, <2>2 DEF D, new
<1>6. \A x \in DOMAIN e : e[x].order >= 0
 <2>1. \A x \in DOMAIN c : c[x].order \in Nat
   BY <1>2 DEF Table, Row
 <2> QED
   BY <1>5, <2>1
<1> QED
  BY <1>2, <1>5, <1>6, StoredTable DEF e

LEMMA NumbersPath ==
  ASSUME NEW k \in Nat, k - 1 \in Nat, NEW f \in [1..k -> Int]
  PROVE  f \in Path
<1>1. f \in Seq(Int) /\ Len(f) = k
  BY IsASeq, LenProperties
<1> QED
  BY <1>1, EmptySeq DEF Path

LEMMA RebuiltFacts ==
  ASSUME NEW d, NEW scope, NEW tie, Table(d)
  PROVE  LET e == Rebuilt(d, scope, tie) IN
         /\ Table(e) /\ DOMAIN e = DOMAIN d
         /\ \A x \in DOMAIN d : e[x].parent = d[x].parent
<1> DEFINE e == Rebuilt(d, scope, tie)
           u(x) == RebuiltRow(d, scope, tie, x)
           m(x) == [d[x] EXCEPT !.path = <<-x>>]
<1>1. ASSUME NEW x \in DOMAIN d
      PROVE  Rank(d, scope, tie, x) \in Nat
  BY FiniteRows DEF Rank, Table
<1>2. ASSUME NEW x \in DOMAIN d
      PROVE  u(x) \in Row /\ u(x).parent = d[x].parent
 <2> DEFINE line == Lineage(d, x)
            at(i) == CHOOSE a \in line : Cardinality(Lineage(d, a)) = i
            path == [i \in 1..Cardinality(line) |-> Rank(d, scope, tie, at(i)) + 1]
 <2>1. line \in SUBSET DOMAIN d /\ x \in line
   BY DEF Lineage, Subtrees
 <2>2. Cardinality(line) \in Nat
   BY <2>1, FiniteRows DEF Table
 <2>3. Cardinality(line) - 1 \in Nat
  <3>1. Cardinality(line) # 0
    BY <2>1, FiniteRows, FS_EmptySet DEF Table
  <3> QED
    BY <2>2, <3>1
 <2>4. \A i \in 1..Cardinality(line) : Rank(d, scope, tie, at(i)) + 1 \in Int
   BY FiniteRows DEF Rank, Table
 <2>5. path \in [1..Cardinality(line) -> Int]
   BY <2>4
 <2>6. path \in Path
  <3> HIDE DEF path, line
  <3> QED
    BY <2>2, <2>3, <2>5, NumbersPath
 <2>7. d[x].parent \in Node \cup {NoParent}
   BY DEF Table, Row
 <2> HIDE DEF line, path
 <2>8. u(x) = [parent |-> d[x].parent, path |-> path,
               depth |-> Cardinality(line) - 1, order |-> Rank(d, scope, tie, x)]
   BY DEF RebuiltRow, line, path
 <2> QED
   BY <1>1, <2>3, <2>6, <2>7, <2>8 DEF Row
<1>3. ASSUME NEW x \in DOMAIN d
      PROVE  m(x) \in Row /\ m(x).parent = d[x].parent /\ d[x] \in Row
 <2>1. d[x] \in Row /\ -x \in Int
   BY NodeAssumption DEF Table
 <2>2. <<-x>> \in Path
   BY <2>1 DEF Path
 <2> QED
   BY <2>1, <2>2 DEF Row
<1>4. DOMAIN e = DOMAIN d /\ \A x \in DOMAIN d : e[x] \in {u(x), m(x), d[x]}
  BY DEF Rebuilt
<1>5. e \in [DOMAIN d -> Row]
 <2>1. e = [x \in DOMAIN d |-> e[x]]
   BY <1>4 DEF Rebuilt, Table
 <2> HIDE DEF e, u, m
 <2> QED
   BY <1>2, <1>3, <1>4, <2>1
<1> HIDE DEF e, u, m
<1>6. Table(e)
  BY <1>4, <1>5 DEF Table
<1> QED
  BY <1>2, <1>3, <1>4, <1>6 DEF e

-----------------------------------------------------------------------------
(***************************************************************************)
(* Types.  A key written to the table is one that was given out, which     *)
(* TypeOK does not say of what a session holds: hence HeldKeys.            *)
(***************************************************************************)
IInv == TypeOK /\ HeldKeys

LEMMA BlankType == Blank \in Row
<1>1. <<1>> \in Seq(Int) /\ <<1>> # <<>>
  OBVIOUS
<1> QED
  BY <1>1 DEF Blank, Row, Path

LEMMA IdleType == Idle \in Held
BY BlankType DEF Idle, Held, Positions

LEMMA HoldType ==
  ASSUME TypeOK, NEW s \in Session,
         NEW op \in {"idle", "insert", "move", "edit", "write", "delete"},
         NEW n \in Node \cup {NoParent}, NEW row \in Row,
         NEW t \in Node \cup {NoParent}, NEW trow \in Row, NEW pos \in Positions,
         Hold(s, op, n, row, t, trow, pos)
  PROVE  /\ sess' \in [Session -> Held]
         /\ sess' = [sess EXCEPT ![s] = sess'[s]]
         /\ sess'[s] = [op |-> op, node |-> n, row |-> row,
                        target |-> t, trow |-> trow, pos |-> pos]
<1> DEFINE h == [op |-> op, node |-> n, row |-> row, target |-> t, trow |-> trow, pos |-> pos]
<1>1. h \in Held
  BY DEF Held
<1> HIDE DEF h
<1>2. sess' = [sess EXCEPT ![s] = h] /\ sess \in [Session -> Held]
  BY DEF Hold, TypeOK, h
<1> QED
  BY <1>1, <1>2 DEF h

LEMMA HoldRowType ==
  ASSUME TypeOK, NEW s \in Session, NEW op \in {"insert", "write"},
         NEW n \in Node \cup {NoParent}, NEW row \in Row,
         Hold(s, op, n, row, NoParent, Blank, "last-child")
  PROVE  /\ sess' \in [Session -> Held]
         /\ sess' = [sess EXCEPT ![s] = sess'[s]]
         /\ sess'[s] = [op |-> op, node |-> n, row |-> row,
                        target |-> NoParent, trow |-> Blank, pos |-> "last-child"]
<1> DEFINE h == [op |-> op, node |-> n, row |-> row,
                 target |-> NoParent, trow |-> Blank, pos |-> "last-child"]
<1>1. h \in Held
  BY BlankType DEF Held, Positions
<1> HIDE DEF h
<1>2. sess' = [sess EXCEPT ![s] = h] /\ sess \in [Session -> Held]
  BY DEF Hold, TypeOK, h
<1> QED
  BY <1>1, <1>2 DEF h

LEMMA ReleaseType ==
  ASSUME TypeOK, NEW s \in Session, Release(s)
  PROVE  /\ sess' \in [Session -> Held]
         /\ sess' = [sess EXCEPT ![s] = sess'[s]]
         /\ sess'[s] = Idle
BY IdleType DEF Release, TypeOK

LEMMA TableOf == TypeOK => Table(db) /\ \A x \in Rows : db[x] \in Row
BY DEF TypeOK, Table, Rows

LEMMA LoadedRowType ==
  ASSUME TypeOK, NEW p \in Rows \cup {NoParent}
  PROVE  LoadedRow(p) \in Row /\ p \in Node \cup {NoParent}
BY TableOf, BlankType DEF LoadedRow, Rows, Table

LEMMA RowForInsertType ==
  ASSUME TypeOK, NEW sibs \in SUBSET Rows, NEW p \in Node \cup {NoParent}, NEW held \in Row
  PROVE  RowForInsert(sibs, p, held) \in Row /\ RowForInsert(sibs, p, held).parent = p
<1> DEFINE k == Cardinality(sibs)
<1>1. k \in Nat
  BY FiniteRows DEF TypeOK, Rows
<1> DEFINE base == IF p = NoParent THEN <<>> ELSE held.path
<1>2. base \in Seq(Int)
  BY PathFacts, EmptySeq DEF Row
<1> HIDE DEF k, base
<1>3. NewPath(base, k) \in Path
  BY <1>1, <1>2, NewPathType
<1>4. (IF p = NoParent THEN 0 ELSE held.depth + 1) \in Nat
  BY DEF Row
<1> QED
  BY <1>1, <1>3, <1>4 DEF RowForInsert, Row, k, base

LEMMA RowForRootType ==
  ASSUME TypeOK, NEW roots \in SUBSET Rows
  PROVE  RowForRoot(roots) \in Row
<1> DEFINE k == Cardinality(roots)
<1>1. k \in Nat /\ k \in Int /\ <<>> \in Seq(Int)
  BY FiniteRows, EmptySeq DEF TypeOK, Rows
<1> HIDE DEF k
<1>2. NewPath(<<>>, k) \in Path
  BY <1>1, NewPathType
<1> QED
  BY <1>1, <1>2 DEF RowForRoot, Row, k

LEMMA WithRowFacts ==
  ASSUME TypeOK, NEW n \in Node, NEW row \in Row
  PROVE  /\ Table(WithRow(n, row)) /\ DOMAIN WithRow(n, row) = Rows \cup {n}
         /\ WithRow(n, row)[n] = row
         /\ \A x \in Rows \ {n} : WithRow(n, row)[x] = db[x]
BY DEF WithRow, Table, Rows, TypeOK

\* What a move leaves in the table when no constraint rolls it back.
LEMMA MoveResultFacts ==
  ASSUME TypeOK, NEW n, NEW r \in Row, NEW t \in Node \cup {NoParent},
         NEW u \in Row, NEW pos \in Positions, MoveApplies(n, r, t, u, pos)
  PROVE  LET e == MoveResult(n, r, t, u, pos) IN
         /\ Table(e) /\ DOMAIN e = Rows
         /\ \A x \in Rows \ {n} : e[x].parent = db[x].parent
         /\ n \in Rows => /\ e[n].parent = PlanOf(r, t, u, pos).parent
                          /\ PlanOf(r, t, u, pos).order \in Nat
         /\ PlanOf(r, t, u, pos) \in Plan
<1> DEFINE plan == PlanOf(r, t, u, pos)
           e == MoveResult(n, r, t, u, pos)
<1>1. Table(db) /\ Rows = DOMAIN db
  BY TableOf DEF Rows
<1>2. plan \in Plan /\ r.parent \in DOMAIN db \cup {NoParent}
  BY <1>1, MovePlanType DEF MoveApplies, PlanOf
<1>3. e = Moved(db, Rows, n, r, plan)
  BY DEF MoveResult
<1>4. Storable(e, MaxPath)
  BY DEF MoveApplies
<1> HIDE DEF plan, e
<1>5. LET f == Moved(db, Rows, n, r, plan) IN
      /\ WideTable(f) /\ DOMAIN f = DOMAIN db
      /\ \A x \in DOMAIN db \ {n} : f[x].parent = db[x].parent
      /\ n \in DOMAIN db => f[n].parent = plan.parent /\ f[n].order = plan.order
  BY <1>1, <1>2, MovedFacts
<1>6. /\ WideTable(e) /\ DOMAIN e = DOMAIN db
      /\ \A x \in DOMAIN db \ {n} : e[x].parent = db[x].parent
      /\ n \in DOMAIN db => e[n].parent = plan.parent /\ e[n].order = plan.order
  BY <1>3, <1>5
<1>7. \A x \in DOMAIN e : e[x].order >= 0
  BY <1>4 DEF Storable
<1>8. Table(e)
  BY <1>6, <1>7, StoredTable
<1>9. n \in DOMAIN db => plan.order \in Nat
  BY <1>2, <1>6, <1>7 DEF Plan
<1> QED
  BY <1>1, <1>2, <1>6, <1>8, <1>9 DEF plan, e

\* A session's step keeps HeldKeys when the keys it adds to the table or holds
\* are new, in the table already, or its own.
LEMMA HeldKeysStep ==
  ASSUME IInv, NEW s \in Session,
         used \subseteq used', used' \subseteq Node, Rows' \subseteq used',
         \A u \in Session \ {s} : sess'[u] = sess[u],
         Rows' \subseteq Rows \cup {sess[s].node},
         sess'[s].node \in {sess[s].node} \cup Rows \cup (used' \ used) \/ sess'[s] = Idle,
         sess'[s].node \in used' \/ sess'[s] = Idle,
         sess'[s].op = "insert" => /\ sess'[s].node \notin Rows' \cup used
                                   /\ sess'[s].row.parent # sess'[s].node,
         sess'[s].op \in {"move", "edit"} => SameScope(sess'[s].node, sess'[s].target)
  PROVE  HeldKeys'
<1>1. used \subseteq Node /\ NoParent \notin used
  BY NodeAssumption DEF IInv, TypeOK, NoParent
<1>2. ASSUME NEW u \in Session \ {s}, sess[u].op = "insert"
      PROVE  /\ sess'[u].node \notin Rows'
             /\ \A v \in Session \ {u} : sess'[v].node # sess'[u].node
 <2>1. /\ sess[u].node \notin Rows /\ sess[u].node \in used
       /\ \A v \in Session \ {u} : sess[v].node # sess[u].node
   BY <1>2 DEF IInv, HeldKeys
 <2>2. sess'[s].node # sess[u].node
   BY <1>1, <2>1 DEF Idle
 <2> QED
   BY <2>1, <2>2
<1>3. ASSUME sess'[s].op = "insert"
      PROVE  \A v \in Session \ {s} : sess'[v].node # sess'[s].node
 <2>1. sess'[s].node \notin used /\ sess'[s].node # NoParent
   BY <1>3, NodeAssumption DEF IInv, HeldKeys, Idle, NoParent
 <2> QED
   BY <2>1 DEF IInv, HeldKeys
<1>4. \A u \in Session : sess'[u].node \in used' \/ (sess'[u].op = "idle" /\ sess'[u].node = NoParent)
  BY DEF IInv, HeldKeys, Idle
<1>5. \A u \in Session : sess'[u].op = "insert" =>
        /\ sess'[u].node \notin Rows' /\ sess'[u].row.parent # sess'[u].node
        /\ \A v \in Session \ {u} : sess'[v].node # sess'[u].node
  BY <1>2, <1>3 DEF IInv, HeldKeys
<1>6. \A u \in Session : sess'[u].op \in {"move", "edit"} => SameScope(sess'[u].node, sess'[u].target)
  BY DEF IInv, HeldKeys
<1> QED
  BY <1>4, <1>5, <1>6 DEF HeldKeys, SameScope, NoParent, Rows

LEMMA InitIInv == Init => IInv
BY IdleType, BoundAssumption DEF Init, IInv, TypeOK, HeldKeys, Rows, Idle

\* The types of the parts of what a session holds.
LEMMA HeldParts ==
  ASSUME IInv, NEW s \in Session
  PROVE  /\ sess[s] \in Held
         /\ sess[s].row \in Row /\ sess[s].trow \in Row /\ sess[s].pos \in Positions
         /\ sess[s].node \in Node \cup {NoParent}
         /\ sess[s].target \in Node \cup {NoParent}
         /\ sess[s].op # "idle" => sess[s].node \in used /\ sess[s].node \in Node
BY DEF IInv, TypeOK, HeldKeys, Held

LEMMA BeginInsertIInv ==
  ASSUME IInv, NEW s \in Session, NEW n \in Node, NEW p \in Rows \cup {NoParent},
         BeginInsert(s, n, p)
  PROVE  IInv'
<1> DEFINE sibs == {x \in Children(db, Rows, p) : ScopeOf[x] = ScopeOf[n]}
           row  == RowForInsert(sibs, p, LoadedRow(p))
<1>1. Hold(s, "insert", n, row, NoParent, Blank, "last-child")
  BY DEF BeginInsert
<1>2. row \in Row /\ row.parent = p
 <2>1. sibs \in SUBSET Rows
   BY DEF Children
 <2> HIDE DEF sibs
 <2> QED
   BY <2>1, LoadedRowType, RowForInsertType DEF IInv
<1> HIDE DEF row
<1>3. /\ sess' \in [Session -> Held] /\ sess' = [sess EXCEPT ![s] = sess'[s]]
      /\ sess'[s] = [op |-> "insert", node |-> n, row |-> row,
                     target |-> NoParent, trow |-> Blank, pos |-> "last-child"]
  BY <1>1, <1>2, HoldRowType DEF IInv
<1>4. used' = used \cup {n} /\ n \notin used /\ Rows' = Rows /\ db' = db /\ purge' = purge
  BY DEF BeginInsert, Rows
<1>5. TypeOK'
  BY <1>3, <1>4, BoundAssumption DEF IInv, TypeOK, BeginInsert, Start
<1>6. Rows \subseteq used /\ used' \subseteq Node
  BY <1>5 DEF IInv, HeldKeys, TypeOK
<1>7. HeldKeys'
 <2>1. row.parent # n
   BY <1>2, <1>4, <1>6, NodeAssumption DEF NoParent
 <2>2. \A u \in Session \ {s} : sess'[u] = sess[u]
   BY <1>3 DEF IInv, TypeOK
 <2> QED
   BY <1>3, <1>4, <1>6, <2>1, <2>2, HeldKeysStep
<1> QED
  BY <1>5, <1>7 DEF IInv

\* A session starts to work on a row of the table.
LEMMA StartIInv ==
  ASSUME IInv, NEW s \in Session, NEW op \in {"move", "edit", "delete"},
         NEW n \in Rows, NEW t \in Rows \cup {NoParent}, NEW pos \in Positions,
         NEW trow \in Row, op \in {"move", "edit"} => SameScope(n, t),
         Start(s, op), Hold(s, op, n, db[n], t, trow, pos), UNCHANGED <<db, used, purge>>
  PROVE  IInv'
<1>1. n \in Node /\ t \in Node \cup {NoParent} /\ db[n] \in Row
  BY TableOf DEF IInv, TypeOK, Rows
<1>2. /\ sess' \in [Session -> Held] /\ sess' = [sess EXCEPT ![s] = sess'[s]]
      /\ sess'[s] = [op |-> op, node |-> n, row |-> db[n],
                     target |-> t, trow |-> trow, pos |-> pos]
  BY <1>1, HoldType DEF IInv
<1>3. TypeOK'
  BY <1>2, BoundAssumption DEF IInv, TypeOK, Start
<1>4. Rows \subseteq used /\ used \subseteq Node /\ used' = used /\ Rows' = Rows
  BY DEF IInv, HeldKeys, TypeOK, Rows
<1>5. HeldKeys'
 <2>1. \A u \in Session \ {s} : sess'[u] = sess[u]
   BY <1>2 DEF IInv, TypeOK
 <2> QED
   BY <1>2, <1>4, <2>1, HeldKeysStep
<1> QED
  BY <1>3, <1>5 DEF IInv

\* A session ends, having replaced the table by one with no other new key.
LEMMA ReleaseIInv ==
  ASSUME IInv, NEW s \in Session, Release(s), Table(db'),
         DOMAIN db' \subseteq Rows \cup {sess[s].node}, sess[s].op # "idle",
         purge' \subseteq Doomed, UNCHANGED <<used, ops>>
  PROVE  IInv'
<1>1. /\ sess' \in [Session -> Held] /\ sess' = [sess EXCEPT ![s] = sess'[s]]
      /\ sess'[s] = Idle
  BY ReleaseType DEF IInv
<1>2. TypeOK'
  BY <1>1 DEF IInv, TypeOK, Table
<1>3. Rows \subseteq used /\ used \subseteq Node /\ sess[s].node \in used /\ Rows' = DOMAIN db'
  BY HeldParts DEF IInv, HeldKeys, TypeOK, Rows
<1>4. HeldKeys'
 <2>1. \A u \in Session \ {s} : sess'[u] = sess[u]
   BY <1>1 DEF IInv, TypeOK
 <2>2. sess'[s].op = "idle"
   BY <1>1 DEF Idle
 <2> QED
   BY <1>1, <1>3, <2>1, <2>2, HeldKeysStep
<1> QED
  BY <1>2, <1>4 DEF IInv

\* pre_save is over and the instance is about to be written.
LEMMA ThenWriteIInv ==
  ASSUME IInv, NEW s \in Session, NEW row \in Row, ThenWrite(s, row), Table(db'),
         DOMAIN db' = Rows, sess[s].op # "idle", UNCHANGED <<used, purge, ops>>
  PROVE  IInv'
<1>1. Hold(s, "write", sess[s].node, row, NoParent, Blank, "last-child")
  BY DEF ThenWrite
<1>2. /\ sess' \in [Session -> Held] /\ sess' = [sess EXCEPT ![s] = sess'[s]]
      /\ sess'[s] = [op |-> "write", node |-> sess[s].node, row |-> row,
                     target |-> NoParent, trow |-> Blank, pos |-> "last-child"]
  BY <1>1, HeldParts, HoldRowType DEF IInv
<1>3. TypeOK'
  BY <1>2 DEF IInv, TypeOK, Table
<1>4. Rows \subseteq used /\ used \subseteq Node /\ sess[s].node \in used /\ Rows' = Rows
  BY HeldParts DEF IInv, HeldKeys, TypeOK, Rows
<1>5. HeldKeys'
 <2>1. \A u \in Session \ {s} : sess'[u] = sess[u]
   BY <1>2 DEF IInv, TypeOK
 <2> QED
   BY <1>2, <1>4, <2>1, HeldKeysStep
<1> QED
  BY <1>3, <1>5 DEF IInv

\* No session acts: the table keeps its keys or loses some.
LEMMA TableIInv ==
  ASSUME IInv, Table(db'), DOMAIN db' \subseteq Rows, purge' \subseteq Doomed,
         ops' \in 0..MaxOps, UNCHANGED <<sess, used>>
  PROVE  IInv'
<1>1. TypeOK'
  BY DEF IInv, TypeOK, Table
<1>2. HeldKeys'
  BY DEF IInv, HeldKeys, Rows, SameScope
<1> QED
  BY <1>1, <1>2 DEF IInv

LEMMA StoreFacts ==
  ASSUME IInv, NEW s \in Session, Store(WithRow(sess[s].node, sess[s].row)),
         sess[s].op # "idle"
  PROVE  Table(db') /\ DOMAIN db' \subseteq Rows \cup {sess[s].node}
BY HeldParts, WithRowFacts, TableOf DEF Store, IInv, Rows

LEMMA WithoutFacts ==
  ASSUME IInv, NEW S
  PROVE  Table(Without(S)) /\ DOMAIN Without(S) \subseteq Rows
BY TableOf DEF Without, IInv, Rows, Table

LEMMA SignalType ==
  ASSUME NEW n \in Node, NEW row \in Row
  PROVE  Signal(n, row) \in Doomed
BY DEF Signal, Doomed, Row

LEMMA NextIInv == IInv /\ [Next]_vars => IInv'
<1> SUFFICES ASSUME IInv, [Next]_vars PROVE IInv'
  OBVIOUS
<1>0. TypeOK /\ HeldKeys /\ Table(db) /\ (\A x \in Rows : db[x] \in Row /\ x \in Node)
  BY TableOf DEF IInv, Table, Rows
<1>1. ASSUME NEW s \in Session, NEW n \in Node, NEW p \in Rows \cup {NoParent},
             BeginInsert(s, n, p)
      PROVE  IInv'
  BY <1>1, BeginInsertIInv
<1>2. ASSUME NEW s \in Session, NEW n \in Rows, NEW t \in Rows, NEW pos \in Positions,
             BeginMove(s, n, t, pos)
      PROVE  IInv'
  BY <1>0, <1>2, StartIInv DEF BeginMove
<1>3. ASSUME NEW s \in Session, NEW n \in Rows, NEW p \in Rows \cup {NoParent},
             BeginEdit(s, n, p)
      PROVE  IInv'
 <2>1. LoadedRow(p) \in Row
   BY <1>0, LoadedRowType
 <2>2. "last-child" \in Positions
   BY DEF Positions
 <2> QED
   BY <1>3, <2>1, <2>2, StartIInv DEF BeginEdit
<1>4. ASSUME NEW s \in Session, NEW n \in Rows, BeginDelete(s, n)
      PROVE  IInv'
 <2>1. "last-child" \in Positions
   BY DEF Positions
 <2> QED
   BY <1>4, <2>1, StartIInv, BlankType DEF BeginDelete
<1>5. ASSUME NEW s \in Session, NEW S \in SUBSET Rows, DeleteMany(s, S)
      PROVE  IInv'
 <2>1. db' = Without(Subtrees(db, S)) /\ UNCHANGED <<sess, used>> /\ ops' \in 0..MaxOps
   BY <1>0, <1>5, BoundAssumption DEF DeleteMany, Start, TypeOK
 <2>2. Subtrees(db, S) \subseteq Rows
   BY DEF Subtrees, Rows
 <2>3. purge' \subseteq Doomed
   BY <1>0, <1>5, <2>2, SignalType DEF DeleteMany
 <2> QED
   BY <2>1, <2>3, WithoutFacts, TableIInv
<1>6. ASSUME NEW s \in Session, CommitInsert(s)
      PROVE  IInv'
  BY <1>0, <1>6, StoreFacts, ReleaseIInv DEF CommitInsert, Ready, TypeOK
<1>7. ASSUME NEW s \in Session, CommitMove(s)
      PROVE  IInv'
 <2> DEFINE h == sess[s]
 <2>1. Table(db') /\ DOMAIN db' = Rows
   BY <1>0, <1>7, HeldParts, MoveResultFacts DEF CommitMove
 <2> QED
   BY <1>0, <1>7, <2>1, ReleaseIInv DEF CommitMove, Ready, TypeOK
<1>8. ASSUME NEW s \in Session, AbandonMove(s)
      PROVE  IInv'
  BY <1>0, <1>8, ReleaseIInv DEF AbandonMove, Ready, TypeOK, Rows
<1>9. ASSUME NEW s \in Session, PreSaveUnmoved(s)
      PROVE  IInv'
 <2>1. [sess[s].row EXCEPT !.parent = sess[s].target] \in Row
   BY HeldParts DEF Row
 <2> QED
   BY <1>0, <1>9, <2>1, ThenWriteIInv DEF PreSaveUnmoved, Ready, Rows
<1>10. ASSUME NEW s \in Session, PreSaveMoves(s)
       PROVE  IInv'
 <2> DEFINE h == sess[s]
            r == db[h.node]
            plan == PlanOf(r, h.target, h.trow, "last-child")
            row == [parent |-> plan.parent, path |-> NewPath(plan.base, plan.order),
                    depth |-> plan.depth, order |-> plan.order]
 <2>1. h.node \in Rows /\ r \in Row /\ sess[s].op # "idle" /\ "last-child" \in Positions
   BY <1>0, <1>10 DEF PreSaveMoves, Ready, Positions
 <2>2. CASE MoveApplies(h.node, r, h.target, h.trow, "last-child")
  <3>1. db' = MoveResult(h.node, r, h.target, h.trow, "last-child") /\ ThenWrite(s, row)
    BY <1>10, <2>2 DEF PreSaveMoves
  <3>2. Table(db') /\ DOMAIN db' = Rows /\ plan \in Plan /\ plan.order \in Nat
   <4>1. /\ h.node \in Rows /\ r \in Row /\ "last-child" \in Positions
         /\ h.target \in Node \cup {NoParent} /\ h.trow \in Row
     BY <2>1, HeldParts
   <4> HIDE DEF h, r
   <4> QED
     BY <1>0, <2>2, <3>1, <4>1, MoveResultFacts DEF plan
  <3>3. row \in Row
   <4> HIDE DEF plan
   <4> QED
     BY <3>2, NewPathType DEF Plan, Row
  <3> HIDE DEF row
  <3> QED
    BY <1>10, <2>1, <3>1, <3>2, <3>3, ThenWriteIInv DEF PreSaveMoves
 <2>3. CASE ~MoveApplies(h.node, r, h.target, h.trow, "last-child")
   BY <1>0, <1>10, <2>1, <2>3, ReleaseIInv DEF PreSaveMoves, TypeOK, Rows
 <2> QED
   BY <2>2, <2>3
<1>11. ASSUME NEW s \in Session, PreSaveToRoot(s)
       PROVE  IInv'
 <2> DEFINE n == sess[s].node
            roots == {x \in Children(db, Rows, NoParent) : ScopeOf[x] = ScopeOf[n]}
            row == RowForRoot(roots)
 <2>1. row \in Row
  <3>1. roots \in SUBSET Rows
    BY DEF Children
  <3> HIDE DEF roots
  <3> QED
    BY <1>0, <3>1, RowForRootType
 <2> HIDE DEF row
 <2>2. /\ ThenWrite(s, row) /\ n \in Rows /\ db' = RootedSubtree(db, Rows, db[n], row)
       /\ sess[s].op # "idle" /\ UNCHANGED <<used, purge, ops>>
   BY <1>11 DEF PreSaveToRoot, Ready, row
 <2>3. Table(db') /\ DOMAIN db' = Rows
   BY <1>0, <2>1, <2>2, RootedSubtreeFacts DEF Rows
 <2> QED
   BY <2>1, <2>2, <2>3, ThenWriteIInv
<1>12. ASSUME NEW s \in Session, WriteRow(s)
       PROVE  IInv'
  BY <1>0, <1>12, StoreFacts, ReleaseIInv DEF WriteRow, Ready, TypeOK
<1>13. ASSUME NEW s \in Session, CommitDelete(s)
       PROVE  IInv'
 <2> DEFINE n == sess[s].node
            S == Subtrees(db, {n} \cap Rows)
 <2>1. /\ Release(s) /\ db' = Without(S) /\ sess[s].op # "idle" /\ UNCHANGED <<used, ops>>
       /\ purge' = {Signal(n, sess[s].row)} \cup {Signal(x, db[x]) : x \in S \ {n}}
   BY <1>13 DEF CommitDelete, Ready
 <2>2. S \subseteq Rows
   BY DEF Subtrees, Rows
 <2> HIDE DEF S
 <2>3. purge' \subseteq Doomed
  <3>1. \A x \in S \ {n} : Signal(x, db[x]) \in Doomed
    BY <1>0, <2>2, SignalType
  <3>2. Signal(n, sess[s].row) \in Doomed
    BY <2>1, HeldParts, SignalType
  <3> QED
    BY <2>1, <3>1, <3>2
 <2> QED
   BY <2>1, <2>3, WithoutFacts, ReleaseIInv
<1>14. ASSUME NEW s \in Session, Rebuild(s)
       PROVE  IInv'
 <2>1. PICK tie : db' = Rebuilt(db, ScopeOf, tie) \/ db' = db
   BY <1>14 DEF Rebuild, Store
 <2>2. Table(db') /\ DOMAIN db' = Rows
   BY <1>0, <2>1, RebuiltFacts DEF Rows
 <2>3. ops' \in 0..MaxOps /\ UNCHANGED <<sess, used, purge>> /\ purge \subseteq Doomed
   BY <1>0, <1>14, BoundAssumption DEF Rebuild, Start, TypeOK
 <2> QED
   BY <2>2, <2>3, TableIInv
<1>15. ASSUME NEW s \in Session, Crash(s)
       PROVE  IInv'
  BY <1>0, <1>15, ReleaseIInv DEF Crash, TypeOK, Rows
<1>16. ASSUME NEW p \in purge, PostDelete(p)
       PROVE  IInv'
 <2>1. p.order \in Nat /\ purge' \subseteq Doomed
   BY <1>0, <1>16 DEF PostDelete, TypeOK, Doomed
 <2>2. Table(db') /\ DOMAIN db' = Rows
   BY <1>0, <1>16, <2>1, CloseOrderGapFacts DEF PostDelete, Rows
 <2> QED
   BY <1>0, <1>16, <2>1, <2>2, TableIInv DEF PostDelete, TypeOK
<1>17. CASE UNCHANGED vars
  BY <1>0, <1>17, TableIInv DEF vars, TypeOK, Rows
<1> QED
  BY <1>1, <1>2, <1>3, <1>4, <1>5, <1>6, <1>7, <1>8, <1>9, <1>10, <1>11, <1>12,
     <1>13, <1>14, <1>15, <1>16, <1>17 DEF Next

\* The rows in the table and in every session keep their types, for every set
\* of keys, sessions and operations.
THEOREM TypeCorrect == Spec => []TypeOK
<1>1. Spec => []IInv
  BY InitIInv, NextIInv, PTL DEF Spec
<1>2. IInv => TypeOK
  BY DEF IInv
<1> QED
  BY <1>1, <1>2, PTL

-----------------------------------------------------------------------------
(***************************************************************************)
(* No step closes a parent cycle on a clean table with current instances.  *)
(***************************************************************************)
LEMMA CleanFacts ==
  ASSUME TypeOK, Clean(db, ScopeOf)
  PROVE  /\ Paths(db) /\ PrefixesHold(db)
         /\ \A x \in Rows : db[x].parent \in Rows \cup {NoParent}
         /\ \A x, y \in Rows : db[x].path = db[y].path /\ ScopeOf[x] = ScopeOf[y] => x = y
<1>1. /\ PrefixViolations(db) = {} /\ Orphans(db) = {} /\ DuplicatePaths(db, ScopeOf) = {}
  BY DEF Clean
<1>2. Paths(db)
  BY PathFacts, TableOf DEF Paths, Rows, Row
<1> QED
  BY <1>1, <1>2 DEF PrefixesHold, Orphans, DuplicatePaths, Rows

\* The descendant test of move_to, by path prefix: when it passes on current
\* instances, the path of n is no prefix of the path of the new parent.
LEMMA NewParentNotBelow ==
  ASSUME IInv, Clean(db, ScopeOf), NEW n \in Rows, NEW t \in Rows, NEW pos \in Positions,
         SameScope(n, t), MoveApplies(n, db[n], t, db[t], pos),
         PlanOf(db[n], t, db[t], pos).parent \in Rows
  PROVE  ~IsPrefix(db[n].path, db[PlanOf(db[n], t, db[t], pos).parent].path)
<1> DEFINE q == PlanOf(db[n], t, db[t], pos).parent
<1>1. t # n /\ ~IsStrictPrefix(db[n].path, db[t].path)
  BY DEF MoveApplies, MoveRejected
<1>2. t \in Node /\ TypeOK
  BY DEF IInv, TypeOK, Rows
<1>3. ~IsPrefix(db[n].path, db[t].path)
 <2>1. db[n].path # db[t].path
   BY <1>1, <1>2, CleanFacts, NodeAssumption DEF SameScope, NoParent
 <2> QED
   BY <1>1, <2>1 DEF IsStrictPrefix
<1>4. CASE pos \in {"first-child", "last-child"}
 <2>1. q = t
   BY <1>4 DEF PlanOf, MovePlan
 <2> QED
   BY <1>3, <2>1
<1>5. CASE pos \in {"left", "right"}
 <2>1. q = db[t].parent
   BY <1>5 DEF PlanOf, MovePlan
 <2>2. q \in Rows
   OBVIOUS
 <2>3. IsStrictPrefix(db[q].path, db[t].path)
   BY <1>2, <2>1, <2>2, CleanFacts DEF PrefixesHold, PrefixViolations, Rows
 <2>4. /\ db[n].path \in Seq(Int) /\ db[q].path \in Seq(Int) /\ db[t].path \in Seq(Int)
   BY <1>2, <2>2, CleanFacts DEF Paths, Rows
 <2> HIDE DEF q
 <2>5. ~IsPrefix(db[n].path, db[q].path)
   BY <1>1, <2>3, <2>4, PrefixThenStrict
 <2> QED
   BY <2>5 DEF q
<1> QED
  BY <1>4, <1>5 DEF Positions

LEMMA MoveKeepsForest ==
  ASSUME IInv, Clean(db, ScopeOf), Forest(db), NEW n \in Rows, NEW t \in Rows,
         NEW pos \in Positions, SameScope(n, t), MoveApplies(n, db[n], t, db[t], pos)
  PROVE  Forest(MoveResult(n, db[n], t, db[t], pos))
<1> DEFINE q == PlanOf(db[n], t, db[t], pos).parent
           e == MoveResult(n, db[n], t, db[t], pos)
<1>1. TypeOK /\ db[n] \in Row /\ db[t] \in Row /\ t \in Node
  BY TableOf DEF IInv, TypeOK, Rows
<1>2. /\ DOMAIN e = DOMAIN db
      /\ \A x \in DOMAIN db \ {n} : e[x].parent = db[x].parent
      /\ e[n].parent = q
  BY <1>1, MoveResultFacts DEF Rows
<1>3. q \in DOMAIN db => ~IsPrefix(db[n].path, db[q].path)
  BY NewParentNotBelow DEF Rows
<1>4. Paths(db) /\ PrefixesHold(db)
  BY <1>1, CleanFacts
<1> HIDE DEF e, q
<1>5. Forest(e)
  BY <1>2, <1>3, <1>4, ReparentKeepsForest
<1> QED
  BY <1>5 DEF e

LEMMA InsertKeepsForest ==
  ASSUME IInv, Clean(db, ScopeOf), Forest(db), NEW s \in Session, CommitInsert(s)
  PROVE  Forest(db')
<1> DEFINE n == sess[s].node
           e == WithRow(n, sess[s].row)
<1>1. sess[s].op = "insert"
  BY DEF CommitInsert, Ready
<1>2. n \in Node /\ n \notin Rows /\ sess[s].row.parent # n /\ sess[s].row \in Row
  BY <1>1, HeldParts DEF IInv, HeldKeys
<1>3. \A x \in Rows : db[x].parent # n
  BY <1>2, CleanFacts, NodeAssumption DEF IInv, NoParent
<1>4. /\ DOMAIN e = DOMAIN db \cup {n} /\ e[n].parent # n
      /\ \A x \in DOMAIN db : e[x] = db[x] /\ db[x].parent # n
 <2>1. /\ DOMAIN e = Rows \cup {n} /\ e[n] = sess[s].row
       /\ \A x \in Rows \ {n} : e[x] = db[x]
   BY <1>2, WithRowFacts DEF IInv
 <2> HIDE DEF e, n
 <2> QED
   BY <1>2, <1>3, <2>1 DEF Rows
<1>5. db' = e \/ db' = db
  BY DEF CommitInsert, Store
<1> HIDE DEF e, n
<1>6. Forest(e)
  BY <1>2, <1>4, NewRowForest DEF Rows
<1> QED
  BY <1>5, <1>6

LEMMA WriteKeepsForest ==
  ASSUME IInv, Clean(db, ScopeOf), Forest(db), NEW s \in Session, WriteRow(s),
         WriteUpToDate(s)
  PROVE  Forest(db')
<1> DEFINE n == sess[s].node
           q == sess[s].row.parent
           e == WithRow(n, sess[s].row)
<1>1. n \in Rows /\ q \in {db[n].parent, NoParent} /\ sess[s].row \in Row /\ n \in Node
  BY HeldParts DEF WriteUpToDate, IInv, TypeOK, Rows
<1>2. DOMAIN e = DOMAIN db /\ e[n].parent = q /\ \A x \in DOMAIN db \ {n} : e[x] = db[x]
  BY <1>1, WithRowFacts DEF IInv, Rows
<1>3. db' = e \/ db' = db
  BY DEF WriteRow, Store
<1>4. Paths(db) /\ PrefixesHold(db) /\ NoParent \notin DOMAIN db
  BY CleanFacts, NodeAssumption DEF IInv, TypeOK, NoParent
<1> HIDE DEF e, q, n
<1>5. Forest(e)
 <2>1. CASE q = db[n].parent
   BY <1>1, <1>2, <2>1, SameParentsForest
 <2>2. CASE q = NoParent
   BY <1>1, <1>2, <1>4, <2>2, ReparentKeepsForest
 <2> QED
   BY <1>1, <2>1, <2>2
<1> QED
  BY <1>3, <1>5

LEMMA NextForest == IInv /\ [Next]_vars => ForestStep
<1> SUFFICES ASSUME IInv, [Next]_vars, Clean(db, ScopeOf), Forest(db),
                    \A s \in Session : Acts(s) => UpToDate(s)
             PROVE  Forest(db')
  BY DEF ForestStep
<1>0. TypeOK /\ Table(db) /\ HeldKeys /\ DOMAIN db = Rows
  BY TableOf DEF IInv, Rows
<1>1. ASSUME UNCHANGED db PROVE Forest(db')
  BY <1>1
<1>2. ASSUME DOMAIN db' = DOMAIN db, \A x \in DOMAIN db : db'[x].parent = db[x].parent
      PROVE  Forest(db')
  BY <1>2, SameParentsForest
<1>3. ASSUME NEW S, db' = Without(S) PROVE Forest(db')
 <2>1. DOMAIN db' \subseteq DOMAIN db /\ \A x \in DOMAIN db' : db'[x] = db[x]
   BY <1>3 DEF Without, Rows
 <2> QED
   BY <2>1, FewerRowsForest
<1>4. ASSUME NEW s \in Session, CommitMove(s) PROVE Forest(db')
 <2>1. /\ sess[s].op = "move" /\ Release(s)
       /\ MoveApplies(sess[s].node, sess[s].row, sess[s].target, sess[s].trow, sess[s].pos)
       /\ db' = MoveResult(sess[s].node, sess[s].row, sess[s].target, sess[s].trow, sess[s].pos)
   BY <1>4 DEF CommitMove, Ready
 <2>2. Acts(s)
   BY <1>0, <2>1, ReleaseType DEF Acts, Idle
 <2>3. MoveUpToDate(s)
   BY <2>1, <2>2 DEF UpToDate
 <2>4. SameScope(sess[s].node, sess[s].target)
   BY <1>0, <2>1 DEF HeldKeys
 <2> QED
   BY <2>1, <2>3, <2>4, HeldParts, MoveKeepsForest DEF MoveUpToDate
<1>5. ASSUME NEW s \in Session, PreSaveMoves(s) PROVE Forest(db')
 <2> DEFINE n == sess[s].node
            t == sess[s].target
            ok == MoveApplies(n, db[n], t, sess[s].trow, "last-child")
 <2>1. sess[s].op = "edit" /\ t # NoParent /\ n \in Rows /\ "last-child" \in Positions
   BY <1>5 DEF PreSaveMoves, Ready, Positions
 <2>2. ~ok => UNCHANGED db
   BY <1>5 DEF PreSaveMoves
 <2>3. ASSUME ok PROVE Forest(db')
  <3>1. db' = MoveResult(n, db[n], t, sess[s].trow, "last-child")
    BY <1>5, <2>3 DEF PreSaveMoves
  <3>2. sess'[s].op = "write"
    BY <1>0, <1>5, <2>3 DEF PreSaveMoves, ThenWrite, Hold, TypeOK
  <3>3. TargetUpToDate(s)
    BY <2>1, <3>2 DEF UpToDate, Acts
  <3>4. t \in Rows /\ db[t] = sess[s].trow /\ SameScope(n, t)
    BY <1>0, <2>1, <3>3 DEF TargetUpToDate, HeldKeys
  <3> HIDE DEF n, t
  <3> QED
    BY <2>1, <2>3, <3>1, <3>4, MoveKeepsForest
 <2> QED
   BY <1>1, <2>2, <2>3
<1>6. ASSUME NEW s \in Session, PreSaveToRoot(s) PROVE Forest(db')
 <2>1. PICK row : db' = RootedSubtree(db, Rows, db[sess[s].node], row) /\ row \in Row
  <3> DEFINE roots == {x \in Children(db, Rows, NoParent) : ScopeOf[x] = ScopeOf[sess[s].node]}
  <3>1. roots \in SUBSET Rows
    BY DEF Children
  <3> HIDE DEF roots
  <3>2. RowForRoot(roots) \in Row
    BY <1>0, <3>1, RowForRootType
  <3> QED
    BY <1>6, <3>2 DEF PreSaveToRoot, roots
 <2>2. db[sess[s].node] \in Row
   BY <1>0, <1>6, TableOf DEF PreSaveToRoot
 <2> QED
   BY <1>0, <1>2, <2>1, <2>2, RootedSubtreeFacts
<1>7. ASSUME NEW s \in Session, Rebuild(s) PROVE Forest(db')
 <2>1. PICK tie : db' = Rebuilt(db, ScopeOf, tie) \/ db' = db
   BY <1>7 DEF Rebuild, Store
 <2> QED
   BY <1>0, <1>2, <2>1, RebuiltFacts
<1>8. ASSUME NEW p \in purge, PostDelete(p) PROVE Forest(db')
 <2>1. p.order \in Nat
   BY <1>0 DEF TypeOK, Doomed
 <2> QED
   BY <1>0, <1>2, <1>8, <2>1, CloseOrderGapFacts DEF PostDelete
<1>9. ASSUME NEW s \in Session, WriteRow(s) PROVE Forest(db')
 <2>1. sess[s].op = "write" /\ Release(s)
   BY <1>9 DEF WriteRow, Ready
 <2>2. Acts(s)
   BY <1>0, <2>1, ReleaseType DEF Acts, Idle
 <2>3. WriteUpToDate(s)
   BY <2>1, <2>2 DEF UpToDate
 <2> QED
   BY <1>9, <2>3, WriteKeepsForest
<1>10. ASSUME NEW s \in Session,
              \/ \E S \in SUBSET Rows : DeleteMany(s, S)
              \/ CommitDelete(s)
       PROVE  \E S : db' = Without(S)
  BY <1>10 DEF DeleteMany, CommitDelete
<1>11. ASSUME NEW s \in Session,
              \/ \E n \in Node, p \in Rows \cup {NoParent} : BeginInsert(s, n, p)
              \/ \E n, t \in Rows, pos \in Positions : BeginMove(s, n, t, pos)
              \/ \E n \in Rows, p \in Rows \cup {NoParent} : BeginEdit(s, n, p)
              \/ \E n \in Rows : BeginDelete(s, n)
              \/ AbandonMove(s)
              \/ PreSaveUnmoved(s)
              \/ Crash(s)
       PROVE  UNCHANGED db
  BY <1>11 DEF BeginInsert, BeginMove, BeginEdit, BeginDelete, AbandonMove,
               PreSaveUnmoved, Crash
<1>12. CASE UNCHANGED vars
  BY <1>1, <1>12 DEF vars
<1> QED
  BY <1>1, <1>3, <1>4, <1>5, <1>6, <1>7, <1>8, <1>9, <1>10, <1>11, <1>12,
     InsertKeepsForest DEF Next

\* The safety property of the parent key: on a clean table and with current
\* instances no insert, move, save, delete or rebuild makes a parent cycle,
\* in tables, sessions and scopes of any size.
THEOREM ForestCorrect == Spec => ForestKept
<1>1. Spec => []IInv
  BY InitIInv, NextIInv, PTL DEF Spec
<1> QED
  BY <1>1, NextForest, PTL DEF Spec, ForestKept

-----------------------------------------------------------------------------
(***************************************************************************)
(* Paths step by step                                                      *)
(***************************************************************************)
LEMMA AppendFacts ==
  ASSUME NEW p \in Seq(Int), NEW e \in Int
  PROVE  /\ Append(p, e) \in Seq(Int) /\ Append(p, e) # <<>>
         /\ Len(Append(p, e)) = Len(p) + 1
         /\ Append(p, e)[Len(p) + 1] = e
         /\ \A i \in 1..Len(p) : Append(p, e)[i] = p[i]
<1>1. /\ Append(p, e) \in Seq(Int) /\ Len(Append(p, e)) = Len(p) + 1
      /\ \A i \in 1..Len(p) : Append(p, e)[i] = p[i]
      /\ Append(p, e)[Len(p) + 1] = e
  BY AppendProperties, LenProperties
<1>2. Len(Append(p, e)) # 0
  BY <1>1, LenProperties
<1> QED
  BY <1>1, <1>2, EmptySeq

LEMMA SameAppend ==
  ASSUME NEW p \in Seq(Int), NEW q \in Seq(Int), NEW e \in Int, NEW f \in Int,
         Append(p, e) = Append(q, f)
  PROVE  p = q /\ e = f
<1>1. Len(p) = Len(q) /\ e = f
  BY AppendFacts, LenProperties
<1>2. \A i \in 1..Len(p) : p[i] = q[i]
  BY <1>1, AppendFacts
<1> QED
  BY <1>1, <1>2, SeqEqual

\* A prefix of a longer path is the path itself or a prefix of the shorter one.
LEMMA PrefixOfAppend ==
  ASSUME NEW s \in Seq(Int), NEW p \in Seq(Int), NEW e \in Int
  PROVE  /\ IsPrefix(s, Append(p, e)) <=> IsPrefix(s, p) \/ s = Append(p, e)
         /\ IsStrictPrefix(s, Append(p, e)) <=> IsPrefix(s, p)
<1> DEFINE a == Append(p, e)
<1>1. /\ a \in Seq(Int) /\ Len(a) = Len(p) + 1 /\ Len(p) \in Nat /\ Len(s) \in Nat
      /\ \A i \in 1..Len(p) : a[i] = p[i]
  BY AppendFacts, LenProperties
<1> HIDE DEF a
<1>2. IsPrefix(s, p) => IsPrefix(s, a) /\ s # a
  BY <1>1, PrefixByElements
<1>3. ASSUME IsPrefix(s, a), s # a PROVE IsPrefix(s, p)
 <2>1. Len(s) <= Len(a) /\ \A i \in 1..Len(s) : s[i] = a[i]
   BY <1>1, <1>3, PrefixByElements
 <2>2. Len(s) # Len(a)
   BY <1>1, <1>3, <2>1, SeqEqual
 <2>3. Len(s) <= Len(p) /\ \A i \in 1..Len(s) : s[i] = p[i]
   BY <1>1, <2>1, <2>2
 <2> QED
   BY <2>3, PrefixByElements
<1>4. IsPrefix(a, a)
  BY <1>1, PrefixReflexive
<1> QED
  BY <1>2, <1>3, <1>4 DEF a, IsStrictPrefix

(***************************************************************************)
(* A set of rows whose columns spell the tree above them: each path is the *)
(* path of the parent and one step more, taken from the order, and no two  *)
(* siblings have the same order.                                           *)
(***************************************************************************)
Spelled(d, R) ==
  /\ R \subseteq DOMAIN d
  /\ \A x \in R : /\ d[x].parent \in R \cup {NoParent}
                  /\ d[x].order \in Nat
                  /\ d[x].path = NewPath(PathOfParent(d, d[x].parent), d[x].order)
                  /\ d[x].path \in Path
                  /\ d[x].depth = Len(d[x].path) - 1
  /\ \A x, y \in R : d[x].parent = d[y].parent /\ d[x].order = d[y].order => x = y

LEMMA ParentPath ==
  ASSUME NEW d, NEW R, Spelled(d, R), NoParent \notin R, NEW p \in R \cup {NoParent}
  PROVE  /\ PathOfParent(d, p) \in Seq(Int)
         /\ p = NoParent <=> PathOfParent(d, p) = <<>>
         /\ p \in R => PathOfParent(d, p) = d[p].path /\ d[p].path # <<>>
<1>1. CASE p = NoParent
  BY <1>1, EmptySeq DEF PathOfParent
<1>2. CASE p \in R
 <2>1. d[p].path \in Path
   BY <1>2 DEF Spelled
 <2> QED
   BY <1>2, <2>1 DEF Path, PathOfParent
<1> QED
  BY <1>1, <1>2

LEMMA SpelledRow ==
  ASSUME NEW d, NEW R, Spelled(d, R), NoParent \notin R, NEW x \in R
  PROVE  /\ d[x].parent \in R \cup {NoParent}
         /\ d[x].order \in Nat /\ d[x].order + 1 \in Int
         /\ d[x].path \in Path /\ d[x].path \in Seq(Int)
         /\ PathOfParent(d, d[x].parent) \in Seq(Int)
         /\ d[x].path = Append(PathOfParent(d, d[x].parent), d[x].order + 1)
<1>1. /\ d[x].parent \in R \cup {NoParent} /\ d[x].order \in Nat /\ d[x].path \in Path
      /\ d[x].path = NewPath(PathOfParent(d, d[x].parent), d[x].order)
  BY DEF Spelled
<1>2. d[x].order + 1 \in Int
  BY <1>1
<1>3. d[x].path \in Seq(Int)
  BY <1>1 DEF Path
<1> QED
  BY <1>1, <1>2, <1>3, ParentPath DEF NewPath

LEMMA NonEmptyPrefix ==
  ASSUME NEW w \in Path, NEW p \in Seq(Int), IsPrefix(w, p)
  PROVE  p # <<>>
<1>1. Len(w) \in Nat /\ Len(w) # 0 /\ w \in Seq(Int)
  BY EmptySeq, LenProperties DEF Path
<1>2. Len(w) <= Len(p)
  BY <1>1, PrefixByElements
<1> QED
  BY <1>1, <1>2, EmptySeq

\* A path is a prefix of the parent's path exactly when it is a strict prefix
\* of the row's.
LEMMA PrefixOfRow ==
  ASSUME NEW d, NEW R, Spelled(d, R), NoParent \notin R, NEW x \in R, NEW w \in Path
  PROVE  IsPrefix(w, d[x].path) /\ w # d[x].path
           <=> d[x].parent \in R /\ IsPrefix(w, d[d[x].parent].path)
<1> DEFINE P == PathOfParent(d, d[x].parent)
           o == d[x].order + 1
           q == d[x].path
<1>1. /\ P \in Seq(Int) /\ o \in Int /\ q = Append(P, o) /\ w \in Seq(Int)
      /\ d[x].parent \in R \cup {NoParent}
  BY SpelledRow DEF Path
<1>2. /\ d[x].parent \in R => P = d[d[x].parent].path
      /\ d[x].parent \notin R => P = <<>>
  BY <1>1 DEF PathOfParent
<1> HIDE DEF P, o, q
<1>3. IsPrefix(w, q) /\ w # q <=> IsPrefix(w, P)
  BY <1>1, PrefixOfAppend DEF IsStrictPrefix
<1>4. IsPrefix(w, P) => P # <<>>
  BY <1>1, NonEmptyPrefix
<1> QED
  BY <1>2, <1>3, <1>4 DEF q

\* The path of a row determines the row.  Of the rows that share their path
\* with another one, one has a parent that does not.
LEMMA UniquePaths ==
  ASSUME NEW d, NEW R, Spelled(d, R), Forest(d), NoParent \notin R,
         NEW x \in R, NEW y \in R, d[x].path = d[y].path
  PROVE  x = y
<1> DEFINE C == {z \in R : \E u \in R \ {z} : d[u].path = d[z].path}
<1>1. C = {}
 <2> SUFFICES ASSUME C # {} PROVE FALSE
   OBVIOUS
 <2>1. C \in SUBSET DOMAIN d
   BY DEF Spelled
 <2>2. PICK z \in C : d[z].parent \notin C
   BY <2>1 DEF Forest
 <2>3. PICK u \in R \ {z} : d[u].path = d[z].path
   OBVIOUS
 <2> DEFINE p == d[z].parent
            q == d[u].parent
 <2>4. /\ p \in R \cup {NoParent} /\ q \in R \cup {NoParent}
       /\ d[z].order + 1 \in Int /\ d[u].order + 1 \in Int
       /\ d[z].order \in Nat /\ d[u].order \in Nat
       /\ d[z].path = Append(PathOfParent(d, p), d[z].order + 1)
       /\ d[u].path = Append(PathOfParent(d, q), d[u].order + 1)
   BY SpelledRow
 <2>5. PathOfParent(d, p) \in Seq(Int) /\ PathOfParent(d, q) \in Seq(Int)
   BY <2>4, ParentPath
 <2>6. PathOfParent(d, p) = PathOfParent(d, q) /\ d[z].order = d[u].order
  <3>1. Append(PathOfParent(d, p), d[z].order + 1) = Append(PathOfParent(d, q), d[u].order + 1)
    BY <2>3, <2>4
  <3>2. d[z].order + 1 = d[u].order + 1 /\ PathOfParent(d, p) = PathOfParent(d, q)
   <4> DEFINE e == d[z].order + 1
              f == d[u].order + 1
   <4>1. e \in Int /\ f \in Int /\ Append(PathOfParent(d, p), e) = Append(PathOfParent(d, q), f)
     BY <2>4, <3>1
   <4> HIDE DEF e, f, p, q
   <4>2. e = f /\ PathOfParent(d, p) = PathOfParent(d, q)
     BY <2>5, <4>1, SameAppend
   <4> QED
     BY <4>2 DEF e, f
  <3> QED
    BY <2>4, <3>2
 <2>7. p # q
   BY <2>3, <2>6 DEF Spelled
 <2>8. p \in R /\ q \in R /\ d[p].path = d[q].path
  <3> HIDE DEF p, q, C
  <3>1. p \in R /\ q \in R
    BY <2>4, <2>6, <2>7, ParentPath
  <3> QED
    BY <2>6, <3>1, ParentPath
 <2> QED
   BY <2>2, <2>7, <2>8
<1> QED
  BY <1>1

\* Every path that a row's path continues, itself included, belongs to a row.
LEMMA PrefixIsARow ==
  ASSUME NEW d, NEW R, Spelled(d, R), Forest(d), NoParent \notin R,
         NEW x \in R, NEW w \in Path, IsPrefix(w, d[x].path)
  PROVE  \E y \in R : d[y].path = w
<1> SUFFICES ASSUME \A y \in R : d[y].path # w PROVE FALSE
  OBVIOUS
<1> DEFINE C == {z \in R : IsPrefix(w, d[z].path)}
<1>1. C \in SUBSET DOMAIN d /\ C # {}
  BY DEF Spelled
<1>2. PICK z \in C : d[z].parent \notin C
  BY <1>1 DEF Forest
<1> DEFINE p == d[z].parent
<1>3. /\ p \in R \cup {NoParent} /\ d[z].order + 1 \in Int
      /\ d[z].path = Append(PathOfParent(d, p), d[z].order + 1)
  BY SpelledRow
<1>4. PathOfParent(d, p) \in Seq(Int)
  BY <1>3, ParentPath
<1>5. w \in Seq(Int) /\ w # <<>>
  BY DEF Path
<1>6. IsPrefix(w, PathOfParent(d, p))
 <2>1. IsPrefix(w, d[z].path) /\ w # d[z].path
   OBVIOUS
 <2> HIDE DEF p
 <2> QED
   BY <1>3, <1>4, <1>5, <2>1, PrefixOfAppend
<1>7. PathOfParent(d, p) # <<>>
 <2> HIDE DEF p
 <2> QED
   BY <1>4, <1>6, NonEmptyPrefix
<1>8. p \in R /\ PathOfParent(d, p) = d[p].path
  BY <1>3, <1>7, ParentPath
<1> QED
  BY <1>2, <1>6, <1>8

\* The rows whose paths continue the path of x are those that the parent key
\* leads to from x.
LEMMA PathsFollowParents ==
  ASSUME NEW d, Spelled(d, DOMAIN d), Forest(d), NoParent \notin DOMAIN d,
         NEW x \in DOMAIN d
  PROVE  Below(d, DOMAIN d, d[x].path) = Subtrees(d, {x}) \ {x}
<1> DEFINE R == DOMAIN d
           B == {y \in R : IsPrefix(d[x].path, d[y].path)}
<1>0. \A y \in R : d[y].path \in Path /\ d[y].path \in Seq(Int)
  BY DEF Spelled, Path
<1>1. ASSUME NEW y \in R
      PROVE  LET p == d[y].parent IN
             /\ p \in R \cup {NoParent} /\ d[y].order + 1 \in Int
             /\ PathOfParent(d, p) \in Seq(Int)
             /\ d[y].path = Append(PathOfParent(d, p), d[y].order + 1)
             /\ p \in R => PathOfParent(d, p) = d[p].path
             /\ p \notin R => PathOfParent(d, p) = <<>>
 <2>1. /\ d[y].parent \in R \cup {NoParent} /\ d[y].order + 1 \in Int
       /\ d[y].path = Append(PathOfParent(d, d[y].parent), d[y].order + 1)
   BY SpelledRow
 <2> QED
   BY <2>1, ParentPath
<1>2. \A y \in R : y # x => d[y].path # d[x].path
  BY UniquePaths
<1>3. Below(d, R, d[x].path) = B \ {x}
  BY <1>2 DEF Below, IsStrictPrefix
<1>4. Subtrees(d, {x}) \subseteq B
 <2>1. x \in B
   BY <1>0, PrefixReflexive
 <2>2. ASSUME NEW y \in R, d[y].parent \in B PROVE y \in B
  <3> DEFINE p == d[y].parent
  <3>1. p \in R /\ d[p].path \in Seq(Int) /\ IsPrefix(d[x].path, d[p].path)
    BY <1>0, <2>2
  <3>2. d[y].path = Append(d[p].path, d[y].order + 1) /\ d[y].order + 1 \in Int
    BY <1>1, <3>1
  <3> HIDE DEF p
  <3>3. IsPrefix(d[x].path, d[y].path)
    BY <1>0, <3>1, <3>2, PrefixOfAppend
  <3> QED
    BY <3>3
 <2>3. B \in SUBSET DOMAIN d /\ ClosedUnderChildren(d, B)
   BY <2>2 DEF ClosedUnderChildren
 <2> QED
   BY <2>1, <2>3 DEF Subtrees
<1>5. B \subseteq Subtrees(d, {x})
 <2> SUFFICES ASSUME NEW C \in SUBSET R, x \in C, ClosedUnderChildren(d, C)
              PROVE  B \subseteq C
   BY DEF Subtrees
 <2> DEFINE E == B \ C
 <2>1. ASSUME E # {} PROVE FALSE
  <3>1. PICK y \in E : d[y].parent \notin E
    BY <2>1 DEF Forest
  <3> DEFINE p == d[y].parent
  <3>2. y \in R /\ IsPrefix(d[x].path, d[y].path) /\ d[y].path # d[x].path /\ p \notin C
    BY <1>2 DEF ClosedUnderChildren
  <3>3. IsPrefix(d[x].path, PathOfParent(d, p))
   <4>1. /\ PathOfParent(d, p) \in Seq(Int) /\ d[y].order + 1 \in Int
         /\ d[y].path = Append(PathOfParent(d, p), d[y].order + 1)
     BY <1>1, <3>2
   <4> HIDE DEF p, E
   <4> QED
     BY <1>0, <3>2, <4>1, PrefixOfAppend
  <3>4. PathOfParent(d, p) # <<>>
   <4>1. PathOfParent(d, p) \in Seq(Int)
     BY <1>1, <3>2
   <4> HIDE DEF p
   <4> QED
     BY <1>0, <3>3, <4>1, NonEmptyPrefix
  <3>5. p \in R /\ PathOfParent(d, p) = d[p].path
    BY <1>1, <3>2, <3>4
  <3> QED
    BY <3>1, <3>2, <3>3, <3>5
 <2> QED
   BY <2>1
<1> QED
  BY <1>3, <1>4, <1>5

-----------------------------------------------------------------------------
\* The table is one numbering, not one per scope: no tree_scope_field.  With
\* several scopes the statements below are false of the code, whose prefix
\* queries and sibling renumbering look at the roots of all scopes together.
OneScope == \A x, y \in Node : ScopeOf[x] = ScopeOf[y]

Siblings(d, p) == Children(d, DOMAIN d, p)

LEMMA ExactIsSpelled ==
  ASSUME OneScope, NEW d, Table(d), Exact(d, ScopeOf)
  PROVE  /\ Spelled(d, DOMAIN d) /\ Forest(d) /\ NoParent \notin DOMAIN d
         /\ \A x \in DOMAIN d : d[x].order < Cardinality(Siblings(d, d[x].parent))
<1>1. \A x \in DOMAIN d : d[x].parent \in DOMAIN d \cup {NoParent}
  BY DEF Exact, Orphans
<1>2. \A x \in DOMAIN d : d[x].order \in Nat /\ d[x].path \in Path
  BY DEF Table, Row
<1>3. ASSUME NEW x \in DOMAIN d
      PROVE  {y \in DOMAIN d : /\ d[y].parent = d[x].parent
                               /\ d[x].parent = NoParent => ScopeOf[y] = ScopeOf[x]}
               = Siblings(d, d[x].parent)
  BY DEF OneScope, Siblings, Children, Table
<1>4. ASSUME NEW x \in DOMAIN d
      PROVE  /\ d[x].order < Cardinality(Siblings(d, d[x].parent))
             /\ \A y \in Siblings(d, d[x].parent) : d[y].order = d[x].order => y = x
             /\ d[x].path = NewPath(PathOfParent(d, d[x].parent), d[x].order)
             /\ d[x].depth = Len(d[x].path) - 1
  BY <1>3 DEF Exact
<1>5. NoParent \notin DOMAIN d
  BY NodeAssumption DEF Table, NoParent
<1>6. \A x, y \in DOMAIN d : d[x].parent = d[y].parent /\ d[x].order = d[y].order => x = y
  BY <1>4 DEF Siblings, Children
<1>7. Spelled(d, DOMAIN d)
  BY <1>1, <1>2, <1>4, <1>6 DEF Spelled
<1> QED
  BY <1>4, <1>5, <1>7 DEF Exact

LEMMA SpelledIsExact ==
  ASSUME OneScope, NEW d, WideTable(d), Spelled(d, DOMAIN d), Forest(d), NoParent \notin DOMAIN d,
         \A x \in DOMAIN d : d[x].order < Cardinality(Siblings(d, d[x].parent))
  PROVE  Exact(d, ScopeOf)
<1>1. Orphans(d) = {}
  BY DEF Spelled, Orphans
<1>2. ASSUME NEW x \in DOMAIN d
      PROVE  {y \in DOMAIN d : /\ d[y].parent = d[x].parent
                               /\ d[x].parent = NoParent => ScopeOf[y] = ScopeOf[x]}
               = Siblings(d, d[x].parent)
  BY DEF OneScope, Siblings, Children, WideTable
<1>3. ASSUME NEW x \in DOMAIN d
      PROVE  /\ d[x].order < Cardinality(Siblings(d, d[x].parent))
             /\ \A y \in Siblings(d, d[x].parent) : d[y].order = d[x].order => y = x
             /\ d[x].path = NewPath(PathOfParent(d, d[x].parent), d[x].order)
             /\ d[x].depth = Len(d[x].path) - 1
  BY DEF Spelled, Siblings, Children
<1> QED
  BY <1>1, <1>2, <1>3 DEF Exact

LEMMA ExactIsClean ==
  ASSUME OneScope, NEW d, Table(d), Exact(d, ScopeOf)
  PROVE  Clean(d, ScopeOf)
<1>1. Spelled(d, DOMAIN d) /\ Forest(d) /\ NoParent \notin DOMAIN d
  BY ExactIsSpelled
<1>2. Orphans(d) = {} /\ DepthMismatches(d) = {}
  BY <1>1 DEF Spelled, Orphans, DepthMismatches
<1>3. DuplicatePaths(d, ScopeOf) = {}
  BY <1>1, UniquePaths DEF DuplicatePaths
<1>4. PrefixViolations(d) = {}
 <2> SUFFICES ASSUME NEW x \in DOMAIN d, d[x].parent \in DOMAIN d
              PROVE  IsStrictPrefix(d[d[x].parent].path, d[x].path)
   BY DEF PrefixViolations
 <2> DEFINE p == d[x].parent
 <2>1. /\ d[p].path \in Seq(Int) /\ d[x].order + 1 \in Int /\ PathOfParent(d, p) = d[p].path
       /\ d[x].path = Append(d[p].path, d[x].order + 1)
  <3>1. /\ d[x].order + 1 \in Int /\ p \in DOMAIN d
        /\ d[x].path = Append(PathOfParent(d, p), d[x].order + 1)
    BY <1>1, SpelledRow
  <3> HIDE DEF p
  <3> QED
    BY <1>1, <3>1, SpelledRow DEF PathOfParent
 <2> HIDE DEF p
 <2>2. IsStrictPrefix(d[p].path, d[x].path)
   BY <2>1, PrefixReflexive, PrefixOfAppend
 <2> QED
   BY <2>2 DEF p
<1> QED
  BY <1>2, <1>3, <1>4 DEF Clean

-----------------------------------------------------------------------------
(***************************************************************************)
(* What ShiftSiblings does to a path: the step after base is changed when  *)
(* it is greater than from.                                                *)
(***************************************************************************)
StepShifts(base, from, q) ==
  Len(q) > Len(base) /\ IsPrefix(base, q) /\ q[Len(base) + 1] > from

ChangeStep(q, i, delta) == [q EXCEPT ![i] = @ + delta]

Shift(base, from, delta, q) ==
  IF StepShifts(base, from, q) THEN ChangeStep(q, Len(base) + 1, delta) ELSE q

LEMMA StepChange ==
  ASSUME NEW q \in Seq(Int), NEW i \in 1..Len(q), NEW delta \in Int
  PROVE  /\ ChangeStep(q, i, delta) \in Seq(Int)
         /\ Len(ChangeStep(q, i, delta)) = Len(q)
         /\ \A j \in 1..Len(q) :
              ChangeStep(q, i, delta)[j] = IF j = i THEN q[i] + delta ELSE q[j]
<1> DEFINE e == q[i] + delta
<1>1. q[i] \in Int
  BY ElementOfSeq
<1>2. e \in Int
  BY <1>1
<1>3. ChangeStep(q, i, delta) = [q EXCEPT ![i] = e]
  BY DEF ChangeStep
<1> HIDE DEF e
<1> DEFINE w == [q EXCEPT ![i] = e]
<1>4. w \in Seq(Int) /\ Len(w) = Len(q)
      /\ \A j \in 1..Len(q) : w[j] = IF j = i THEN e ELSE q[j]
  BY <1>2, ExceptSeq
<1> HIDE DEF w
<1>5. ChangeStep(q, i, delta) = w
  BY <1>3 DEF w
<1> QED
  BY <1>4, <1>5 DEF e

LEMMA ShiftType ==
  ASSUME NEW base \in Seq(Int), NEW q \in Seq(Int), NEW from \in Int, NEW delta \in Int
  PROVE  /\ Shift(base, from, delta, q) \in Seq(Int)
         /\ Len(Shift(base, from, delta, q)) = Len(q)
<1>1. Len(base) \in Nat /\ Len(q) \in Nat
  BY LenProperties
<1>2. StepShifts(base, from, q) => Len(base) + 1 \in 1..Len(q)
  BY <1>1 DEF StepShifts
<1> QED
  BY <1>2, StepChange DEF Shift

LEMMA ShiftFixed ==
  ASSUME NEW base \in Seq(Int), NEW from, NEW delta
  PROVE  /\ Shift(base, from, delta, base) = base
         /\ Shift(base, from, delta, <<>>) = <<>>
<1>1. Len(base) \in Nat /\ Len(<<>>) = 0
  BY LenProperties, EmptySeq
<1>2. ~StepShifts(base, from, base) /\ ~StepShifts(base, from, <<>>)
  BY <1>1 DEF StepShifts
<1> QED
  BY <1>2 DEF Shift

\* Shifting a path is shifting its last step, or the path before it.
LEMMA ShiftAppend ==
  ASSUME NEW base \in Seq(Int), NEW q \in Seq(Int), NEW o \in Int,
         NEW from \in Int, NEW delta \in Int
  PROVE  Shift(base, from, delta, Append(q, o)) =
           IF q = base /\ o > from THEN Append(q, o + delta)
           ELSE Append(Shift(base, from, delta, q), o)
<1> DEFINE a == Append(q, o)
           k == Len(base) + 1
           w == ChangeStep(a, k, delta)
           v == ChangeStep(q, k, delta)
<1>1. /\ a \in Seq(Int) /\ Len(a) = Len(q) + 1 /\ a[Len(q) + 1] = o
      /\ \A i \in 1..Len(q) : a[i] = q[i]
  BY AppendFacts
<1>2. Len(base) \in Nat /\ Len(q) \in Nat /\ k \in Nat
  BY LenProperties
<1>3. IsPrefix(base, a) <=> IsPrefix(base, q) \/ base = a
  BY PrefixOfAppend
<1>4. base = a => Len(base) = Len(q) + 1
  BY <1>1
<1>5. CASE q = base
 <2>1. StepShifts(base, from, a) <=> o > from
  <3>1. IsPrefix(base, a)
    BY <1>3, <1>5, PrefixReflexive
  <3> HIDE DEF a
  <3> QED
    BY <1>1, <1>2, <1>5, <3>1 DEF StepShifts
 <2>2. Shift(base, from, delta, q) = q
   BY <1>5, ShiftFixed
 <2>3. w = Append(q, o + delta)
  <3>1. o + delta \in Int
    OBVIOUS
  <3> DEFINE u == Append(q, o + delta)
  <3>2. /\ u \in Seq(Int) /\ Len(u) = Len(q) + 1 /\ u[Len(q) + 1] = o + delta
        /\ \A i \in 1..Len(q) : u[i] = q[i]
    BY <3>1, AppendFacts
  <3>3. k \in 1..Len(a) /\ k = Len(q) + 1
    BY <1>1, <1>2, <1>5
  <3>4. /\ w \in Seq(Int) /\ Len(w) = Len(a)
        /\ \A j \in 1..Len(a) : w[j] = IF j = k THEN a[k] + delta ELSE a[j]
   <4> HIDE DEF a, k
   <4> QED
     BY <1>1, <3>3, StepChange
  <3> HIDE DEF u, w, a, k
  <3>5. ASSUME NEW j \in 1..Len(w) PROVE w[j] = u[j]
   <4>1. j \in 1..Len(q) \/ j = Len(q) + 1
     BY <1>1, <1>2, <3>4
   <4>2. CASE j = Len(q) + 1
     BY <1>1, <1>2, <1>5, <3>2, <3>3, <3>4, <4>2
   <4>3. CASE j \in 1..Len(q)
     BY <1>1, <1>2, <3>2, <3>3, <3>4, <4>3
   <4> QED
     BY <4>1, <4>2, <4>3
  <3>6. w = u
    BY <1>1, <3>2, <3>4, <3>5, SeqEqual
  <3> QED
    BY <3>6 DEF u
 <2> QED
   BY <1>5, <2>1, <2>2, <2>3 DEF Shift
<1>6. CASE q # base
 <2>1. StepShifts(base, from, a) <=> StepShifts(base, from, q)
  <3>1. IsPrefix(base, q) => Len(base) < Len(q)
   <4>1. ASSUME IsPrefix(base, q), ~(Len(base) < Len(q)) PROVE FALSE
     BY <1>2, <1>6, <4>1, PrefixByElements, SeqEqual
   <4> QED
     BY <4>1
  <3>2. ASSUME IsPrefix(base, q) PROVE a[k] = q[k] /\ Len(a) > Len(base)
   <4>1. k \in 1..Len(q)
     BY <1>2, <3>1, <3>2
   <4> HIDE DEF a, k
   <4> QED
     BY <1>1, <1>2, <3>1, <3>2, <4>1
  <3>3. Len(a) > Len(base) /\ IsPrefix(base, a) => IsPrefix(base, q)
   <4> HIDE DEF a, k
   <4> QED
     BY <1>1, <1>2, <1>3, <1>4
  <3>4. IsPrefix(base, q) => IsPrefix(base, a)
    BY <1>3
  <3> HIDE DEF a, v, w
  <3> QED
    BY <3>1, <3>2, <3>3, <3>4 DEF StepShifts
 <2>2. CASE ~StepShifts(base, from, q)
   BY <1>6, <2>1, <2>2 DEF Shift
 <2>3. CASE StepShifts(base, from, q)
  <3> DEFINE u == Append(v, o)
  <3>1. k \in 1..Len(q) /\ k \in 1..Len(a)
    BY <1>1, <1>2, <2>3 DEF StepShifts
  <3>2. /\ w \in Seq(Int) /\ Len(w) = Len(a)
        /\ \A j \in 1..Len(a) : w[j] = IF j = k THEN a[k] + delta ELSE a[j]
   <4> HIDE DEF a, k
   <4> QED
     BY <1>1, <3>1, StepChange
  <3>3. /\ v \in Seq(Int) /\ Len(v) = Len(q)
        /\ \A j \in 1..Len(q) : v[j] = IF j = k THEN q[k] + delta ELSE q[j]
   <4> HIDE DEF a, k, w, u
   <4>1. q \in Seq(Int) /\ k \in 1..Len(q) /\ delta \in Int
     BY <3>1
   <4> QED
     BY <4>1, StepChange
  <3> HIDE DEF v, w, a, k
  <3>4. /\ u \in Seq(Int) /\ Len(u) = Len(v) + 1 /\ u[Len(v) + 1] = o
        /\ \A i \in 1..Len(v) : u[i] = v[i]
    BY <3>3, AppendFacts
  <3> HIDE DEF u
  <3>5. ASSUME NEW j \in 1..Len(w) PROVE w[j] = u[j]
   <4>1. j \in 1..Len(q) \/ j = Len(q) + 1
     BY <1>1, <1>2, <3>2
   <4>2. CASE j = Len(q) + 1
     BY <1>1, <1>2, <3>1, <3>2, <3>3, <3>4, <4>2
   <4>3. CASE j \in 1..Len(q)
    <5>1. w[j] = IF j = k THEN q[k] + delta ELSE q[j]
      BY <1>1, <1>2, <3>1, <3>2, <4>3
    <5>2. u[j] = v[j]
      BY <3>3, <3>4, <4>3
    <5> QED
      BY <3>3, <4>3, <5>1, <5>2
   <4> QED
     BY <4>1, <4>2, <4>3
  <3>6. w = u
    BY <1>1, <3>2, <3>3, <3>4, <3>5, SeqEqual
  <3> QED
    BY <1>6, <2>1, <2>3, <3>6 DEF Shift, u, v, w, a, k
 <2> QED
   BY <2>2, <2>3
<1> QED
  BY <1>5, <1>6

\* The first step of a path is the order of a root, plus one.
LEMMA FirstStep ==
  ASSUME NEW d, NEW R, Spelled(d, R), Forest(d), NoParent \notin R, NEW x \in R
  PROVE  d[x].path[1] > 0
<1> DEFINE C == {z \in R : ~(d[z].path[1] > 0)}
<1>1. C = {}
 <2> SUFFICES ASSUME C # {} PROVE FALSE
   OBVIOUS
 <2>1. C \in SUBSET DOMAIN d
   BY DEF Spelled
 <2>2. PICK z \in C : d[z].parent \notin C
   BY <2>1 DEF Forest
 <2> DEFINE p == d[z].parent
            P == PathOfParent(d, p)
 <2>3. /\ p \in R \cup {NoParent} /\ d[z].order \in Nat /\ d[z].order + 1 \in Int
       /\ P \in Seq(Int) /\ d[z].path = Append(P, d[z].order + 1)
   BY SpelledRow
 <2>4. CASE p = NoParent
  <3>1. P = <<>> /\ Len(P) = 0
    BY <2>4, EmptySeq DEF PathOfParent
  <3> HIDE DEF P, p
  <3>2. d[z].path[1] = d[z].order + 1
    BY <2>3, <3>1, AppendFacts
  <3> QED
    BY <2>3, <3>2
 <2>5. CASE p \in R
  <3>1. P = d[p].path /\ P # <<>> /\ d[p].path[1] > 0
    BY <2>2, <2>5, ParentPath
  <3> HIDE DEF P, p
  <3>2. 1 \in 1..Len(P)
    BY <2>3, <3>1, EmptySeq
  <3>3. d[z].path[1] = P[1]
    BY <2>3, <3>2, AppendFacts
  <3> QED
    BY <3>1, <3>3
 <2> QED
   BY <2>3, <2>4, <2>5
<1> QED
  BY <1>1

\* Among spelled rows the path of the parent tells the parent.
LEMMA ParentByPath ==
  ASSUME NEW d, NEW R, Spelled(d, R), Forest(d), NoParent \notin R,
         NEW p \in R \cup {NoParent}, NEW q \in R \cup {NoParent},
         PathOfParent(d, p) = PathOfParent(d, q)
  PROVE  p = q
<1>1. p = NoParent <=> q = NoParent
  BY ParentPath
<1>2. CASE p \in R /\ q \in R
  BY <1>2, ParentPath, UniquePaths
<1> QED
  BY <1>1, <1>2

-----------------------------------------------------------------------------
(***************************************************************************)
(* ShiftSiblings among spelled rows.  R are the rows that keep their place *)
(* in the table; the paths of the others begin with the placeholder.  S    *)
(* are the children of p from the order g on, and perhaps rows outside R:  *)
(* what they find by their computed path is found by a row of R as well.   *)
(***************************************************************************)
Renumbers(d, R, S, p, g) ==
  /\ S \subseteq DOMAIN d
  /\ \A x \in R : x \in S <=> d[x].parent = p /\ d[x].order >= g
  /\ \A x \in S : d[x].order >= g
  /\ \A x \in DOMAIN d \ R : d[x].path[1] = 0

\* A row is found below the computed path of a sibling exactly when its own
\* path shifts.
LEMMA FoundBelow ==
  ASSUME NEW d, NEW R, NEW S, NEW p \in R \cup {NoParent}, NEW g \in Nat,
         WideTable(d), Spelled(d, R), Forest(d), NoParent \notin R, Renumbers(d, R, S, p, g),
         NEW x \in R
  PROVE  (\E s \in S : IsStrictPrefix(NewPath(PathOfParent(d, p), d[s].order), d[x].path))
           <=> x \notin S /\ StepShifts(PathOfParent(d, p), g, d[x].path)
<1> DEFINE b == PathOfParent(d, p)
           q == d[x].path
           k == Len(b) + 1
           w(s) == NewPath(b, d[s].order)
<1>1. b \in Seq(Int) /\ q \in Seq(Int) /\ Len(b) \in Nat /\ Len(q) \in Nat /\ k \in Nat
  BY ParentPath, SpelledRow, LenProperties
<1>2. ASSUME NEW s \in S
      PROVE  /\ d[s].order \in Int /\ d[s].order + 1 \in Int /\ d[s].order + 1 > g
             /\ w(s) = Append(b, d[s].order + 1)
 <2>1. d[s].order \in Int /\ d[s].order >= g
   BY DEF Renumbers, WideTable, WideRow
 <2> QED
   BY <2>1 DEF NewPath
<1>3. x \in S => q = Append(b, d[x].order + 1) /\ d[x].order + 1 \in Int
  BY SpelledRow DEF Renumbers
<1> HIDE DEF b, q, k
<1>4. ASSUME NEW s \in S, IsStrictPrefix(w(s), q)
      PROVE  x \notin S /\ StepShifts(b, g, q)
 <2> DEFINE o == d[s].order + 1
 <2>1. o \in Int /\ o > g /\ w(s) = Append(b, o)
   BY <1>2
 <2> HIDE DEF o, w
 <2>2. /\ w(s) \in Seq(Int) /\ Len(w(s)) = Len(b) + 1 /\ w(s)[Len(b) + 1] = o
       /\ \A i \in 1..Len(b) : w(s)[i] = b[i]
   BY <1>1, <2>1, AppendFacts
 <2>3. /\ Len(w(s)) <= Len(q) /\ \A i \in 1..Len(w(s)) : w(s)[i] = q[i]
       /\ Len(w(s)) # Len(q)
   BY <1>1, <1>4, <2>2, PrefixByElements, SeqEqual DEF IsStrictPrefix
 <2>4. Len(b) < Len(q) /\ q[Len(b) + 1] = o /\ IsPrefix(b, q)
  <3>1. Len(b) + 1 \in 1..Len(w(s)) /\ \A i \in 1..Len(b) : i \in 1..Len(w(s))
    BY <1>1, <2>2
  <3>2. Len(b) < Len(q) /\ q[Len(b) + 1] = o /\ \A i \in 1..Len(b) : b[i] = q[i]
    BY <1>1, <2>2, <2>3, <3>1
  <3> QED
    BY <1>1, <3>2, PrefixByElements
 <2>5. StepShifts(b, g, q)
   BY <1>1, <2>1, <2>4 DEF StepShifts
 <2>6. x \notin S
  <3> SUFFICES ASSUME x \in S PROVE FALSE
    OBVIOUS
  <3>1. Len(q) = Len(b) + 1
    BY <1>1, <1>3, AppendFacts
  <3> QED
    BY <2>2, <2>3, <3>1
 <2> QED
   BY <2>5, <2>6
<1>5. ASSUME x \notin S, StepShifts(b, g, q)
      PROVE  \E s \in S : IsStrictPrefix(w(s), q)
 <2> DEFINE o == q[Len(b) + 1]
            v == Append(b, o)
 <2>1. Len(b) < Len(q) /\ IsPrefix(b, q) /\ o > g /\ o \in Int
   BY <1>1, <1>5, ElementOfSeq DEF StepShifts
 <2> HIDE DEF o
 <2>2. /\ v \in Seq(Int) /\ v # <<>> /\ Len(v) = Len(b) + 1 /\ v[Len(b) + 1] = o
       /\ \A i \in 1..Len(b) : v[i] = b[i]
   BY <1>1, <2>1, AppendFacts
 <2> HIDE DEF v
 <2>3. IsPrefix(v, q)
  <3>1. \A i \in 1..Len(b) : b[i] = q[i]
    BY <1>1, <2>1, PrefixByElements
  <3>2. ASSUME NEW i \in 1..Len(v) PROVE v[i] = q[i]
   <4>1. i \in 1..Len(b) \/ i = Len(b) + 1
     BY <1>1, <2>2
   <4>2. o = q[Len(b) + 1]
     BY DEF o
   <4> QED
     BY <2>2, <3>1, <4>1, <4>2
  <3>3. Len(v) <= Len(q)
    BY <1>1, <2>1, <2>2
  <3> HIDE DEF o, w
  <3> QED
    BY <1>1, <2>2, <3>2, <3>3, PrefixByElements
 <2>4. PICK y \in R : d[y].path = v
   BY <2>2, <2>3, PrefixIsARow DEF q, Path
 <2> DEFINE P == PathOfParent(d, d[y].parent)
            m == d[y].order + 1
 <2>5. /\ P \in Seq(Int) /\ m \in Int /\ d[y].order \in Nat /\ Append(P, m) = Append(b, o)
       /\ d[y].parent \in R \cup {NoParent}
   BY <2>4, SpelledRow DEF v
 <2>6. P = b /\ m = o
  <3>1. P \in Seq(Int) /\ m \in Int /\ Append(P, m) = Append(b, o)
    BY <2>5
  <3> HIDE DEF P, m
  <3> QED
    BY <1>1, <2>1, <3>1, SameAppend
 <2>7. d[y].parent = p
   BY <2>5, <2>6, ParentByPath DEF b
 <2>8. d[y].order >= g
   BY <2>1, <2>5, <2>6
 <2>9. y \in S
   BY <2>7, <2>8 DEF Renumbers
 <2>10. w(y) = v
   BY <2>6, <2>9, <1>2 DEF v
 <2>11. v # q
  <3>1. y # x
    BY <1>5, <2>9
  <3> QED
    BY <2>4, <3>1, UniquePaths DEF q
 <2> QED
   BY <2>3, <2>9, <2>10, <2>11 DEF IsStrictPrefix
<1> QED
  BY <1>4, <1>5 DEF b, q

\* The rows in the subtree of the moved node carry the placeholder: no
\* computed path is a prefix of theirs.
LEMMA PlaceholderNotFound ==
  ASSUME NEW d, NEW R, NEW S, NEW p \in R \cup {NoParent}, NEW g \in Nat,
         WideTable(d), Spelled(d, R), Forest(d), NoParent \notin R, Renumbers(d, R, S, p, g),
         NEW x \in DOMAIN d \ R, NEW s \in S
  PROVE  ~IsStrictPrefix(NewPath(PathOfParent(d, p), d[s].order), d[x].path)
<1> DEFINE b == PathOfParent(d, p)
           q == d[x].path
           o == d[s].order + 1
           v == Append(b, o)
<1>1. b \in Seq(Int) /\ Len(b) \in Nat /\ q \in Seq(Int) /\ q[1] = 0
  BY ParentPath, LenProperties, PathFacts DEF WideTable, WideRow, Renumbers
<1>2. o \in Int /\ o > 0
 <2>1. d[s].order \in Int /\ d[s].order >= g
   BY DEF Renumbers, WideTable, WideRow
 <2> QED
   BY <2>1
<1>3. v[1] > 0
 <2>1. CASE p = NoParent
  <3>1. b = <<>> /\ Len(b) = 0
    BY <2>1, EmptySeq DEF PathOfParent
  <3> HIDE DEF b, o
  <3> QED
    BY <1>1, <1>2, <3>1, AppendFacts
 <2>2. CASE p \in R
  <3>1. b = d[p].path /\ b # <<>> /\ b[1] > 0
    BY <2>2, ParentPath, FirstStep
  <3> HIDE DEF b, o
  <3>2. 1 \in 1..Len(b)
    BY <1>1, <3>1, EmptySeq
  <3> QED
    BY <1>1, <1>2, <3>1, <3>2, AppendFacts
 <2> QED
   BY <2>1, <2>2
<1> HIDE DEF b, o, q
<1>4. v \in Seq(Int) /\ 1 \in 1..Len(v)
  BY <1>1, <1>2, AppendFacts
<1> HIDE DEF v
<1>5. ~IsPrefix(v, q)
  BY <1>1, <1>3, <1>4, PrefixByElements
<1> QED
  BY <1>5 DEF IsStrictPrefix, NewPath, v, b, q, o

Renumbered(d, R, S, p, g, delta, e) ==
  /\ p \in R \cup {NoParent} /\ g \in Nat /\ delta \in Int
  /\ WideTable(d) /\ Spelled(d, R) /\ Forest(d) /\ NoParent \notin R
  /\ Renumbers(d, R, S, p, g)
  /\ e = ShiftSiblings(d, DOMAIN d, S, PathOfParent(d, p), delta)

LEMMA ShiftedRows ==
  ASSUME NEW d, NEW R, NEW S, NEW p, NEW g, NEW delta, NEW e,
         Renumbered(d, R, S, p, g, delta, e)
  PROVE  /\ \A x \in R : /\ e[x].path = Shift(PathOfParent(d, p), g, delta, d[x].path)
                         /\ e[x].order = IF x \in S THEN d[x].order + delta ELSE d[x].order
                         /\ e[x].depth = d[x].depth
         /\ \A x \in DOMAIN d \ (R \cup S) : e[x] = d[x]
<1> DEFINE b == PathOfParent(d, p)
<1>0. /\ p \in R \cup {NoParent} /\ g \in Nat /\ delta \in Int
      /\ WideTable(d) /\ Spelled(d, R) /\ Forest(d) /\ NoParent \notin R
      /\ Renumbers(d, R, S, p, g) /\ e = ShiftSiblings(d, DOMAIN d, S, b, delta)
  BY DEF Renumbered
<1> USE <1>0
<1> DEFINE found(x) == \E s \in S : /\ IsStrictPrefix(NewPath(b, d[s].order), d[x].path)
                                    /\ x \in S => (d[s].order - d[x].order) * delta <= 0
           sib(x) == [d[x] EXCEPT !.path = NewPath(b, d[x].order + delta), !.order = @ + delta]
           sub(r, path) == [r EXCEPT !.path = path, !.depth = Len(path) - 1]
<1>1. \A x \in DOMAIN d :
        e[x] = LET r == IF x \in S THEN sib(x) ELSE d[x]
               IN  IF found(x)
                   THEN sub(r, ChangeStep(d[x].path, Len(b) + 1, delta))
                   ELSE r
  BY DEF ShiftSiblings, ChangeStep
<1>2. b \in Seq(Int) /\ Len(b) \in Nat
  BY ParentPath, LenProperties
<1>3. \A x \in DOMAIN d : d[x] \in WideRow
  BY DEF WideTable
<1>4. ASSUME NEW x \in DOMAIN d, ~found(x), x \in S
      PROVE  /\ e[x].path = NewPath(b, d[x].order + delta) /\ e[x].order = d[x].order + delta
             /\ e[x].depth = d[x].depth
 <2>1. e[x] = sib(x)
   BY <1>1, <1>4
 <2> QED
   BY <1>3, <2>1 DEF WideRow
<1>5. ASSUME NEW x \in DOMAIN d, ~found(x), x \notin S
      PROVE  e[x] = d[x]
  BY <1>1, <1>5
<1>6. ASSUME NEW x \in DOMAIN d, found(x), x \notin S
      PROVE  LET path == ChangeStep(d[x].path, Len(b) + 1, delta) IN
             /\ e[x].path = path /\ e[x].depth = Len(path) - 1 /\ e[x].order = d[x].order
 <2> DEFINE path == ChangeStep(d[x].path, Len(b) + 1, delta)
 <2> HIDE DEF path
 <2>1. e[x] = sub(d[x], path)
   BY <1>1, <1>6 DEF path
 <2>2. /\ e[x].path = path /\ e[x].depth = Len(path) - 1 /\ e[x].order = d[x].order
   BY <1>3, <2>1 DEF WideRow
 <2> QED
   BY <2>2 DEF path
<1> DEFINE below(x) == \E s \in S : IsStrictPrefix(NewPath(b, d[s].order), d[x].path)
<1>7. \A x \in R : below(x) <=> x \notin S /\ StepShifts(b, g, d[x].path)
  BY FoundBelow
<1>8. \A x \in DOMAIN d \ R : ~below(x)
  BY PlaceholderNotFound
<1>9. /\ \A x \in R : found(x) <=> x \notin S /\ StepShifts(b, g, d[x].path)
      /\ \A x \in DOMAIN d \ R : ~found(x)
  BY <1>7, <1>8
<1>10. R \subseteq DOMAIN d
  BY DEF Spelled
<1> HIDE DEF found, below, b
<1>11. ASSUME NEW x \in R
       PROVE  /\ e[x].path = Shift(b, g, delta, d[x].path)
              /\ e[x].order = IF x \in S THEN d[x].order + delta ELSE d[x].order
              /\ e[x].depth = d[x].depth
 <2>1. CASE x \in S
  <3> DEFINE o == d[x].order + 1
  <3>1. /\ d[x].path = Append(b, o) /\ o \in Int /\ o > g /\ d[x].order \in Nat
   <4>1. d[x].parent = p /\ d[x].order >= g
     BY <2>1 DEF Renumbers
   <4>2. /\ d[x].path = Append(PathOfParent(d, d[x].parent), o) /\ o \in Int
         /\ d[x].order \in Nat
     BY SpelledRow
   <4> QED
     BY <4>1, <4>2 DEF b
  <3>2. /\ e[x].path = NewPath(b, d[x].order + delta) /\ e[x].order = d[x].order + delta
        /\ e[x].depth = d[x].depth
    BY <1>4, <1>9, <1>10, <2>1
  <3>3. d[x].order + delta + 1 = o + delta
    BY <3>1
  <3>4. e[x].path = Append(b, o + delta)
    BY <3>2, <3>3 DEF NewPath
  <3> HIDE DEF o
  <3>5. Shift(b, g, delta, d[x].path) = Append(b, o + delta)
    BY <1>2, <3>1, ShiftAppend
  <3> QED
    BY <2>1, <3>2, <3>4, <3>5
 <2>2. CASE x \notin S /\ ~StepShifts(b, g, d[x].path)
   BY <1>5, <1>9, <1>10, <2>2 DEF Shift
 <2>3. CASE x \notin S /\ StepShifts(b, g, d[x].path)
  <3> DEFINE path == ChangeStep(d[x].path, Len(b) + 1, delta)
  <3>1. /\ e[x].path = path /\ e[x].depth = Len(path) - 1 /\ e[x].order = d[x].order
    BY <1>6, <1>9, <1>10, <2>3
  <3>2. d[x].path \in Seq(Int) /\ d[x].depth = Len(d[x].path) - 1
    BY SpelledRow DEF Spelled
  <3>3. Len(b) + 1 \in 1..Len(d[x].path)
    BY <1>2, <2>3, <3>2, LenProperties DEF StepShifts
  <3>4. Len(path) = Len(d[x].path)
    BY <3>2, <3>3, StepChange
  <3> QED
    BY <2>3, <3>1, <3>2, <3>4 DEF Shift
 <2> QED
   BY <2>1, <2>2, <2>3
<1>12. \A x \in DOMAIN d \ (R \cup S) : e[x] = d[x]
  BY <1>5, <1>9
<1> QED
  BY <1>11, <1>12 DEF b

\* The rows are spelled again, and the path of p is what it was.
LEMMA ShiftKeepsSpelling ==
  ASSUME NEW d, NEW R, NEW S, NEW p, NEW g, NEW delta, NEW e,
         Renumbered(d, R, S, p, g, delta, e),
         \A x \in R : x \in S => d[x].order + delta \in Nat,
         \A x, y \in R : /\ x \in S /\ y \notin S
                         => d[y].parent # p \/ d[x].order + delta # d[y].order
  PROVE  /\ Spelled(e, R) /\ Forest(e) /\ WideTable(e) /\ DOMAIN e = DOMAIN d
         /\ PathOfParent(e, p) = PathOfParent(d, p)
         /\ \A x \in DOMAIN d : e[x].parent = d[x].parent
<1> DEFINE b == PathOfParent(d, p)
<1>0. /\ p \in R \cup {NoParent} /\ g \in Nat /\ delta \in Int
      /\ WideTable(d) /\ Spelled(d, R) /\ Forest(d) /\ NoParent \notin R
      /\ Renumbers(d, R, S, p, g) /\ e = ShiftSiblings(d, DOMAIN d, S, b, delta)
  BY DEF Renumbered
<1>1. /\ \A x \in R : /\ e[x].path = Shift(b, g, delta, d[x].path)
                      /\ e[x].order = IF x \in S THEN d[x].order + delta ELSE d[x].order
                      /\ e[x].depth = d[x].depth
  BY ShiftedRows
<1> USE <1>0
<1>2. b \in Seq(Int)
  BY ParentPath
<1>3. /\ WideTable(e) /\ DOMAIN e = DOMAIN d
      /\ \A x \in DOMAIN d : e[x].parent = d[x].parent
 <2>1. S \subseteq DOMAIN d
   BY DEF Renumbers
 <2> HIDE DEF b
 <2> QED
   BY <1>2, <2>1, ShiftSiblingsFacts
<1>4. R \subseteq DOMAIN d
  BY DEF Spelled
<1> HIDE DEF b
<1>5. Forest(e)
  BY <1>3, SameParentsForest
<1>6. \A m \in R \cup {NoParent} : PathOfParent(e, m) = Shift(b, g, delta, PathOfParent(d, m))
 <2> TAKE m \in R \cup {NoParent}
 <2>1. CASE m = NoParent
   BY <1>2, <2>1, ShiftFixed DEF PathOfParent
 <2>2. CASE m \in R
   BY <1>1, <2>2 DEF PathOfParent
 <2> QED
   BY <2>1, <2>2
<1>7. PathOfParent(e, p) = b
  BY <1>2, <1>6, ShiftFixed DEF b
<1>8. ASSUME NEW x \in R
      PROVE  /\ e[x].parent \in R \cup {NoParent}
             /\ e[x].order \in Nat
             /\ e[x].path = NewPath(PathOfParent(e, e[x].parent), e[x].order)
             /\ e[x].path \in Path
             /\ e[x].depth = Len(e[x].path) - 1
 <2> DEFINE m == d[x].parent
            P == PathOfParent(d, m)
            o == d[x].order + 1
 <2>1. /\ m \in R \cup {NoParent} /\ d[x].order \in Nat /\ o \in Int
       /\ P \in Seq(Int) /\ d[x].path = Append(P, o) /\ d[x].path \in Seq(Int)
   BY SpelledRow
 <2>2. e[x].order \in Nat
   BY <1>1, <2>1
 <2>3. e[x].parent = m
   BY <1>3, <1>4
 <2>4. e[x].path \in Path
   BY <1>3, <1>4 DEF WideTable, WideRow
 <2>5. Len(e[x].path) = Len(d[x].path)
  <3>1. d[x].path \in Seq(Int)
    BY <2>1
  <3> HIDE DEF P, m, o
  <3> QED
    BY <1>1, <1>2, <3>1, ShiftType
 <2>6. d[x].depth = Len(d[x].path) - 1
   BY DEF Spelled
 <2>7. P = b <=> m = p
   BY <2>1, ParentByPath DEF b
 <2>8. x \in S <=> P = b /\ o > g
  <3>1. x \in S <=> m = p /\ d[x].order >= g
    BY DEF Renumbers
  <3>2. d[x].order >= g <=> o > g
    BY <2>1
  <3> QED
    BY <2>7, <3>1, <3>2
 <2>9. e[x].path = IF x \in S THEN Append(P, o + delta) ELSE Append(Shift(b, g, delta, P), o)
  <3> HIDE DEF P, o, m
  <3>1. Shift(b, g, delta, Append(P, o)) =
          IF P = b /\ o > g THEN Append(P, o + delta) ELSE Append(Shift(b, g, delta, P), o)
    BY <1>2, <2>1, ShiftAppend
  <3> QED
    BY <1>1, <2>1, <2>8, <3>1
 <2>10. PathOfParent(e, m) = Shift(b, g, delta, P)
   BY <1>6, <2>1
 <2>11. e[x].path = Append(PathOfParent(e, m), e[x].order + 1)
  <3>1. CASE x \in S
   <4>1. e[x].order + 1 = o + delta
     BY <1>1, <2>1, <3>1
   <4>2. PathOfParent(e, m) = P
     BY <1>2, <2>8, <2>10, <3>1, ShiftFixed
   <4> QED
     BY <2>9, <3>1, <4>1, <4>2
  <3>2. CASE x \notin S
    BY <1>1, <2>9, <2>10, <3>2
  <3> QED
    BY <3>1, <3>2
 <2> QED
   BY <1>1, <2>1, <2>2, <2>3, <2>4, <2>5, <2>6, <2>11 DEF NewPath
<1>9. ASSUME NEW x \in R, NEW y \in R, e[x].parent = e[y].parent, e[x].order = e[y].order
      PROVE  x = y
 <2>1. d[x].parent = d[y].parent /\ d[x].order \in Nat /\ d[y].order \in Nat
   BY <1>3, <1>4, <1>9 DEF Spelled
 <2>2. x \in S => d[x].parent = p
   BY DEF Renumbers
 <2>3. y \in S => d[y].parent = p
   BY DEF Renumbers
 <2>4. d[x].order = d[y].order
  <3>1. CASE x \in S /\ y \in S
    BY <1>1, <1>9, <2>1, <3>1
  <3>2. CASE x \notin S /\ y \notin S
    BY <1>1, <1>9, <2>1, <3>2
  <3>3. CASE x \in S /\ y \notin S
    BY <1>1, <1>9, <2>1, <2>2, <3>3
  <3>4. CASE x \notin S /\ y \in S
    BY <1>1, <1>9, <2>1, <2>3, <3>4
  <3> QED
    BY <3>1, <3>2, <3>3, <3>4
 <2> QED
   BY <2>1, <2>4 DEF Spelled
<1>10. Spelled(e, R)
  BY <1>3, <1>4, <1>8, <1>9 DEF Spelled
<1> QED
  BY <1>3, <1>5, <1>7, <1>10 DEF b

-----------------------------------------------------------------------------
\* Rows that are copied with their parents are spelled as before.
LEMMA SameRowsSpelled ==
  ASSUME NEW d, NEW R, Spelled(d, R), NoParent \notin R,
         NEW e, R \subseteq DOMAIN e, \A x \in R : e[x] = d[x]
  PROVE  /\ Spelled(e, R)
         /\ \A p \in R \cup {NoParent} : PathOfParent(e, p) = PathOfParent(d, p)
<1>1. \A p \in R \cup {NoParent} : PathOfParent(e, p) = PathOfParent(d, p)
  BY DEF PathOfParent
<1>2. \A x \in R : d[x].parent \in R \cup {NoParent}
  BY DEF Spelled
<1> QED
  BY <1>1, <1>2 DEF Spelled

(***************************************************************************)
(* A move of the row n, on a table whose columns spell the tree, to a plan *)
(* that has current data.  The rows R are those that are not n or below    *)
(* it; the new parent is one of them.                                      *)
(***************************************************************************)
Staying(d, n) == {x \in DOMAIN d : ~IsPrefix(d[n].path, d[x].path)}

Moving(d, n, plan, R) ==
  /\ Table(d) /\ Spelled(d, DOMAIN d) /\ Forest(d) /\ NoParent \notin DOMAIN d
  /\ n \in DOMAIN d
  /\ R = Staying(d, n)
  /\ plan \in Plan /\ plan.order \in Nat
  /\ plan.parent \in R \cup {NoParent}
  /\ plan.base = PathOfParent(d, plan.parent)
  /\ plan.depth = Len(plan.base)
  /\ \A x \in Siblings(d, d[n].parent) :
       d[x].order > d[n].order => plan.parent \notin Subtrees(d, {x})

LEMMA StayingRows ==
  ASSUME NEW d, NEW n, NEW plan, NEW R, Moving(d, n, plan, R)
  PROVE  /\ R \subseteq DOMAIN d /\ n \notin R /\ NoParent \notin R
         /\ Spelled(d, R)
         /\ d[n].parent \in R \cup {NoParent}
         /\ Below(d, DOMAIN d, d[n].path) = DOMAIN d \ (R \cup {n})
         /\ \A x \in DOMAIN d \ (R \cup {n}) :
              /\ d[x].parent \in DOMAIN d \ R
              /\ d[x].parent # NoParent
              /\ IsPrefix(d[n].path, d[d[x].parent].path)
              /\ d[x].path = Append(d[d[x].parent].path, d[x].order + 1)
<1>0. /\ Spelled(d, DOMAIN d) /\ Forest(d) /\ NoParent \notin DOMAIN d /\ n \in DOMAIN d
      /\ R = {x \in DOMAIN d : ~IsPrefix(d[n].path, d[x].path)}
  BY DEF Moving, Staying
<1>1. \A x \in DOMAIN d : d[x].path \in Path /\ d[x].path \in Seq(Int)
  BY <1>0, SpelledRow
<1>2. n \notin R
  BY <1>0, <1>1, PrefixReflexive
<1>3. ASSUME NEW x \in R PROVE d[x].parent \in R \cup {NoParent}
 <2>1. d[x].parent \in DOMAIN d \cup {NoParent}
   BY <1>0, SpelledRow
 <2>2. d[x].parent \in DOMAIN d => ~IsPrefix(d[n].path, d[d[x].parent].path)
   BY <1>0, <1>1, PrefixOfRow
 <2> QED
   BY <1>0, <2>1, <2>2
<1>4. d[n].parent \in R \cup {NoParent}
 <2>1. d[n].parent \in DOMAIN d \cup {NoParent}
   BY <1>0, SpelledRow
 <2>2. d[n].parent \in DOMAIN d => ~IsPrefix(d[n].path, d[d[n].parent].path)
   BY <1>0, <1>1, PrefixOfRow
 <2> QED
   BY <1>0, <2>1, <2>2
<1>5. R \subseteq DOMAIN d
  BY <1>0
<1>6. Spelled(d, R)
  BY <1>0, <1>3, <1>5 DEF Spelled
<1>7. Below(d, DOMAIN d, d[n].path) = DOMAIN d \ (R \cup {n})
 <2>1. \A x \in DOMAIN d : d[x].path = d[n].path => x = n
   BY <1>0, UniquePaths
 <2> QED
   BY <1>0, <2>1 DEF Below, IsStrictPrefix
<1>8. ASSUME NEW x \in DOMAIN d \ (R \cup {n})
      PROVE  /\ d[x].parent \in DOMAIN d \ R
             /\ d[x].parent # NoParent
             /\ IsPrefix(d[n].path, d[d[x].parent].path)
             /\ d[x].path = Append(d[d[x].parent].path, d[x].order + 1)
 <2>1. IsPrefix(d[n].path, d[x].path) /\ d[n].path # d[x].path
   BY <1>0, UniquePaths
 <2>2. d[x].parent \in DOMAIN d /\ IsPrefix(d[n].path, d[d[x].parent].path)
   BY <1>0, <1>1, <2>1, PrefixOfRow
 <2>3. d[x].parent # NoParent /\ d[x].parent \notin R
   BY <1>0, <2>2
 <2>4. d[x].path = Append(PathOfParent(d, d[x].parent), d[x].order + 1)
   BY <1>0, SpelledRow
 <2> QED
   BY <2>2, <2>3, <2>4 DEF PathOfParent
<1> QED
  BY <1>0, <1>2, <1>4, <1>5, <1>6, <1>7, <1>8

\* The placeholder in front of the paths of the rows that move.
Marked(d, R) ==
  [x \in DOMAIN d |-> IF x \in R THEN d[x] ELSE [d[x] EXCEPT !.path = <<0>> \o @]]

LEMMA MarkedFacts ==
  ASSUME NEW d, NEW R, Table(d)
  PROVE  /\ WideTable(Marked(d, R)) /\ DOMAIN Marked(d, R) = DOMAIN d
         /\ \A x \in DOMAIN d : /\ Marked(d, R)[x].parent = d[x].parent
                                /\ Marked(d, R)[x].order = d[x].order
                                /\ x \in R => Marked(d, R)[x] = d[x]
                                /\ x \notin R => Marked(d, R)[x].path[1] = 0
<1> DEFINE m(x) == [d[x] EXCEPT !.path = <<0>> \o @]
<1>1. ASSUME NEW x \in DOMAIN d
      PROVE  /\ d[x] \in WideRow /\ m(x) \in WideRow
             /\ m(x).parent = d[x].parent /\ m(x).order = d[x].order
             /\ m(x).path[1] = 0
 <2>1. d[x] \in WideRow
   BY TableIsWide DEF WideTable
 <2>2. <<0>> \in Seq(Int) /\ Len(<<0>>) = 1 /\ <<0>>[1] = 0
   OBVIOUS
 <2>3. d[x].path \in Seq(Int) /\ Len(d[x].path) \in Nat
   BY <2>1, PathFacts DEF WideRow
 <2> DEFINE q == <<0>> \o d[x].path
 <2>4. q \in Seq(Int) /\ Len(q) = 1 + Len(d[x].path)
       /\ \A i \in 1..1 + Len(d[x].path) : q[i] = IF i <= 1 THEN <<0>>[i] ELSE d[x].path[i - 1]
   BY <2>2, <2>3, ConcatProperties
 <2> HIDE DEF q
 <2>5. q[1] = 0 /\ q \in Path
   BY <2>2, <2>3, <2>4, EmptySeq DEF Path
 <2>6. m(x) = [d[x] EXCEPT !.path = q]
   BY DEF q
 <2> QED
   BY <2>1, <2>5, <2>6 DEF WideRow
<1>2. \A x \in DOMAIN d : Marked(d, R)[x] = IF x \in R THEN d[x] ELSE m(x)
  BY DEF Marked
<1> HIDE DEF m
<1>3. DOMAIN Marked(d, R) = DOMAIN d /\ \A x \in DOMAIN d : Marked(d, R)[x] \in WideRow
  BY <1>1, <1>2 DEF Marked
<1>4. Marked(d, R) \in [DOMAIN d -> WideRow]
  BY <1>3 DEF Marked
<1> QED
  BY <1>1, <1>2, <1>3, <1>4 DEF WideTable, Table

(***************************************************************************)
(* Closing the gap that n leaves.                                          *)
(***************************************************************************)
Later(d, n) == {x \in Siblings(d, d[n].parent) : d[x].order > d[n].order}

GapClosed(d, n, plan, R, d1) ==
  /\ Moving(d, n, plan, R)
  /\ d1 = ShiftSiblings(Marked(d, R), DOMAIN d, Later(d, n), PathOfParent(d, d[n].parent), -1)

LEMMA GapClosedFacts ==
  ASSUME NEW d, NEW n, NEW plan, NEW R, NEW d1, GapClosed(d, n, plan, R, d1)
  PROVE  /\ Spelled(d1, R) /\ Forest(d1) /\ WideTable(d1) /\ DOMAIN d1 = DOMAIN d
         /\ \A x \in DOMAIN d : d1[x].parent = d[x].parent
         /\ \A x \in DOMAIN d \ R : /\ d1[x].order = d[x].order
                                    /\ d1[x].path[1] = 0
         /\ \A x \in R : d1[x].order = IF x \in Later(d, n) THEN d[x].order - 1 ELSE d[x].order
         /\ PathOfParent(d1, plan.parent) = plan.base
<1> DEFINE d0 == Marked(d, R)
           S == Later(d, n)
           p == d[n].parent
           g == d[n].order + 1
           b == PathOfParent(d, p)
<1>0. /\ Moving(d, n, plan, R) /\ Table(d) /\ Spelled(d, DOMAIN d) /\ Forest(d)
      /\ NoParent \notin DOMAIN d /\ n \in DOMAIN d
      /\ d1 = ShiftSiblings(d0, DOMAIN d, S, b, -1)
      /\ plan.parent \in R \cup {NoParent} /\ plan.base = PathOfParent(d, plan.parent)
  BY DEF GapClosed, Moving
<1>1. /\ R \subseteq DOMAIN d /\ n \notin R /\ NoParent \notin R
      /\ Spelled(d, R) /\ p \in R \cup {NoParent}
      /\ \A x \in DOMAIN d \ (R \cup {n}) : d[x].parent \in DOMAIN d \ R /\ d[x].parent # NoParent
  BY <1>0, StayingRows
<1>2. /\ WideTable(d0) /\ DOMAIN d0 = DOMAIN d
      /\ \A x \in DOMAIN d : /\ d0[x].parent = d[x].parent
                             /\ d0[x].order = d[x].order
                             /\ x \in R => d0[x] = d[x]
                             /\ x \notin R => d0[x].path[1] = 0
  BY <1>0, MarkedFacts
<1>3. \A x \in DOMAIN d : d[x].order \in Nat
  BY <1>0 DEF Table, Row
<1> HIDE DEF d0
<1>4. /\ Spelled(d0, R)
      /\ \A m \in R \cup {NoParent} : PathOfParent(d0, m) = PathOfParent(d, m)
  BY <1>1, <1>2, SameRowsSpelled
<1>5. Forest(d0)
  BY <1>0, <1>2, SameParentsForest
<1>6. \A x : x \in S <=> x \in DOMAIN d /\ d[x].parent = p /\ d[x].order >= g
 <2>1. \A x \in DOMAIN d : d[x].order > d[n].order <=> d[x].order >= g
   BY <1>0, <1>3
 <2> QED
   BY <2>1 DEF Later, Siblings, Children
<1>7. S \subseteq R
 <2> SUFFICES ASSUME NEW x \in S, x \notin R PROVE FALSE
   OBVIOUS
 <2>1. x \in DOMAIN d /\ d[x].parent = p /\ d[x].order >= g
   BY <1>6
 <2>2. x # n
   BY <1>0, <1>3, <2>1
 <2> QED
   BY <1>1, <2>1, <2>2
<1> HIDE DEF S, p, b
<1>8. Renumbers(d0, R, S, p, g)
  BY <1>1, <1>2, <1>6 DEF Renumbers
<1>9. g \in Nat /\ -1 \in Int
  BY <1>0, <1>3
<1>10. Renumbered(d0, R, S, p, g, -1, d1)
 <2>1. b = PathOfParent(d0, p)
   BY <1>1, <1>4 DEF b
 <2>2. d1 = ShiftSiblings(d0, DOMAIN d0, S, PathOfParent(d0, p), -1)
   BY <1>0, <1>2, <2>1
 <2> HIDE DEF g
 <2> QED
   BY <1>1, <1>2, <1>4, <1>5, <1>8, <1>9, <2>2 DEF Renumbered
<1>11. \A x \in R : x \in S => d0[x].order + -1 \in Nat
  BY <1>0, <1>1, <1>2, <1>3, <1>6
<1>12. ASSUME NEW x \in R, NEW y \in R, x \in S, y \notin S, d0[y].parent = p
       PROVE  d0[x].order + -1 # d0[y].order
 <2>1. d[y].order # d[n].order
   BY <1>0, <1>1, <1>2, <1>12 DEF Spelled, p
 <2>2. ~(d[y].order >= g) /\ d[x].order >= g
   BY <1>1, <1>2, <1>6, <1>12
 <2> QED
   BY <1>0, <1>1, <1>2, <1>3, <2>1, <2>2
<1>13. /\ Spelled(d1, R) /\ Forest(d1) /\ WideTable(d1) /\ DOMAIN d1 = DOMAIN d0
       /\ \A x \in DOMAIN d0 : d1[x].parent = d0[x].parent
 <2> HIDE DEF g
 <2> QED
   BY <1>10, <1>11, <1>12, ShiftKeepsSpelling
<1>14. /\ \A x \in R : /\ d1[x].path = Shift(PathOfParent(d0, p), g, -1, d0[x].path)
                       /\ d1[x].order = IF x \in S THEN d0[x].order + -1 ELSE d0[x].order
       /\ \A x \in DOMAIN d0 \ (R \cup S) : d1[x] = d0[x]
 <2> HIDE DEF g
 <2> QED
   BY <1>10, ShiftedRows
<1>15. \A x \in DOMAIN d \ R : d1[x].order = d[x].order /\ d1[x].path[1] = 0
  BY <1>2, <1>7, <1>14
<1>16. \A x \in R : d1[x].order = IF x \in S THEN d[x].order - 1 ELSE d[x].order
  BY <1>1, <1>2, <1>3, <1>14
<1>17. PathOfParent(d1, plan.parent) = plan.base
 <2> DEFINE q == plan.parent
 <2>1. CASE q = NoParent
   BY <1>0, <2>1 DEF PathOfParent
 <2>2. CASE q \in R
  <3>1. \A x \in S : q \notin Subtrees(d, {x})
    BY DEF Moving, GapClosed, S, Later
  <3>2. q \notin S
    BY <1>1, <2>2, <3>1 DEF Subtrees
  <3>3. ~StepShifts(PathOfParent(d0, p), g, d0[q].path)
   <4> SUFFICES ASSUME StepShifts(PathOfParent(d0, p), g, d0[q].path) PROVE FALSE
     OBVIOUS
   <4>1. PICK s \in S : IsStrictPrefix(NewPath(PathOfParent(d0, p), d0[s].order), d0[q].path)
    <5> HIDE DEF g, q
    <5> QED
      BY <1>1, <1>2, <1>4, <1>5, <1>8, <1>9, <2>2, <3>2, FoundBelow
   <4>2. s \in R /\ d[s].parent = p /\ s \in DOMAIN d
     BY <1>6, <1>7
   <4>3. d[s].path = NewPath(PathOfParent(d, p), d[s].order)
     BY <1>1, <4>2 DEF Spelled
   <4>4. IsStrictPrefix(d[s].path, d[q].path)
     BY <1>1, <1>2, <1>4, <2>2, <4>1, <4>2, <4>3
   <4>5. q \in Below(d, DOMAIN d, d[s].path)
     BY <1>1, <2>2, <4>4 DEF Below
   <4>6. q \in Subtrees(d, {s})
     BY <1>0, <4>2, <4>5, PathsFollowParents
   <4> QED
     BY <3>1, <4>6
  <3>4. d1[q].path = d[q].path
    BY <1>1, <1>2, <1>14, <2>2, <3>3 DEF Shift
  <3> QED
    BY <1>0, <1>1, <2>2, <3>4 DEF PathOfParent
 <2> QED
   BY <1>0, <2>1, <2>2
<1> QED
  BY <1>2, <1>13, <1>15, <1>16, <1>17 DEF S

-----------------------------------------------------------------------------
(***************************************************************************)
(* Making room among the new siblings.  n itself may be counted with them. *)
(***************************************************************************)
From(d1, plan) == {x \in Children(d1, DOMAIN d1, plan.parent) : d1[x].order >= plan.order}

RoomMade(d, n, plan, R, d1, d2) ==
  /\ GapClosed(d, n, plan, R, d1)
  /\ d2 = ShiftSiblings(d1, DOMAIN d1, From(d1, plan), plan.base, 1)

LEMMA RoomMadeFacts ==
  ASSUME NEW d, NEW n, NEW plan, NEW R, NEW d1, NEW d2, RoomMade(d, n, plan, R, d1, d2)
  PROVE  /\ Spelled(d2, R) /\ WideTable(d2) /\ DOMAIN d2 = DOMAIN d
         /\ \A x \in DOMAIN d : d2[x].parent = d[x].parent
         /\ \A x \in DOMAIN d \ (R \cup {n}) : d2[x].order = d[x].order
         /\ \A x \in R : d2[x].order =
              IF d[x].parent = plan.parent /\ d1[x].order >= plan.order
              THEN d1[x].order + 1 ELSE d1[x].order
         /\ \A x \in R : d[x].parent = plan.parent => d2[x].order # plan.order
         /\ PathOfParent(d2, plan.parent) = plan.base
<1> DEFINE S == From(d1, plan)
           p == plan.parent
           g == plan.order
<1>0. /\ GapClosed(d, n, plan, R, d1) /\ Moving(d, n, plan, R) /\ n \in DOMAIN d
      /\ d2 = ShiftSiblings(d1, DOMAIN d1, S, plan.base, 1)
      /\ p \in R \cup {NoParent} /\ g \in Nat
  BY DEF RoomMade, GapClosed, Moving
<1>1. /\ R \subseteq DOMAIN d /\ n \notin R /\ NoParent \notin R
      /\ \A x \in DOMAIN d \ (R \cup {n}) : d[x].parent \in DOMAIN d \ R /\ d[x].parent # NoParent
  BY <1>0, StayingRows
<1>2. /\ Spelled(d1, R) /\ Forest(d1) /\ WideTable(d1) /\ DOMAIN d1 = DOMAIN d
      /\ \A x \in DOMAIN d : d1[x].parent = d[x].parent
      /\ \A x \in DOMAIN d \ R : d1[x].order = d[x].order /\ d1[x].path[1] = 0
      /\ PathOfParent(d1, p) = plan.base
  BY <1>0, GapClosedFacts
<1>3. \A x : x \in S <=> x \in DOMAIN d /\ d[x].parent = p /\ d1[x].order >= g
  BY <1>2 DEF From, Children
<1>4. S \subseteq R \cup {n}
  BY <1>0, <1>1, <1>3
<1> HIDE DEF S, p, g
<1>5. Renumbers(d1, R, S, p, g)
  BY <1>1, <1>2, <1>3 DEF Renumbers
<1>6. Renumbered(d1, R, S, p, g, 1, d2)
 <2>1. 1 \in Int /\ d2 = ShiftSiblings(d1, DOMAIN d1, S, PathOfParent(d1, p), 1)
   BY <1>0, <1>2
 <2> QED
   BY <1>0, <1>1, <1>2, <1>5, <2>1 DEF Renumbered
<1>7. \A x \in R : d1[x].order \in Nat
  BY <1>2 DEF Spelled
<1>8. \A x \in R : x \in S => d1[x].order + 1 \in Nat
  BY <1>7
<1>9. ASSUME NEW x \in R, NEW y \in R, x \in S, y \notin S, d1[y].parent = p
      PROVE  d1[x].order + 1 # d1[y].order
 <2>1. d1[x].order >= g /\ ~(d1[y].order >= g)
   BY <1>1, <1>2, <1>3, <1>9
 <2> QED
   BY <1>0, <1>7, <2>1
<1>10. /\ Spelled(d2, R) /\ WideTable(d2) /\ DOMAIN d2 = DOMAIN d1
       /\ \A x \in DOMAIN d1 : d2[x].parent = d1[x].parent
       /\ PathOfParent(d2, p) = PathOfParent(d1, p)
  BY <1>6, <1>8, <1>9, ShiftKeepsSpelling
<1>11. /\ \A x \in R : d2[x].order = IF x \in S THEN d1[x].order + 1 ELSE d1[x].order
       /\ \A x \in DOMAIN d1 \ (R \cup S) : d2[x] = d1[x]
  BY <1>6, ShiftedRows
<1>12. \A x \in DOMAIN d \ (R \cup {n}) : d2[x].order = d[x].order
 <2> TAKE x \in DOMAIN d \ (R \cup {n})
 <2>1. x \notin S
   BY <1>4
 <2> QED
   BY <1>2, <1>11, <2>1
<1>13. \A x \in R : d2[x].order = IF d[x].parent = p /\ d1[x].order >= g
                                  THEN d1[x].order + 1 ELSE d1[x].order
  BY <1>1, <1>3, <1>11
<1>14. \A x \in R : d[x].parent = p => d2[x].order # g
  BY <1>0, <1>7, <1>13
<1> QED
  BY <1>2, <1>10, <1>12, <1>13, <1>14 DEF p, g

(***************************************************************************)
(* The rows below n: their paths continue the new path of n.               *)
(***************************************************************************)
\* v is new followed by what q has after the length of old.
Replaces(q, old, new, v) ==
  /\ v \in Seq(Int)
  /\ Len(v) = Len(new) + Len(q) - Len(old)
  /\ \A i \in 1..Len(new) + Len(q) - Len(old) :
       v[i] = IF i <= Len(new) THEN new[i] ELSE q[i - Len(new) + Len(old)]

LEMMA RebaseFacts ==
  ASSUME NEW q \in Seq(Int), NEW old \in Seq(Int), NEW new \in Seq(Int), Len(old) <= Len(q)
  PROVE  Replaces(q, old, new, Rebase(q, old, new))
<1> DEFINE tail == SubSeq(q, Len(old) + 1, Len(q))
           m == Len(q) - Len(old)
<1>1. Len(q) \in Nat /\ Len(old) \in Nat /\ Len(new) \in Nat /\ m \in Nat
  BY LenProperties
<1>2. /\ tail \in Seq(Int) /\ Len(tail) = m
      /\ \A i \in 1..m : tail[i] = q[Len(old) + i]
 <2>1. /\ Len(old) + 1 \in Int /\ Len(q) \in Int
       /\ \A i \in Len(old) + 1..Len(q) : q[i] \in Int
   BY <1>1, ElementOfSeq
 <2>2. /\ tail \in Seq(Int)
       /\ Len(tail) = IF Len(old) + 1 <= Len(q) THEN Len(q) - (Len(old) + 1) + 1 ELSE 0
       /\ \A i \in 1..Len(q) - (Len(old) + 1) + 1 : tail[i] = q[Len(old) + 1 + i - 1]
   BY <2>1, SubSeqProperties
 <2> HIDE DEF tail
 <2> QED
   BY <1>1, <2>2
<1> HIDE DEF tail, m
<1>3. /\ new \o tail \in Seq(Int) /\ Len(new \o tail) = Len(new) + m
      /\ \A i \in 1..Len(new) + m :
           (new \o tail)[i] = IF i <= Len(new) THEN new[i] ELSE tail[i - Len(new)]
  BY <1>2, ConcatProperties
<1>4. Rebase(q, old, new) = new \o tail
  BY DEF Rebase, tail
<1>5. ASSUME NEW i \in 1..Len(new) + m
      PROVE  (new \o tail)[i] = IF i <= Len(new) THEN new[i] ELSE q[i - Len(new) + Len(old)]
 <2>1. CASE i <= Len(new)
   BY <1>3, <2>1
 <2>2. CASE ~(i <= Len(new))
  <3>1. i - Len(new) \in 1..m
    BY <1>1, <2>2
  <3>2. tail[i - Len(new)] = q[Len(old) + (i - Len(new))]
    BY <1>2, <3>1
  <3>3. Len(old) + (i - Len(new)) = i - Len(new) + Len(old)
    BY <1>1, <2>2
  <3> QED
    BY <1>3, <2>2, <3>2, <3>3
 <2> QED
   BY <2>1, <2>2
<1> QED
  BY <1>1, <1>3, <1>4, <1>5 DEF m, Replaces

LEMMA RebaseSelf ==
  ASSUME NEW old \in Seq(Int), NEW new \in Seq(Int)
  PROVE  Rebase(old, old, new) = new
<1>1. Len(old) \in Nat /\ Len(new) \in Nat
  BY LenProperties
<1>2. SubSeq(old, Len(old) + 1, Len(old)) = <<>>
  BY <1>1, SubSeqEmpty
<1> QED
  BY <1>2, ConcatEmptySeq DEF Rebase

LEMMA RebaseAppend ==
  ASSUME NEW q \in Seq(Int), NEW o \in Int, NEW old \in Seq(Int), NEW new \in Seq(Int),
         IsPrefix(old, q)
  PROVE  Rebase(Append(q, o), old, new) = Append(Rebase(q, old, new), o)
<1> DEFINE a == Append(q, o)
           u == Rebase(a, old, new)
           v == Rebase(q, old, new)
           w == Append(v, o)
           n == Len(new) + Len(q) - Len(old)
<1>1. /\ Len(q) \in Nat /\ Len(old) \in Nat /\ Len(new) \in Nat
      /\ Len(old) <= Len(q) /\ n \in Nat
  BY LenProperties DEF IsPrefix
<1>2. /\ a \in Seq(Int) /\ Len(a) = Len(q) + 1 /\ a[Len(q) + 1] = o
      /\ \A i \in 1..Len(q) : a[i] = q[i]
  BY AppendFacts
<1> HIDE DEF a
<1>3. Len(new) + Len(a) - Len(old) = n + 1 /\ Len(old) <= Len(a)
  BY <1>1, <1>2
<1>4. /\ u \in Seq(Int) /\ Len(u) = Len(new) + Len(a) - Len(old)
      /\ \A i \in 1..Len(new) + Len(a) - Len(old) :
           u[i] = IF i <= Len(new) THEN new[i] ELSE a[i - Len(new) + Len(old)]
 <2>1. Replaces(a, old, new, u)
   BY <1>2, <1>3, RebaseFacts
 <2> HIDE DEF u
 <2> QED
   BY <2>1 DEF Replaces
<1>5. /\ v \in Seq(Int) /\ Len(v) = n
      /\ \A i \in 1..n : v[i] = IF i <= Len(new) THEN new[i] ELSE q[i - Len(new) + Len(old)]
 <2>1. Replaces(q, old, new, v)
   BY <1>1, RebaseFacts
 <2> HIDE DEF v
 <2> QED
   BY <2>1 DEF Replaces
<1> HIDE DEF u, v, n
<1>6. /\ w \in Seq(Int) /\ Len(w) = n + 1 /\ w[n + 1] = o /\ \A i \in 1..n : w[i] = v[i]
  BY <1>5, AppendFacts
<1> HIDE DEF w
<1>7. ASSUME NEW i \in 1..n + 1 PROVE u[i] = w[i]
 <2>1. u[i] = IF i <= Len(new) THEN new[i] ELSE a[i - Len(new) + Len(old)]
   BY <1>3, <1>4
 <2>2. CASE i = n + 1
  <3>1. ~(i <= Len(new)) /\ i - Len(new) + Len(old) = Len(q) + 1
    BY <1>1, <2>2 DEF n
  <3> QED
    BY <1>2, <1>6, <2>1, <2>2, <3>1
 <2>3. CASE i \in 1..n
  <3>1. w[i] = IF i <= Len(new) THEN new[i] ELSE q[i - Len(new) + Len(old)]
    BY <1>5, <1>6, <2>3
  <3>2. ~(i <= Len(new)) => i - Len(new) + Len(old) \in 1..Len(q)
    BY <1>1, <2>3 DEF n
  <3> QED
    BY <1>2, <2>1, <3>1, <3>2
 <2> QED
   BY <1>1, <2>2, <2>3
<1>8. u = w
  BY <1>3, <1>4, <1>6, <1>7, SeqEqual
<1> QED
  BY <1>8 DEF a, u, v, w

(***************************************************************************)
(* The table after the move.                                               *)
(***************************************************************************)
MoveDone(d, n, plan, R, d1, d2, e) ==
  RoomMade(d, n, plan, R, d1, d2) /\ e = Moved(d, DOMAIN d, n, d[n], plan)

RowBelow(r, old, new) ==
  [parent |-> r.parent, path |-> Rebase(r.path, old, new),
   depth |-> Len(Rebase(r.path, old, new)) - 1, order |-> r.order]

PlacedRows(d, n, plan, R, d2, e) ==
  /\ WideTable(e) /\ DOMAIN e = DOMAIN d
  /\ \A x \in R : e[x] = d2[x]
  /\ e[n] = [parent |-> plan.parent, path |-> NewPath(plan.base, plan.order),
             depth |-> plan.depth, order |-> plan.order]
  /\ \A x \in DOMAIN d \ (R \cup {n}) :
       e[x] = RowBelow(d[x], d[n].path, NewPath(plan.base, plan.order))

LEMMA MovedRows ==
  ASSUME NEW d, NEW n, NEW plan, NEW R, NEW d1, NEW d2, NEW e,
         MoveDone(d, n, plan, R, d1, d2, e)
  PROVE  PlacedRows(d, n, plan, R, d2, e)
<1> DEFINE D == Below(d, DOMAIN d, d[n].path)
           new == NewPath(plan.base, plan.order)
           row == [d2[n] EXCEPT !.parent = plan.parent, !.path = new,
                                !.depth = plan.depth, !.order = plan.order]
           d3 == [x \in DOMAIN d |->
              IF x = n
              THEN [d2[x] EXCEPT !.parent = plan.parent, !.path = new,
                                 !.depth = plan.depth, !.order = plan.order]
              ELSE d2[x]]
<1>0. /\ GapClosed(d, n, plan, R, d1) /\ Moving(d, n, plan, R) /\ n \in DOMAIN d /\ Table(d)
      /\ plan \in Plan
      /\ d1 = ShiftSiblings(Marked(d, R), DOMAIN d, Later(d, n), PathOfParent(d, d[n].parent), -1)
      /\ d2 = ShiftSiblings(d1, DOMAIN d1, From(d1, plan), plan.base, 1)
      /\ RoomMade(d, n, plan, R, d1, d2) /\ e = Moved(d, DOMAIN d, n, d[n], plan)
  BY DEF MoveDone, RoomMade, GapClosed, Moving
<1>1. R \subseteq DOMAIN d /\ n \notin R /\ D = DOMAIN d \ (R \cup {n})
      /\ d[n].parent \in R \cup {NoParent}
  BY <1>0, StayingRows
<1>2. DOMAIN d1 = DOMAIN d
  BY <1>0, GapClosedFacts
<1>3. /\ WideTable(d2) /\ DOMAIN d2 = DOMAIN d
      /\ \A x \in DOMAIN d : d2[x].parent = d[x].parent
      /\ \A x \in DOMAIN d \ (R \cup {n}) : d2[x].order = d[x].order
  BY <1>0, RoomMadeFacts
<1>4. d[n] \in Row /\ DOMAIN d \in SUBSET DOMAIN d
  BY <1>0 DEF Table
<1>5. WideTable(e) /\ DOMAIN e = DOMAIN d
  BY <1>0, <1>1, <1>4, MovedFacts
<1>6. e = Rerooted(d3, d, D, d[n].path, new)
 <2>1. [x \in DOMAIN d |-> IF x = n \/ x \in D
                           THEN [d[x] EXCEPT !.path = <<0>> \o @] ELSE d[x]] = Marked(d, R)
  <3>1. \A x \in DOMAIN d : (x = n \/ x \in D) <=> x \notin R
    BY <1>1
  <3> HIDE DEF D
  <3> QED
    BY <3>1 DEF Marked
 <2>2. {x \in Children(Marked(d, R), DOMAIN d, d[n].parent) :
          Marked(d, R)[x].order > d[n].order} = Later(d, n)
   BY <1>0, MarkedFacts DEF Children, Later, Siblings
 <2>3. {x \in Children(d1, DOMAIN d, plan.parent) : d1[x].order >= plan.order} = From(d1, plan)
   BY <1>2 DEF From
 <2> HIDE DEF D
 <2> QED
   BY <1>0, <1>2, <2>1, <2>2, <2>3 DEF Moved, D
<1>7. \A x \in DOMAIN d : d2[x] \in WideRow
  BY <1>3 DEF WideTable
<1>8. \A x \in R : e[x] = d2[x]
 <2> TAKE x \in R
 <2>1. x # n /\ x \notin D /\ x \in DOMAIN d
   BY <1>1
 <2> HIDE DEF D
 <2> QED
   BY <1>6, <2>1 DEF Rerooted
<1>9. e[n] = [parent |-> plan.parent, path |-> new, depth |-> plan.depth, order |-> plan.order]
 <2>1. n \notin D
   BY <1>1
 <2>2. e[n] = row
  <3> HIDE DEF D
  <3> QED
    BY <1>0, <1>6, <2>1 DEF Rerooted
 <2> HIDE DEF new
 <2> QED
   BY <1>0, <1>7, <2>2 DEF WideRow
<1>10. ASSUME NEW x \in DOMAIN d \ (R \cup {n})
       PROVE  e[x] = RowBelow(d[x], d[n].path, new)
 <2> DEFINE path == Rebase(d[x].path, d[n].path, new)
 <2>1. x \in D /\ x # n /\ x \in DOMAIN d
   BY <1>1
 <2>2. e[x] = [d2[x] EXCEPT !.path = path, !.depth = Len(path) - 1]
  <3> HIDE DEF D, new
  <3> QED
    BY <1>6, <2>1 DEF Rerooted
 <2>3. d2[x] \in WideRow /\ d2[x].parent = d[x].parent /\ d2[x].order = d[x].order
   BY <1>3, <1>7
 <2> HIDE DEF path
 <2>4. e[x] = [parent |-> d[x].parent, path |-> path,
               depth |-> Len(path) - 1, order |-> d[x].order]
   BY <2>2, <2>3 DEF WideRow
 <2> QED
   BY <2>4 DEF path, RowBelow
<1> QED
  BY <1>5, <1>8, <1>9, <1>10 DEF PlacedRows

LEMMA MovedIsSpelled ==
  ASSUME NEW d, NEW n, NEW plan, NEW R, NEW d1, NEW d2, NEW e,
         MoveDone(d, n, plan, R, d1, d2, e)
  PROVE  Spelled(e, DOMAIN d)
<1> DEFINE new == NewPath(plan.base, plan.order)
           p == plan.parent
<1>0. /\ Moving(d, n, plan, R) /\ n \in DOMAIN d /\ Spelled(d, DOMAIN d)
      /\ plan.parent \in R \cup {NoParent} /\ plan.order \in Nat
      /\ plan.base \in Seq(Int) /\ plan.depth = Len(plan.base)
      /\ NoParent \notin DOMAIN d /\ RoomMade(d, n, plan, R, d1, d2)
  BY DEF MoveDone, RoomMade, GapClosed, Moving, Plan
<1>1. /\ R \subseteq DOMAIN d /\ n \notin R /\ NoParent \notin R
      /\ \A x \in DOMAIN d \ (R \cup {n}) :
           /\ d[x].parent \in DOMAIN d \ R
           /\ d[x].parent # NoParent
           /\ IsPrefix(d[n].path, d[d[x].parent].path)
           /\ d[x].path = Append(d[d[x].parent].path, d[x].order + 1)
  BY <1>0, StayingRows
<1>2. /\ Spelled(d2, R) /\ DOMAIN d2 = DOMAIN d
      /\ \A x \in DOMAIN d : d2[x].parent = d[x].parent
      /\ \A x \in R : d[x].parent = plan.parent => d2[x].order # plan.order
      /\ PathOfParent(d2, plan.parent) = plan.base
  BY <1>0, RoomMadeFacts
<1>3. /\ WideTable(e) /\ DOMAIN e = DOMAIN d
      /\ \A x \in R : e[x] = d2[x]
      /\ e[n] = [parent |-> plan.parent, path |-> new,
                 depth |-> plan.depth, order |-> plan.order]
      /\ \A x \in DOMAIN d \ (R \cup {n}) : e[x] = RowBelow(d[x], d[n].path, new)
 <2>1. PlacedRows(d, n, plan, R, d2, e)
   BY MovedRows
 <2> QED
   BY <2>1 DEF PlacedRows
<1>4. /\ Spelled(e, R)
      /\ \A m \in R \cup {NoParent} : PathOfParent(e, m) = PathOfParent(d2, m)
  BY <1>1, <1>2, <1>3, SameRowsSpelled
<1>5. /\ new = Append(plan.base, plan.order + 1) /\ new \in Seq(Int)
      /\ new \in Path /\ Len(new) = Len(plan.base) + 1
 <2>1. plan.order \in Int /\ plan.order + 1 \in Int
   BY <1>0
 <2>2. new \in Path
   BY <1>0, <2>1, NewPathType
 <2> QED
   BY <1>0, <2>1, <2>2, AppendFacts DEF NewPath, Path
<1> HIDE DEF new
<1>6. \A x \in DOMAIN d : e[x].path \in Path
  BY <1>3 DEF WideTable, WideRow
<1>7. /\ e[n].parent \in DOMAIN d \cup {NoParent} /\ e[n].order \in Nat
      /\ e[n].path = NewPath(PathOfParent(e, e[n].parent), e[n].order)
      /\ e[n].depth = Len(e[n].path) - 1
 <2>1. /\ e[n].parent = plan.parent /\ e[n].path = new
       /\ e[n].depth = plan.depth /\ e[n].order = plan.order
   BY <1>3
 <2>2. PathOfParent(e, plan.parent) = plan.base
   BY <1>0, <1>2, <1>4
 <2>3. plan.depth = Len(new) - 1
   BY <1>0, <1>5, LenProperties
 <2> QED
   BY <1>0, <1>1, <1>5, <2>1, <2>2, <2>3 DEF new
<1>8. ASSUME NEW x \in DOMAIN d \ (R \cup {n})
      PROVE  /\ e[x].parent \in DOMAIN d \ R /\ e[x].parent = d[x].parent
             /\ e[x].order \in Nat /\ e[x].order = d[x].order
             /\ e[x].path = NewPath(PathOfParent(e, e[x].parent), e[x].order)
             /\ e[x].depth = Len(e[x].path) - 1
 <2> DEFINE m == d[x].parent
            old == d[n].path
            o == d[x].order + 1
 <2>1. /\ e[x].parent = m /\ e[x].path = Rebase(d[x].path, old, new)
       /\ e[x].depth = Len(e[x].path) - 1 /\ e[x].order = d[x].order
   BY <1>3 DEF RowBelow
 <2>2. /\ m \in DOMAIN d \ R /\ m # NoParent /\ IsPrefix(old, d[m].path)
       /\ d[x].path = Append(d[m].path, o)
   BY <1>1
 <2>3. d[x].order \in Nat /\ o \in Int
   BY <1>0 DEF Spelled
 <2>4. old \in Seq(Int) /\ d[m].path \in Seq(Int)
  <3>1. m \in DOMAIN d
    BY <2>2
  <3> HIDE DEF m
  <3> QED
    BY <1>0, <3>1, SpelledRow
 <2>5. e[m].path = Rebase(d[m].path, old, new)
  <3>1. CASE m = n
   <4>1. Rebase(old, old, new) = new
     BY <1>5, <2>4, RebaseSelf
   <4> QED
     BY <1>3, <3>1, <4>1
  <3>2. CASE m # n
   <4>1. m \in DOMAIN d \ (R \cup {n})
     BY <2>2, <3>2
   <4> HIDE DEF m, old
   <4> QED
     BY <1>3, <4>1 DEF old, RowBelow
  <3> QED
    BY <3>1, <3>2
 <2>6. PathOfParent(e, m) = e[m].path
   BY <2>2 DEF PathOfParent
 <2>7. e[x].path = Append(e[m].path, o)
  <3> HIDE DEF m, old, o
  <3>1. Rebase(Append(d[m].path, o), old, new) = Append(Rebase(d[m].path, old, new), o)
   <4> DEFINE P == d[m].path
   <4>1. P \in Seq(Int) /\ o \in Int /\ old \in Seq(Int) /\ new \in Seq(Int) /\ IsPrefix(old, P)
     BY <1>5, <2>2, <2>3, <2>4
   <4> HIDE DEF P
   <4>2. Rebase(Append(P, o), old, new) = Append(Rebase(P, old, new), o)
     BY <4>1, RebaseAppend
   <4> QED
     BY <4>2 DEF P
  <3> QED
    BY <2>1, <2>2, <2>5, <3>1
 <2> HIDE DEF m, old, o
 <2>8. PathOfParent(e, e[x].parent) = e[m].path /\ e[x].order + 1 = o
   BY <2>1, <2>6 DEF o
 <2> QED
   BY <2>1, <2>2, <2>3, <2>7, <2>8 DEF m, NewPath
<1>9. ASSUME NEW x \in R
      PROVE  /\ e[x].parent \in R \cup {NoParent} /\ e[x].parent = d[x].parent
             /\ e[x].order \in Nat /\ e[x].order = d2[x].order
             /\ e[x].path = NewPath(PathOfParent(e, e[x].parent), e[x].order)
             /\ e[x].depth = Len(e[x].path) - 1
  BY <1>1, <1>2, <1>3, <1>4 DEF Spelled
<1>10. ASSUME NEW x \in DOMAIN d, NEW y \in DOMAIN d,
              e[x].parent = e[y].parent, e[x].order = e[y].order
       PROVE  x = y
 <2>1. ASSUME NEW u \in R, e[u].parent = e[n].parent PROVE e[u].order # e[n].order
   BY <1>2, <1>3, <1>9, <2>1
 <2>2. ASSUME NEW u \in DOMAIN d \ (R \cup {n}), NEW v \in R \cup {n}
       PROVE  e[u].parent # e[v].parent
  <3>1. e[v].parent \in R \cup {NoParent}
    BY <1>0, <1>3, <1>9
  <3> QED
    BY <1>0, <1>8, <3>1
 <2>3. CASE x \in R /\ y \in R
   BY <1>4, <1>10, <2>3 DEF Spelled
 <2>4. CASE x \in DOMAIN d \ (R \cup {n}) /\ y \in DOMAIN d \ (R \cup {n})
   BY <1>0, <1>8, <1>10, <2>4 DEF Spelled
 <2> QED
   BY <1>10, <2>1, <2>2, <2>3, <2>4
<1>11. \A x \in DOMAIN d :
         /\ e[x].parent \in DOMAIN d \cup {NoParent}
         /\ e[x].order \in Nat
         /\ e[x].path = NewPath(PathOfParent(e, e[x].parent), e[x].order)
         /\ e[x].path \in Path
         /\ e[x].depth = Len(e[x].path) - 1
  BY <1>1, <1>6, <1>7, <1>8, <1>9
<1> QED
  BY <1>3, <1>10, <1>11 DEF Spelled

-----------------------------------------------------------------------------
(***************************************************************************)
(* The order column.  It is about parents and orders alone: no path and no *)
(* cycle makes a difference.                                               *)
(***************************************************************************)
Numbered(d) ==
  \A x \in DOMAIN d :
    /\ d[x].order \in Nat
    /\ d[x].order < Cardinality(Siblings(d, d[x].parent))
    /\ \A y \in DOMAIN d : d[y].parent = d[x].parent /\ d[y].order = d[x].order => y = x

LEMMA SiblingCount ==
  ASSUME NEW d, DOMAIN d \subseteq Node, NEW p, NEW n
  PROVE  /\ IsFiniteSet(Siblings(d, p)) /\ Cardinality(Siblings(d, p)) \in Nat
         /\ IsFiniteSet(Siblings(d, p) \ {n}) /\ Cardinality(Siblings(d, p) \ {n}) \in Nat
         /\ n \in Siblings(d, p) =>
              Cardinality(Siblings(d, p) \ {n}) = Cardinality(Siblings(d, p)) - 1
         /\ n \notin Siblings(d, p) =>
              Cardinality(Siblings(d, p) \ {n}) = Cardinality(Siblings(d, p))
<1>1. Siblings(d, p) \in SUBSET Node /\ Siblings(d, p) \ {n} \in SUBSET Node
  BY DEF Siblings, Children
<1> QED
  BY <1>1, FiniteRows, FS_RemoveElement

LEMMA SameNumbers ==
  ASSUME NEW d, NEW e, Numbered(d), DOMAIN e = DOMAIN d,
         \A x \in DOMAIN d : e[x].parent = d[x].parent /\ e[x].order = d[x].order
  PROVE  Numbered(e)
<1>1. \A p : Siblings(e, p) = Siblings(d, p)
  BY DEF Siblings, Children
<1> QED
  BY <1>1 DEF Numbered

\* Distinct orders below the number of siblings leave no gap.
LEMMA NoGap ==
  ASSUME NEW d, DOMAIN d \subseteq Node, Numbered(d), NEW p
  PROVE  {d[y].order : y \in Siblings(d, p)} = 0..Cardinality(Siblings(d, p)) - 1
<1> DEFINE S == Siblings(d, p)
           k == Cardinality(S)
           f == [y \in S |-> d[y].order]
<1>1. IsFiniteSet(S) /\ k \in Nat
  BY SiblingCount
<1>2. \A y \in S : y \in DOMAIN d /\ d[y].parent = p
  BY DEF Siblings, Children
<1>3. \A y \in S : d[y].order \in 0..k - 1
  BY <1>1, <1>2 DEF Numbered
<1>4. \A y, z \in S : d[y].order = d[z].order => y = z
  BY <1>2 DEF Numbered
<1> HIDE DEF S, k
<1>5. f \in Injection(S, 0..k - 1)
  BY <1>3, <1>4 DEF Injection, IsInjective
<1>6. IsFiniteSet(0..k - 1) /\ Cardinality(0..k - 1) = k
  BY <1>1, FS_Interval
<1>7. f \in Surjection(S, 0..k - 1)
  BY <1>5, <1>6, FS_Injection DEF k
<1> QED
  BY <1>3, <1>7 DEF Surjection, S, k

\* The row n put under q as number g: the gap it leaves is closed, room is
\* made among the new siblings.
Closed(d, n, x) ==
  IF d[x].parent = d[n].parent /\ d[x].order > d[n].order
  THEN d[x].order - 1 ELSE d[x].order

PutAs(d, n, q, g, e) ==
  /\ DOMAIN e = DOMAIN d /\ e[n].parent = q /\ e[n].order = g
  /\ \A x \in DOMAIN d \ {n} :
       /\ e[x].parent = d[x].parent
       /\ e[x].order = IF d[x].parent = q /\ Closed(d, n, x) >= g
                       THEN Closed(d, n, x) + 1 ELSE Closed(d, n, x)

LEMMA PutNumbered ==
  ASSUME NEW d, DOMAIN d \subseteq Node, Numbered(d), NEW n \in DOMAIN d, NEW q, NEW g \in Nat,
         g <= Cardinality(Siblings(d, q) \ {n}), NEW e, PutAs(d, n, q, g, e)
  PROVE  Numbered(e)
<1> DEFINE size(p) == Cardinality(Siblings(d, p))
           left(p) == Cardinality(Siblings(d, p) \ {n})
           newSize(p) == Cardinality(Siblings(e, p))
<1>1. DOMAIN e = DOMAIN d /\ \A x \in DOMAIN d \ {n} : e[x].parent = d[x].parent
  BY DEF PutAs
<1>2. \A p : /\ size(p) \in Nat /\ left(p) \in Nat
             /\ d[n].parent = p => left(p) = size(p) - 1
             /\ d[n].parent # p => left(p) = size(p)
 <2> TAKE p
 <2>1. n \in Siblings(d, p) <=> d[n].parent = p
   BY DEF Siblings, Children
 <2> QED
   BY <2>1, SiblingCount
<1>3. \A p : newSize(p) = IF p = q THEN left(p) + 1 ELSE left(p)
 <2> TAKE p
 <2>1. CASE p = q
  <3> DEFINE L == Siblings(d, p) \ {n}
  <3>1. Siblings(e, p) = L \cup {n} /\ n \notin L
    BY <1>1, <2>1 DEF Siblings, Children, PutAs
  <3>2. IsFiniteSet(L)
    BY SiblingCount
  <3> HIDE DEF L
  <3>3. Cardinality(L \cup {n}) = Cardinality(L) + 1
    BY <3>1, <3>2, FS_AddElement
  <3> QED
    BY <2>1, <3>1, <3>3 DEF L
 <2>2. CASE p # q
  <3>1. Siblings(e, p) = Siblings(d, p) \ {n}
    BY <1>1, <2>2 DEF Siblings, Children, PutAs
  <3> QED
    BY <2>2, <3>1
 <2> QED
   BY <2>1, <2>2
<1>4. \A x \in DOMAIN d : d[x].order \in Nat /\ d[x].order < size(d[x].parent)
  BY DEF Numbered
<1>5. \A x, y \in DOMAIN d : d[y].parent = d[x].parent /\ d[y].order = d[x].order => y = x
  BY DEF Numbered
<1>6. g <= left(q) /\ e[n].parent = q /\ e[n].order = g
  BY DEF PutAs
<1> HIDE DEF size, left, newSize
<1>7. ASSUME NEW x \in DOMAIN d \ {n}
      PROVE  Closed(d, n, x) \in Nat /\ Closed(d, n, x) < left(d[x].parent)
 <2> DEFINE p == d[x].parent
            o == d[x].order
            r == d[n].order
            same == p = d[n].parent
            sz == size(p)
            c == Closed(d, n, x)
 <2>1. o \in Nat /\ r \in Nat /\ o < sz /\ (same => r < sz) /\ (same => o # r)
   BY <1>4, <1>5
 <2>2. sz \in Nat /\ left(p) = IF same THEN sz - 1 ELSE sz
   BY <1>2
 <2>3. c = IF same /\ o > r THEN o - 1 ELSE o
   BY DEF Closed
 <2> HIDE DEF p, o, r, same, sz, c
 <2>4. (same /\ o > r) \/ (same /\ o < r) \/ ~same
   BY <2>1
 <2>5. c \in Nat /\ c < left(p)
   BY <2>1, <2>2, <2>3, <2>4
 <2> QED
   BY <2>5 DEF c, p
<1>8. ASSUME NEW x \in DOMAIN d \ {n}, NEW y \in DOMAIN d \ {n},
             d[y].parent = d[x].parent, Closed(d, n, y) = Closed(d, n, x)
      PROVE  y = x
 <2> DEFINE o == d[x].order
            u == d[y].order
            r == d[n].order
            same == d[x].parent = d[n].parent
 <2>1. o \in Nat /\ u \in Nat /\ r \in Nat /\ (same => o # r /\ u # r)
   BY <1>4, <1>5, <1>8
 <2>2. (IF same /\ o > r THEN o - 1 ELSE o) = (IF same /\ u > r THEN u - 1 ELSE u)
   BY <1>8 DEF Closed
 <2> HIDE DEF o, u, r, same
 <2>3. o = u
   BY <2>1, <2>2
 <2> QED
   BY <1>5, <1>8, <2>3 DEF o, u
<1>9. ASSUME NEW x \in DOMAIN d \ {n}
      PROVE  /\ e[x].order \in Nat /\ e[x].order < newSize(e[x].parent)
             /\ e[x].parent = q => e[x].order # g
 <2> DEFINE c == Closed(d, n, x)
            l == left(d[x].parent)
            here == d[x].parent = q
 <2>1. c \in Nat /\ l \in Nat /\ c < l
   BY <1>2, <1>7
 <2>2. e[x].order = (IF here /\ c >= g THEN c + 1 ELSE c) /\ e[x].parent = d[x].parent
   BY DEF PutAs
 <2>3. newSize(d[x].parent) = IF here THEN l + 1 ELSE l
   BY <1>3
 <2> HIDE DEF c, l, here
 <2>4. e[x].order \in Nat /\ e[x].order < newSize(d[x].parent) /\ (here => e[x].order # g)
   BY <2>1, <2>2, <2>3
 <2> QED
   BY <2>2, <2>4 DEF here
<1>10. ASSUME NEW x \in DOMAIN d \ {n}, NEW y \in DOMAIN d \ {n},
              e[y].parent = e[x].parent, e[y].order = e[x].order
       PROVE  y = x
 <2> DEFINE c == Closed(d, n, x)
            b == Closed(d, n, y)
            here == d[x].parent = q
 <2>1. c \in Nat /\ b \in Nat
   BY <1>7
 <2>2. d[y].parent = d[x].parent
   BY <1>1, <1>10
 <2>3. (IF here /\ c >= g THEN c + 1 ELSE c) = (IF here /\ b >= g THEN b + 1 ELSE b)
   BY <1>10, <2>2 DEF PutAs
 <2> HIDE DEF c, b, here
 <2>4. b = c
   BY <2>1, <2>3
 <2> QED
   BY <1>8, <2>2, <2>4 DEF b, c
<1>11. e[n].order \in Nat /\ e[n].order < newSize(e[n].parent)
  BY <1>2, <1>3, <1>6
<1>12. \A x \in DOMAIN d : e[x].order \in Nat /\ e[x].order < newSize(e[x].parent)
  BY <1>9, <1>11
<1>13. \A x, y \in DOMAIN d : e[y].parent = e[x].parent /\ e[y].order = e[x].order => y = x
  BY <1>6, <1>9, <1>10
<1> QED
  BY <1>1, <1>12, <1>13 DEF Numbered, newSize

\* One new row, numbered next under its parent.
LEMMA InsertNumbered ==
  ASSUME NEW d, DOMAIN d \subseteq Node, Numbered(d), NEW n \in Node \ DOMAIN d, NEW e,
         DOMAIN e = DOMAIN d \cup {n}, \A x \in DOMAIN d : e[x] = d[x],
         e[n].order = Cardinality(Siblings(d, e[n].parent))
  PROVE  Numbered(e)
<1> DEFINE q == e[n].parent
           size(p) == Cardinality(Siblings(d, p))
           newSize(p) == Cardinality(Siblings(e, p))
<1>1. \A p : size(p) \in Nat
  BY SiblingCount
<1>2. \A p : newSize(p) = IF p = q THEN size(p) + 1 ELSE size(p)
 <2> TAKE p
 <2>1. CASE p = q
  <3> DEFINE L == Siblings(d, p)
  <3>1. Siblings(e, p) = L \cup {n} /\ n \notin L
    BY <2>1 DEF Siblings, Children
  <3>2. IsFiniteSet(L)
    BY SiblingCount
  <3> HIDE DEF L
  <3>3. Cardinality(L \cup {n}) = Cardinality(L) + 1
    BY <3>1, <3>2, FS_AddElement
  <3> QED
    BY <2>1, <3>1, <3>3 DEF L
 <2>2. CASE p # q
  <3>1. Siblings(e, p) = Siblings(d, p)
    BY <2>2 DEF Siblings, Children
  <3> QED
    BY <2>2, <3>1
 <2> QED
   BY <2>1, <2>2
<1>3. \A x \in DOMAIN d : d[x].order \in Nat /\ d[x].order < size(d[x].parent)
  BY DEF Numbered
<1>4. \A x, y \in DOMAIN d : d[y].parent = d[x].parent /\ d[y].order = d[x].order => y = x
  BY DEF Numbered
<1>5. e[n].order = size(q)
  OBVIOUS
<1> HIDE DEF q, size, newSize
<1>6. ASSUME NEW x \in DOMAIN d
      PROVE  /\ e[x].order \in Nat /\ e[x].order < newSize(e[x].parent)
             /\ e[x].parent = q => e[x].order # e[n].order
  BY <1>1, <1>2, <1>3, <1>5
<1>7. e[n].order \in Nat /\ e[n].order < newSize(e[n].parent) /\ e[n].parent = q
 <2>1. e[n].parent = q
   BY DEF q
 <2> QED
   BY <1>1, <1>2, <1>5, <2>1
<1>8. \A x \in DOMAIN e : e[x].order \in Nat /\ e[x].order < newSize(e[x].parent)
  BY <1>6, <1>7
<1>9. \A x, y \in DOMAIN e : e[y].parent = e[x].parent /\ e[y].order = e[x].order => y = x
  BY <1>4, <1>6, <1>7
<1> QED
  BY <1>8, <1>9 DEF Numbered, newSize

\* The plan of a move that works on current rows has its place among the
\* siblings other than n.
LEMMA PlanOrder ==
  ASSUME NEW d, DOMAIN d \subseteq Node, Numbered(d),
         NEW n \in DOMAIN d, NEW t \in DOMAIN d, t # n, NEW pos \in Positions,
         NEW plan, plan = MovePlan(d, DOMAIN d, d[n], t, d[t], pos)
  PROVE  plan.order <= Cardinality(Siblings(d, plan.parent) \ {n})
<1> DEFINE inside == pos \in {"first-child", "last-child"}
           q == IF inside THEN t ELSE d[t].parent
           size == Cardinality(Siblings(d, q))
           left == Cardinality(Siblings(d, q) \ {n})
           o == d[t].order
           r == d[n].order
           mine == d[n].parent = q
<1>1. plan.parent = q
  BY DEF MovePlan
<1>2. /\ size \in Nat /\ left \in Nat
      /\ left = IF mine THEN size - 1 ELSE size
 <2>1. n \in Siblings(d, q) <=> mine
   BY DEF Siblings, Children
 <2> HIDE DEF q, mine
 <2> QED
   BY <2>1, SiblingCount
<1>3. o \in Nat /\ r \in Nat
  BY DEF Numbered
<1>4. CASE pos = "first-child"
 <2>1. plan.order = 0
   BY <1>4 DEF MovePlan
 <2>2. plan.order <= left
  <3> HIDE DEF left, size
  <3> QED
    BY <1>2, <2>1
 <2> QED
   BY <1>1, <2>2
<1>5. CASE pos = "last-child"
 <2>1. plan.order = size - (IF mine THEN 1 ELSE 0)
   BY <1>5 DEF MovePlan, Siblings
 <2>2. plan.order <= left
  <3> HIDE DEF left, size, mine
  <3> QED
    BY <1>2, <2>1
 <2> QED
   BY <1>1, <2>2
<1>6. CASE pos \in {"left", "right"}
 <2> DEFINE at == IF pos = "left" THEN o ELSE o + 1
 <2>1. q = d[t].parent /\ plan.order = (IF mine /\ r < at THEN at - 1 ELSE at)
   BY <1>6 DEF MovePlan
 <2>2. o < size /\ (mine => r < size)
   BY <2>1 DEF Numbered
 <2>3. mine => o # r
   BY <2>1 DEF Numbered
 <2>4. at = o \/ at = o + 1
   OBVIOUS
 <2>5. plan.order <= left
  <3> HIDE DEF left, size, mine, o, r, at
  <3>1. (mine /\ o < r) \/ (mine /\ r < o) \/ ~mine
    BY <1>3, <2>3
  <3> QED
    BY <1>2, <1>3, <2>1, <2>2, <2>4, <3>1
 <2> QED
   BY <1>1, <2>5
<1> QED
  BY <1>4, <1>5, <1>6 DEF Positions

LEMMA ShiftedOrders ==
  ASSUME NEW d, NEW V, NEW S, NEW base \in Seq(Int), NEW delta \in Int,
         WideTable(d), S \subseteq DOMAIN d
  PROVE  \A x \in DOMAIN d :
           ShiftSiblings(d, V, S, base, delta)[x].order =
             IF x \in S THEN d[x].order + delta ELSE d[x].order
<1> DEFINE sib(x) == [d[x] EXCEPT !.path = NewPath(base, d[x].order + delta),
                                  !.order = @ + delta]
           r(x) == IF x \in S THEN sib(x) ELSE d[x]
           q(x) == [d[x].path EXCEPT ![Len(base) + 1] = @ + delta]
           sub(x) == [r(x) EXCEPT !.path = q(x), !.depth = Len(q(x)) - 1]
           e == ShiftSiblings(d, V, S, base, delta)
<1>1. \A x \in DOMAIN d : e[x] \in {r(x), sub(x)}
  BY DEF ShiftSiblings
<1>2. ASSUME NEW x \in DOMAIN d
      PROVE  /\ r(x).order = (IF x \in S THEN d[x].order + delta ELSE d[x].order)
             /\ sub(x).order = r(x).order
 <2>1. d[x] \in WideRow
   BY DEF WideTable
 <2>2. d[x].order + delta \in Int /\ NewPath(base, d[x].order + delta) \in Path
   BY <2>1, NewPathType DEF WideRow
 <2>3. r(x) \in WideRow /\ r(x).order = (IF x \in S THEN d[x].order + delta ELSE d[x].order)
   BY <2>1, <2>2 DEF WideRow
 <2>4. sub(x).order = r(x).order
  <3> HIDE DEF r, q
  <3> QED
    BY <2>3 DEF WideRow
 <2> QED
   BY <2>3, <2>4
<1> HIDE DEF e, r, sub
<1>3. \A x \in DOMAIN d : e[x].order = IF x \in S THEN d[x].order + delta ELSE d[x].order
  BY <1>1, <1>2
<1> QED
  BY <1>3 DEF e

LEMMA MovedPuts ==
  ASSUME NEW d, Table(d), NEW n \in DOMAIN d, NEW plan \in Plan,
         d[n].parent \in DOMAIN d \cup {NoParent}
  PROVE  /\ PutAs(d, n, plan.parent, plan.order, Moved(d, DOMAIN d, n, d[n], plan))
         /\ Moved(d, DOMAIN d, n, d[n], plan)[n] =
              [parent |-> plan.parent, path |-> NewPath(plan.base, plan.order),
               depth |-> plan.depth, order |-> plan.order]
<1> DEFINE D == Below(d, DOMAIN d, d[n].path)
           d0 == [x \in DOMAIN d |-> IF x = n \/ x \in D
                                THEN [d[x] EXCEPT !.path = <<0>> \o @]
                                ELSE d[x]]
           p == d[n].parent
           S1 == {x \in Children(d0, DOMAIN d, p) : d0[x].order > d[n].order}
           base == PathOfParent(d, p)
           d1 == ShiftSiblings(d0, DOMAIN d, S1, base, -1)
           S2 == {x \in Children(d1, DOMAIN d, plan.parent) : d1[x].order >= plan.order}
           to == plan.base
           d2 == ShiftSiblings(d1, DOMAIN d, S2, to, 1)
           path == NewPath(to, plan.order)
           d3 == [x \in DOMAIN d |->
              IF x = n
              THEN [d2[x] EXCEPT !.parent = plan.parent, !.path = path,
                                 !.depth = plan.depth, !.order = plan.order]
              ELSE d2[x]]
           e == Moved(d, DOMAIN d, n, d[n], plan)
<1>1. /\ e = Rerooted(d3, d, D, d[n].path, path)
      /\ d[n] \in Row /\ to \in Seq(Int)
  BY DEF Moved, Table, Plan
<1>2. \A x \in DOMAIN d : d[x] \in Row
  BY DEF Table
<1>3. /\ WideTable(d0) /\ DOMAIN d0 = DOMAIN d
      /\ \A x \in DOMAIN d : d0[x].parent = d[x].parent /\ d0[x].order = d[x].order
 <2>1. d0 = Marked(d, DOMAIN d \ ({n} \cup D))
   BY DEF Marked, Below
 <2> HIDE DEF d0, D
 <2> QED
   BY <2>1, MarkedFacts
<1>4. base \in Seq(Int) /\ -1 \in Int /\ 1 \in Int
  BY <1>2, PathFacts, EmptySeq DEF PathOfParent, Row
<1>5. S1 \subseteq DOMAIN d
  BY DEF Children
<1>6. /\ \A x : x \in S1 <=> x \in DOMAIN d /\ d[x].parent = p /\ d[x].order > d[n].order
  BY <1>3 DEF Children
<1> HIDE DEF d0, S1, base, p, D
<1>7. /\ WideTable(d1) /\ DOMAIN d1 = DOMAIN d
      /\ \A x \in DOMAIN d : /\ d1[x].parent = d[x].parent
                             /\ d1[x].order = IF x \in S1 THEN d[x].order + -1 ELSE d[x].order
 <2>1. LET f == ShiftSiblings(d0, DOMAIN d, S1, base, -1) IN
        /\ WideTable(f) /\ DOMAIN f = DOMAIN d0
        /\ \A x \in DOMAIN d0 : f[x].parent = d0[x].parent
   BY <1>3, <1>4, <1>5, ShiftSiblingsFacts
 <2>2. \A x \in DOMAIN d0 :
         d1[x].order = IF x \in S1 THEN d0[x].order + -1 ELSE d0[x].order
   BY <1>3, <1>4, <1>5, ShiftedOrders
 <2> QED
   BY <1>3, <2>1, <2>2
<1>8. \A x \in DOMAIN d : d1[x].order = Closed(d, n, x)
  BY <1>2, <1>6, <1>7 DEF Closed, p, Row
<1> HIDE DEF d1
<1>9. /\ S2 \subseteq DOMAIN d
      /\ \A x : x \in S2 <=> x \in DOMAIN d /\ d[x].parent = plan.parent
                                          /\ d1[x].order >= plan.order
  BY <1>7 DEF Children
<1> HIDE DEF S2, to
<1>10. /\ WideTable(d2) /\ DOMAIN d2 = DOMAIN d
       /\ \A x \in DOMAIN d : /\ d2[x].parent = d[x].parent
                              /\ d2[x].order = IF x \in S2 THEN d1[x].order + 1 ELSE d1[x].order
 <2>0. to \in Seq(Int) /\ WideTable(d1) /\ S2 \subseteq DOMAIN d1
   BY <1>1, <1>7, <1>9
 <2>1. LET f == ShiftSiblings(d1, DOMAIN d, S2, to, 1) IN
        /\ WideTable(f) /\ DOMAIN f = DOMAIN d1
        /\ \A x \in DOMAIN d1 : f[x].parent = d1[x].parent
   BY <1>4, <2>0, ShiftSiblingsFacts
 <2>2. \A x \in DOMAIN d1 :
         d2[x].order = IF x \in S2 THEN d1[x].order + 1 ELSE d1[x].order
   BY <1>4, <2>0, ShiftedOrders
 <2> QED
   BY <1>7, <2>1, <2>2
<1> HIDE DEF d2, path
<1>11. ASSUME NEW x \in DOMAIN d \ {n}
       PROVE  e[x].parent = d2[x].parent /\ e[x].order = d2[x].order
 <2> DEFINE w == Rebase(d[x].path, d[n].path, path)
 <2>1. e[x] \in {d2[x], [d2[x] EXCEPT !.path = w, !.depth = Len(w) - 1]}
   BY <1>1 DEF Rerooted
 <2>2. d2[x] \in WideRow
   BY <1>10 DEF WideTable
 <2> HIDE DEF w, e
 <2> QED
   BY <2>1, <2>2 DEF WideRow
<1>12. DOMAIN e = DOMAIN d /\ e[n].parent = plan.parent /\ e[n].order = plan.order
 <2>1. d[n] \in Row /\ DOMAIN d \in SUBSET DOMAIN d
   BY <1>1
 <2> QED
   BY <2>1, MovedFacts
<1> HIDE DEF e
<1>13. \A x \in DOMAIN d \ {n} :
         e[x].order = IF d[x].parent = plan.parent /\ Closed(d, n, x) >= plan.order
                      THEN Closed(d, n, x) + 1 ELSE Closed(d, n, x)
  BY <1>8, <1>9, <1>10, <1>11
<1>14. PutAs(d, n, plan.parent, plan.order, e)
  BY <1>10, <1>11, <1>12, <1>13 DEF PutAs
<1>15. n \notin D
  BY DEF D, Below, IsStrictPrefix
<1>16. e[n] = [parent |-> plan.parent, path |-> path, depth |-> plan.depth, order |-> plan.order]
 <2>1. e[n] = d3[n]
   BY <1>1, <1>15 DEF Rerooted
 <2>2. d2[n] \in WideRow
   BY <1>10 DEF WideTable
 <2> HIDE DEF e
 <2> QED
   BY <2>1, <2>2 DEF WideRow
<1> QED
  BY <1>14, <1>16 DEF e, path, to

\* The orders of the children of p leave out o; all others leave out none.
Gapped(d, p, o) ==
  /\ o \in Nat
  /\ \A x \in DOMAIN d :
       /\ d[x].order \in Nat
       /\ d[x].parent = p => /\ d[x].order # o
                             /\ d[x].order <= Cardinality(Siblings(d, p))
                             /\ o <= Cardinality(Siblings(d, p))
       /\ d[x].parent # p => d[x].order < Cardinality(Siblings(d, d[x].parent))
       /\ \A y \in DOMAIN d : d[y].parent = d[x].parent /\ d[y].order = d[x].order => y = x

LEMMA ClosedOrders ==
  ASSUME NEW d, NEW p, NEW o, Table(d)
  PROVE  /\ DOMAIN CloseOrderGap(d, p, o) = DOMAIN d
         /\ \A x \in DOMAIN d :
              /\ CloseOrderGap(d, p, o)[x].parent = d[x].parent
              /\ CloseOrderGap(d, p, o)[x].path = d[x].path
              /\ CloseOrderGap(d, p, o)[x].order =
                   IF d[x].parent = p /\ d[x].order > o THEN d[x].order - 1 ELSE d[x].order
<1>1. \A x \in DOMAIN d : d[x] \in Row
  BY DEF Table
<1> QED
  BY <1>1 DEF CloseOrderGap, Row

LEMMA GapClosing ==
  ASSUME NEW d, NEW p, NEW o, Table(d), Gapped(d, p, o)
  PROVE  Numbered(CloseOrderGap(d, p, o))
<1> DEFINE e == CloseOrderGap(d, p, o)
           size(q) == Cardinality(Siblings(d, q))
<1>1. /\ DOMAIN e = DOMAIN d
      /\ \A x \in DOMAIN d :
           /\ e[x].parent = d[x].parent
           /\ e[x].order = IF d[x].parent = p /\ d[x].order > o THEN d[x].order - 1
                           ELSE d[x].order
  BY ClosedOrders
<1> HIDE DEF e
<1>2. \A q : Cardinality(Siblings(e, q)) = size(q) /\ size(q) \in Nat
 <2> TAKE q
 <2>1. Siblings(e, q) = Siblings(d, q)
   BY <1>1 DEF Siblings, Children
 <2> QED
   BY <2>1, SiblingCount DEF Table
<1>3. /\ o \in Nat
      /\ \A x \in DOMAIN d :
           /\ d[x].order \in Nat
           /\ d[x].parent = p => d[x].order # o /\ d[x].order <= size(p) /\ o <= size(p)
           /\ d[x].parent # p => d[x].order < size(d[x].parent)
      /\ \A x, y \in DOMAIN d : d[y].parent = d[x].parent /\ d[y].order = d[x].order => y = x
  BY DEF Gapped
<1> HIDE DEF size
<1>4. ASSUME NEW x \in DOMAIN d
      PROVE  e[x].order \in Nat /\ e[x].order < size(d[x].parent)
 <2> DEFINE k == d[x].order
            q == d[x].parent
            z == size(q)
 <2>1. /\ k \in Nat /\ z \in Nat /\ o \in Nat
       /\ q = p => k # o /\ k <= z /\ o <= z
       /\ q # p => k < z
   BY <1>2, <1>3
 <2>2. e[x].order = IF q = p /\ k > o THEN k - 1 ELSE k
   BY <1>1
 <2> HIDE DEF k, q, z
 <2>3. e[x].order \in Nat /\ e[x].order < z
   BY <2>1, <2>2
 <2> QED
   BY <2>3 DEF z, q
<1>5. ASSUME NEW x \in DOMAIN d, NEW y \in DOMAIN d,
             e[y].parent = e[x].parent, e[y].order = e[x].order
      PROVE  y = x
 <2> DEFINE k == d[x].order
            l == d[y].order
            here == d[x].parent = p
 <2>1. k \in Nat /\ l \in Nat /\ (here => k # o /\ l # o)
   BY <1>1, <1>3, <1>5
 <2>2. (IF here /\ k > o THEN k - 1 ELSE k) = (IF here /\ l > o THEN l - 1 ELSE l)
   BY <1>1, <1>5
 <2> HIDE DEF k, l, here
 <2>3. k = l
   BY <1>3, <2>1, <2>2
 <2> QED
   BY <1>1, <1>3, <1>5, <2>3 DEF k, l
<1>6. Numbered(e)
  BY <1>1, <1>2, <1>4, <1>5 DEF Numbered
<1> QED
  BY <1>6 DEF e

\* Where no row has the parent p there is no gap to close.
LEMMA NothingToClose ==
  ASSUME NEW d, NEW p, NEW o, \A x \in DOMAIN d : d[x].parent # p, Table(d)
  PROVE  CloseOrderGap(d, p, o) = d
<1>1. d = [x \in DOMAIN d |-> d[x]]
  BY DEF Table
<1>2. CloseOrderGap(d, p, o) = [x \in DOMAIN d |-> d[x]]
  BY DEF CloseOrderGap
<1> QED
  BY <1>1, <1>2

LEMMA SubtreeOf ==
  ASSUME NEW d, NEW n \in DOMAIN d
  PROVE  /\ n \in Subtrees(d, {n}) /\ Subtrees(d, {n}) \subseteq DOMAIN d
         /\ \A x \in Subtrees(d, {n}) \ {n} : d[x].parent \in Subtrees(d, {n})
         /\ \A x \in DOMAIN d \ Subtrees(d, {n}) : d[x].parent \notin Subtrees(d, {n})
<1> DEFINE S == Subtrees(d, {n})
           C == {n} \cup {x \in S : d[x].parent \in S}
<1>1. n \in S /\ S \subseteq DOMAIN d
  BY DEF Subtrees
<1>2. \A x \in DOMAIN d : d[x].parent \in S => x \in S
  BY DEF Subtrees, ClosedUnderChildren
<1>3. C \in SUBSET DOMAIN d /\ {n} \subseteq C /\ ClosedUnderChildren(d, C)
 <2> HIDE DEF S
 <2> QED
   BY <1>1, <1>2 DEF ClosedUnderChildren
<1>4. S \subseteq C
  BY <1>3 DEF Subtrees
<1> QED
  BY <1>1, <1>2, <1>4

\* A subtree taken away leaves one gap, where its top was.
LEMMA RowsGone ==
  ASSUME NEW d, DOMAIN d \subseteq Node, Numbered(d), NEW n \in DOMAIN d, NEW e,
         DOMAIN e = DOMAIN d \ Subtrees(d, {n}), \A x \in DOMAIN e : e[x] = d[x]
  PROVE  Gapped(e, d[n].parent, d[n].order)
<1> DEFINE S == Subtrees(d, {n})
           p == d[n].parent
           o == d[n].order
           size(q) == Cardinality(Siblings(d, q))
           newSize(q) == Cardinality(Siblings(e, q))
<1>1. /\ n \in S /\ S \subseteq DOMAIN d
      /\ \A x \in S \ {n} : d[x].parent \in S
      /\ \A x \in DOMAIN d \ S : d[x].parent \notin S
  BY SubtreeOf
<1>2. /\ \A x \in DOMAIN d : d[x].order \in Nat /\ d[x].order < size(d[x].parent)
      /\ \A x, y \in DOMAIN d : d[y].parent = d[x].parent /\ d[y].order = d[x].order => y = x
  BY DEF Numbered
<1>3. \A q : size(q) \in Nat
  BY SiblingCount
<1>4. DOMAIN e = DOMAIN d \ S /\ \A x \in DOMAIN e : e[x] = d[x]
  OBVIOUS
<1> HIDE DEF S
<1>5. p \notin S => newSize(p) = size(p) - 1
 <2> SUFFICES ASSUME p \notin S PROVE newSize(p) = size(p) - 1
   OBVIOUS
 <2>1. Siblings(e, p) = Siblings(d, p) \ {n}
   BY <1>1, <1>4 DEF Siblings, Children
 <2>2. n \in Siblings(d, p)
   BY DEF Siblings, Children
 <2> HIDE DEF p
 <2> QED
   BY <2>1, <2>2, SiblingCount
<1>6. \A q : q \notin S /\ q # p => newSize(q) = size(q)
 <2> SUFFICES ASSUME NEW q, q \notin S, q # p PROVE Siblings(e, q) = Siblings(d, q)
   OBVIOUS
 <2> QED
   BY <1>1, <1>4 DEF Siblings, Children
<1> HIDE DEF size, newSize
<1>7. ASSUME NEW x \in DOMAIN e
      PROVE  /\ e[x].order \in Nat
             /\ e[x].parent = p => e[x].order # o /\ e[x].order <= newSize(p) /\ o <= newSize(p)
             /\ e[x].parent # p => e[x].order < newSize(e[x].parent)
 <2>1. x \in DOMAIN d /\ x # n /\ d[x].parent \notin S /\ e[x] = d[x]
   BY <1>1, <1>4
 <2>2. d[x].order \in Nat /\ o \in Nat /\ d[x].order < size(d[x].parent) /\ o < size(p)
   BY <1>2, <2>1
 <2>3. d[x].parent = p => d[x].order # o
   BY <1>2, <2>1
 <2> HIDE DEF p, o
 <2>4. CASE d[x].parent = p
   BY <1>3, <1>5, <2>1, <2>2, <2>3, <2>4
 <2>5. CASE d[x].parent # p
   BY <1>3, <1>6, <2>1, <2>2, <2>5
 <2> QED
   BY <2>4, <2>5
<1>8. o \in Nat
  BY <1>2
<1>9. \A x, y \in DOMAIN e : e[y].parent = e[x].parent /\ e[y].order = e[x].order => y = x
  BY <1>2, <1>4
<1>10. Gapped(e, p, o)
  BY <1>7, <1>8, <1>9 DEF Gapped, newSize
<1> QED
  BY <1>10 DEF p, o

\* The node saved as a root: its own row is put behind the other roots.
LEMMA RootPuts ==
  ASSUME NEW d, Table(d), Numbered(d), NEW n \in DOMAIN d, d[n].parent # NoParent,
         NEW row \in Row, NEW e, DOMAIN e = DOMAIN d, e[n].parent = NoParent,
         e[n].order = Cardinality(Siblings(d, NoParent)),
         \A x \in DOMAIN d \ {n} : e[x] = RootedSubtree(d, DOMAIN d, d[n], row)[x]
  PROVE  PutAs(d, n, NoParent, Cardinality(Siblings(d, NoParent)), e)
<1> DEFINE c == CloseOrderGap(d, d[n].parent, d[n].order)
           D == Below(d, DOMAIN d, d[n].path)
           f == RootedSubtree(d, DOMAIN d, d[n], row)
           size == Cardinality(Siblings(d, NoParent))
<1>1. d[n] \in Row /\ d[n].order \in Nat
  BY DEF Table, Row
<1>2. /\ Table(c) /\ DOMAIN c = DOMAIN d
      /\ \A x \in DOMAIN d : c[x].parent = d[x].parent /\ c[x].order = Closed(d, n, x)
 <2>1. Table(c)
   BY <1>1, CloseOrderGapFacts
 <2> QED
   BY <2>1, ClosedOrders DEF Closed
<1>3. f = Rerooted(c, d, D, d[n].path, row.path)
  BY DEF RootedSubtree
<1> HIDE DEF c, D, f
<1>4. ASSUME NEW x \in DOMAIN d
      PROVE  f[x].parent = c[x].parent /\ f[x].order = c[x].order
 <2> DEFINE w == Rebase(d[x].path, d[n].path, row.path)
 <2>1. f[x] \in {c[x], [c[x] EXCEPT !.path = w, !.depth = Len(w) - 1]}
   BY <1>2, <1>3 DEF Rerooted
 <2>2. c[x] \in Row
   BY <1>2 DEF Table
 <2> HIDE DEF w
 <2> QED
   BY <2>1, <2>2 DEF Row
<1>5. ASSUME NEW x \in DOMAIN d, d[x].parent = NoParent
      PROVE  ~(Closed(d, n, x) >= size)
 <2>1. Closed(d, n, x) = d[x].order
   BY <1>5 DEF Closed
 <2>2. d[x].order \in Nat /\ d[x].order < size /\ size \in Nat
   BY <1>5, SiblingCount DEF Numbered, Table
 <2> HIDE DEF size
 <2> QED
   BY <2>1, <2>2
<1> HIDE DEF size
<1>6. \A x \in DOMAIN d \ {n} :
        /\ e[x].parent = d[x].parent
        /\ e[x].order = IF d[x].parent = NoParent /\ Closed(d, n, x) >= size
                        THEN Closed(d, n, x) + 1 ELSE Closed(d, n, x)
 <2> TAKE x \in DOMAIN d \ {n}
 <2>1. e[x] = f[x]
   BY DEF f
 <2> QED
   BY <1>2, <1>4, <1>5, <2>1
<1> QED
  BY <1>6 DEF PutAs, size

\* On a numbered table the rank that rebuild computes is the order.
LEMMA RankIsOrder ==
  ASSUME OneScope, NEW d, Table(d), Numbered(d), NEW tie \in TieBreaks(d), NEW x \in DOMAIN d
  PROVE  Rank(d, ScopeOf, tie, x) = d[x].order
<1> DEFINE p == d[x].parent
           o == d[x].order
           S == {y \in Siblings(d, p) : d[y].order < o}
           f == [y \in S |-> d[y].order]
<1>1. DOMAIN d \subseteq Node
  BY DEF Table
<1>2. tie = [y \in DOMAIN d |-> y]
 <2>1. ~\E y, z \in DOMAIN d : y # z /\ d[y].parent = d[z].parent /\ d[y].order = d[z].order
   BY DEF Numbered
 <2> QED
   BY <2>1 DEF TieBreaks
<1>3. ASSUME NEW y \in DOMAIN d, d[y].parent = p
      PROVE  (d[y].order < o \/ (d[y].order = o /\ tie[y] < tie[x])) <=> d[y].order < o
 <2>1. d[y].order = o => y = x
   BY <1>3 DEF Numbered
 <2>2. tie[x] = x /\ x \in Nat
   BY <1>1, <1>2, NodeAssumption
 <2>3. ~(x < x)
   BY <2>2
 <2> QED
   BY <2>1, <2>2, <2>3
<1>4. Rank(d, ScopeOf, tie, x) = Cardinality(S)
 <2> DEFINE T == {y \in DOMAIN d :
                    /\ d[y].parent = d[x].parent
                    /\ d[x].parent = NoParent => ScopeOf[y] = ScopeOf[x]
                    /\ \/ d[y].order < d[x].order
                       \/ d[y].order = d[x].order /\ tie[y] < tie[x]}
 <2>1. Rank(d, ScopeOf, tie, x) = Cardinality(T)
   BY DEF Rank
 <2>2. T = S
   BY <1>1, <1>3 DEF OneScope, Siblings, Children
 <2> QED
   BY <2>1, <2>2
<1>5. {d[y].order : y \in Siblings(d, p)} = 0..Cardinality(Siblings(d, p)) - 1
  BY <1>1, NoGap
<1>6. /\ o \in Nat /\ o < Cardinality(Siblings(d, p)) /\ Cardinality(Siblings(d, p)) \in Nat
      /\ \A y \in Siblings(d, p) : d[y].order \in Nat
      /\ \A y, z \in Siblings(d, p) : d[y].order = d[z].order => y = z
  BY <1>1, SiblingCount DEF Numbered, Siblings, Children
<1> HIDE DEF p, o
<1>7. \A i \in 0..o - 1 : \E y \in S : d[y].order = i
 <2> TAKE i \in 0..o - 1
 <2>1. i \in 0..Cardinality(Siblings(d, p)) - 1 /\ i < o
   BY <1>6
 <2>2. PICK y \in Siblings(d, p) : d[y].order = i
   BY <1>5, <2>1
 <2> QED
   BY <2>1, <2>2
<1>8. \A y \in S : d[y].order \in 0..o - 1
  BY <1>6
<1>9. \A y, z \in S : d[y].order = d[z].order => y = z
  BY <1>6
<1>10. IsFiniteSet(S)
 <2>1. S \in SUBSET Node
   BY <1>1 DEF Siblings, Children
 <2> QED
   BY <2>1, FiniteRows
<1> HIDE DEF S
<1>11. f \in Injection(S, 0..o - 1) /\ f \in Surjection(S, 0..o - 1)
  BY <1>7, <1>8, <1>9 DEF Injection, IsInjective, Surjection
<1>12. IsFiniteSet(0..o - 1) /\ Cardinality(0..o - 1) = o
 <2>1. 0 \in Int /\ o - 1 \in Int /\ o \in Nat
   BY <1>6
 <2>2. /\ IsFiniteSet(0..o - 1)
       /\ Cardinality(0..o - 1) = IF 0 > o - 1 THEN 0 ELSE o - 1 - 0 + 1
   BY <2>1, FS_Interval
 <2> QED
   BY <2>1, <2>2
<1>13. Cardinality(S) = o
  BY <1>11, <1>12, FS_Injection
<1> QED
  BY <1>4, <1>13 DEF o

LEMMA RebuiltNumbered ==
  ASSUME OneScope, NEW d, Table(d), Numbered(d), NEW tie \in TieBreaks(d)
  PROVE  Numbered(Rebuilt(d, ScopeOf, tie))
<1> DEFINE e == Rebuilt(d, ScopeOf, tie)
           u(x) == RebuiltRow(d, ScopeOf, tie, x)
           m(x) == [d[x] EXCEPT !.path = <<-x>>]
<1>1. /\ DOMAIN e = DOMAIN d /\ \A x \in DOMAIN d : e[x].parent = d[x].parent
  BY RebuiltFacts
<1>2. \A x \in DOMAIN d : e[x] \in {u(x), m(x), d[x]}
  BY DEF Rebuilt
<1>3. \A x \in DOMAIN d : u(x).order = d[x].order
  BY RankIsOrder DEF RebuiltRow
<1>4. \A x \in DOMAIN d : m(x).order = d[x].order
  BY DEF Table, Row
<1> HIDE DEF e, u, m
<1>5. Numbered(e)
  BY <1>1, <1>2, <1>3, <1>4, SameNumbers
<1> QED
  BY <1>5 DEF e

\* One caller at a time, who finishes what it began.
Sequential ==
  /\ OneScope
  /\ \E s : Session = {s}
  /\ Ops \cap {"delete_many", "crash"} = {}

\* What the session holds is what the table has; a row that is about to be
\* written completes the numbering.
Fresh(s) ==
  LET h == sess[s] IN
  /\ h.op = "insert" => h.row.order = Cardinality(Siblings(db, h.row.parent))
  /\ h.op \in {"move", "edit", "delete"} => h.node \in Rows /\ h.row = db[h.node]
  /\ h.op = "move" => h.target \in Rows /\ h.trow = db[h.target]
  /\ h.op = "edit" /\ h.target # NoParent => h.target \in Rows /\ h.trow = db[h.target]
  /\ h.op = "write" => /\ h.node \in Rows
                       /\ Storable(WithRow(h.node, h.row), MaxPath)
                       /\ Numbered(WithRow(h.node, h.row))
  /\ h.op # "write" /\ purge = {} => Numbered(db)

Barren(p) == \A x \in Rows : db[x].parent # p

\* While the signals of a delete are sent, one of them closes the gap that the
\* top of the subtree left, and the parents in the others are gone.
Closing ==
  \/ Numbered(db) /\ \A q \in purge : Barren(q.parent)
  \/ \E p \in purge : /\ Gapped(db, p.parent, p.order)
                      /\ \A q \in purge \ {p} : Barren(q.parent)

OrderInv ==
  /\ Storable(db, MaxPath)
  /\ \A s \in Session : Fresh(s) /\ (purge # {} => sess[s].op = "idle")
  /\ purge # {} => Closing

LEMMA SessionStep ==
  ASSUME NEW s, Session = {s}, Storable(db', MaxPath), Fresh(s)', purge' = {}
  PROVE  OrderInv'
BY DEF OrderInv

LEMMA MoveNumbered ==
  ASSUME IInv, Numbered(db), NEW n \in Rows, NEW t \in Rows, NEW pos \in Positions,
         MoveApplies(n, db[n], t, db[t], pos)
  PROVE  LET plan == PlanOf(db[n], t, db[t], pos)
             e == MoveResult(n, db[n], t, db[t], pos)
         IN  /\ Numbered(e) /\ Storable(e, MaxPath) /\ Table(e) /\ DOMAIN e = Rows
             /\ e[n] = [parent |-> plan.parent, path |-> NewPath(plan.base, plan.order),
                        depth |-> plan.depth, order |-> plan.order]
<1> DEFINE plan == PlanOf(db[n], t, db[t], pos)
           e == MoveResult(n, db[n], t, db[t], pos)
<1>1. TypeOK /\ Table(db) /\ DOMAIN db = Rows /\ db[n] \in Row /\ db[t] \in Row /\ t \in Node
      /\ Rows \subseteq Node
  BY TableOf DEF IInv, TypeOK, Rows
<1>2. plan \in Plan /\ plan.order \in Nat /\ Table(e) /\ DOMAIN e = Rows
  BY <1>1, MoveResultFacts
<1>3. Storable(e, MaxPath) /\ t # n /\ db[n].parent \in DOMAIN db \cup {NoParent}
  BY DEF MoveApplies, MoveRejected
<1>4. plan = MovePlan(db, DOMAIN db, db[n], t, db[t], pos)
      /\ e = Moved(db, DOMAIN db, n, db[n], plan)
  BY <1>1 DEF PlanOf, MoveResult
<1> HIDE DEF plan, e
<1>5. /\ PutAs(db, n, plan.parent, plan.order, e)
      /\ e[n] = [parent |-> plan.parent, path |-> NewPath(plan.base, plan.order),
                 depth |-> plan.depth, order |-> plan.order]
 <2>1. n \in DOMAIN db
   BY <1>1
 <2>2. /\ PutAs(db, n, plan.parent, plan.order, Moved(db, DOMAIN db, n, db[n], plan))
       /\ Moved(db, DOMAIN db, n, db[n], plan)[n] =
            [parent |-> plan.parent, path |-> NewPath(plan.base, plan.order),
             depth |-> plan.depth, order |-> plan.order]
   BY <1>1, <1>2, <1>3, <2>1, MovedPuts
 <2> QED
   BY <1>4, <2>2
<1>6. plan.order <= Cardinality(Siblings(db, plan.parent) \ {n})
  BY <1>1, <1>3, <1>4, PlanOrder
<1>7. Numbered(e)
 <2> DEFINE q == plan.parent
            g == plan.order
 <2>1. PutAs(db, n, q, g, e) /\ g \in Nat /\ g <= Cardinality(Siblings(db, q) \ {n})
   BY <1>2, <1>5, <1>6
 <2> HIDE DEF q, g
 <2> QED
   BY <1>1, <2>1, PutNumbered
<1> QED
  BY <1>2, <1>3, <1>5, <1>7 DEF plan, e

\* The subtree of a node that becomes a root is stored with shorter paths.
LEMMA RootedStorable ==
  ASSUME NEW d, Table(d), NEW n \in DOMAIN d, NEW roots \in SUBSET DOMAIN d,
         Storable(d, MaxPath)
  PROVE  /\ Storable(RootedSubtree(d, DOMAIN d, d[n], RowForRoot(roots)), MaxPath)
         /\ 1 <= MaxPath
<1> DEFINE c == CloseOrderGap(d, d[n].parent, d[n].order)
           D == Below(d, DOMAIN d, d[n].path)
           k == Cardinality(roots)
           new == NewPath(<<>>, k)
           row == RowForRoot(roots)
           f == RootedSubtree(d, DOMAIN d, d[n], row)
<1>1. \A x \in DOMAIN d :
        /\ d[x] \in Row /\ d[x].path \in Seq(Int) /\ Len(d[x].path) \in Nat
        /\ d[x].order \in Nat /\ Len(d[x].path) # 0 /\ d[x].path \in Path
  BY PathFacts, LenProperties, EmptySeq DEF Table, Row
<1>2. MaxPath \in Nat /\ (\A x \in DOMAIN d : Len(d[x].path) <= MaxPath) /\ 1 <= MaxPath
 <2>1. MaxPath \in Nat /\ \A x \in DOMAIN d : Len(d[x].path) <= MaxPath
   BY BoundAssumption DEF Storable
 <2> QED
   BY <1>1, <2>1
<1>3. k \in Nat /\ k + 1 \in Int
  BY FiniteRows DEF Table
<1> HIDE DEF k
<1>4. new \in Seq(Int) /\ Len(new) = 1 /\ row.path = new /\ new \in Path
 <2>1. <<>> \in Seq(Int) /\ Len(<<>>) = 0
   BY EmptySeq
 <2>2. new \in Seq(Int) /\ Len(new) = 0 + 1
   BY <1>3, <2>1, AppendFacts DEF NewPath
 <2>3. new \in Path
  <3>1. k \in Int /\ <<>> \in Seq(Int)
    BY <1>3, <2>1
  <3> QED
    BY <3>1, NewPathType
 <2>4. row.path = new
   BY DEF RowForRoot, k
 <2> QED
   BY <2>2, <2>3, <2>4
<1>5. row \in Row
 <2>1. row = [parent |-> NoParent, path |-> new, depth |-> 0, order |-> k]
   BY DEF RowForRoot, k
 <2> HIDE DEF row, new
 <2> QED
   BY <1>3, <1>4, <2>1 DEF Row
<1>6. /\ DOMAIN c = DOMAIN d /\ Table(c)
      /\ \A x \in DOMAIN d : c[x].path = d[x].path
 <2>1. Table(c)
   BY <1>1, CloseOrderGapFacts
 <2> QED
   BY <2>1, ClosedOrders
<1>7. f = Rerooted(c, d, D, d[n].path, new)
  BY <1>4 DEF RootedSubtree
<1>8. /\ Table(f) /\ DOMAIN f = DOMAIN d
      /\ \A x \in DOMAIN d : f[x].parent = d[x].parent
 <2>1. d[n] \in Row
   BY <1>1
 <2> HIDE DEF row
 <2> QED
   BY <1>5, <2>1, RootedSubtreeFacts
<1> HIDE DEF c, f, row, new
<1>9. ASSUME NEW x \in DOMAIN d
      PROVE  Len(f[x].path) <= MaxPath
 <2> DEFINE w == Rebase(d[x].path, d[n].path, new)
 <2>1. CASE x \in D
  <3>1. Len(d[n].path) <= Len(d[x].path)
    BY <2>1 DEF Below, IsStrictPrefix, IsPrefix
  <3>2. Replaces(d[x].path, d[n].path, new, w)
    BY <1>1, <1>4, <3>1, RebaseFacts
  <3>3. Len(w) = 1 + Len(d[x].path) - Len(d[n].path)
    BY <1>4, <3>2 DEF Replaces
  <3>4. f[x].path = w
   <4>1. f[x] = [c[x] EXCEPT !.path = w, !.depth = Len(w) - 1] /\ c[x] \in Row
     BY <1>6, <1>7, <2>1 DEF Rerooted, Table
   <4> HIDE DEF w
   <4> QED
     BY <4>1 DEF Row
  <3> HIDE DEF w
  <3> QED
    BY <1>1, <1>2, <3>3, <3>4
 <2>2. CASE x \notin D
  <3>1. f[x] = c[x]
    BY <1>6, <1>7, <2>2 DEF Rerooted
  <3> QED
    BY <1>2, <1>6, <3>1
 <2> QED
   BY <2>1, <2>2
<1>10. \A x \in DOMAIN d : f[x].parent \in DOMAIN d \cup {NoParent} /\ f[x].order >= 0
  BY <1>8 DEF Storable, Table, Row
<1>11. Storable(f, MaxPath)
  BY <1>8, <1>9, <1>10 DEF Storable
<1> QED
  BY <1>2, <1>11 DEF f, row

LEMMA InitOrder == Init => OrderInv
BY DEF Init, OrderInv, Fresh, Idle, Storable, Numbered

\* What the invariant says of the only session.
LEMMA OnlySession ==
  ASSUME IInv, OrderInv, NEW s, Session = {s}
  PROVE  /\ TypeOK /\ Table(db) /\ DOMAIN db = Rows /\ Rows \subseteq Node
         /\ (\A x \in Rows : db[x] \in Row) /\ Storable(db, MaxPath) /\ Fresh(s)
         /\ sess = [u \in {s} |-> sess[s]]
BY TableOf DEF IInv, OrderInv, TypeOK, Rows

\* An operation begins: the session held nothing.
LEMMA BeginOrder ==
  ASSUME IInv, OrderInv, NEW s, Session = {s}, NEW op \in {"insert", "move", "edit", "delete"},
         Start(s, op), UNCHANGED <<db, purge>>,
         sess'[s].op = op,
         op = "insert" => sess'[s].row.order = Cardinality(Siblings(db, sess'[s].row.parent)),
         op # "insert" => sess'[s].node \in Rows /\ sess'[s].row = db[sess'[s].node],
         op = "move" \/ (op = "edit" /\ sess'[s].target # NoParent)
           => sess'[s].target \in Rows /\ sess'[s].trow = db[sess'[s].target]
  PROVE  OrderInv'
<1>1. purge = {} /\ sess[s].op = "idle"
  BY DEF Start, Ready
<1>2. Numbered(db) /\ Storable(db, MaxPath)
  BY <1>1 DEF OrderInv, Fresh
<1>3. Fresh(s)'
  BY <1>2 DEF Fresh, Rows
<1> QED
  BY <1>1, <1>2, <1>3, SessionStep

\* An operation ends on a numbered table, or leaves the table alone.
LEMMA ReleaseOrder ==
  ASSUME IInv, OrderInv, NEW s, Session = {s}, Release(s), purge' = {},
         Numbered(db'), Storable(db', MaxPath)
  PROVE  OrderInv'
<1>1. sess'[s].op = "idle"
  BY ReleaseType DEF IInv, Idle
<1>2. Fresh(s)'
  BY <1>1 DEF Fresh
<1> QED
  BY <1>2, SessionStep

LEMMA WriteOrder ==
  ASSUME IInv, OrderInv, NEW s, Session = {s}, NEW row \in Row, ThenWrite(s, row),
         UNCHANGED purge, purge = {}, sess[s].node \in Node, Storable(db', MaxPath),
         DOMAIN db' = Rows, sess[s].node \in Rows,
         Storable([x \in DOMAIN db' |-> IF x = sess[s].node THEN row ELSE db'[x]], MaxPath),
         Numbered([x \in DOMAIN db' |-> IF x = sess[s].node THEN row ELSE db'[x]])
  PROVE  OrderInv'
<1> DEFINE n == sess[s].node
<1>1. sess'[s] = [op |-> "write", node |-> n, row |-> row,
                  target |-> NoParent, trow |-> Blank, pos |-> "last-child"]
  BY HoldRowType DEF IInv, ThenWrite
<1>2. DOMAIN db' \cup {n} = DOMAIN db' /\ Rows' = DOMAIN db'
  BY DEF Rows
<1> HIDE DEF n
<1> DEFINE e == [x \in DOMAIN db' |-> IF x = n THEN row ELSE db'[x]]
<1>3. [x \in Rows' \cup {n} |-> IF x = n THEN row ELSE db'[x]] = e
  BY <1>2
<1>4. Storable(e, MaxPath) /\ Numbered(e)
  BY DEF n
<1> HIDE DEF e
<1>5. Fresh(s)'
 <2>1. sess'[s].op = "write" /\ sess'[s].node = n /\ sess'[s].row = row
   BY <1>1
 <2>2. WithRow(sess[s].node, sess[s].row)' = e
   BY <1>3, <2>1 DEF WithRow
 <2>3. (sess[s].node \in Rows)'
   BY <1>2, <2>1 DEF n
 <2> QED
   BY <1>4, <2>1, <2>2, <2>3 DEF Fresh
<1> QED
  BY <1>5, SessionStep

LEMMA DeleteOrder ==
  ASSUME IInv, OrderInv, NEW s, Session = {s}, CommitDelete(s)
  PROVE  OrderInv'
<1> DEFINE n == sess[s].node
           S == Subtrees(db, {n} \cap Rows)
<1>1. /\ sess[s].op = "delete" /\ purge = {} /\ Release(s) /\ db' = Without(S)
      /\ purge' = {Signal(n, sess[s].row)} \cup {Signal(x, db[x]) : x \in S \ {n}}
  BY DEF CommitDelete, Ready
<1>2. /\ Table(db) /\ DOMAIN db = Rows /\ Rows \subseteq Node /\ Storable(db, MaxPath)
      /\ n \in Rows /\ sess[s].row = db[n] /\ Numbered(db)
  BY <1>1, OnlySession DEF Fresh
<1>3. /\ n \in S /\ S \subseteq Rows
      /\ \A x \in S \ {n} : db[x].parent \in S
      /\ \A x \in Rows \ S : db[x].parent \notin S
 <2>1. n \in DOMAIN db /\ S = Subtrees(db, {n})
  <3>1. {n} \cap Rows = {n}
    BY <1>2
  <3> QED
    BY <1>2, <3>1
 <2> HIDE DEF n, S
 <2> QED
   BY <1>2, <2>1, SubtreeOf
<1>4. DOMAIN db' = DOMAIN db \ S /\ \A x \in DOMAIN db' : db'[x] = db[x]
  BY <1>1, <1>2 DEF Without
<1>5. Gapped(db', db[n].parent, db[n].order)
 <2> HIDE DEF n
 <2> QED
   BY <1>2, <1>4, RowsGone
<1>6. Storable(db', MaxPath)
 <2> HIDE DEF S, n
 <2> QED
   BY <1>2, <1>3, <1>4 DEF Storable
<1>7. Closing'
 <2> DEFINE p == Signal(n, db[n])
 <2>1. p \in purge' /\ p.parent = db[n].parent /\ p.order = db[n].order
   BY <1>1, <1>2 DEF Signal
 <2>2. ASSUME NEW q \in purge' \ {p} PROVE \A x \in DOMAIN db' : db'[x].parent # q.parent
  <3> HIDE DEF p, S, n
  <3>1. PICK x \in S \ {n} : q = Signal(x, db[x])
    BY <1>1, <1>2, <2>2 DEF p, n
  <3>2. q.parent \in S
    BY <1>3, <3>1 DEF Signal
  <3> QED
    BY <1>2, <1>3, <1>4, <3>2
 <2> HIDE DEF p
 <2>3. Gapped(db', p.parent, p.order)
   BY <1>5, <2>1
 <2> QED
   BY <2>1, <2>2, <2>3 DEF Closing, Barren, Rows
<1>8. sess'[s].op = "idle" /\ purge' # {}
  BY <1>1, ReleaseType DEF IInv, Idle
<1>9. Fresh(s)'
  BY <1>8 DEF Fresh
<1> QED
  BY <1>6, <1>7, <1>8, <1>9 DEF OrderInv

LEMMA SignalOrder ==
  ASSUME IInv, OrderInv, NEW s, Session = {s}, NEW p \in purge, PostDelete(p)
  PROVE  OrderInv'
<1>1. /\ db' = CloseOrderGap(db, p.parent, p.order) /\ purge' = purge \ {p}
      /\ sess' = sess /\ Closing /\ sess[s].op = "idle" /\ p.order \in Nat
  BY DEF PostDelete, OrderInv, IInv, TypeOK, Doomed
<1>2. Table(db) /\ DOMAIN db = Rows /\ Storable(db, MaxPath) /\ (\A x \in Rows : db[x] \in Row)
  BY OnlySession
<1>3. /\ Table(db') /\ DOMAIN db' = Rows
      /\ \A x \in Rows : db'[x].parent = db[x].parent /\ db'[x].path = db[x].path
 <2>1. Table(CloseOrderGap(db, p.parent, p.order))
   BY <1>1, <1>2, CloseOrderGapFacts
 <2> QED
   BY <1>1, <1>2, <2>1, ClosedOrders
<1>4. Storable(db', MaxPath)
  BY <1>2, <1>3 DEF Storable, Table, Row
<1>5. Closing'
 <2>1. CASE Barren(p.parent)
  <3>1. db' = db
    BY <1>1, <1>2, <2>1, NothingToClose DEF Barren
  <3>2. CASE Numbered(db) /\ \A q \in purge : Barren(q.parent)
    BY <1>1, <3>1, <3>2 DEF Closing, Barren, Rows
  <3>3. CASE \E q \in purge : /\ Gapped(db, q.parent, q.order)
                              /\ \A u \in purge \ {q} : Barren(u.parent)
   <4>1. PICK q \in purge : /\ Gapped(db, q.parent, q.order)
                            /\ \A u \in purge \ {q} : Barren(u.parent)
     BY <3>3
   <4>2. CASE q = p
    <5>1. Numbered(db')
      BY <1>1, <1>2, <4>1, <4>2, GapClosing
    <5> QED
      BY <1>1, <3>1, <4>1, <4>2, <5>1 DEF Closing, Barren, Rows
   <4>3. CASE q # p
     BY <1>1, <3>1, <4>1, <4>3 DEF Closing, Barren, Rows
   <4> QED
     BY <4>2, <4>3
  <3> QED
    BY <1>1, <3>2, <3>3 DEF Closing
 <2>2. CASE ~Barren(p.parent)
  <3>1. Gapped(db, p.parent, p.order) /\ \A q \in purge \ {p} : Barren(q.parent)
    BY <1>1, <2>2 DEF Closing
  <3>2. Numbered(db')
    BY <1>1, <1>2, <3>1, GapClosing
  <3>3. \A q \in purge' : \A x \in Rows : db'[x].parent # q.parent
    BY <1>1, <1>3, <3>1 DEF Barren
  <3> QED
    BY <1>3, <3>2, <3>3 DEF Closing, Barren, Rows
 <2> QED
   BY <2>1, <2>2
<1>6. Fresh(s)'
 <2>1. purge' = {} => Numbered(db')
  <3> SUFFICES ASSUME purge' = {} PROVE Numbered(db')
    OBVIOUS
  <3> QED
    BY <1>5 DEF Closing
 <2> QED
   BY <1>1, <2>1 DEF Fresh
<1> QED
  BY <1>1, <1>4, <1>5, <1>6 DEF OrderInv

LEMMA BeginInsertOrder ==
  ASSUME OneScope, IInv, OrderInv, NEW s, Session = {s}, NEW n \in Node,
         NEW p \in Rows \cup {NoParent}, BeginInsert(s, n, p)
  PROVE  OrderInv'
<1> DEFINE sibs == {x \in Children(db, Rows, p) : ScopeOf[x] = ScopeOf[n]}
           row == RowForInsert(sibs, p, LoadedRow(p))
<1>1. /\ Start(s, "insert") /\ UNCHANGED <<db, purge>>
      /\ Hold(s, "insert", n, row, NoParent, Blank, "last-child")
  BY DEF BeginInsert
<1>2. /\ TypeOK /\ Table(db) /\ DOMAIN db = Rows /\ Rows \subseteq Node
  BY OnlySession
<1>3. sibs \in SUBSET Rows /\ sibs = Siblings(db, p)
  BY <1>2 DEF OneScope, Children, Siblings
<1>4. row \in Row /\ row.parent = p /\ row.order = Cardinality(sibs)
 <2> HIDE DEF sibs
 <2>1. row \in Row /\ row.parent = p
   BY <1>2, <1>3, LoadedRowType, RowForInsertType
 <2> QED
   BY <2>1 DEF RowForInsert
<1> HIDE DEF row, sibs
<1>5. sess'[s].op = "insert" /\ sess'[s].row = row
 <2>1. s \in Session /\ "insert" \in {"insert", "write"} /\ n \in Node \cup {NoParent}
   OBVIOUS
 <2>2. sess'[s] = [op |-> "insert", node |-> n, row |-> row,
                   target |-> NoParent, trow |-> Blank, pos |-> "last-child"]
   BY <1>1, <1>2, <1>4, <2>1, HoldRowType
 <2> QED
   BY <2>2
<1> QED
  BY <1>1, <1>3, <1>4, <1>5, BeginOrder

LEMMA BeginOthersOrder ==
  ASSUME IInv, OrderInv, NEW s, Session = {s}, NEW n \in Rows, NEW op \in {"move", "edit", "delete"},
         NEW t \in Rows \cup {NoParent}, NEW trow \in Row, NEW pos \in Positions,
         Start(s, op), Hold(s, op, n, db[n], t, trow, pos), UNCHANGED <<db, used, purge>>,
         op = "move" \/ (op = "edit" /\ t # NoParent) => t \in Rows /\ trow = db[t]
  PROVE  OrderInv'
<1>1. /\ TypeOK /\ Rows \subseteq Node /\ db[n] \in Row
  BY OnlySession
<1>2. sess'[s] = [op |-> op, node |-> n, row |-> db[n], target |-> t, trow |-> trow, pos |-> pos]
 <2> DEFINE row == db[n]
 <2>1. /\ s \in Session /\ op \in {"idle", "insert", "move", "edit", "write", "delete"}
       /\ n \in Node \cup {NoParent} /\ t \in Node \cup {NoParent} /\ row \in Row
   BY <1>1
 <2> HIDE DEF row
 <2>2. Hold(s, op, n, row, t, trow, pos)
   BY DEF row
 <2>3. sess'[s] = [op |-> op, node |-> n, row |-> row, target |-> t, trow |-> trow, pos |-> pos]
   BY <1>1, <2>1, <2>2, HoldType
 <2> QED
   BY <2>3 DEF row
<1> QED
  BY <1>2, BeginOrder

LEMMA CommitInsertOrder ==
  ASSUME IInv, OrderInv, NEW s, Session = {s}, CommitInsert(s)
  PROVE  OrderInv'
<1> DEFINE n == sess[s].node
           row == sess[s].row
           e == WithRow(n, row)
<1>1. /\ sess[s].op = "insert" /\ purge = {} /\ Store(e) /\ Release(s) /\ UNCHANGED purge
  BY DEF CommitInsert, Ready
<1>2. /\ TypeOK /\ DOMAIN db = Rows /\ Rows \subseteq Node /\ Storable(db, MaxPath)
      /\ Numbered(db) /\ row.order = Cardinality(Siblings(db, row.parent))
  BY <1>1, OnlySession DEF Fresh
<1>3. n \in Node /\ n \notin Rows /\ row \in Row
  BY <1>1, HeldParts DEF IInv, HeldKeys
<1>4. DOMAIN e = DOMAIN db \cup {n} /\ e[n] = row /\ \A x \in DOMAIN db : e[x] = db[x]
 <2>1. DOMAIN e = Rows \cup {n} /\ e[n] = row /\ \A x \in Rows \ {n} : e[x] = db[x]
  <3> HIDE DEF n, row
  <3> QED
    BY <1>2, <1>3, WithRowFacts
 <2>2. Rows \ {n} = Rows
   BY <1>3
 <2> HIDE DEF e, n, row
 <2> QED
   BY <1>2, <2>1, <2>2
<1> HIDE DEF n, row, e
<1>5. Numbered(e)
  BY <1>2, <1>3, <1>4, InsertNumbered
<1> QED
  BY <1>1, <1>2, <1>5, ReleaseOrder DEF Store

LEMMA CommitMoveOrder ==
  ASSUME IInv, OrderInv, NEW s, Session = {s}, CommitMove(s)
  PROVE  OrderInv'
<1> DEFINE n == sess[s].node
           t == sess[s].target
           pos == sess[s].pos
<1>1. /\ sess[s].op = "move" /\ purge = {} /\ Release(s) /\ UNCHANGED purge
      /\ MoveApplies(n, sess[s].row, t, sess[s].trow, pos)
      /\ db' = MoveResult(n, sess[s].row, t, sess[s].trow, pos)
  BY DEF CommitMove, Ready
<1>2. /\ n \in Rows /\ sess[s].row = db[n] /\ t \in Rows /\ sess[s].trow = db[t]
      /\ Numbered(db)
  BY <1>1, OnlySession DEF Fresh
<1>3. pos \in Positions
  BY HeldParts
<1> HIDE DEF n, t, pos
<1>4. Numbered(db') /\ Storable(db', MaxPath)
  BY <1>1, <1>2, <1>3, MoveNumbered
<1> QED
  BY <1>1, <1>4, ReleaseOrder

LEMMA PreSaveUnmovedOrder ==
  ASSUME IInv, OrderInv, NEW s, Session = {s}, PreSaveUnmoved(s)
  PROVE  OrderInv'
<1> DEFINE n == sess[s].node
           row == [sess[s].row EXCEPT !.parent = sess[s].target]
<1>1. /\ sess[s].op = "edit" /\ purge = {} /\ ThenWrite(s, row) /\ UNCHANGED <<db, purge>>
      /\ n \in Rows => db[n].parent = sess[s].target
  BY DEF PreSaveUnmoved, Ready
<1>2. /\ Table(db) /\ DOMAIN db = Rows /\ Rows \subseteq Node /\ Storable(db, MaxPath)
      /\ n \in Rows /\ sess[s].row = db[n] /\ Numbered(db) /\ db[n] \in Row
  BY <1>1, OnlySession DEF Fresh
<1>3. row = db[n]
  BY <1>1, <1>2 DEF Row
<1>4. [x \in DOMAIN db |-> IF x = n THEN db[n] ELSE db[x]] = db
  BY <1>2 DEF Table
<1> HIDE DEF row
<1> QED
  BY <1>1, <1>2, <1>3, <1>4, WriteOrder

LEMMA PreSaveMovesOrder ==
  ASSUME IInv, OrderInv, NEW s, Session = {s}, PreSaveMoves(s)
  PROVE  OrderInv'
<1> DEFINE n == sess[s].node
           t == sess[s].target
           ok == MoveApplies(n, db[n], t, db[t], "last-child")
           plan == PlanOf(db[n], t, db[t], "last-child")
           row == [parent |-> plan.parent, path |-> NewPath(plan.base, plan.order),
                   depth |-> plan.depth, order |-> plan.order]
           e == MoveResult(n, db[n], t, db[t], "last-child")
<1>1. /\ sess[s].op = "edit" /\ purge = {} /\ t # NoParent /\ UNCHANGED purge
      /\ "last-child" \in Positions
  BY DEF PreSaveMoves, Ready, Positions
<1>2. /\ Storable(db, MaxPath) /\ n \in Rows /\ t \in Rows /\ sess[s].trow = db[t] /\ Numbered(db)
      /\ n \in Node
  BY <1>1, OnlySession DEF Fresh
<1>3. CASE ok
 <2>1. db' = e /\ ThenWrite(s, row)
   BY <1>2, <1>3 DEF PreSaveMoves
 <2>2. Numbered(e) /\ Storable(e, MaxPath) /\ Table(e) /\ DOMAIN e = Rows /\ e[n] = row
  <3> HIDE DEF n, t
  <3> QED
    BY <1>1, <1>2, <1>3, MoveNumbered
 <2>3. row \in Row
  <3> HIDE DEF row, e, n
  <3> QED
    BY <1>2, <2>2 DEF Table
 <2>4. [x \in DOMAIN e |-> IF x = n THEN row ELSE e[x]] = e
  <3> HIDE DEF row, e, n
  <3> QED
    BY <2>2 DEF Table
 <2> HIDE DEF row, e
 <2> QED
   BY <1>1, <1>2, <2>1, <2>2, <2>3, <2>4, WriteOrder
<1>4. CASE ~ok
 <2>1. Release(s) /\ UNCHANGED db
   BY <1>2, <1>4 DEF PreSaveMoves
 <2> QED
   BY <1>1, <1>2, <2>1, ReleaseOrder
<1> QED
  BY <1>3, <1>4

LEMMA PreSaveToRootOrder ==
  ASSUME OneScope, IInv, OrderInv, NEW s, Session = {s}, PreSaveToRoot(s)
  PROVE  OrderInv'
<1> DEFINE n == sess[s].node
           roots == {x \in Children(db, Rows, NoParent) : ScopeOf[x] = ScopeOf[n]}
           row == RowForRoot(roots)
           f == RootedSubtree(db, Rows, db[n], row)
           e == [x \in DOMAIN f |-> IF x = n THEN row ELSE f[x]]
           g == Cardinality(Siblings(db, NoParent))
<1>1. /\ sess[s].op = "edit" /\ purge = {} /\ UNCHANGED purge /\ n \in Rows
      /\ db[n].parent # NoParent /\ db' = f /\ ThenWrite(s, row)
  BY DEF PreSaveToRoot, Ready
<1>2. /\ TypeOK /\ Table(db) /\ DOMAIN db = Rows /\ Rows \subseteq Node /\ Storable(db, MaxPath)
      /\ Numbered(db) /\ db[n] \in Row /\ n \in Node
  BY <1>1, OnlySession DEF Fresh
<1>3. roots = Siblings(db, NoParent) /\ roots \in SUBSET DOMAIN db
  BY <1>2 DEF OneScope, Children, Siblings
<1> HIDE DEF n, roots
<1>4. row \in Row /\ row.parent = NoParent /\ row.order = g /\ row.path = NewPath(<<>>, g)
      /\ g \in Nat
 <2>1. row \in Row
   BY <1>2, <1>3, RowForRootType
 <2>2. g \in Nat
   BY <1>2, SiblingCount
 <2> QED
   BY <1>3, <2>1, <2>2 DEF RowForRoot
<1>5. /\ Table(f) /\ DOMAIN f = Rows
      /\ \A x \in Rows : f[x].parent = db[x].parent
 <2> HIDE DEF row
 <2> QED
   BY <1>2, <1>4, RootedSubtreeFacts
<1>6. Storable(f, MaxPath) /\ 1 <= MaxPath
  BY <1>1, <1>2, <1>3, RootedStorable
<1>7. Len(row.path) = 1
 <2>1. g + 1 \in Int /\ <<>> \in Seq(Int) /\ Len(<<>>) = 0
   BY <1>4, EmptySeq
 <2> HIDE DEF g, row
 <2>2. Len(Append(<<>>, g + 1)) = 0 + 1
   BY <2>1, AppendFacts
 <2> QED
   BY <1>4, <2>2 DEF NewPath
<1> HIDE DEF f, row, g
<1>8. DOMAIN e = Rows /\ e[n] = row /\ \A x \in Rows \ {n} : e[x] = f[x]
  BY <1>1, <1>5
<1> HIDE DEF e
<1>9. Storable(e, MaxPath)
 <2>1. \A x \in Rows \ {n} : /\ e[x].parent \in Rows \cup {NoParent}
                             /\ e[x].order >= 0 /\ Len(e[x].path) <= MaxPath
   BY <1>5, <1>6, <1>8 DEF Storable
 <2>2. MaxPath \in Nat /\ row.order >= 0 /\ row.parent = NoParent
   BY <1>4, BoundAssumption
 <2>3. Len(row.path) <= MaxPath
   BY <1>6, <1>7, <2>2
 <2>4. e[n].parent = NoParent /\ e[n].order >= 0 /\ Len(e[n].path) <= MaxPath
   BY <1>8, <2>2, <2>3
 <2> QED
   BY <1>8, <2>1, <2>4 DEF Storable
<1>10. PutAs(db, n, NoParent, g, e)
 <2>1. n \in DOMAIN db /\ DOMAIN e = DOMAIN db /\ e[n].parent = NoParent
       /\ e[n].order = Cardinality(Siblings(db, NoParent))
       /\ \A x \in DOMAIN db \ {n} : e[x] = RootedSubtree(db, DOMAIN db, db[n], row)[x]
   BY <1>1, <1>2, <1>4, <1>8 DEF g, f
 <2> QED
   BY <1>1, <1>2, <1>4, <2>1, RootPuts DEF g
<1>11. g <= Cardinality(Siblings(db, NoParent) \ {n})
 <2>1. n \notin Siblings(db, NoParent)
   BY <1>1 DEF Siblings, Children
 <2>2. Cardinality(Siblings(db, NoParent) \ {n}) = g
   BY <1>2, <2>1, SiblingCount DEF g
 <2> QED
   BY <1>4, <2>2
<1>12. Numbered(e)
  BY <1>1, <1>2, <1>4, <1>10, <1>11, PutNumbered
<1> QED
 <2>1. [x \in DOMAIN db' |-> IF x = sess[s].node THEN row ELSE db'[x]] = e
   BY <1>1 DEF e, n
 <2>2. sess[s].node \in Node /\ sess[s].node \in Rows
   BY <1>1, <1>2 DEF n
 <2> QED
   BY <1>1, <1>4, <1>5, <1>6, <1>9, <1>12, <2>1, <2>2, WriteOrder

LEMMA WriteRowOrder ==
  ASSUME IInv, OrderInv, NEW s, Session = {s}, WriteRow(s)
  PROVE  OrderInv'
<1> DEFINE e == WithRow(sess[s].node, sess[s].row)
<1>1. sess[s].op = "write" /\ purge = {} /\ Store(e) /\ Release(s) /\ UNCHANGED purge
  BY DEF WriteRow, Ready
<1>2. Storable(e, MaxPath) /\ Numbered(e)
  BY <1>1, OnlySession DEF Fresh
<1> HIDE DEF e
<1> QED
  BY <1>1, <1>2, ReleaseOrder DEF Store

LEMMA RebuildOrder ==
  ASSUME OneScope, IInv, OrderInv, NEW s, Session = {s}, Rebuild(s)
  PROVE  OrderInv'
<1>1. purge = {} /\ sess[s].op = "idle" /\ UNCHANGED <<sess, purge>>
  BY DEF Rebuild, Start, Ready
<1>2. Table(db) /\ Storable(db, MaxPath) /\ Numbered(db)
  BY <1>1, OnlySession DEF Fresh
<1>3. PICK tie \in TieBreaks(db) : Store(Rebuilt(db, ScopeOf, tie))
  BY DEF Rebuild
<1>4. Numbered(db') /\ Storable(db', MaxPath)
 <2>1. Numbered(Rebuilt(db, ScopeOf, tie))
   BY <1>2, RebuiltNumbered
 <2> QED
   BY <1>2, <1>3, <2>1 DEF Store
<1>5. Fresh(s)'
  BY <1>1, <1>4 DEF Fresh
<1> QED
  BY <1>1, <1>4, <1>5, SessionStep

LEMMA NextOrder == Sequential /\ IInv /\ OrderInv /\ [Next]_vars => OrderInv'
<1> SUFFICES ASSUME Sequential, IInv, OrderInv, [Next]_vars PROVE OrderInv'
  OBVIOUS
<1>0. OneScope /\ Ops \cap {"delete_many", "crash"} = {}
  BY DEF Sequential
<1> PICK s : Session = {s}
  BY DEF Sequential
<1>1. ASSUME NEW n \in Node, NEW p \in Rows \cup {NoParent}, BeginInsert(s, n, p)
      PROVE  OrderInv'
  BY <1>0, <1>1, BeginInsertOrder
<1>2. ASSUME NEW n \in Rows, NEW t \in Rows, NEW pos \in Positions, BeginMove(s, n, t, pos)
      PROVE  OrderInv'
 <2>1. db[t] \in Row
   BY OnlySession
 <2> QED
   BY <1>2, <2>1, BeginOthersOrder DEF BeginMove
<1>3. ASSUME NEW n \in Rows, NEW p \in Rows \cup {NoParent}, BeginEdit(s, n, p)
      PROVE  OrderInv'
 <2>1. /\ LoadedRow(p) \in Row /\ "last-child" \in Positions
       /\ p # NoParent => p \in Rows /\ LoadedRow(p) = db[p]
   BY OnlySession, LoadedRowType DEF Positions, LoadedRow
 <2> QED
   BY <1>3, <2>1, BeginOthersOrder DEF BeginEdit
<1>4. ASSUME NEW n \in Rows, BeginDelete(s, n)
      PROVE  OrderInv'
 <2>1. "last-child" \in Positions
   BY DEF Positions
 <2> QED
   BY <1>4, <2>1, BlankType, BeginOthersOrder DEF BeginDelete
<1>5. ASSUME NEW S, DeleteMany(s, S) PROVE FALSE
  BY <1>0, <1>5 DEF DeleteMany, Start
<1>6. ASSUME Crash(s) PROVE FALSE
  BY <1>0, <1>6 DEF Crash
<1>7. ASSUME AbandonMove(s) PROVE OrderInv'
 <2>1. sess[s].op = "move" /\ purge = {} /\ Release(s) /\ UNCHANGED <<db, purge>>
   BY <1>7 DEF AbandonMove, Ready
 <2>2. Numbered(db) /\ Storable(db, MaxPath)
   BY <2>1, OnlySession DEF Fresh
 <2> QED
   BY <2>1, <2>2, ReleaseOrder
<1>8. CASE UNCHANGED vars
 <2>1. UNCHANGED <<db, sess, purge>>
   BY <1>8 DEF vars
 <2> QED
   BY <2>1 DEF OrderInv, Fresh, Closing, Barren, Rows, WithRow
<1> QED
  BY <1>0, <1>1, <1>2, <1>3, <1>4, <1>5, <1>6, <1>7, <1>8, CommitInsertOrder, CommitMoveOrder,
     PreSaveUnmovedOrder, PreSaveMovesOrder, PreSaveToRootOrder, WriteRowOrder, DeleteOrder,
     RebuildOrder, SignalOrder DEF Next

\* The sibling orders are 0, 1, 2, ... between operations, in tables of any
\* size, when one caller at a time does any sequence of inserts, moves, saves,
\* deletes of one instance and rebuilds.
THEOREM OrdersCorrect == Sequential => (Spec => []OrdersContiguous)
<1> SUFFICES ASSUME Sequential PROVE Spec => []OrdersContiguous
  OBVIOUS
<1>1. Init => IInv /\ OrderInv
  BY InitIInv, InitOrder
<1>2. IInv /\ OrderInv /\ [Next]_vars => IInv' /\ OrderInv'
  BY NextIInv, NextOrder
<1>3. IInv /\ OrderInv => OrdersContiguous
 <2> SUFFICES ASSUME IInv, OrderInv, purge = {}, \A s \in Session : sess[s].op # "write",
                     NEW x \in Rows
              PROVE  {db[y].order : y \in Children(db, Rows, db[x].parent)}
                       = 0..Cardinality(Children(db, Rows, db[x].parent)) - 1
   BY DEF OrdersContiguous
 <2>1. PICK s : Session = {s}
   BY DEF Sequential
 <2>2. Numbered(db) /\ DOMAIN db = Rows /\ Rows \subseteq Node
   BY <2>1, OnlySession DEF Fresh
 <2> DEFINE p == db[x].parent
 <2>3. Children(db, Rows, p) = Siblings(db, p)
   BY <2>2 DEF Siblings
 <2> HIDE DEF p
 <2>4. {db[y].order : y \in Siblings(db, p)} = 0..Cardinality(Siblings(db, p)) - 1
   BY <2>2, NoGap
 <2>5. {db[y].order : y \in Children(db, Rows, p)} = 0..Cardinality(Children(db, Rows, p)) - 1
   BY <2>3, <2>4
 <2> QED
   BY <2>5 DEF p
<1> QED
  BY <1>1, <1>2, <1>3, PTL DEF Spec

-----------------------------------------------------------------------------
(***************************************************************************)
(* Exact rows                                                              *)
(***************************************************************************)
LEMMA SpelledNumbered ==
  ASSUME NEW d, Spelled(d, DOMAIN d),
         \A x \in DOMAIN d : d[x].order < Cardinality(Siblings(d, d[x].parent))
  PROVE  Numbered(d)
BY DEF Spelled, Numbered

\* The plan of a move that works on current rows: the new parent is not at or
\* below n, and the base and the depth are its own.
LEMMA PlanPlace ==
  ASSUME NEW d, Table(d), Spelled(d, DOMAIN d), NoParent \notin DOMAIN d,
         NEW n \in DOMAIN d, NEW t \in DOMAIN d, NEW pos \in Positions,
         NEW plan, plan = MovePlan(d, DOMAIN d, d[n], t, d[t], pos)
  PROVE  /\ plan.parent = (IF pos \in {"first-child", "last-child"} THEN t ELSE d[t].parent)
         /\ plan.base = PathOfParent(d, plan.parent) /\ plan.depth = Len(plan.base)
<1> DEFINE q == IF pos \in {"first-child", "last-child"} THEN t ELSE d[t].parent
<1>1. plan.parent = q
  BY DEF MovePlan
<1>2. t \in DOMAIN d /\ t # NoParent /\ q \in DOMAIN d \cup {NoParent}
  BY SpelledRow
<1>3. \A x \in DOMAIN d : d[x].depth = Len(d[x].path) - 1 /\ Len(d[x].path) \in Nat
  BY LenProperties DEF Spelled, Path
<1>4. plan.base = PathOfParent(d, q)
  BY <1>2 DEF MovePlan, PathOfParent
<1>5. plan.depth = Len(plan.base)
 <2>1. CASE q = NoParent
  <3>1. plan.depth = 0 /\ plan.base = <<>>
    BY <1>4, <2>1 DEF MovePlan, PathOfParent
  <3> QED
    BY <3>1, EmptySeq
 <2>2. CASE q # NoParent
  <3>1. q \in DOMAIN d /\ plan.base = d[q].path /\ plan.depth = d[q].depth + 1
    BY <1>2, <1>4, <2>2 DEF MovePlan, PathOfParent
  <3> HIDE DEF q
  <3> QED
    BY <1>3, <3>1
 <2> QED
   BY <2>1, <2>2
<1> QED
  BY <1>1, <1>4, <1>5

\* The two renumberings and the rewritten subtree, put together.
LEMMA MoveIsExact ==
  ASSUME OneScope, IInv, Exact(db, ScopeOf), NEW n \in Rows, NEW t \in Rows,
         NEW pos \in Positions, SameScope(n, t), MoveApplies(n, db[n], t, db[t], pos),
         ~NewParentShifts(db[n], PlanOf(db[n], t, db[t], pos))
  PROVE  Exact(MoveResult(n, db[n], t, db[t], pos), ScopeOf)
<1> DEFINE plan == PlanOf(db[n], t, db[t], pos)
           e == MoveResult(n, db[n], t, db[t], pos)
           R == Staying(db, n)
           d1 == ShiftSiblings(Marked(db, R), Rows, Later(db, n),
                               PathOfParent(db, db[n].parent), -1)
           d2 == ShiftSiblings(d1, DOMAIN d1, From(d1, plan), plan.base, 1)
<1>1. TypeOK /\ Table(db) /\ DOMAIN db = Rows /\ db[n] \in Row /\ db[t] \in Row /\ t \in Node
  BY TableOf DEF IInv, TypeOK, Rows
<1>2. /\ Spelled(db, Rows) /\ Forest(db) /\ NoParent \notin Rows /\ Numbered(db)
      /\ Clean(db, ScopeOf)
  BY <1>1, ExactIsSpelled, ExactIsClean, SpelledNumbered
<1>3. plan \in Plan /\ plan.order \in Nat
  BY <1>1, MoveResultFacts
<1>4. Forest(e)
  BY <1>2, MoveKeepsForest
<1>5. Numbered(e)
  BY <1>2, MoveNumbered
<1>6. plan = MovePlan(db, DOMAIN db, db[n], t, db[t], pos)
      /\ e = Moved(db, DOMAIN db, n, db[n], plan)
  BY <1>1 DEF PlanOf, MoveResult
<1>7. plan.parent \in Rows => ~IsPrefix(db[n].path, db[plan.parent].path)
  BY <1>2, NewParentNotBelow
<1>8. \A x \in Siblings(db, db[n].parent) :
        db[x].order > db[n].order => plan.parent \notin Subtrees(db, {x})
  BY <1>1 DEF NewParentShifts, Siblings
<1> HIDE DEF plan, e
<1>9. /\ plan.parent = (IF pos \in {"first-child", "last-child"} THEN t ELSE db[t].parent)
      /\ plan.base = PathOfParent(db, plan.parent) /\ plan.depth = Len(plan.base)
  BY <1>1, <1>2, <1>6, PlanPlace
<1>10. plan.parent \in R \cup {NoParent}
 <2>1. db[t].parent \in Rows \cup {NoParent}
   BY <1>1, <1>2, SpelledRow
 <2> QED
   BY <1>1, <1>7, <1>9, <2>1 DEF Staying
<1>11. Moving(db, n, plan, R)
  BY <1>1, <1>2, <1>3, <1>8, <1>9, <1>10 DEF Moving
<1>12. MoveDone(db, n, plan, R, d1, d2, e)
  BY <1>1, <1>6, <1>11 DEF MoveDone, RoomMade, GapClosed
<1> HIDE DEF R, d1, d2
<1>13. Spelled(e, Rows)
  BY <1>1, <1>12, MovedIsSpelled
<1>14. WideTable(e) /\ DOMAIN e = Rows
  BY <1>1, <1>12, MovedRows DEF PlacedRows
<1>15. Exact(e, ScopeOf)
  BY <1>2, <1>4, <1>5, <1>13, <1>14, SpelledIsExact DEF Numbered
<1> QED
  BY <1>15 DEF e

\* An insert that counted the present siblings and holds the present row of
\* its parent numbers the new row next and puts it under its parent.
LEMMA InsertIsExact ==
  ASSUME OneScope, IInv, Exact(db, ScopeOf), NEW s \in Session, ExactInsert(s)
  PROVE  Exact(db', ScopeOf)
<1> DEFINE n == sess[s].node
           row == sess[s].row
           p == row.parent
           sibs == Siblings(db, p)
           e == WithRow(n, row)
<1>0. CommitInsert(s) /\ InsertUpToDate(s)
  BY DEF ExactInsert
<1>1. TypeOK /\ Table(db) /\ DOMAIN db = Rows
  BY TableOf DEF IInv, Rows
<1>2. /\ Spelled(db, Rows) /\ Forest(db) /\ NoParent \notin Rows /\ Numbered(db)
      /\ Clean(db, ScopeOf)
  BY <1>1, ExactIsSpelled, ExactIsClean, SpelledNumbered
<1>3. sess[s].op = "insert"
  BY <1>0 DEF CommitInsert, Ready
<1>4. n \in Node /\ n \notin Rows /\ p # n /\ row \in Row
  BY <1>3, HeldParts DEF IInv, HeldKeys
<1>5. p \in Rows \cup {NoParent} /\ row = RowForInsert(sibs, p, LoadedRow(p))
 <2>1. {x \in Children(db, Rows, p) : ScopeOf[x] = ScopeOf[n]} = sibs
   BY <1>1, <1>4 DEF OneScope, Siblings, Children, Table
 <2> QED
   BY <1>0, <2>1 DEF InsertUpToDate, ParentExists
<1>6. Forest(db')
  BY <1>0, <1>2, InsertKeepsForest
<1>7. db' = e \/ db' = db
  BY <1>0 DEF CommitInsert, Store
<1>8. /\ Table(e) /\ DOMAIN e = Rows \cup {n} /\ e[n] = row
      /\ \A x \in Rows : e[x] = db[x]
 <2>1. /\ Table(e) /\ DOMAIN e = Rows \cup {n} /\ e[n] = row
       /\ \A x \in Rows \ {n} : e[x] = db[x]
  <3> HIDE DEF n, row
  <3> QED
    BY <1>1, <1>4, WithRowFacts
 <2>2. Rows \ {n} = Rows
   BY <1>4
 <2> HIDE DEF e, n, row
 <2> QED
   BY <2>1, <2>2
<1>9. \A x \in Rows : db[x].parent # n
  BY <1>1, <1>2, <1>4, NodeAssumption, SpelledRow DEF NoParent
<1>10. /\ row.order = Cardinality(sibs) /\ row.order \in Nat /\ row.path \in Path
       /\ row.path = NewPath(PathOfParent(db, p), row.order)
       /\ row.depth = Len(row.path) - 1
 <2>1. Cardinality(sibs) \in Nat
   BY <1>1, SiblingCount DEF Table
 <2>2. /\ row.order = Cardinality(sibs)
       /\ row.path = NewPath(PathOfParent(db, p), row.order)
       /\ row.depth = IF p = NoParent THEN 0 ELSE LoadedRow(p).depth + 1
  <3> HIDE DEF sibs, p
  <3> QED
    BY <1>5 DEF RowForInsert, PathOfParent, LoadedRow
 <2>3. PathOfParent(db, p) \in Seq(Int) /\ (p = NoParent <=> PathOfParent(db, p) = <<>>)
   BY <1>2, <1>5, ParentPath
 <2>4. Len(row.path) = Len(PathOfParent(db, p)) + 1 /\ Len(PathOfParent(db, p)) \in Nat
  <3> DEFINE P == PathOfParent(db, p)
             o == row.order + 1
  <3>1. P \in Seq(Int) /\ o \in Int /\ row.path = Append(P, o)
    BY <2>1, <2>2, <2>3 DEF NewPath
  <3> HIDE DEF P, o
  <3>2. Len(row.path) = Len(P) + 1 /\ Len(P) \in Nat
    BY <3>1, AppendFacts, LenProperties
  <3> QED
    BY <3>2 DEF P
 <2>5. row.depth = Len(PathOfParent(db, p))
  <3>1. CASE p = NoParent
    BY <2>2, <2>3, <3>1, EmptySeq
  <3>2. CASE p \in Rows
   <4>1. PathOfParent(db, p) = db[p].path /\ p # NoParent
     BY <1>2, <3>2 DEF PathOfParent
   <4>2. row.depth = db[p].depth + 1
     BY <2>2, <4>1 DEF LoadedRow
   <4>3. db[p].depth = Len(db[p].path) - 1
    <5> HIDE DEF p
    <5> QED
      BY <1>2, <3>2 DEF Spelled
   <4> QED
     BY <2>4, <4>1, <4>2, <4>3
  <3> QED
    BY <1>5, <3>1, <3>2
 <2> QED
   BY <1>4, <2>1, <2>2, <2>4, <2>5 DEF Row
<1>11. Numbered(e)
 <2>1. /\ DOMAIN db \subseteq Node /\ n \in Node \ DOMAIN db /\ DOMAIN e = DOMAIN db \cup {n}
       /\ (\A x \in DOMAIN db : e[x] = db[x])
       /\ e[n].order = Cardinality(Siblings(db, e[n].parent))
   BY <1>1, <1>4, <1>8, <1>10 DEF Table
 <2> HIDE DEF e, n
 <2> QED
   BY <1>2, <2>1, InsertNumbered
<1> HIDE DEF e, n, p, row
<1>12. \A q \in Rows \cup {NoParent} : PathOfParent(e, q) = PathOfParent(db, q)
  BY <1>8 DEF PathOfParent
<1>13. ASSUME NEW x \in Rows
       PROVE  /\ e[x].parent \in Rows \cup {NoParent}
              /\ e[x].order \in Nat
              /\ e[x].path = NewPath(PathOfParent(e, e[x].parent), e[x].order)
              /\ e[x].path \in Path
              /\ e[x].depth = Len(e[x].path) - 1
  BY <1>2, <1>8, <1>12 DEF Spelled
<1>14. e[n].parent = p /\ e[n].order = row.order /\ e[n].path = row.path /\ e[n].depth = row.depth
  BY <1>8 DEF p
<1>15. \A x, y \in DOMAIN e : e[x].parent = e[y].parent /\ e[x].order = e[y].order => x = y
  BY <1>11 DEF Numbered
<1>16. Spelled(e, DOMAIN e)
  BY <1>5, <1>8, <1>10, <1>12, <1>13, <1>14, <1>15 DEF Spelled
<1>17. NoParent \notin DOMAIN e /\ WideTable(e)
  BY <1>2, <1>4, <1>8, NodeAssumption, TableIsWide DEF NoParent
<1>18. CASE db' = e
  BY <1>6, <1>11, <1>16, <1>17, <1>18, SpelledIsExact DEF Numbered
<1> QED
  BY <1>7, <1>18

\* What the action property states, for one step.
LEMMA NextExact == OneScope /\ IInv /\ [Next]_vars => ExactStep
<1> SUFFICES ASSUME OneScope, IInv, Exact(db, ScopeOf), NEW s \in Session,
                    ExactInsert(s) \/ ExactMove(s)
             PROVE  Exact(db', ScopeOf)
  BY DEF ExactStep
<1>1. CASE ExactInsert(s)
  BY <1>1, InsertIsExact
<1>2. CASE ExactMove(s)
 <2> DEFINE n == sess[s].node
            t == sess[s].target
            pos == sess[s].pos
 <2>1. /\ sess[s].op = "move"
       /\ MoveApplies(n, sess[s].row, t, sess[s].trow, pos)
       /\ db' = MoveResult(n, sess[s].row, t, sess[s].trow, pos)
       /\ MoveUpToDate(s) /\ ~NewParentShifts(sess[s].row, PlanOf(sess[s].row, t, sess[s].trow, pos))
   BY <1>2 DEF ExactMove, CommitMove, Ready
 <2>2. n \in Rows /\ t \in Rows /\ sess[s].row = db[n] /\ sess[s].trow = db[t]
   BY <2>1 DEF MoveUpToDate
 <2>3. SameScope(n, t) /\ pos \in Positions
   BY <2>1, HeldParts DEF IInv, HeldKeys
 <2> HIDE DEF n, t, pos
 <2> QED
   BY <2>1, <2>2, <2>3, MoveIsExact
<1> QED
  BY <1>1, <1>2

\* The columns derived from the tree: an insert or a move that works on current
\* instances, and does not renumber its own new parent, leaves every order,
\* path and depth of an exact table exact, in tables of any size and depth.
THEOREM ExactCorrect == OneScope => (Spec => ExactKept)
<1> SUFFICES ASSUME OneScope PROVE Spec => ExactKept
  OBVIOUS
<1>1. Spec => []IInv
  BY InitIInv, NextIInv, PTL DEF Spec
<1>2. IInv /\ [Next]_vars => ExactStep
  BY NextExact
<1> QED
  BY <1>1, <1>2, PTL DEF Spec, ExactKept

-----------------------------------------------------------------------------
(***************************************************************************)
(* rebuild() of a forest, its roots numbered within each scope             *)
(***************************************************************************)
LEMMA SubtreesNest ==
  ASSUME NEW d, NEW a \in DOMAIN d, NEW b \in Subtrees(d, {a})
  PROVE  Subtrees(d, {b}) \subseteq Subtrees(d, {a})
<1> SUFFICES ASSUME NEW x \in Subtrees(d, {b}), NEW C \in SUBSET DOMAIN d,
                    {a} \subseteq C, ClosedUnderChildren(d, C)
             PROVE  x \in C
  BY DEF Subtrees
<1>1. {b} \subseteq C
  BY DEF Subtrees
<1> QED
  BY <1>1 DEF Subtrees

\* The line of a row is the row and the line of its parent, which the row is
\* not on: with it, a cycle would be closed.
LEMMA LineOfRoot ==
  ASSUME NEW d, NEW x \in DOMAIN d, d[x].parent \notin DOMAIN d
  PROVE  Lineage(d, x) = {x}
<1>1. x \in Lineage(d, x)
  BY SubtreeOf DEF Lineage
<1>2. ASSUME NEW a \in Lineage(d, x), a # x PROVE FALSE
 <2>1. a \in DOMAIN d /\ x \in Subtrees(d, {a}) \ {a}
   BY <1>2 DEF Lineage
 <2>2. d[x].parent \in Subtrees(d, {a}) /\ Subtrees(d, {a}) \subseteq DOMAIN d
   BY <2>1, SubtreeOf
 <2> QED
   BY <2>2
<1> QED
  BY <1>1, <1>2

LEMMA LineOfChild ==
  ASSUME NEW d, Forest(d), NEW x \in DOMAIN d, d[x].parent \in DOMAIN d
  PROVE  /\ Lineage(d, x) = Lineage(d, d[x].parent) \cup {x}
         /\ x \notin Lineage(d, d[x].parent)
<1> DEFINE p == d[x].parent
<1>1. ASSUME NEW a \in DOMAIN d
      PROVE  x \in Subtrees(d, {a}) <=> a = x \/ p \in Subtrees(d, {a})
  BY SubtreeOf
<1>2. Lineage(d, x) = Lineage(d, p) \cup {x}
  BY <1>1 DEF Lineage
<1>3. ASSUME x \in Lineage(d, p) PROVE FALSE
 <2> DEFINE C == {y \in Subtrees(d, {x}) : p \in Subtrees(d, {y})}
 <2>1. p \in Subtrees(d, {x}) /\ Subtrees(d, {x}) \subseteq DOMAIN d
   BY <1>3, SubtreeOf DEF Lineage
 <2>2. x \in C
   BY <2>1, SubtreeOf
 <2>3. ASSUME NEW y \in C PROVE d[y].parent \in C
  <3>1. y \in DOMAIN d /\ y \in Subtrees(d, {x}) /\ p \in Subtrees(d, {y})
    BY <2>1
  <3>2. CASE y = x
    BY <2>1, <3>2, SubtreeOf
  <3>3. CASE y # x
   <4>1. d[y].parent \in Subtrees(d, {x}) /\ d[y].parent \in DOMAIN d
     BY <2>1, <3>1, <3>3, SubtreeOf
   <4>2. d[y].parent \in Subtrees(d, {d[y].parent})
     BY <4>1, SubtreeOf
   <4>3. y \in Subtrees(d, {d[y].parent})
     BY <3>1, <4>1, <4>2, SubtreeOf
   <4>4. Subtrees(d, {y}) \subseteq Subtrees(d, {d[y].parent})
     BY <4>1, <4>3, SubtreesNest
   <4> QED
     BY <3>1, <4>1, <4>4
  <3> QED
    BY <3>2, <3>3
 <2>4. C \in SUBSET DOMAIN d /\ C # {}
   BY <2>1, <2>2
 <2> HIDE DEF C
 <2> QED
   BY <2>3, <2>4 DEF Forest
<1> QED
  BY <1>2, <1>3

\* The number of steps of a rebuilt path.
Level(d, x) == Cardinality(Lineage(d, x))

LEMMA Levels ==
  ASSUME NEW d, DOMAIN d \subseteq Node, Forest(d), NEW x \in DOMAIN d
  PROVE  /\ Level(d, x) \in Nat /\ Level(d, x) >= 1 /\ x \in Lineage(d, x)
         /\ d[x].parent \notin DOMAIN d => Level(d, x) = 1
         /\ d[x].parent \in DOMAIN d =>
              Level(d, x) = Level(d, d[x].parent) + 1 /\ Level(d, d[x].parent) \in Nat
<1>1. ASSUME NEW y \in DOMAIN d
      PROVE  IsFiniteSet(Lineage(d, y)) /\ Level(d, y) \in Nat
 <2>1. Lineage(d, y) \in SUBSET Node
   BY DEF Lineage
 <2> QED
   BY <2>1, FiniteRows DEF Level
<1>2. CASE d[x].parent \notin DOMAIN d
 <2>1. Level(d, x) = 1 /\ x \in Lineage(d, x)
   BY <1>2, LineOfRoot, FS_Singleton DEF Level
 <2> QED
   BY <1>2, <2>1
<1>3. CASE d[x].parent \in DOMAIN d
 <2> DEFINE L == Lineage(d, d[x].parent)
 <2>1. Lineage(d, x) = L \cup {x} /\ x \notin L /\ IsFiniteSet(L) /\ Cardinality(L) \in Nat
   BY <1>1, <1>3, LineOfChild DEF Level
 <2>2. Level(d, d[x].parent) = Cardinality(L)
   BY DEF Level
 <2>3. Level(d, x) = Cardinality(L) + 1
  <3> HIDE DEF L
  <3> QED
    BY <2>1, FS_AddElement DEF Level
 <2> HIDE DEF L
 <2> QED
   BY <1>3, <2>1, <2>2, <2>3
<1> QED
  BY <1>2, <1>3

\* On each line there is one row for each step of the path.
OneForEachStep(d, x) ==
  /\ \A a \in Lineage(d, x) : Level(d, a) \in 1..Level(d, x)
  /\ \A i \in 1..Level(d, x) : \E a \in Lineage(d, x) : Level(d, a) = i
  /\ \A a, b \in Lineage(d, x) : Level(d, a) = Level(d, b) => a = b

LEMMA StepsOfLine ==
  ASSUME NEW d, DOMAIN d \subseteq Node, Forest(d)
  PROVE  \A x \in DOMAIN d : OneForEachStep(d, x)
<1> DEFINE B == {x \in DOMAIN d : ~OneForEachStep(d, x)}
<1> SUFFICES ASSUME B # {} PROVE FALSE
  OBVIOUS
<1>1. PICK x \in B : d[x].parent \notin B
  BY DEF Forest
<1>2. x \in DOMAIN d /\ ~OneForEachStep(d, x)
  OBVIOUS
<1>3. CASE d[x].parent \notin DOMAIN d
 <2>1. Lineage(d, x) = {x} /\ Level(d, x) = 1
   BY <1>2, <1>3, LineOfRoot, Levels
 <2> QED
   BY <1>2, <2>1 DEF OneForEachStep
<1>4. CASE d[x].parent \in DOMAIN d
 <2> DEFINE p == d[x].parent
            L == Lineage(d, p)
            k == Level(d, p)
 <2>1. Lineage(d, x) = L \cup {x} /\ k \in Nat /\ Level(d, x) = k + 1
   BY <1>2, <1>4, LineOfChild, Levels
 <2>2. OneForEachStep(d, p)
   BY <1>1, <1>4
 <2>3. /\ \A a \in L : Level(d, a) \in 1..k
       /\ \A i \in 1..k : \E a \in L : Level(d, a) = i
       /\ \A a, b \in L : Level(d, a) = Level(d, b) => a = b
   BY <2>2 DEF OneForEachStep
 <2> HIDE DEF p, L, k
 <2>4. \A a \in L \cup {x} : Level(d, a) \in 1..(k + 1)
   BY <2>1, <2>3
 <2>5. \A i \in 1..(k + 1) : \E a \in L \cup {x} : Level(d, a) = i
  <3> TAKE i \in 1..(k + 1)
  <3>1. i \in 1..k \/ i = k + 1
    BY <2>1
  <3> QED
    BY <2>1, <2>3, <3>1
 <2>6. \A a \in L : Level(d, a) # Level(d, x)
   BY <2>1, <2>3
 <2>7. \A a, b \in L \cup {x} : Level(d, a) = Level(d, b) => a = b
   BY <2>3, <2>6
 <2> QED
   BY <1>2, <2>1, <2>4, <2>5, <2>7 DEF OneForEachStep
<1> QED
  BY <1>3, <1>4

\* The rows that a row is ranked among, and those that come before it.
Peers(d, scope, x) ==
  {y \in DOMAIN d : /\ d[y].parent = d[x].parent
                    /\ d[x].parent = NoParent => scope[y] = scope[x]}
Before(d, tie, y, x) ==
  \/ d[y].order < d[x].order
  \/ d[y].order = d[x].order /\ tie[y] < tie[x]

LEMMA RankCounts ==
  ASSUME NEW d, NEW scope, NEW tie, NEW x
  PROVE  Rank(d, scope, tie, x)
           = Cardinality({y \in Peers(d, scope, x) : Before(d, tie, y, x)})
<1> DEFINE S == {y \in DOMAIN d :
                   /\ d[y].parent = d[x].parent
                   /\ d[x].parent = NoParent => scope[y] = scope[x]
                   /\ \/ d[y].order < d[x].order
                      \/ d[y].order = d[x].order /\ tie[y] < tie[x]}
           T == {y \in Peers(d, scope, x) : Before(d, tie, y, x)}
<1>1. S = T
  BY DEF Peers, Before
<1>2. Rank(d, scope, tie, x) = Cardinality(S)
  BY DEF Rank
<1> HIDE DEF S, T
<1> QED
  BY <1>1, <1>2 DEF T

\* Two rows with equal orders have different places in the sequence in which
\* the database returns them.
LEMMA TiesDiffer ==
  ASSUME NEW d, DOMAIN d \subseteq Node, NEW tie \in TieBreaks(d)
  PROVE  /\ \A x \in DOMAIN d : tie[x] \in Nat
         /\ \A x, y \in DOMAIN d : tie[x] = tie[y] => x = y
<1> DEFINE D == DOMAIN d
<1>1. D \subseteq Nat
  BY NodeAssumption
<1>2. CASE tie \in Bijection(D, D)
  BY <1>1, <1>2 DEF Bijection, Injection, IsInjective
<1>3. CASE tie = [x \in D |-> x]
  BY <1>1, <1>3
<1> QED
  BY <1>2, <1>3 DEF TieBreaks

\* The ranks of peers are different and lie below their number.
LEMMA RanksDiffer ==
  ASSUME NEW d, Table(d), NEW scope, NEW tie \in TieBreaks(d), NEW x \in DOMAIN d
  PROVE  /\ Rank(d, scope, tie, x) \in Nat
         /\ Rank(d, scope, tie, x) < Cardinality(Peers(d, scope, x))
         /\ \A y \in Peers(d, scope, x) :
              Rank(d, scope, tie, y) = Rank(d, scope, tie, x) => y = x
<1> DEFINE P == Peers(d, scope, x)
           S(z) == {y \in P : Before(d, tie, y, z)}
<1>1. x \in P /\ P \in SUBSET Node /\ \A y \in P : Peers(d, scope, y) = P
  BY DEF Table, Peers
<1>2. /\ \A y \in P : d[y].order \in Nat /\ tie[y] \in Nat
      /\ \A y, z \in P : tie[y] = tie[z] => y = z
 <2>1. P \subseteq DOMAIN d
   BY DEF Peers
 <2>2. \A y \in DOMAIN d : d[y].order \in Nat
   BY DEF Table, Row
 <2> QED
   BY <2>1, <2>2, TiesDiffer DEF Table
<1>3. \A y \in P : Rank(d, scope, tie, y) = Cardinality(S(y))
  BY <1>1, RankCounts
<1> HIDE DEF P
<1>4. /\ \A y \in P : ~Before(d, tie, y, y)
      /\ \A y, z \in P : y # z => Before(d, tie, y, z) \/ Before(d, tie, z, y)
      /\ \A w, y, z \in P : Before(d, tie, w, y) /\ Before(d, tie, y, z) => Before(d, tie, w, z)
  BY <1>2 DEF Before
<1>5. \A T \in SUBSET P : IsFiniteSet(T) /\ Cardinality(T) \in Nat
  BY <1>1, FiniteRows
<1>6. ASSUME NEW T \in SUBSET P, NEW U \in SUBSET T, U # T
      PROVE  Cardinality(U) < Cardinality(T)
 <2>1. U \in SUBSET P
   OBVIOUS
 <2>2. /\ IsFiniteSet(T) /\ Cardinality(U) \in Nat /\ Cardinality(T) \in Nat
   BY <1>5, <2>1
 <2>3. Cardinality(U) <= Cardinality(T) /\ Cardinality(T) # Cardinality(U)
   BY <1>6, <2>2, FS_Subset
 <2> QED
   BY <2>2, <2>3
<1>7. Cardinality(S(x)) < Cardinality(P) /\ Cardinality(S(x)) \in Nat
 <2>1. S(x) \in SUBSET P /\ S(x) # P
   BY <1>1, <1>4
 <2> HIDE DEF S
 <2> QED
   BY <1>5, <1>6, <2>1
<1>8. ASSUME NEW y \in P, NEW z \in P, Before(d, tie, y, z)
      PROVE  Cardinality(S(y)) < Cardinality(S(z))
 <2>1. S(z) \in SUBSET P /\ S(y) \in SUBSET S(z) /\ y \in S(z) /\ y \notin S(y)
   BY <1>4, <1>8
 <2> HIDE DEF S
 <2> QED
   BY <1>6, <2>1
<1>9. \A y \in P : Cardinality(S(y)) \in Nat
 <2> TAKE y \in P
 <2>1. S(y) \in SUBSET P
   OBVIOUS
 <2> HIDE DEF S
 <2> QED
   BY <1>5, <2>1
<1>10. ASSUME NEW y \in P, Cardinality(S(y)) = Cardinality(S(x)) PROVE y = x
 <2> HIDE DEF S
 <2> QED
   BY <1>1, <1>4, <1>8, <1>9, <1>10
<1> HIDE DEF S
<1> QED
  BY <1>1, <1>3, <1>7, <1>10 DEF P

\* The row of a line that a step of the path stands for.
OnLine(d, x, i) == CHOOSE a \in Lineage(d, x) : Level(d, a) = i

LEMMA LineSteps ==
  ASSUME NEW d, DOMAIN d \subseteq Node, Forest(d), NEW x \in DOMAIN d
  PROVE  /\ \A i \in 1..Level(d, x) : OnLine(d, x, i) \in DOMAIN d
         /\ OnLine(d, x, Level(d, x)) = x
         /\ d[x].parent \in DOMAIN d =>
              \A i \in 1..Level(d, d[x].parent) :
                OnLine(d, x, i) = OnLine(d, d[x].parent, i)
<1>1. ASSUME NEW y \in DOMAIN d, NEW i \in 1..Level(d, y)
      PROVE  OnLine(d, y, i) \in Lineage(d, y) /\ Level(d, OnLine(d, y, i)) = i
 <2>1. \E a \in Lineage(d, y) : Level(d, a) = i
   BY StepsOfLine DEF OneForEachStep
 <2> QED
   BY <2>1 DEF OnLine
<1>2. \A y \in DOMAIN d : \A a, b \in Lineage(d, y) : Level(d, a) = Level(d, b) => a = b
  BY StepsOfLine DEF OneForEachStep
<1>3. \A y \in DOMAIN d : /\ Level(d, y) \in Nat /\ Level(d, y) >= 1
                          /\ y \in Lineage(d, y) /\ Lineage(d, y) \subseteq DOMAIN d
  BY Levels DEF Lineage
<1>4. OnLine(d, x, Level(d, x)) = x
 <2>1. Level(d, x) \in 1..Level(d, x)
   BY <1>3
 <2> QED
   BY <1>1, <1>2, <1>3, <2>1
<1>5. ASSUME d[x].parent \in DOMAIN d, NEW i \in 1..Level(d, d[x].parent)
      PROVE  OnLine(d, x, i) = OnLine(d, d[x].parent, i)
 <2>1. /\ i \in 1..Level(d, x)
       /\ Lineage(d, d[x].parent) \subseteq Lineage(d, x)
  <3>1. /\ Level(d, x) = Level(d, d[x].parent) + 1 /\ Level(d, d[x].parent) \in Nat
        /\ Lineage(d, x) = Lineage(d, d[x].parent) \cup {x}
    BY <1>5, Levels, LineOfChild
  <3> QED
    BY <1>5, <3>1
 <2>2. /\ OnLine(d, x, i) \in Lineage(d, x) /\ Level(d, OnLine(d, x, i)) = i
       /\ OnLine(d, d[x].parent, i) \in Lineage(d, d[x].parent)
       /\ Level(d, OnLine(d, d[x].parent, i)) = i
   BY <1>1, <1>5, <2>1
 <2> QED
   BY <1>2, <2>1, <2>2
<1>6. \A i \in 1..Level(d, x) : OnLine(d, x, i) \in DOMAIN d
  BY <1>1, <1>3
<1> QED
  BY <1>4, <1>5, <1>6

RebuiltPath(d, scope, tie, x) ==
  [i \in 1..Level(d, x) |-> Rank(d, scope, tie, OnLine(d, x, i)) + 1]

LEMMA RebuiltFields ==
  ASSUME NEW d, NEW scope, NEW tie, NEW x
  PROVE  RebuiltRow(d, scope, tie, x) =
           [parent |-> d[x].parent, path |-> RebuiltPath(d, scope, tie, x),
            depth |-> Level(d, x) - 1, order |-> Rank(d, scope, tie, x)]
BY DEF RebuiltRow, RebuiltPath, OnLine, Level

\* A rebuilt path is the parent's rebuilt path and one step more.
LEMMA RebuiltPaths ==
  ASSUME NEW d, Table(d), Forest(d), NEW scope, NEW tie \in TieBreaks(d), NEW x \in DOMAIN d
  PROVE  /\ RebuiltPath(d, scope, tie, x) \in Seq(Int)
         /\ Len(RebuiltPath(d, scope, tie, x)) = Level(d, x)
         /\ d[x].parent \notin DOMAIN d =>
              RebuiltPath(d, scope, tie, x) = NewPath(<<>>, Rank(d, scope, tie, x))
         /\ d[x].parent \in DOMAIN d =>
              RebuiltPath(d, scope, tie, x)
                = NewPath(RebuiltPath(d, scope, tie, d[x].parent), Rank(d, scope, tie, x))
<1> DEFINE w(y) == RebuiltPath(d, scope, tie, y)
           r(y) == Rank(d, scope, tie, y)
           k(y) == Level(d, y)
           at(y, i) == OnLine(d, y, i)
<1>1. DOMAIN d \subseteq Node
  BY DEF Table
<1>2. \A y \in DOMAIN d : r(y) \in Nat
  BY RanksDiffer
<1>3. \A y \in DOMAIN d : k(y) \in Nat /\ k(y) >= 1
  BY <1>1, Levels
<1>4. \A y \in DOMAIN d : \A i \in 1..k(y) : at(y, i) \in DOMAIN d
  BY <1>1, LineSteps
<1>5. at(x, k(x)) = x
  BY <1>1, LineSteps
<1>6. \A y \in DOMAIN d : w(y) = [i \in 1..k(y) |-> r(at(y, i)) + 1]
  BY DEF RebuiltPath
<1>7. d[x].parent \in DOMAIN d =>
        k(x) = k(d[x].parent) + 1 /\ \A i \in 1..k(d[x].parent) : at(x, i) = at(d[x].parent, i)
  BY <1>1, Levels, LineSteps
<1>8. d[x].parent \notin DOMAIN d => k(x) = 1
  BY <1>1, Levels
<1> HIDE DEF w, r, k, at
<1>9. ASSUME NEW y \in DOMAIN d
      PROVE  /\ w(y) \in Seq(Int) /\ Len(w(y)) = k(y)
             /\ \A i \in 1..k(y) : w(y)[i] = r(at(y, i)) + 1
 <2>1. \A i \in 1..k(y) : r(at(y, i)) + 1 \in Int
   BY <1>2, <1>4
 <2>2. w(y) \in [1..k(y) -> Int] /\ k(y) \in Nat
   BY <1>3, <1>6, <2>1
 <2> QED
   BY <1>6, <2>2
<1>10. r(x) + 1 \in Int
  BY <1>2
<1>11. CASE d[x].parent \notin DOMAIN d
 <2> DEFINE q == Append(<<>>, r(x) + 1)
 <2>1. <<>> \in Seq(Int) /\ Len(<<>>) = 0
   BY EmptySeq
 <2>2. q \in Seq(Int) /\ Len(q) = 0 + 1 /\ q[0 + 1] = r(x) + 1
   BY <1>10, <2>1, AppendFacts
 <2> HIDE DEF q
 <2>3. Len(w(x)) = 1 /\ w(x)[1] = r(x) + 1 /\ w(x) \in Seq(Int)
  <3>1. k(x) = 1 /\ 1 \in 1..k(x)
    BY <1>8, <1>11
  <3>2. at(x, 1) = x
    BY <1>5, <3>1
  <3>3. Len(w(x)) = k(x) /\ w(x) \in Seq(Int) /\ w(x)[1] = r(at(x, 1)) + 1
    BY <1>9, <3>1
  <3> QED
    BY <3>1, <3>2, <3>3
 <2>4. w(x) = q
   BY <2>2, <2>3, SeqEqual
 <2> QED
   BY <1>9, <1>11, <2>4 DEF NewPath, q, w, r, k
<1>12. CASE d[x].parent \in DOMAIN d
 <2> DEFINE p == d[x].parent
            q == Append(w(p), r(x) + 1)
 <2>1. /\ w(p) \in Seq(Int) /\ Len(w(p)) = k(p) /\ k(p) \in Nat /\ k(x) = k(p) + 1
       /\ \A i \in 1..k(p) : w(p)[i] = r(at(p, i)) + 1 /\ at(x, i) = at(p, i)
   BY <1>3, <1>7, <1>9, <1>12
 <2>2. /\ q \in Seq(Int) /\ Len(q) = Len(w(p)) + 1 /\ q[Len(w(p)) + 1] = r(x) + 1
       /\ \A i \in 1..Len(w(p)) : q[i] = w(p)[i]
   BY <1>10, <2>1, AppendFacts
 <2> HIDE DEF q, p
 <2>3. /\ w(x) \in Seq(Int) /\ Len(w(x)) = k(p) + 1 /\ w(x)[k(p) + 1] = r(x) + 1
       /\ \A i \in 1..k(p) : w(x)[i] = r(at(x, i)) + 1
  <3>1. k(p) + 1 \in 1..k(x) /\ \A i \in 1..k(p) : i \in 1..k(x)
    BY <2>1
  <3> QED
    BY <1>5, <1>9, <2>1, <3>1
 <2>4. \A i \in 1..k(p) + 1 : w(x)[i] = q[i]
  <3> TAKE i \in 1..k(p) + 1
  <3>1. i \in 1..k(p) \/ i = k(p) + 1
    BY <2>1
  <3> QED
    BY <2>1, <2>2, <2>3, <3>1
 <2>5. w(x) = q
   BY <2>1, <2>2, <2>3, <2>4, SeqEqual
 <2> QED
   BY <1>9, <1>12, <2>5 DEF NewPath, q, p, w, r, k
<1> QED
  BY <1>11, <1>12

Parented(d) == \A x \in DOMAIN d : d[x].parent \in DOMAIN d \cup {NoParent}

LEMMA ForestIsRooted ==
  ASSUME NEW d, Forest(d), Parented(d), NoParent \notin DOMAIN d
  PROVE  Rooted(d) = DOMAIN d
<1> DEFINE B == DOMAIN d \ Rooted(d)
<1> SUFFICES ASSUME B # {} PROVE FALSE
  BY DEF Rooted
<1>1. PICK x \in B : d[x].parent \notin B
  BY DEF Forest
<1>2. CASE d[x].parent = NoParent
 <2>1. x \in Lineage(d, x)
   BY SubtreeOf DEF Lineage
 <2> QED
   BY <1>2, <2>1 DEF Rooted
<1>3. CASE d[x].parent \in DOMAIN d
 <2>1. d[x].parent \in Rooted(d)
   BY <1>1, <1>3
 <2>2. Lineage(d, d[x].parent) \subseteq Lineage(d, x)
   BY <1>3, LineOfChild
 <2> QED
   BY <2>1, <2>2 DEF Rooted
<1> QED
  BY <1>2, <1>3 DEF Parented

\* A forest all of whose rows are as rebuild() computes them is exact.
LEMMA RebuiltRowsAreExact ==
  ASSUME NEW d, Table(d), Forest(d), Parented(d), NoParent \notin DOMAIN d,
         NEW scope, NEW tie \in TieBreaks(d), NEW e, DOMAIN e = DOMAIN d,
         \A x \in DOMAIN d : e[x] = RebuiltRow(d, scope, tie, x)
  PROVE  Exact(e, scope)
<1> DEFINE w(x) == RebuiltPath(d, scope, tie, x)
           r(x) == Rank(d, scope, tie, x)
           k(x) == Level(d, x)
<1>1. \A x \in DOMAIN d : /\ e[x].parent = d[x].parent /\ e[x].path = w(x)
                          /\ e[x].depth = k(x) - 1 /\ e[x].order = r(x)
  BY RebuiltFields
<1>2. Forest(e)
  BY <1>1, SameParentsForest
<1>3. Orphans(e) = {}
  BY <1>1 DEF Orphans, Parented
<1>4. ASSUME NEW x \in DOMAIN d
      PROVE  /\ r(x) < Cardinality(Peers(d, scope, x))
             /\ \A y \in Peers(d, scope, x) : r(y) = r(x) => y = x
  BY RanksDiffer
<1>5. ASSUME NEW x \in DOMAIN d PROVE Peers(e, scope, x) = Peers(d, scope, x)
  BY <1>1 DEF Peers
<1>6. ASSUME NEW x \in DOMAIN d
      PROVE  e[x].path = NewPath(PathOfParent(e, e[x].parent), e[x].order)
 <2>1. CASE d[x].parent = NoParent
  <3>1. w(x) = NewPath(<<>>, r(x))
    BY <2>1, RebuiltPaths
  <3> QED
    BY <1>1, <2>1, <3>1 DEF PathOfParent
 <2>2. CASE d[x].parent \in DOMAIN d
  <3>1. w(x) = NewPath(w(d[x].parent), r(x))
    BY <2>2, RebuiltPaths
  <3>2. PathOfParent(e, e[x].parent) = w(d[x].parent)
    BY <1>1, <2>2 DEF PathOfParent
  <3> QED
    BY <1>1, <3>1, <3>2
 <2> QED
   BY <2>1, <2>2 DEF Parented
<1>7. ASSUME NEW x \in DOMAIN d PROVE e[x].depth = Len(e[x].path) - 1
 <2>1. Len(w(x)) = k(x)
   BY RebuiltPaths
 <2> QED
   BY <1>1, <2>1
<1> HIDE DEF w, r, k
<1>8. ASSUME NEW x \in DOMAIN e
      PROVE  /\ e[x].order < Cardinality(Peers(e, scope, x))
             /\ \A y \in Peers(e, scope, x) : e[y].order = e[x].order => y = x
 <2>1. Peers(d, scope, x) \subseteq DOMAIN d
   BY DEF Peers
 <2> QED
   BY <1>1, <1>4, <1>5, <2>1
<1> QED
  BY <1>2, <1>3, <1>6, <1>7, <1>8 DEF Exact, Peers

\* The transaction of rebuild() has room for every path it writes.
LEMMA RebuiltFits ==
  ASSUME NEW d, Table(d), Forest(d), Parented(d), NoParent \notin DOMAIN d,
         NEW scope, NEW tie \in TieBreaks(d), Rebuilt(d, scope, tie) # d,
         \A x \in DOMAIN d : Level(d, x) <= MaxPath
  PROVE  Storable(Rebuilt(d, scope, tie), MaxPath)
<1> DEFINE e == Rebuilt(d, scope, tie)
           u(x) == RebuiltRow(d, scope, tie, x)
           m(x) == [d[x] EXCEPT !.path = <<-x>>]
<1>1. /\ Table(e) /\ DOMAIN e = DOMAIN d /\ \A x \in DOMAIN d : e[x].parent = d[x].parent
  BY RebuiltFacts
<1>2. \A x \in DOMAIN d : e[x] \in {u(x), m(x)}
  BY DEF Rebuilt
<1>3. \A x \in DOMAIN d : Len(u(x).path) <= MaxPath
 <2> TAKE x \in DOMAIN d
 <2>1. u(x).path = RebuiltPath(d, scope, tie, x)
   BY RebuiltFields
 <2>2. Len(RebuiltPath(d, scope, tie, x)) = Level(d, x)
   BY RebuiltPaths
 <2> HIDE DEF u
 <2> QED
   BY <2>1, <2>2
<1>4. \A x \in DOMAIN d : Len(m(x).path) <= MaxPath
 <2> TAKE x \in DOMAIN d
 <2>1. MaxPath \in Nat /\ Level(d, x) \in Nat /\ Level(d, x) >= 1 /\ Level(d, x) <= MaxPath
  <3>1. DOMAIN d \subseteq Node
    BY DEF Table
  <3> QED
    BY <3>1, Levels, BoundAssumption
 <2>2. m(x).path = <<-x>>
   BY DEF Table, Row
 <2> HIDE DEF m
 <2> QED
   BY <2>1, <2>2
<1> HIDE DEF e, u, m
<1>5. \A x \in DOMAIN e : e[x].order \in Nat
  BY <1>1 DEF Table, Row
<1>6. Storable(e, MaxPath)
  BY <1>1, <1>2, <1>3, <1>4, <1>5 DEF Storable, Parented
<1> QED
  BY <1>6 DEF e

LEMMA RebuildIsExact ==
  ASSUME IInv, Parented(db), NEW s \in Session, Rebuild(s),
         Forest(db), PathsFit, \A x \in Rows : db'[x].path # <<-x>>
  PROVE  Exact(db', ScopeOf)
<1>1. /\ Table(db) /\ DOMAIN db = Rows /\ NoParent \notin Rows
  BY TableOf, NodeAssumption DEF IInv, TypeOK, Rows, NoParent
<1>2. PICK tie \in TieBreaks(db) : Store(Rebuilt(db, ScopeOf, tie))
  BY DEF Rebuild
<1> DEFINE e == Rebuilt(db, ScopeOf, tie)
           u(x) == RebuiltRow(db, ScopeOf, tie, x)
<1>3. db' = e
 <2>1. \A x \in Rows : Level(db, x) <= MaxPath
   BY DEF PathsFit, Level
 <2>2. e # db => Storable(e, MaxPath)
   BY <1>1, <2>1, RebuiltFits
 <2> HIDE DEF e
 <2> QED
   BY <1>2, <2>2 DEF Store, e
<1>4. Rooted(db) = Rows
  BY <1>1, ForestIsRooted
<1>5. DOMAIN e = Rows /\ \A x \in Rows : e[x] = u(x)
 <2> DEFINE U == {x \in Rooted(db) : db[x] # u(x)}
 <2>1. CASE U = {}
   BY <1>1, <1>4, <2>1 DEF Rebuilt
 <2>2. CASE U # {}
  <3>1. e = [x \in Rows |-> IF x \in U THEN u(x) ELSE [db[x] EXCEPT !.path = <<-x>>]]
    BY <1>1, <2>2 DEF Rebuilt
  <3>2. ASSUME NEW x \in Rows PROVE x \in U
   <4> SUFFICES ASSUME x \notin U PROVE FALSE
     OBVIOUS
   <4>1. db[x] \in Row
     BY <1>1 DEF Table
   <4>2. [db[x] EXCEPT !.path = <<-x>>].path = <<-x>>
     BY <4>1 DEF Row
   <4> HIDE DEF U, u
   <4> QED
     BY <1>3, <3>1, <4>2
  <3> HIDE DEF U, u
  <3> QED
    BY <3>1, <3>2
 <2> QED
   BY <2>1, <2>2
<1>6. Exact(e, ScopeOf)
 <2> HIDE DEF e
 <2> QED
   BY <1>1, <1>5, RebuiltRowsAreExact
<1> QED
  BY <1>3, <1>6

\* Deletes take whole subtrees, and everything else that writes a parent is
\* checked against the foreign key.
LEMMA WithoutSubtrees ==
  ASSUME Parented(db), NEW S \in SUBSET Rows
  PROVE  Parented(Without(Subtrees(db, S)))
<1> DEFINE D == Subtrees(db, S)
<1>1. ASSUME NEW x \in Rows \ D, db[x].parent \in D PROVE FALSE
 <2>1. PICK C \in SUBSET DOMAIN db : S \subseteq C /\ ClosedUnderChildren(db, C) /\ x \notin C
   BY DEF Subtrees, Rows
 <2>2. db[x].parent \in C
   BY <1>1, <2>1 DEF Subtrees
 <2> QED
   BY <1>1, <2>1, <2>2 DEF ClosedUnderChildren, Rows
<1> HIDE DEF D
<1>2. Parented(Without(D))
  BY <1>1 DEF Parented, Without, Rows
<1> QED
  BY <1>2 DEF D

LEMMA StoreParented ==
  ASSUME Parented(db), NEW e, Store(e)
  PROVE  Parented(db')
BY DEF Store, Storable, Parented

LEMMA SameParentsParented ==
  ASSUME Parented(db), NEW e, DOMAIN e = Rows, \A x \in Rows : e[x].parent = db[x].parent
  PROVE  Parented(e)
BY DEF Parented, Rows

LEMMA NextParented == IInv /\ Parented(db) /\ [Next]_vars => Parented(db)'
<1> SUFFICES ASSUME IInv, Parented(db), [Next]_vars PROVE Parented(db')
  OBVIOUS
<1>1. CASE UNCHANGED db
  BY <1>1
<1>2. ASSUME NEW s \in Session, \/ CommitInsert(s)
                                \/ WriteRow(s)
                                \/ Rebuild(s)
      PROVE  Parented(db')
 <2>1. \E e : Store(e)
   BY <1>2 DEF CommitInsert, WriteRow, Rebuild
 <2> QED
   BY <2>1, StoreParented
<1>3. ASSUME NEW s \in Session, CommitMove(s) \/ PreSaveMoves(s)
      PROVE  Parented(db')
 <2>1. Storable(db', MaxPath) \/ db' = db
   BY <1>3 DEF CommitMove, PreSaveMoves, MoveApplies
 <2> QED
   BY <2>1 DEF Storable, Parented
<1>4. ASSUME NEW s \in Session, PreSaveToRoot(s)
      PROVE  Parented(db')
 <2> DEFINE n == sess[s].node
            roots == {x \in Children(db, Rows, NoParent) : ScopeOf[x] = ScopeOf[n]}
            row == RowForRoot(roots)
 <2>1. n \in Rows /\ db' = RootedSubtree(db, Rows, db[n], row)
   BY <1>4 DEF PreSaveToRoot
 <2>2. db[n] \in Row /\ row \in Row /\ Table(db) /\ DOMAIN db = Rows
  <3>1. roots \in SUBSET Rows
    BY DEF Children
  <3> HIDE DEF roots
  <3> QED
    BY <2>1, <3>1, TableOf, RowForRootType DEF IInv, Rows
 <2> HIDE DEF n, row
 <2>3. DOMAIN db' = Rows /\ \A x \in Rows : db'[x].parent = db[x].parent
   BY <2>1, <2>2, RootedSubtreeFacts
 <2> QED
   BY <2>3, SameParentsParented
<1>5. ASSUME NEW s \in Session, CommitDelete(s)
      PROVE  Parented(db')
 <2> DEFINE S == {sess[s].node} \cap Rows
 <2>1. db' = Without(Subtrees(db, S)) /\ S \in SUBSET Rows
   BY <1>5 DEF CommitDelete
 <2> HIDE DEF S
 <2> QED
   BY <2>1, WithoutSubtrees
<1>6. ASSUME NEW s \in Session, NEW S \in SUBSET Rows, DeleteMany(s, S)
      PROVE  Parented(db')
  BY <1>6, WithoutSubtrees DEF DeleteMany
<1>7. ASSUME NEW p \in purge, PostDelete(p)
      PROVE  Parented(db')
 <2>1. db' = CloseOrderGap(db, p.parent, p.order)
   BY <1>7 DEF PostDelete
 <2>2. Table(db) /\ DOMAIN db = Rows
   BY TableOf DEF IInv, Rows
 <2>3. DOMAIN db' = Rows /\ \A x \in Rows : db'[x].parent = db[x].parent
   BY <2>1, <2>2 DEF CloseOrderGap, Table, Row
 <2> QED
   BY <2>3, SameParentsParented
<1>8. ASSUME NEW s \in Session,
             \/ \E n \in Node, p \in Rows \cup {NoParent} : BeginInsert(s, n, p)
             \/ \E n, t \in Rows, pos \in Positions : BeginMove(s, n, t, pos)
             \/ \E n \in Rows, p \in Rows \cup {NoParent} : BeginEdit(s, n, p)
             \/ \E n \in Rows : BeginDelete(s, n)
             \/ AbandonMove(s)
             \/ PreSaveUnmoved(s)
             \/ Crash(s)
      PROVE  UNCHANGED db
  BY <1>8 DEF BeginInsert, BeginMove, BeginEdit, BeginDelete, AbandonMove, PreSaveUnmoved, Crash
<1> QED
  BY <1>1, <1>2, <1>3, <1>4, <1>5, <1>6, <1>7, <1>8 DEF Next, vars

\* What rebuild() promises, whatever the other operations, stale ones included,
\* have done to the table, and whatever the scopes: if the parent key is a
\* forest whose chains fit the path column and no placeholder is left behind,
\* every order, path and depth is exact afterwards.
THEOREM RebuildCorrect == Spec => RebuildExactUnlessPlaceholder
<1>1. Init => IInv /\ Parented(db)
  BY InitIInv DEF Init, Parented
<1>2. IInv /\ Parented(db) /\ [Next]_vars => IInv' /\ Parented(db)'
  BY NextIInv, NextParented
<1>3. IInv /\ Parented(db) /\ [Next]_vars => RebuildStep
  BY RebuildIsExact DEF RebuildStep
<1> QED
  BY <1>1, <1>2, <1>3, PTL DEF Spec, RebuildExactUnlessPlaceholder
=============================================================================
