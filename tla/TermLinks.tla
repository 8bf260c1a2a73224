----------------------------- MODULE TermLinks ------------------------------
(***************************************************************************)
(* The rows that point at terms: associations of a term with an object,    *)
(* and relationships between two terms.  Both tables have a unique         *)
(* constraint on all that is kept here, so that a table is a set.          *)
(***************************************************************************)
Tag(t, o) == [term |-> t, obj |-> o]
Rel(a, b, type) == [from |-> a, to |-> b, type |-> type]
Mirror(r) == Rel(r.to, r.from, r.type)

Bidirectional == {"synonym", "related"}
RelTypes == Bidirectional \cup {"see_also", "broader", "narrower"}

(* No term is related to itself, and a relationship that works both ways is  *)
(* two rows.                                                                *)
Irreflexive(rels) == \A r \in rels : r.from # r.to
Paired(rels) == \A r \in rels : r.type \in Bidirectional => Mirror(r) \in rels

ObjectsOf(tags, t) == {g.obj : g \in {h \in tags : h.term = t}}
Touching(rels, t) == {r \in rels : t \in {r.from, r.to}}

(***************************************************************************)
(* merge_terms(a, b): the rows of a go to b, or are deleted when b has the *)
(* same row or the row would point from b to itself.  It decides by what   *)
(* it has read, the table old, and writes by primary key: fetched has for  *)
(* each row of a that it has read, .was, what other sessions have made of  *)
(* that row since, .is.                                                    *)
(***************************************************************************)
Fetched(rows) == {[was |-> r, is |-> r] : r \in rows}
Left(fetched, rows) == {p \in fetched : p.is \in rows}
Still(fetched) == {p.is : p \in fetched}

TagMoves(old, a, b, o) == Tag(a, o) \in old /\ Tag(b, o) \notin old
GoingTags(fetched, old, a, b) == {p \in fetched : TagMoves(old, a, b, p.was.obj)}
Retagged(p, b) == Tag(b, p.is.obj)

MergedTags(tags, fetched, old, a, b) ==
  (tags \ Still(fetched)) \cup {Retagged(p, b) : p \in GoingTags(Left(fetched, tags), old, a, b)}

RelMoves(old, a, b, r) ==
  /\ a \in {r.from, r.to}
  /\ b \notin {r.from, r.to}
  /\ r.from = a => Rel(b, r.to, r.type) \notin old
  /\ r.to = a => Rel(r.from, b, r.type) \notin old
GoingRels(fetched, old, a, b) == {p \in fetched : RelMoves(old, a, b, p.was)}

(* Two UPDATEs, one for each side.                                           *)
FromMoved(p, a, b) == Rel(IF p.was.from = a THEN b ELSE p.is.from, p.is.to, p.is.type)
Redirected(p, a, b) == Rel(FromMoved(p, a, b).from, IF p.was.to = a THEN b ELSE p.is.to, p.is.type)

\* Mutant: only the rows that point from the source are moved.
MergedRelsOneSide(rels, fetched, old, a, b) ==
  LET ahead == {p \in Left(fetched, rels) : p.was.from = a} IN
  (rels \ Still(ahead)) \cup {Redirected(p, a, b) : p \in GoingRels(ahead, old, a, b)}

MergedRels(rels, fetched, old, a, b) ==
  (rels \ Still(fetched)) \cup {Redirected(p, a, b) : p \in GoingRels(Left(fetched, rels), old, a, b)}

(* An UPDATE that gives two rows the same key is refused.                    *)
TagsClash(tags, fetched, old, a, b) ==
  \E p \in GoingTags(Left(fetched, tags), old, a, b) : Retagged(p, b) \in tags \ Still(fetched)
RelsClash(rels, fetched, old, a, b) ==
  LET going == GoingRels(Left(fetched, rels), old, a, b)
      others == rels \ Still(fetched)
  IN \E p \in going :
       \/ {FromMoved(p, a, b), Redirected(p, a, b)} \cap others # {}
       \/ \E q \in going \ {p} : \/ FromMoved(p, a, b) = FromMoved(q, a, b)
                                 \/ Redirected(p, a, b) = Redirected(q, a, b)

(* What another session has read, after rows were deleted or, as updates     *)
(* says, written.                                                            *)
Forgotten(fetched, gone) == {p \in fetched : p.is \notin gone}
Followed(fetched, gone, updates) ==
  Forgotten(fetched, gone)
  \cup {[was |-> pu[1].was, is |-> pu[2].is] : pu \in {pu \in fetched \X updates : pu[1].is = pu[2].was}}
TagUpdates(fetched, old, a, b) ==
  {[was |-> p.is, is |-> Retagged(p, b)] : p \in GoingTags(fetched, old, a, b)}
RelUpdates(fetched, old, a, b) ==
  {[was |-> p.is, is |-> Redirected(p, a, b)] : p \in GoingRels(fetched, old, a, b)}
=============================================================================
