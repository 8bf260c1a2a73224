------------------------------ MODULE Taxonomy ------------------------------
(***************************************************************************)
(* icv-taxonomy: vocabularies, their terms (an icv-tree table whose        *)
(* default manager hides the inactive rows), the tags on objects and the   *)
(* relationships between terms.                                            *)
(*                                                                         *)
(* A session calls one service at a time.  It holds the instances it has   *)
(* loaded before the call; a service reads, and writes what it has decided *)
(* from it in a later step, so that the calls of another session come      *)
(* between.  One step is at most one transaction; a service that has no    *)
(* transaction around its writes takes several, and may be killed between  *)
(* them.                                                                   *)
(*                                                                         *)
(* A name stands for the slug made of it.  The order column of an          *)
(* association is left out: no service reads it but to number the next.    *)
(***************************************************************************)
EXTENDS TreeOps, TermLinks

CONSTANTS
  Term,        \* primary keys of terms
  Vocab,
  VocOf,       \* the vocabulary of each term: it never changes
  SlugOf,      \* the slug of each term
  Obj,         \* the objects that may be tagged
  Session,
  MaxPath,     \* how many steps the path column holds
  Deployments

ASSUME TermAssumption == Term \subseteq Nat \ {0} /\ IsFiniteSet(Term)
ASSUME VocAssumption  == VocOf \in [Term -> Vocab] /\ DOMAIN SlugOf = Term
(* Slugs are unique in a vocabulary, and each has room for those of others.  *)
ASSUME SlugAssumption ==
  /\ \A t, u \in Term : VocOf[t] = VocOf[u] /\ SlugOf[t] = SlugOf[u] => t = u
  /\ \A t \in Term, v \in Vocab : \E u \in Term : VocOf[u] = v /\ SlugOf[u] = SlugOf[t]

VARIABLES
  dep,      \* the operations used, and how many calls there are
  db,       \* the term table: primary key -> row of the tree
  active,   \* the terms with is_active
  vocs,     \* the vocabularies
  tags,     \* TermAssociation
  rels,     \* TermRelationship
  fetched,  \* what has become of the rows that a merge under way has read
  objs,     \* the tagged model's table
  used,     \* primary keys of terms and objects given out so far
  call,     \* what each session is doing
  begun,    \* calls begun
  merged,   \* terms merged away and not activated again
  home,     \* which objects have been given a term of a vocabulary
  why       \* what has happened that may break a rule

tree   == <<db, active, vocs>>
links  == <<tags, rels, objs, fetched>>
ghosts == <<merged, home, why>>
vars == <<dep, tree, links, used, call, begun, ghosts>>

Unlimited == -1
Strategies == {"refuse", "reparent", "reparent_up"}
Blank == [parent |-> NoParent, path |-> <<1>>, depth |-> 0, order |-> 0]
Vocabulary == [flat : BOOLEAN, open : BOOLEAN, multiple : BOOLEAN, max : Nat \cup {Unlimited}]
NoVoc == [flat |-> FALSE, open |-> TRUE, multiple |-> TRUE, max |-> Unlimited]

NoRows == [tags |-> {}, rels |-> {}]
NoDoc == [terms |-> <<>>, rels |-> {}, voc |-> NoVoc]

(* call[s].term and .other are the instances passed, .row and .orow the rows *)
(* they hold, .live whether term is active in memory, .voc the vocabulary    *)
(* instance; .kids, .tags, .rels, .objs what the service has read,           *)
(* .doc an exported vocabulary.                                              *)
Nothing == [op |-> "idle", at |-> "", term |-> NoParent, other |-> NoParent, row |-> Blank, orow |-> Blank,
            live |-> FALSE, voc |-> NoVoc, obj |-> "", pos |-> "", type |-> "",
            kids |-> {}, tags |-> {}, rels |-> {}, objs |-> {}, doc |-> NoDoc]

Rows == DOMAIN db
RowOf(t) == IF t = NoParent THEN Blank ELSE db[t]
TermsOf(v) == {t \in Rows : VocOf[t] = v}
TaggedIn(g, v, o) == {t \in Term : VocOf[t] = v /\ Tag(t, o) \in g}
Siblings(p, v) == {t \in Children(db, active, p) : VocOf[t] = v}

(* The tables a deployment starts with are such as the services leave: a     *)
(* term is below one of its vocabulary, one deeper, as far as the vocabulary *)
(* allows; a single-term vocabulary gives an object one term.                *)
Legal(d, v, row) ==
  LET p == row.parent IN
  /\ DOMAIN row = DOMAIN Blank
  /\ p = NoParent => row.depth = 0
  /\ p # NoParent =>
       /\ p \in DOMAIN d.db /\ VocOf[p] = v /\ ~d.vocs[v].flat
       /\ row.depth \in Nat /\ row.depth = d.db[p].depth + 1
       /\ d.vocs[v].max = Unlimited \/ row.depth <= d.vocs[v].max

ASSUME DeploymentsAssumption ==
  \A d \in Deployments :
    /\ DOMAIN d.db \subseteq Term /\ d.vocs \in [Vocab -> Vocabulary]
    /\ \A t \in DOMAIN d.db : Legal(d, VocOf[t], d.db[t])
    /\ Forest(d.db)
    /\ \A g \in d.tags : g = Tag(g.term, g.obj) /\ g.term \in DOMAIN d.db
    /\ \A v \in Vocab, o \in Obj :
         ~d.vocs[v].multiple => \A t, u \in TaggedIn(d.tags, v, o) : t = u

-----------------------------------------------------------------------------
Init ==
  /\ dep \in Deployments
  /\ db = dep.db /\ active = DOMAIN dep.db
  /\ vocs = dep.vocs
  /\ tags = dep.tags /\ rels = {} /\ objs = Obj \ dep.unborn
  /\ fetched = [s \in Session |-> NoRows]
  /\ used = DOMAIN dep.db \cup objs
  /\ call = [s \in Session |-> Nothing]
  /\ begun = 0
  /\ merged = {}
  /\ home = [v \in Vocab |-> {g.obj : g \in {g \in tags : VocOf[g.term] = v}}]
  /\ why = [nest |-> [v \in Vocab |-> {}], tag |-> [v \in Vocab |-> {}],
            late |-> [t \in Term |-> {}], pair |-> [t \in Term |-> {}]]

AtRest == \A s \in Session : call[s].op = "idle"
Idle(s, op) == call[s].op = "idle" /\ op \in dep.ops /\ begun < dep.calls /\ begun' = begun + 1
At(s, op, at) == call[s].op = op /\ call[s].at = at
Hold(s, r) == call' = [call EXCEPT ![s] = r]
Ends(s) == Hold(s, Nothing)
Goes(s, at) == Hold(s, [call[s] EXCEPT !.at = at])

With(t) == [Nothing EXCEPT !.term = t, !.row = RowOf(t), !.live = t \in active,
                           !.voc = IF t = NoParent THEN NoVoc ELSE vocs[VocOf[t]]]
WithTwo(t, u) == [With(t) EXCEPT !.other = u, !.orow = RowOf(u)]
As(r, op, at) == [r EXCEPT !.op = op, !.at = at]

Because(kind, xs, causes) ==
  why' = [why EXCEPT ![kind] = [x \in DOMAIN @ |-> IF x \in xs THEN @[x] \cup causes ELSE @[x]]]
If(cause, holds) == IF holds THEN {cause} ELSE {}

Deleted(gone, lost) ==
  fetched' = [s \in Session |-> [tags |-> Forgotten(fetched[s].tags, gone),
                                rels |-> Forgotten(fetched[s].rels, lost)]]

(***************************************************************************)
(* Terms                                                                   *)
(***************************************************************************)
Unique(d) == DuplicatePaths(d, VocOf) = {}       \* unique (vocabulary, path)
Commits(d) == Storable(d, MaxPath) /\ Unique(d)

\* Mutant: the depth of the parent itself is compared with the limit.
TooDeepParent(v, p, depth) == p # NoParent /\ v.max # Unlimited /\ depth - 1 > v.max
TooDeep(v, p, depth) == p # NoParent /\ v.max # Unlimited /\ depth > v.max
(* What AbstractTerm.clean and _validate_create_term refuse of a term of     *)
(* vocabulary v, held as voc, below p.                                       *)
Misplaced(v, voc, p) == p # NoParent /\ (VocOf[p] # v \/ voc.flat)

BeginCreate(s, t, p) ==
  /\ Idle(s, "create")
  /\ t \notin used /\ \A u \in Term \ used : VocOf[u] = VocOf[t] => t <= u
  /\ Hold(s, As([WithTwo(NoParent, p) EXCEPT !.term = t, !.voc = vocs[VocOf[t]]], "create", "check"))
  /\ used' = used \cup {t}
  /\ UNCHANGED <<dep, tree, links, ghosts>>

(* create_term: both sets of checks, with the parent in memory and with the  *)
(* one in the table, and then the pre_save handler.                          *)
CheckCreate(s) ==
  LET r == call[s]
      refused == \/ ~r.voc.open \/ Misplaced(VocOf[r.term], r.voc, r.other)
                 \/ TooDeep(r.voc, r.other, r.orow.depth + 1)
                 \/ r.other \notin Rows \cup {NoParent}
                 \/ TooDeep(r.voc, r.other, RowOf(r.other).depth + 1)
  IN /\ At(s, "create", "check")
     /\ IF refused THEN Ends(s)
        ELSE Hold(s, [r EXCEPT !.at = "insert",
                               !.row = RowForInsert(Siblings(r.other, VocOf[r.term]), r.other, r.orow)])
     /\ UNCHANGED <<dep, tree, links, used, begun, ghosts>>

WithRow(d, t, row) == [x \in DOMAIN d \cup {t} |-> IF x = t THEN row ELSE d[x]]
InsertTerm(s) ==
  LET r == call[s]
      v == VocOf[r.term]
      d == WithRow(db, r.term, r.row)
  IN /\ At(s, "create", "insert")
     /\ IF Commits(d)
        THEN /\ db' = d /\ active' = active \cup {r.term}
             /\ Because("nest", {v}, If("raced", vocs[v] # r.voc \/ (r.other # NoParent /\ db[r.other] # r.orow)))
        ELSE UNCHANGED <<db, active, why>>
     /\ Ends(s)
     /\ UNCHANGED <<dep, vocs, links, used, begun, merged, home>>

(***************************************************************************)
(* Moves.  Siblings are renumbered among the rows the default manager      *)
(* shows, of every vocabulary when they are roots; the moved term itself   *)
(* is written through that manager too, so an inactive one stays where it  *)
(* was.  A path that another row of the vocabulary has, if only for a      *)
(* moment, rolls the move back.                                            *)
(***************************************************************************)
Plan(d, t, r, u, urow, pos) == MovePlan(d, active, r, u, urow, pos)
MoveRefused(d, t, r, u, urow, pos) ==
  \/ MoveRejected(d, t, r, u, urow, pos)
  \/ ~PlaceholderFits(d, active, t, r, MaxPath)
AfterMove(d, t, r, u, urow, pos) ==
  LET plan == Plan(d, t, r, u, urow, pos) IN
  IF MoveIsNoOp(r, plan) THEN d
  ELSE LET m == Moved(d, active, t, r, plan) IN IF t \in active THEN m ELSE [m EXCEPT ![t] = d[t]]
MayClash(d) == ~Exact([t \in DOMAIN d \cap active |-> d[t]], VocOf) \/ DOMAIN d # active

(* The prefix queries of a move have no scope filter: it rewrites rows of    *)
(* any vocabulary, and with the path the depth that create_term compares     *)
(* with the limit.                                                           *)
Crossed(d) == {VocOf[x] : x \in {x \in Rows : d[x].depth # db[x].depth}}

BeginMove(s, t, u, pos) ==
  /\ Idle(s, "move")
  /\ Hold(s, As([WithTwo(t, u) EXCEPT !.pos = pos], "move", "move"))
  /\ UNCHANGED <<dep, tree, links, used, ghosts>>

CommitMove(s) ==
  LET r == call[s]
      d == AfterMove(db, r.term, r.row, r.other, r.orow, r.pos)
  IN /\ At(s, "move", "move")
     /\ VocOf[r.term] = VocOf[r.other]
     /\ ~MoveRefused(db, r.term, r.row, r.other, r.orow, r.pos)
     /\ Commits(d)
     /\ db' = d
     /\ Because("nest", {VocOf[r.term]} \cup Crossed(d), {"moved"})
     /\ Ends(s)
     /\ UNCHANGED <<dep, active, vocs, links, used, begun, merged, home>>

MoveFails(s) ==
  LET r == call[s] IN
  /\ At(s, "move", "move")
  /\ \/ VocOf[r.term] # VocOf[r.other]
     \/ MoveRefused(db, r.term, r.row, r.other, r.orow, r.pos)
     \/ ~Commits(AfterMove(db, r.term, r.row, r.other, r.orow, r.pos))
     \/ MayClash(db)
  /\ Ends(s)
  /\ UNCHANGED <<dep, tree, links, used, begun, ghosts>>

(***************************************************************************)
(* save(update_fields=[...]) of a loaded term.  The pre_save handler of    *)
(* icv-tree compares the parent in memory with the visible row and moves   *)
(* the subtree when they differ, whichever fields are saved; of a term     *)
(* that becomes a root it writes only the descendants.                     *)
(***************************************************************************)
Reseats(d, t, p) == t \in active /\ t \in DOMAIN d /\ d[t].parent # p
SaveFails(d, t, p, prow) ==
  \/ t \notin DOMAIN d
  \/ p \notin DOMAIN d \cup {NoParent}
  \/ Reseats(d, t, p) /\ p # NoParent /\ MoveRefused(d, t, d[t], p, prow, "last-child")
AfterPreSave(d, t, p, prow) ==
  IF ~Reseats(d, t, p) THEN d
  ELSE IF p = NoParent
       THEN RootedSubtree(d, active, d[t], RowForRoot({x \in Children(d, active, NoParent) : VocOf[x] = VocOf[t]}))
       ELSE AfterMove(d, t, d[t], p, prow, "last-child")

BeginSave(s, t, op) ==
  /\ op \in {"activate", "deactivate"} /\ Idle(s, op)
  /\ Hold(s, As(With(t), op, "save"))
  /\ UNCHANGED <<dep, tree, links, used, ghosts>>
BeginReparent(s, t, p) ==
  /\ Idle(s, "set_parent")
  /\ Hold(s, As(WithTwo(t, p), "set_parent", "save"))
  /\ UNCHANGED <<dep, tree, links, used, ghosts>>

(* update_term(is_active=...) validates the term as it is in memory,         *)
(* deactivate_term does not.                                                 *)
SaveActive(s) ==
  LET r == call[s]
      p == r.row.parent
      d == AfterPreSave(db, r.term, p, RowOf(p))
      invalid == r.op = "activate" /\ (Misplaced(VocOf[r.term], r.voc, p) \/ TooDeep(r.voc, p, r.row.depth))
  IN /\ r.op \in {"activate", "deactivate"}
     /\ IF p \in Rows \cup {NoParent} /\ ~SaveFails(db, r.term, p, RowOf(p)) /\ ~invalid /\ Commits(d)
        THEN /\ db' = d
             /\ active' = IF r.op = "activate" THEN active \cup {r.term} ELSE active \ {r.term}
             /\ merged' = IF r.op = "activate" THEN merged \ {r.term} ELSE merged
             /\ Because("nest", Crossed(d), {"moved"})
        ELSE UNCHANGED <<db, active, merged, why>>
     /\ Ends(s)
     /\ UNCHANGED <<dep, vocs, links, used, begun, home>>

(* update_term(parent=p): the limit is compared with the depth the term had. *)
SaveParent(s) ==
  LET r == call[s]
      p == r.other
      d0 == AfterPreSave(db, r.term, p, r.orow)
      d == [d0 EXCEPT ![r.term].parent = p]
      invalid == Misplaced(VocOf[r.term], r.voc, p) \/ TooDeep(r.voc, p, r.row.depth)
  IN /\ r.op = "set_parent"
     /\ IF ~invalid /\ ~SaveFails(db, r.term, p, r.orow) /\ Commits(d)
        THEN /\ db' = d
             /\ Because("nest", If(VocOf[r.term], db[r.term].parent # p) \cup Crossed(d), {"updated"})
        ELSE UNCHANGED <<db, why>>
     /\ Ends(s)
     /\ UNCHANGED <<dep, active, vocs, links, used, begun, merged, home>>

(***************************************************************************)
(* Deletes cascade to the children, tags and relationships; then the       *)
(* post_delete handler closes the order gap of each deleted row, the       *)
(* greatest key first.                                                     *)
(***************************************************************************)
Erased(S, held) ==
  LET gone == SetToSortSeq(S, LAMBDA x, y : x > y)
      closed == FoldLeft(LAMBDA d, t : CloseOrderGap(d, held[t].parent, held[t].order), [t \in Rows \ S |-> db[t]], gone)
  IN [t \in Rows \ S |-> [db[t] EXCEPT !.order = closed[t].order]]

Unlink(S) ==
  LET gone == {g \in tags : g.term \in S}
      lost == {r \in rels : r.from \in S \/ r.to \in S} IN
  /\ tags' = tags \ gone
  /\ rels' = rels \ lost
  /\ Deleted(gone, lost)
  /\ home' = [v \in Vocab |-> {o \in home[v] :
                \E t \in Term \ S : VocOf[t] = v /\ Tag(t, o) \in tags}
              \cup {o \in home[v] : TaggedIn(tags, v, o) = {}}]

EraseTerms(S, held) ==
  LET d == Erased(S, held) IN
  IF Storable(d, MaxPath)
  THEN db' = d /\ active' = active \ S /\ merged' = merged \ S /\ Unlink(S)
  ELSE UNCHANGED <<db, active, merged, tags, rels, fetched, home>>

BeginDelete(s, t) ==
  /\ Idle(s, "delete")
  /\ Hold(s, As(With(t), "delete", "delete"))
  /\ UNCHANGED <<dep, tree, links, used, ghosts>>
DeleteTerm(s) ==
  LET r == call[s]
      S == Subtrees(db, {r.term} \cap Rows)
  IN /\ At(s, "delete", "delete")
     /\ EraseTerms(S, [t \in S |-> IF t = r.term THEN r.row ELSE db[t]])
     /\ Ends(s)
     /\ UNCHANGED <<dep, vocs, objs, used, begun, why>>

(* clear_vocabulary, and the cascade of delete_vocabulary.                   *)
ClearVocabulary(s, v) ==
  /\ Idle(s, "clear")
  /\ TermsOf(v) # {}
  /\ EraseTerms(TermsOf(v), db)
  /\ UNCHANGED <<dep, vocs, objs, used, call, why>>

(***************************************************************************)
(* update_vocabulary.  Vocabulary.terms are the active ones: that is what  *)
(* the type check counts.                                                  *)
(***************************************************************************)
BeginConfigure(s, v, field, value) ==
  /\ Idle(s, "configure")
  /\ vocs[v][field] # value
  /\ Hold(s, As([Nothing EXCEPT !.obj = v, !.type = field, !.voc = [vocs[v] EXCEPT ![field] = value]], "configure", "save"))
  /\ UNCHANGED <<dep, tree, links, used, ghosts>>

(* What the new settings do not fit.                                         *)
Depth(t) == Cardinality(Lineage(db, t)) - 1
Unfit(v, new) ==
  If("retyped", new.flat /\ \E t \in TermsOf(v) : db[t].parent # NoParent)
  \cup If("limited", new.max # Unlimited /\ \E t \in TermsOf(v) : Depth(t) > new.max)
Reconfigured(v, new) ==
  /\ vocs' = [vocs EXCEPT ![v] = new]
  /\ why' = [why EXCEPT !.nest[v] = @ \cup Unfit(v, new),
                        !.tag[v] = @ \cup If("switched", ~new.multiple /\ vocs[v].multiple)]

Configure(s) ==
  LET r == call[s]  v == r.obj IN
  /\ At(s, "configure", "save")
  /\ IF r.voc.flat # vocs[v].flat /\ TermsOf(v) \cap active # {}
     THEN UNCHANGED <<vocs, why>>
     ELSE Reconfigured(v, [vocs[v] EXCEPT ![r.type] = r.voc[r.type]])
  /\ Ends(s)
  /\ UNCHANGED <<dep, db, active, links, used, begun, merged, home>>

(***************************************************************************)
(* merge_terms                                                             *)
(***************************************************************************)
BeginMerge(s, a, b, strategy) ==
  /\ Idle(s, "merge")
  /\ {a, b} \subseteq Rows
  /\ Hold(s, As([WithTwo(a, b) EXCEPT !.pos = strategy], "merge", "read"))
  /\ UNCHANGED <<dep, tree, links, used, ghosts>>

ReadMerge(s) ==
  LET r == call[s]
      kids == Children(db, Rows, r.term)
  IN /\ At(s, "merge", "read")
     /\ IF VocOf[r.term] # VocOf[r.other] \/ (kids # {} /\ r.pos = "refuse")
        THEN Ends(s) /\ UNCHANGED fetched
        ELSE /\ Hold(s, [r EXCEPT !.at = "write", !.kids = kids, !.tags = tags, !.rels = rels])
             /\ fetched' = [fetched EXCEPT ![s] = [tags |-> Fetched({g \in tags : g.term = r.term}),
                                                   rels |-> Fetched(Touching(rels, r.term))]]
     /\ UNCHANGED <<dep, tree, tags, rels, objs, used, begun, ghosts>>

(* The children are written with bulk_update through the manager of active   *)
(* terms: only the parent column, and only of those that are active.         *)
NewParent(r) == IF r.pos = "reparent" THEN r.other ELSE r.row.parent
WithChildrenOf(r) ==
  [t \in Rows |-> IF t \in r.kids \cap active THEN [db[t] EXCEPT !.parent = NewParent(r)] ELSE db[t]]
AfterMerge(r) == AfterPreSave(WithChildrenOf(r), r.term, r.row.parent, RowOf(r.row.parent))
MergeFails(s) ==
  LET r == call[s]  a == r.term  b == r.other IN
  \/ {a, b} \ Rows # {}
  \/ r.row.parent \notin Rows \cup {NoParent}
  \/ TagsClash(tags, fetched[s].tags, r.tags, a, b) \/ RelsClash(rels, fetched[s].rels, r.rels, a, b)
  \/ SaveFails(WithChildrenOf(r), a, r.row.parent, RowOf(r.row.parent))
  \/ ~Commits(AfterMerge(r))

\* Somebody has written only one row of a pair.
HalfWay(t) == \E s \in Session : call[s].at = "second" /\ t \in {call[s].term, call[s].other}
(* The relationships of t, or the rows of the source, are not those that the *)
(* merge has read.                                                           *)
Mixed(s, t) ==
  LET r == call[s] IN
  \/ HalfWay(t)
  \/ Touching(rels, t) # Touching(r.rels, t)
  \/ fetched[s].rels # Fetched(Touching(rels, r.term))
BothEnds(p) == {p.is.from, p.is.to}
MergedCauses(s, t) ==
  LET r == call[s] IN
  why.pair[t]
  \cup If("raced", /\ Mixed(s, r.term) \/ Mixed(s, r.other)
                   /\ t \in {r.term, r.other} \cup UNION {BothEnds(p) : p \in Left(fetched[s].rels, rels)})
  \cup (IF t = r.other THEN why.pair[r.term] ELSE {})

(* A tag that the merge has read is now another term's, or was made again.   *)
TagsStrayed(s) ==
  Left(fetched[s].tags, tags) # Fetched({g \in tags \cap call[s].tags : g.term = call[s].term})
MergedTag(s, v) ==
  LET r == call[s]
      theirs == {p.is.term : p \in Left(fetched[s].tags, tags)}
  IN If("itself", v = VocOf[r.term] /\ r.term = r.other)
     \cup If("untagged", v = VocOf[r.term] /\ \E o \in ObjectsOf(tags, r.term) : Tag(r.other, o) \in r.tags \ tags)
     \cup If("strayed", TagsStrayed(s) /\ v \in {VocOf[t] : t \in {r.term} \cup theirs})
MergedLate(s, t) ==
  LET r == call[s] IN
  IF t = r.term THEN If("late", TagsStrayed(s) \/ ObjectsOf(tags, t) # ObjectsOf(r.tags, t))
  ELSE why.late[t] \cup If("into", t = r.other /\ t \notin active)

(* The rows that other merges have read may be among those written here.     *)
FollowMerge(s) ==
  LET r == call[s]  a == r.term  b == r.other  mine == fetched[s] IN
  fetched' = [u \in Session |-> IF u = s THEN NoRows ELSE
    [tags |-> Followed(fetched[u].tags, Still(mine.tags), TagUpdates(mine.tags, r.tags, a, b)),
     rels |-> Followed(fetched[u].rels, Still(mine.rels), RelUpdates(mine.rels, r.rels, a, b))]]

CommitMerge(s) ==
  LET r == call[s]  a == r.term  b == r.other IN
  /\ At(s, "merge", "write")
  /\ IF MergeFails(s)
     THEN UNCHANGED <<db, active, tags, rels, ghosts>> /\ fetched' = [fetched EXCEPT ![s] = NoRows]
     ELSE /\ db' = AfterMerge(r)
          /\ active' = active \ {a}
          /\ tags' = MergedTags(tags, fetched[s].tags, r.tags, a, b)
          /\ rels' = MergedRels(rels, fetched[s].rels, r.rels, a, b)
          /\ FollowMerge(s)
          /\ merged' = merged \cup {a}
          /\ why' = [why EXCEPT
               !.nest = [v \in Vocab |-> @[v] \cup If("merged", v = VocOf[a] /\ r.kids \cap active # {})
                                              \cup If("moved", v \in Crossed(AfterMerge(r)))],
               !.tag = [v \in Vocab |-> @[v] \cup MergedTag(s, v)],
               !.late = [t \in Term |-> MergedLate(s, t)],
               !.pair = [t \in Term |-> MergedCauses(s, t)]]
          /\ UNCHANGED home
  /\ Ends(s)
  /\ UNCHANGED <<dep, vocs, objs, used, begun>>

(***************************************************************************)
(* Tags                                                                    *)
(***************************************************************************)
BeginTag(s, t, o, old) ==
  /\ o \in objs
  /\ Idle(s, IF old = NoParent THEN "tag" ELSE "replace")
  /\ Hold(s, [With(t) EXCEPT !.op = "tag", !.at = "check", !.obj = o, !.other = old])
  /\ UNCHANGED <<dep, tree, links, used, ghosts>>

\* Mutant: the rule of one term per object is forgotten.
TagRefusedAnyNumber(r, left) ==
  \/ ~r.live
  \/ Tag(r.term, r.obj) \in left

(* tag_object, for a term, its vocabulary and what the table holds but for   *)
(* the tag that replace_term_on_object has removed before.                   *)
TagRefused(r, left) ==
  \/ ~r.live
  \/ Tag(r.term, r.obj) \in left
  \/ ~r.voc.multiple /\ TaggedIn(left, VocOf[r.term], r.obj) # {}

Replaced(r) == IF r.other = NoParent THEN {} ELSE {Tag(r.other, r.obj)}
CheckTag(s) ==
  LET r == call[s] IN
  /\ At(s, "tag", "check")
  /\ IF TagRefused(r, tags \ Replaced(r)) \/ ~(Replaced(r) \subseteq tags) THEN Ends(s)
     ELSE Hold(s, [r EXCEPT !.at = "insert", !.tags = tags])
  /\ UNCHANGED <<dep, tree, links, used, begun, ghosts>>

(* The rows inserted for one term; each object is then at home in its        *)
(* vocabulary.                                                               *)
Tagged(t, os, lost, causes) ==
  LET v == VocOf[t]
      after == (tags \ lost) \cup {Tag(t, o) : o \in os}
  IN /\ tags' = after
     /\ Deleted(lost, {})
     /\ home' = [u \in Vocab |->
                   IF u = v THEN home[u] \cup os
                   ELSE {o \in home[u] : TaggedIn(tags, u, o) = {} \/ TaggedIn(after, u, o) # {}}]
     /\ why' = [why EXCEPT !.tag[v] = @ \cup causes,
                           !.late[t] = @ \cup If("stale", t \notin active)]

InsertTag(s) ==
  LET r == call[s]
      v == VocOf[r.term]
      left == tags \ Replaced(r)
      before == r.tags \ Replaced(r)
  IN /\ At(s, "tag", "insert")
     /\ IF r.term \in Rows /\ Tag(r.term, r.obj) \notin left
        THEN Tagged(r.term, {r.obj}, Replaced(r),
                    If("raced", TaggedIn(left, v, r.obj) # TaggedIn(before, v, r.obj))
                    \cup If("switched", vocs[v].multiple # r.voc.multiple))
        ELSE UNCHANGED <<tags, fetched, home, why>>
     /\ Ends(s)
     /\ UNCHANGED <<dep, tree, rels, objs, used, begun, merged>>

BeginTagMany(s, t, os) ==
  /\ Idle(s, "tag_many")
  /\ Hold(s, [As(With(t), "tag_many", "insert") EXCEPT !.objs = os])
  /\ UNCHANGED <<dep, tree, links, used, ghosts>>

(* bulk_tag_objects inserts what is not there and counts nothing.            *)
TagMany(s) ==
  LET r == call[s] IN
  /\ At(s, "tag_many", "insert")
  /\ IF r.live /\ r.term \in Rows
     THEN Tagged(r.term, r.objs, {}, {"bulk"})
     ELSE UNCHANGED <<tags, fetched, home, why>>
  /\ Ends(s)
  /\ UNCHANGED <<dep, tree, rels, objs, used, begun, merged>>

Untagged(g) ==
  /\ tags' = tags \ g
  /\ Deleted(g, {})
  /\ home' = [v \in Vocab |-> {o \in home[v] : TaggedIn(tags, v, o) = {} \/ TaggedIn(tags \ g, v, o) # {}}]

Untag(s, t, o) ==
  /\ Idle(s, "untag")
  /\ Tag(t, o) \in tags
  /\ Untagged({Tag(t, o)})
  /\ UNCHANGED <<dep, tree, rels, objs, used, call, merged, why>>

NewObject(s, o) ==
  /\ Idle(s, "object")
  /\ o \notin used
  /\ objs' = objs \cup {o} /\ used' = used \cup {o}
  /\ UNCHANGED <<dep, tree, tags, rels, fetched, call, ghosts>>

(* The object goes, its associations stay.                                   *)
DropObject(s, o) ==
  /\ Idle(s, "object")
  /\ objs' = objs \ {o}
  /\ UNCHANGED <<dep, tree, tags, rels, fetched, used, call, ghosts>>

(* cleanup_orphaned_associations: first the objects there are, then the      *)
(* associations of others.                                                   *)
BeginCleanup(s) ==
  /\ Idle(s, "cleanup")
  /\ Hold(s, [As(Nothing, "cleanup", "delete") EXCEPT !.objs = objs])
  /\ UNCHANGED <<dep, tree, links, used, ghosts>>
Cleanup(s) ==
  LET r == call[s]
      orphans == {g \in tags : g.obj \notin r.objs}
  IN /\ At(s, "cleanup", "delete")
     /\ tags' = tags \ orphans
     /\ Deleted(orphans, {})
     /\ home' = [v \in Vocab |-> home[v] \cap (objs \cup r.objs)]
     /\ why' = [why EXCEPT !.tag = [v \in Vocab |-> @[v] \cup
                  If("young", \E g \in orphans : VocOf[g.term] = v /\ g.obj \in objs)]]
     /\ Ends(s)
     /\ UNCHANGED <<dep, tree, rels, objs, used, begun, merged>>

(***************************************************************************)
(* Relationships.  Each get_or_create and each delete is a transaction of  *)
(* its own unless the caller has one.                                      *)
(***************************************************************************)
SecondRow(op, a, b, type) == type \in Bidirectional

PairTouched(r) ==
  IF r.op = "relate" THEN Rel(r.term, r.other, r.type) \notin rels
  ELSE Rel(r.term, r.other, r.type) \in rels

First(s, op, a, b, type, new) ==
  /\ Idle(s, op)
  /\ a # b /\ {a, b} \subseteq Rows
  /\ rels' = new
  /\ Deleted({}, rels \ new)
  /\ IF SecondRow(op, a, b, type)
     THEN Hold(s, [As(Nothing, op, "second") EXCEPT !.term = a, !.other = b, !.type = type])
     ELSE UNCHANGED call
  /\ UNCHANGED <<dep, tree, tags, objs, used, ghosts>>
Relate(s, a, b, type)   == First(s, "relate", a, b, type, rels \cup {Rel(a, b, type)})
Unrelate(s, a, b, type) == First(s, "unrelate", a, b, type, rels \ {Rel(a, b, type)})

(* The call missed its pair when another changed the first row, or deleted   *)
(* one of the terms with all its rows, before it wrote the second.           *)
SecondRelate(s) ==
  LET r == call[s]  back == Rel(r.other, r.term, r.type) IN
  /\ call[s].at = "second"
  /\ IF {r.term, r.other} \subseteq Rows
     THEN rels' = IF r.op = "relate" THEN rels \cup {back} ELSE rels \ {back}
     ELSE UNCHANGED rels
  /\ Deleted({}, rels \ rels')
  /\ Because("pair", IF PairTouched(r) THEN {r.term, r.other} ELSE {r.term, r.other} \ Rows, {"raced"})
  /\ Ends(s)
  /\ UNCHANGED <<dep, tree, tags, objs, used, begun, merged, home>>

(* The inline of the term's admin page adds and deletes single rows, and     *)
(* changes the other term and the type of a row.                             *)
EditInline(s, a, b, type) ==
  LET r == Rel(a, b, type) IN
  /\ Idle(s, "inline")
  /\ a # b /\ {a, b} \subseteq Rows
  /\ rels' = IF r \in rels THEN rels \ {r} ELSE rels \cup {r}
  /\ Deleted({}, rels \ rels')
  /\ Because("pair", {a, b}, {"inline"})
  /\ UNCHANGED <<dep, tree, tags, objs, used, call, merged, home>>

EditRow(s, r, b, type) ==
  LET new == Rel(r.from, b, type) IN
  /\ Idle(s, "inline")
  /\ r.from # b /\ b \in Rows /\ new \notin rels
  /\ rels' = (rels \ {r}) \cup {new}
  /\ fetched' = [u \in Session |->
                   [fetched[u] EXCEPT !.rels = Followed(@, {r}, {[was |-> r, is |-> new]})]]
  /\ Because("pair", {r.from, r.to, b}, {"inline"})
  /\ UNCHANGED <<dep, tree, tags, objs, used, call, merged, home>>

Kill(s) ==
  /\ "kill" \in dep.ops
  /\ call[s].op # "idle"
  /\ Because("pair", {call[s].term, call[s].other}, If("killed", call[s].at = "second"))
  /\ fetched' = [fetched EXCEPT ![s] = NoRows]
  /\ Ends(s)
  /\ UNCHANGED <<dep, tree, tags, rels, objs, used, begun, merged, home>>

(***************************************************************************)
(* export_vocabulary and import_vocabulary.  A document lists terms by     *)
(* path, parents first, and the relationships between them.                *)
(***************************************************************************)
PathBefore(p, q) ==
  \/ IsStrictPrefix(p, q)
  \/ \E i \in DOMAIN p \cap DOMAIN q : p[i] < q[i] /\ \A j \in 1..(i - 1) : p[j] = q[j]

NoSlug == 0
Exported(v, all) ==
  LET S == {t \in TermsOf(v) : all \/ t \in active}
      inOrder == SetToSortSeq(S, LAMBDA x, y : PathBefore(db[x].path, db[y].path))
      slug(t) == IF t = NoParent THEN NoSlug ELSE SlugOf[t]
  IN [terms |-> [i \in DOMAIN inOrder |-> [slug |-> SlugOf[inOrder[i]], parent |-> slug(db[inOrder[i]].parent),
                                          live |-> inOrder[i] \in active]],
      rels |-> {Rel(SlugOf[r.from], SlugOf[r.to], r.type) : r \in {r \in rels : {r.from, r.to} \subseteq S}},
      voc |-> vocs[v]]

BeginImport(s, v, w, all) ==
  /\ Idle(s, "import")
  /\ TermsOf(v) # {}
  /\ Hold(s, [As(Nothing, "import", "import") EXCEPT !.obj = w, !.doc = Exported(v, all), !.live = (v = w)])
  /\ UNCHANGED <<dep, tree, links, used, ghosts>>

Slugs(w) == {SlugOf[t] : t \in TermsOf(w)}
Named(w, slug) == CHOOSE t \in Term : VocOf[t] = w /\ SlugOf[t] = slug
(* The parents are looked up before any term is created: an entry whose      *)
(* parent is new as well is skipped.                                         *)
Known(w, e) == e.parent = NoSlug \/ e.parent \in Slugs(w)
NewEntries(w, doc) == {i \in DOMAIN doc.terms : doc.terms[i].slug \notin Slugs(w) /\ Known(w, doc.terms[i])}

(* create_term for the i-th entry: its siblings are the terms that V shows   *)
(* and the live ones created before it.                                      *)
ParentNamed(w, e) == IF e.parent = NoSlug THEN NoParent ELSE Named(w, e.parent)
RowOfNew(w, doc, V, i) ==
  LET p == ParentNamed(w, doc.terms[i])
      sooner == {j \in NewEntries(w, doc) : j < i /\ doc.terms[j].parent = doc.terms[i].parent /\ doc.terms[j].live}
      before == {Named(w, doc.terms[j].slug) : j \in sooner}
  IN RowForInsert((Siblings(p, w) \cap V) \cup before, p, RowOf(p))

(* Existing terms are written through the manager of active terms, so that   *)
(* an import deactivates but never activates.                                *)
Import(s) ==
  LET r == call[s]  w == r.obj  doc == r.doc
      voc == IF r.live THEN [vocs[w] EXCEPT !.multiple = doc.voc.multiple, !.max = doc.voc.max] ELSE vocs[w]
      asleep == {Named(w, e.slug) : e \in {e \in Range(doc.terms) : e.slug \in Slugs(w) /\ Known(w, e) /\ ~e.live}}
      new == NewEntries(w, doc)
      named(t, i) == VocOf[t] = w /\ SlugOf[t] = doc.terms[i].slug
      born == {t \in Term \ Rows : \E i \in new : named(t, i)}
      awake == {t \in born : \E i \in new : named(t, i) /\ doc.terms[i].live}
      row(i) == RowOfNew(w, doc, active \ asleep, i)
      d == [t \in Rows \cup born |-> IF t \in Rows THEN db[t] ELSE row(CHOOSE i \in new : named(t, i))]
      refused == \E i \in new : Misplaced(w, voc, row(i).parent) \/ TooDeep(voc, row(i).parent, row(i).depth)
      closed == ~voc.open /\ \E e \in Range(doc.terms) : e.slug \notin Slugs(w)
      there(slug) == slug \in Slugs(w) \cup {doc.terms[i].slug : i \in new}
      apart == {q \in doc.rels : q.from # q.to /\ there(q.from) /\ there(q.to)}
      pairs == {Rel(Named(w, q.from), Named(w, q.to), q.type) : q \in apart}
  IN /\ At(s, "import", "import")
     /\ \A u \in Session \ {s} : {call[u].term, call[u].other} \cap born = {}
     /\ IF closed \/ refused \/ ~Commits(d) THEN UNCHANGED <<tree, rels, used, why>>
        ELSE /\ db' = d /\ active' = (active \ asleep) \cup awake
             /\ Reconfigured(w, voc)
             /\ rels' = rels \cup pairs \cup {Mirror(q) : q \in {q \in pairs : q.type \in Bidirectional}}
             /\ used' = used \cup born
     /\ Ends(s)
     /\ UNCHANGED <<dep, tags, objs, fetched, begun, merged, home>>

(***************************************************************************)
(* icv_taxonomy_check --fix: nested terms of flat vocabularies lose their  *)
(* parent; the tree is rebuilt when a root has another depth than 0.       *)
(***************************************************************************)
FixTypes(s) ==
  /\ Idle(s, "fix")
  /\ db' = [t \in Rows |-> IF vocs[VocOf[t]].flat THEN [db[t] EXCEPT !.parent = NoParent] ELSE db[t]]
  /\ UNCHANGED <<dep, active, vocs, links, used, call, ghosts>>

BadRoots == {t \in Rows : ~vocs[VocOf[t]].flat /\ db[t].parent = NoParent /\ db[t].depth # 0}
FixPaths(s) ==
  /\ Idle(s, "fix")
  /\ BadRoots # {}
  /\ \E tie \in TieBreaks(db) :
       LET d == Rebuilt(db, VocOf, tie) IN db' = IF Commits(d) THEN d ELSE db
  /\ UNCHANGED <<dep, active, vocs, links, used, call, ghosts>>

-----------------------------------------------------------------------------
Settings == [flat |-> BOOLEAN, open |-> BOOLEAN, multiple |-> BOOLEAN, max |-> {Unlimited, 1}]

Next ==
  \E s \in Session :
    \/ \E t \in Term, p \in Rows \cup {NoParent} : BeginCreate(s, t, p)
    \/ CheckCreate(s)
    \/ InsertTerm(s)
    \/ \E t, u \in Rows, pos \in Positions : BeginMove(s, t, u, pos)
    \/ CommitMove(s)
    \/ MoveFails(s)
    \/ \E t \in Rows, op \in {"activate", "deactivate"} : BeginSave(s, t, op)
    \/ \E t \in Rows, p \in Rows \cup {NoParent} : BeginReparent(s, t, p)
    \/ SaveActive(s)
    \/ SaveParent(s)
    \/ \E t \in Rows : BeginDelete(s, t)
    \/ DeleteTerm(s)
    \/ \E v \in Vocab : ClearVocabulary(s, v)
    \/ \E v \in Vocab, field \in DOMAIN Settings :
         \E value \in Settings[field] : BeginConfigure(s, v, field, value)
    \/ Configure(s)
    \/ \E a, b \in Term \cap Rows, strategy \in Strategies : BeginMerge(s, a, b, strategy)
    \/ ReadMerge(s)
    \/ CommitMerge(s)
    \/ \E t \in Rows, o \in Obj : BeginTag(s, t, o, NoParent)
    \/ \E t, old \in Rows, o \in Obj : BeginTag(s, t, o, old)
    \/ CheckTag(s)
    \/ InsertTag(s)
    \/ \E t \in Rows, os \in SUBSET objs : BeginTagMany(s, t, os)
    \/ TagMany(s)
    \/ \E t \in Rows, o \in Obj : Untag(s, t, o)
    \/ \E o \in Obj : NewObject(s, o)
    \/ \E o \in objs : DropObject(s, o)
    \/ BeginCleanup(s)
    \/ Cleanup(s)
    \/ \E a, b \in Term \cap Rows, type \in dep.types : Relate(s, a, b, type)
    \/ \E a, b \in Term \cap Rows, type \in dep.types : Unrelate(s, a, b, type)
    \/ SecondRelate(s)
    \/ \E a, b \in Term \cap Rows, type \in dep.types : EditInline(s, a, b, type)
    \/ \E r \in rels, b \in Term, type \in dep.types : EditRow(s, r, b, type)
    \/ \E v, w \in Vocab, all \in BOOLEAN : BeginImport(s, v, w, all)
    \/ Import(s)
    \/ FixTypes(s)
    \/ FixPaths(s)
    \/ Kill(s)

Spec == Init /\ [][Next]_vars

-----------------------------------------------------------------------------
(***************************************************************************)
(* Properties                                                              *)
(***************************************************************************)
(* A parent is a term of the same vocabulary, whoever changes it: create,    *)
(* move, update, merge, import or save of an old instance.                   *)
SameVocabulary == \A t \in Rows : db[t].parent \in Rows => VocOf[db[t].parent] = VocOf[t]

(* The rules of a vocabulary on its tree: no parents in a flat one, at most  *)
(* max_depth below the roots in a limited one, and every term below a root.  *)
(* They hold whatever creates, imports, saves, deletes and sessions in       *)
(* between, as long as nothing has happened that the services do not check:  *)
(* a move or merge, a new parent by update_term, either of them in another   *)
(* vocabulary whose paths start alike, a limit or a type set that the        *)
(* (inactive) terms do not fit, or a check against older settings.           *)
NestingRight ==
  /\ SameVocabulary
  /\ \A v \in Vocab : why.nest[v] = {} =>
       \A t \in TermsOf(v) :
         /\ t \in Rooted(db)
         /\ vocs[v].flat => db[t].parent = NoParent
         /\ vocs[v].max # Unlimited => Depth(t) <= vocs[v].max

(* A single-term vocabulary gives an object one term, and an object that was *)
(* given a term of a vocabulary keeps one through merges and cleanups until  *)
(* it is untagged; nothing is tagged with a term that was merged away.       *)
(* Unless: two taggings raced, tags were made in bulk or before the          *)
(* vocabulary became a single-term one, a term was merged into itself, an    *)
(* object with both terms lost the target's between the reads and the writes *)
(* of a merge, an object was created during a cleanup, or a tag came to the  *)
(* source from an instance loaded before the merge, between its reads and    *)
(* its writes, or with another merge.                                        *)
TagsRight ==
  AtRest =>
    /\ \A v \in Vocab : why.tag[v] = {} =>
         \A o \in Obj :
           /\ ~vocs[v].multiple => Cardinality(TaggedIn(tags, v, o)) <= 1
           /\ o \in home[v] => TaggedIn(tags, v, o) # {}
    /\ \A t \in merged : why.late[t] = {} => ObjectsOf(tags, t) = {}

(* Synonyms and related terms are found from both sides, through merges,     *)
(* deletes and imports too, and no term is related to itself, unless a call  *)
(* for one of the two was killed half way or met another, a row was edited   *)
(* alone, or a merge wrote rows that others had changed since it read them:  *)
(* it may then make a row point from the target to itself.                   *)
PairsKept ==
  LET sound == {r \in rels : (why.pair[r.from] \cup why.pair[r.to]) = {}} IN
  /\ Irreflexive(sound)
  /\ AtRest => Paired(sound)
=============================================================================
