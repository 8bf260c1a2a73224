--------------------------- MODULE TaxonomyProofs ---------------------------
(***************************************************************************)
(* Proofs about Taxonomy, for any terms, vocabularies and sessions:        *)
(* relationships that work both ways keep both their rows, and no term is  *)
(* related to itself; the tags of an object fit its vocabularies; both     *)
(* through merges, deletes, imports and half-done calls.  Last, the rules  *)
(* about nesting: flat vocabularies, depth limits and no cycles.           *)
(***************************************************************************)
EXTENDS Taxonomy, FiniteSetTheorems, TLAPS

(***************************************************************************)
(* What merge_terms does to the relationships.  Lone stands for the rows   *)
(* that somebody is about to complete, Bad for the terms whose rows need   *)
(* no mirror.                                                              *)
(***************************************************************************)
IsRel(r) == r = Rel(r.from, r.to, r.type)
Excuses(r, Bad) == r.from \in Bad \/ r.to \in Bad
PairedBut(rs, Bad, Lone) ==
  \A r \in rs : r.type \in Bidirectional => Mirror(r) \in rs \/ Excuses(r, Bad) \/ r \in Lone

LEMMA RelFacts ==
  \A x, y, z : /\ Rel(x, y, z).from = x /\ Rel(x, y, z).to = y /\ Rel(x, y, z).type = z
               /\ IsRel(Rel(x, y, z)) /\ Mirror(Rel(x, y, z)) = Rel(y, x, z)
  BY DEF Rel, IsRel, Mirror

LEMMA MirrorFacts ==
  ASSUME NEW r, IsRel(r)
  PROVE  /\ IsRel(Mirror(r)) /\ Mirror(Mirror(r)) = r
         /\ Mirror(r).from = r.to /\ Mirror(r).to = r.from /\ Mirror(r).type = r.type
  BY DEF Rel, IsRel, Mirror

Renamed(r, a, b) == Rel(IF r.from = a THEN b ELSE r.from, IF r.to = a THEN b ELSE r.to, r.type)

LEMMA RenamedFacts ==
  ASSUME NEW r, NEW a, NEW b
  PROVE  /\ IsRel(Renamed(r, a, b)) /\ Renamed(r, a, b).type = r.type
         /\ Renamed(r, a, b).from = (IF r.from = a THEN b ELSE r.from)
         /\ Renamed(r, a, b).to = (IF r.to = a THEN b ELSE r.to)
         /\ Mirror(Renamed(r, a, b)) = Renamed(Mirror(r), a, b)
  BY DEF Rel, IsRel, Mirror, Renamed

LEMMA RedirectedFacts ==
  ASSUME NEW p, NEW a, NEW b
  PROVE  /\ IsRel(Redirected(p, a, b))
         /\ Redirected(p, a, b).from = (IF p.was.from = a THEN b ELSE p.is.from)
         /\ Redirected(p, a, b).to = (IF p.was.to = a THEN b ELSE p.is.to)
         /\ p.was = p.is => Redirected(p, a, b) = Renamed(p.is, a, b)
  BY DEF Rel, IsRel, Redirected, FromMoved, Renamed

\* A row that is no loop moves when it is not there yet under its new name.
LEMMA MovesFacts ==
  ASSUME NEW r, IsRel(r), r.from # r.to, NEW old, NEW a, NEW b
  PROVE  RelMoves(old, a, b, r) <=> a \in {r.from, r.to} /\ b \notin {r.from, r.to} /\ Renamed(r, a, b) \notin old
  BY DEF RelMoves, Renamed

\* The rows after a merge: those that it has not read, and the redirected ones.
LEMMA MergedMembers ==
  ASSUME NEW rs, NEW mine, NEW old, NEW a, NEW b, NEW r
  PROVE  r \in MergedRels(rs, mine, old, a, b) <=>
           \/ r \in rs /\ r \notin Still(mine)
           \/ \E p \in Left(mine, rs) : RelMoves(old, a, b, p.was) /\ r = Redirected(p, a, b)
  BY DEF MergedRels, GoingRels

LEMMA FetchedFacts ==
  ASSUME NEW rows
  PROVE  /\ Still(Fetched(rows)) = rows
         /\ \A p \in Fetched(rows) : p.was = p.is /\ p.is \in rows
         /\ \A q \in rows : [was |-> q, is |-> q] \in Fetched(rows)
<1>1. \A p \in Fetched(rows) : p.was = p.is /\ p.is \in rows
  BY DEF Fetched
<1>2. \A q \in rows : [was |-> q, is |-> q] \in Fetched(rows)
  BY DEF Fetched
<1>3. \A q : q \in Still(Fetched(rows)) <=> \E p \in Fetched(rows) : q = p.is
  BY DEF Still
<1>4. \A q \in rows : q \in Still(Fetched(rows))
 <2> TAKE q \in rows
 <2> DEFINE p == [was |-> q, is |-> q]
 <2>1. p \in Fetched(rows) /\ q = p.is
   BY <1>2
 <2> QED
   BY <1>3, <2>1
<1> QED
  BY <1>1, <1>2, <1>3, <1>4

LEMMA TouchingFacts ==
  ASSUME NEW rs, NEW old, NEW t, NEW r, Touching(rs, t) = Touching(old, t), t \in {r.from, r.to}
  PROVE  r \in rs <=> r \in old
<1>1. r \in Touching(rs, t) <=> r \in Touching(old, t)
  OBVIOUS
<1> QED
  BY <1>1 DEF Touching

\* A merge writes a loop only when the rows are not those it has read.
LEMMA MergedIrreflexive ==
  ASSUME NEW rs, NEW mine, NEW old, NEW a, NEW b, NEW S, NEW Bad, b \in S,
         \A r \in rs : IsRel(r) /\ r.from \in S /\ r.to \in S /\ (r.from = r.to => r.from \in Bad),
         a \in Bad => b \in Bad,
         b \in Bad \/ mine = Fetched(Touching(rs, a))
  PROVE  \A r \in MergedRels(rs, mine, old, a, b) :
           IsRel(r) /\ r.from \in S /\ r.to \in S /\ (r.from = r.to => r.from \in Bad)
<1> SUFFICES ASSUME NEW r \in MergedRels(rs, mine, old, a, b)
             PROVE  IsRel(r) /\ r.from \in S /\ r.to \in S /\ (r.from = r.to => r.from \in Bad)
  OBVIOUS
<1>1. CASE r \in rs
  BY <1>1
<1>2. ASSUME NEW p \in Left(mine, rs), RelMoves(old, a, b, p.was), r = Redirected(p, a, b)
      PROVE  IsRel(r) /\ r.from \in S /\ r.to \in S /\ (r.from = r.to => r.from \in Bad)
 <2>1. p \in mine /\ p.is \in rs /\ a \in {p.was.from, p.was.to} /\ b \notin {p.was.from, p.was.to}
   BY <1>2 DEF Left, RelMoves
 <2>2. IsRel(r) /\ r.from \in S /\ r.to \in S /\ b \in {r.from, r.to}
   BY <1>2, <2>1, RedirectedFacts
 <2>3. CASE b \in Bad
   BY <2>2, <2>3
 <2>4. CASE b \notin Bad
  <3>1. p.was = p.is /\ a \notin Bad
    BY <2>1, <2>4, FetchedFacts
  <3>2. p.is.from # p.is.to
    BY <2>1, <3>1
  <3> QED
    BY <1>2, <2>1, <2>2, <3>1, <3>2, RedirectedFacts
 <2> QED
   BY <2>3, <2>4
<1> QED
  BY <1>1, <1>2, MergedMembers

LEMMA MergedPaired ==
  ASSUME NEW rs, NEW mine, NEW old, NEW a, NEW b, NEW Bad, NEW Lone,
         \A r \in rs : IsRel(r) /\ (r.from = r.to => r.from \in Bad),
         PairedBut(rs, Bad, Lone), a \in Bad => b \in Bad,
         \/ b \in Bad /\ \A p \in Left(mine, rs) : Excuses(p.is, Bad)
         \/ /\ mine = Fetched(Touching(rs, a))
            /\ Touching(rs, a) = Touching(old, a) /\ Touching(rs, b) = Touching(old, b)
            /\ \A r \in Lone : a \notin {r.from, r.to} /\ b \notin {r.from, r.to}
  PROVE  PairedBut(MergedRels(rs, mine, old, a, b), Bad, Lone)
<1> DEFINE new == MergedRels(rs, mine, old, a, b)
<1> SUFFICES ASSUME NEW r \in new, r.type \in Bidirectional, ~Excuses(r, Bad), r \notin Lone
             PROVE  Mirror(r) \in new
  BY DEF PairedBut
<1>1. \A q \in rs : q.type \in Bidirectional => Mirror(q) \in rs \/ Excuses(q, Bad) \/ q \in Lone
  BY DEF PairedBut
\* a row that the merge has not read
<1>2. ASSUME r \in rs, r \notin Still(mine) PROVE Mirror(r) \in new
 <2>1. Mirror(r) \in rs /\ IsRel(r)
   BY <1>1, <1>2
 <2>2. ~Excuses(Mirror(r), Bad)
   BY <2>1, MirrorFacts DEF Excuses
 <2>3. Mirror(r) \notin Still(mine)
  <3>1. CASE \A p \in Left(mine, rs) : Excuses(p.is, Bad)
    BY <2>1, <2>2, <3>1 DEF Still, Left
  <3>2. CASE mine = Fetched(Touching(rs, a))
   <4>1. a \notin {r.from, r.to}
     BY <1>2, <3>2, FetchedFacts DEF Touching
   <4> QED
     BY <2>1, <3>2, <4>1, MirrorFacts, FetchedFacts DEF Touching
  <3> QED
    BY <3>1, <3>2
 <2> QED
   BY <2>1, <2>3, MergedMembers
\* a row that it writes
<1>4. ASSUME NEW p \in Left(mine, rs), RelMoves(old, a, b, p.was), r = Redirected(p, a, b)
      PROVE  Mirror(r) \in new
 <2> DEFINE q == p.is
 <2>a. p \in mine /\ q \in rs /\ a \in {p.was.from, p.was.to}
   BY <1>4 DEF Left, RelMoves
 <2>b. b \notin Bad /\ a \notin Bad
  <3>1. b \in {r.from, r.to}
    BY <1>4, <2>a, RedirectedFacts
  <3> QED
    BY <3>1 DEF Excuses
 <2>3. /\ mine = Fetched(Touching(rs, a))
       /\ Touching(rs, a) = Touching(old, a) /\ Touching(rs, b) = Touching(old, b)
       /\ \A x \in Lone : a \notin {x.from, x.to} /\ b \notin {x.from, x.to}
   BY <2>b
 <2>c. p.was = q
   BY <2>3, <2>a, FetchedFacts
 <2>d. IsRel(q) /\ q.from # q.to
   BY <2>a, <2>b, <2>c
 <2> HIDE DEF q
 <2>e. /\ a \in {q.from, q.to} /\ b \notin {q.from, q.to}
       /\ Renamed(q, a, b) \notin old /\ r = Renamed(q, a, b)
   BY <1>4, <2>c, <2>d, MovesFacts, RedirectedFacts DEF q
 <2>1. b \in {r.from, r.to} /\ q.type = r.type /\ IsRel(r)
   BY <2>e, RenamedFacts
 <2>4. ~Excuses(q, Bad) /\ q \notin Lone
   BY <2>b, <2>e, <2>3, RenamedFacts DEF Excuses
 <2>5. Mirror(q) \in rs
   BY <1>1, <2>1, <2>4, <2>a DEF q
 <2>6. /\ a \in {Mirror(q).from, Mirror(q).to} /\ b \notin {Mirror(q).from, Mirror(q).to}
       /\ Mirror(r) = Renamed(Mirror(q), a, b) /\ IsRel(Mirror(q)) /\ Mirror(q).from # Mirror(q).to
   BY <2>d, <2>e, <2>1, MirrorFacts, RenamedFacts
 <2>7. Mirror(q) \in Touching(rs, a)
   BY <2>5, <2>6 DEF Touching
 <2>8. Mirror(r) \notin old
  <3> SUFFICES ASSUME Mirror(r) \in old PROVE FALSE
    OBVIOUS
  <3>1. b \in {Mirror(r).from, Mirror(r).to} /\ Mirror(r).type = r.type /\ Mirror(Mirror(r)) = r
    BY <2>1, MirrorFacts
  <3>2. Mirror(r) \in rs
    BY <2>3, <3>1, TouchingFacts
  <3>3. ~Excuses(Mirror(r), Bad) /\ Mirror(r) \notin Lone
    BY <2>1, <2>3, <3>1, MirrorFacts DEF Excuses
  <3>4. r \in rs
    BY <1>1, <3>1, <3>2, <3>3
  <3>5. r \in old
    BY <2>1, <2>3, <3>4, TouchingFacts
  <3> QED
    BY <2>e, <3>5
 <2> DEFINE m == [was |-> Mirror(q), is |-> Mirror(q)]
 <2>9. m \in Left(mine, rs)
   BY <2>3, <2>5, <2>7, FetchedFacts DEF Left
 <2>10. RelMoves(old, a, b, m.was)
   BY <2>6, <2>8, MovesFacts
 <2>11. Mirror(r) = Redirected(m, a, b)
   BY <2>6, RedirectedFacts
 <2> HIDE DEF m
 <2> QED
   BY <2>9, <2>10, <2>11, MergedMembers
<1> QED
  BY <1>2, <1>4, MergedMembers

(***************************************************************************)
(* The invariant.  Of a call only what the steps that write relationships  *)
(* rely on is kept: whom a pair or a merge is about, and that a document   *)
(* relates terms of one vocabulary.                                        *)
(***************************************************************************)
Marked == {t \in Term : why.pair[t] # {}}
IsRelOf(r, S) == IsRel(r) /\ r.from \in S /\ r.to \in S
RelsOK == \A r \in rels : IsRelOf(r, Term) /\ (r.from = r.to => r.from \in Marked)

Fields == DOMAIN Nothing
HalfOK(r) == r.at = "second" =>
  /\ r.op \in {"relate", "unrelate"} /\ r.type \in Bidirectional
  /\ r.term \in Term /\ r.other \in Term /\ r.term # r.other
MergeOK(r) == r.op = "merge" => r.term \in Term /\ r.other \in Term
DocOK(r) == r.op = "import" => r.obj \in Vocab /\ \A q \in r.doc.rels : IsRelOf(q, {SlugOf[t] : t \in Term})
IsCall(r) == DOMAIN r = Fields /\ HalfOK(r) /\ MergeOK(r) /\ DocOK(r)
CallsOK == call = [s \in Session |-> call[s]] /\ \A s \in Session : IsCall(call[s])

WhyOK == "pair" \in DOMAIN why /\ why = [k \in DOMAIN why |-> why[k]] /\ why.pair = [t \in Term |-> why.pair[t]]

Awaits(r, q) == r.at = "second" /\ q.type = r.type /\ {q.from, q.to} = {r.term, r.other}
Lonely == {q \in rels : \E s \in Session : Awaits(call[s], q)}
PairsOK == PairedBut(rels, Marked, Lonely)

IInv == RelsOK /\ CallsOK /\ WhyOK /\ PairsOK

LEMMA NothingFacts ==
  /\ Fields = {"op", "at", "term", "other", "row", "orow", "live", "voc", "obj", "pos", "type",
               "kids", "tags", "rels", "objs", "doc"}
  /\ DOMAIN Nothing = Fields /\ Nothing.op = "idle" /\ Nothing.at = ""
  /\ IsCall(Nothing)
  BY DEF Fields, Nothing, IsCall, HalfOK, MergeOK, DocOK

LEMMA AsFacts ==
  ASSUME NEW r, NEW op, NEW at, DOMAIN r = Fields
  PROVE  /\ DOMAIN As(r, op, at) = Fields
         /\ As(r, op, at).op = op /\ As(r, op, at).at = at
         /\ \A f \in Fields \ {"op", "at"} : As(r, op, at)[f] = r[f]
  BY NothingFacts DEF As

LEMMA WithFacts ==
  ASSUME NEW t, NEW u
  PROVE  /\ DOMAIN With(t) = Fields /\ With(t).term = t
         /\ DOMAIN WithTwo(t, u) = Fields /\ WithTwo(t, u).term = t /\ WithTwo(t, u).other = u
<1> DEFINE r1 == [Nothing EXCEPT !.term = t]
           r2 == [r1 EXCEPT !.row = RowOf(t)]
           r3 == [r2 EXCEPT !.live = (t \in active)]
           r4 == [r3 EXCEPT !.voc = IF t = NoParent THEN NoVoc ELSE vocs[VocOf[t]]]
           r5 == [r4 EXCEPT !.other = u]
           r6 == [r5 EXCEPT !.orow = RowOf(u)]
<1>1. With(t) = r4 /\ WithTwo(t, u) = r6
  BY Zenon DEF With, WithTwo
<1>2. DOMAIN r1 = Fields /\ r1.term = t
  BY NothingFacts
<1> HIDE DEF r1
<1>3. DOMAIN r2 = Fields /\ r2.term = t
  BY <1>2
<1> HIDE DEF r2
<1>4. DOMAIN r3 = Fields /\ r3.term = t
  BY <1>3
<1> HIDE DEF r3
<1>5. DOMAIN r4 = Fields /\ r4.term = t
  BY <1>4
<1> HIDE DEF r4
<1>6. DOMAIN r5 = Fields /\ r5.term = t /\ r5.other = u
  BY <1>5, NothingFacts
<1> HIDE DEF r5
<1>7. DOMAIN r6 = Fields /\ r6.term = t /\ r6.other = u
  BY <1>6
<1> QED
  BY <1>1, <1>5, <1>7

LEMMA InitIInv == Init => IInv
<1> SUFFICES ASSUME Init PROVE IInv
  OBVIOUS
<1>1. RelsOK /\ PairsOK
  BY DEF Init, RelsOK, PairsOK, PairedBut
<1>2. CallsOK
  BY NothingFacts DEF Init, CallsOK
<1>3. WhyOK
  BY DEF Init, WhyOK
<1> QED
  BY <1>1, <1>2, <1>3 DEF IInv

(***************************************************************************)
(* Steps.  Each replaces the call of one session; the others' stay.        *)
(***************************************************************************)
Replaces(s, r) == call' = [call EXCEPT ![s] = r] /\ IsCall(r)
MarksMore == WhyOK' /\ \A t \in Term : why.pair[t] \subseteq why'.pair[t]

LEMMA ReplacesFacts ==
  ASSUME CallsOK, NEW s \in Session, NEW r, Replaces(s, r)
  PROVE  CallsOK' /\ call'[s] = r /\ \A z \in Session \ {s} : call'[z] = call[z]
  BY DEF CallsOK, Replaces

LEMMA EndsFacts ==
  ASSUME NEW s, Ends(s)
  PROVE  Replaces(s, Nothing)
  BY NothingFacts DEF Ends, Hold, Replaces

LEMMA StaysFacts ==
  ASSUME CallsOK, UNCHANGED call, NEW s \in Session
  PROVE  Replaces(s, call[s])
  BY DEF CallsOK, Replaces

LEMMA MarkedKept ==
  ASSUME WhyOK, MarksMore
  PROVE  Marked \subseteq Marked'
<1> SUFFICES ASSUME NEW t \in Term, why.pair[t] # {} PROVE t \in Marked'
  BY DEF Marked
<1> QED
  BY DEF MarksMore, Marked

\* What waits for its second row waits still, unless the step is of its session.
LEMMA LonelyKept ==
  ASSUME CallsOK, NEW s \in Session, NEW r, Replaces(s, r), NEW q \in Lonely, q \in rels',
         \/ call[s].at # "second"
         \/ r = call[s]
         \/ {q.from, q.to} # {call[s].term, call[s].other}
         \/ q.type # call[s].type
  PROVE  q \in Lonely'
<1>1. PICK z \in Session : Awaits(call[z], q)
  BY DEF Lonely
<1>2. call'[z] = call[z]
  BY <1>1, ReplacesFacts DEF Awaits
<1>3. Awaits(call[z], q)'
  BY <1>1, <1>2 DEF Awaits
<1> QED
  BY <1>1, <1>3 DEF Lonely

\* A step that leaves the relationships alone and ends no half-done pair.
LEMMA Harmless ==
  ASSUME IInv, NEW s \in Session, NEW r, Replaces(s, r), UNCHANGED rels, MarksMore,
         call[s].at # "second" \/ r = call[s]
  PROVE  IInv'
<1>1. RelsOK'
  BY MarkedKept DEF IInv, RelsOK
<1>2. CallsOK'
  BY ReplacesFacts DEF IInv
<1>3. PairsOK'
 <2> SUFFICES ASSUME NEW q \in rels, q.type \in Bidirectional
              PROVE  Mirror(q) \in rels \/ Excuses(q, Marked') \/ q \in Lonely'
   BY DEF PairsOK, PairedBut
 <2>1. Mirror(q) \in rels \/ Excuses(q, Marked) \/ q \in Lonely
   BY DEF IInv, PairsOK, PairedBut
 <2>2. Excuses(q, Marked) => Excuses(q, Marked')
   BY MarkedKept DEF IInv, Excuses
 <2>3. q \in Lonely => q \in Lonely'
   BY LonelyKept DEF IInv
 <2> QED
   BY <2>1, <2>2, <2>3
<1> QED
  BY <1>1, <1>2, <1>3 DEF IInv, MarksMore

LEMMA UnmarkedFacts == WhyOK /\ UNCHANGED why => MarksMore
  BY DEF WhyOK, MarksMore

LEMMA BecauseElsewhere ==
  ASSUME WhyOK, NEW kind \in {"nest", "tag", "late"}, NEW xs, NEW causes, Because(kind, xs, causes)
  PROVE  MarksMore
  BY DEF WhyOK, MarksMore, Because

LEMMA BecausePair ==
  ASSUME WhyOK, NEW xs, NEW causes, Because("pair", xs, causes)
  PROVE  MarksMore /\ \A t \in Term \cap xs : causes \subseteq why'.pair[t]
  BY DEF WhyOK, MarksMore, Because

LEMMA ReconfiguredMarks ==
  ASSUME WhyOK, NEW v, NEW new, Reconfigured(v, new)
  PROVE  MarksMore
  BY Zenon DEF Reconfigured, WhyOK, MarksMore

LEMMA TaggedMarks ==
  ASSUME WhyOK, NEW t, NEW os, NEW lost, NEW causes, Tagged(t, os, lost, causes)
  PROVE  MarksMore
  BY Zenon DEF Tagged, WhyOK, MarksMore

LEMMA IdleFacts ==
  ASSUME CallsOK, NEW s \in Session
  PROVE  /\ \A op : Idle(s, op) => call[s].at # "second"
         /\ \A op, at : At(s, op, at) /\ at # "second" => call[s].at # "second"
         /\ call[s].op \notin {"relate", "unrelate"} => call[s].at # "second"
  BY DEF CallsOK, IsCall, HalfOK, Idle, At

LEMMA AsCall ==
  ASSUME NEW r, NEW op, NEW at, DOMAIN r = Fields, op \notin {"merge", "import"}, at # "second"
  PROVE  IsCall(As(r, op, at)) /\ As(r, op, at).at # "second"
  BY AsFacts DEF IsCall, HalfOK, MergeOK, DocOK

(***************************************************************************)
(* The calls that write no relationship.                                   *)
(***************************************************************************)
\* A call that begins.
LEMMA BeginKeeps ==
  ASSUME IInv, NEW s \in Session, NEW r, IsCall(r), call[s].at # "second", Hold(s, r), UNCHANGED <<rels, why>>
  PROVE  IInv'
<1>1. Replaces(s, r)
  BY DEF Hold, Replaces
<1> QED
  BY <1>1, Harmless, UnmarkedFacts DEF IInv

\* A call that ends and may have marked terms.
LEMMA EndKeeps ==
  ASSUME IInv, NEW s \in Session, call[s].at # "second", Ends(s), UNCHANGED rels, MarksMore
  PROVE  IInv'
<1>1. Replaces(s, Nothing)
  BY EndsFacts
<1> QED
  BY <1>1, Harmless

\* A step that is no part of a call.
LEMMA StayKeeps ==
  ASSUME IInv, NEW s \in Session, UNCHANGED <<call, rels>>, MarksMore
  PROVE  IInv'
<1>1. Replaces(s, call[s])
  BY StaysFacts DEF IInv
<1> QED
  BY <1>1, Harmless

LEMMA StutterKeeps ==
  ASSUME IInv, UNCHANGED vars
  PROVE  IInv'
  BY DEF IInv, RelsOK, CallsOK, WhyOK, PairsOK, PairedBut, Lonely, Marked, vars, links, ghosts

LEMMA BeginsKeep ==
  ASSUME IInv, NEW s \in Session
  PROVE  /\ \A t, p : BeginCreate(s, t, p) => IInv'
         /\ \A t, u, pos : BeginMove(s, t, u, pos) => IInv'
         /\ \A t, op : BeginSave(s, t, op) => IInv'
         /\ \A t, p : BeginReparent(s, t, p) => IInv'
         /\ \A t : BeginDelete(s, t) => IInv'
         /\ \A v, field, value : BeginConfigure(s, v, field, value) => IInv'
         /\ \A t, o, old : BeginTag(s, t, o, old) => IInv'
         /\ \A t, os : BeginTagMany(s, t, os) => IInv'
         /\ BeginCleanup(s) => IInv'
<1> USE IdleFacts DEF IInv, links, ghosts
<1>1. ASSUME NEW t, NEW p, BeginCreate(s, t, p) PROVE IInv'
 <2> DEFINE r0 == WithTwo(NoParent, p)
            r == [r0 EXCEPT !.term = t, !.voc = vocs[VocOf[t]]]
 <2>0. DOMAIN r0 = Fields
   BY WithFacts
 <2> HIDE DEF r0
 <2>1. DOMAIN r = Fields
   BY <2>0
 <2> USE DEF r0
 <2> QED
   BY <1>1, <2>1, AsCall, BeginKeeps DEF BeginCreate
<1>2. ASSUME NEW t, NEW u, NEW pos, BeginMove(s, t, u, pos) PROVE IInv'
 <2> DEFINE r == [WithTwo(t, u) EXCEPT !.pos = pos]
 <2>1. DOMAIN r = Fields
   BY WithFacts
 <2> QED
   BY <1>2, <2>1, AsCall, BeginKeeps DEF BeginMove
<1>3. ASSUME NEW t, NEW op, BeginSave(s, t, op) PROVE IInv'
  BY <1>3, WithFacts, AsCall, BeginKeeps DEF BeginSave
<1>4. ASSUME NEW t, NEW p, BeginReparent(s, t, p) PROVE IInv'
  BY <1>4, WithFacts, AsCall, BeginKeeps DEF BeginReparent
<1>5. ASSUME NEW t, BeginDelete(s, t) PROVE IInv'
  BY <1>5, WithFacts, AsCall, BeginKeeps DEF BeginDelete
<1>6. ASSUME NEW v, NEW field, NEW value, BeginConfigure(s, v, field, value) PROVE IInv'
 <2> DEFINE voc == [vocs[v] EXCEPT ![field] = value]
            r == [Nothing EXCEPT !.obj = v, !.type = field, !.voc = voc]
 <2> HIDE DEF voc
 <2>1. DOMAIN r = Fields
   BY NothingFacts
 <2> USE DEF voc
 <2> QED
   BY <1>6, <2>1, AsCall, BeginKeeps DEF BeginConfigure
<1>7. ASSUME NEW t, NEW o, NEW old, BeginTag(s, t, o, old) PROVE IInv'
 <2> DEFINE r0 == With(t)
            r == [r0 EXCEPT !.op = "tag", !.at = "check", !.obj = o, !.other = old]
 <2>1. DOMAIN r0 = Fields
   BY WithFacts
 <2> HIDE DEF r0
 <2>2. IsCall(r) /\ r.at = "check"
   BY <2>1, NothingFacts DEF IsCall, HalfOK, MergeOK, DocOK
 <2> USE DEF r0
 <2> QED
   BY <1>7, <2>2, BeginKeeps DEF BeginTag
<1>8. ASSUME NEW t, NEW os, BeginTagMany(s, t, os) PROVE IInv'
 <2> DEFINE r0 == As(With(t), "tag_many", "insert")
            r == [r0 EXCEPT !.objs = os]
 <2>1. DOMAIN r0 = Fields /\ r0.op = "tag_many" /\ r0.at = "insert"
   BY WithFacts, AsFacts
 <2> HIDE DEF r0
 <2>2. IsCall(r)
   BY <2>1, NothingFacts DEF IsCall, HalfOK, MergeOK, DocOK
 <2> USE DEF r0
 <2> QED
   BY <1>8, <2>2, BeginKeeps DEF BeginTagMany
<1>9. ASSUME BeginCleanup(s) PROVE IInv'
 <2> DEFINE r0 == As(Nothing, "cleanup", "delete")
            r == [r0 EXCEPT !.objs = objs]
 <2>0. DOMAIN Nothing = Fields
   BY NothingFacts
 <2>1. DOMAIN r0 = Fields /\ r0.op = "cleanup" /\ r0.at = "delete"
   BY <2>0, AsFacts
 <2> HIDE DEF r0
 <2>2. IsCall(r)
   BY <2>1, NothingFacts DEF IsCall, HalfOK, MergeOK, DocOK
 <2> USE DEF r0
 <2> QED
   BY <1>9, <2>2, BeginKeeps DEF BeginCleanup
<1> QED
  BY <1>1, <1>2, <1>3, <1>4, <1>5, <1>6, <1>7, <1>8, <1>9

\* The later steps of a call that is not about relationships.
LEMMA StepsKeep ==
  ASSUME IInv, NEW s \in Session
  PROVE  /\ CheckCreate(s) => IInv'
         /\ InsertTerm(s) => IInv'
         /\ CommitMove(s) => IInv'
         /\ MoveFails(s) => IInv'
         /\ SaveActive(s) => IInv'
         /\ SaveParent(s) => IInv'
         /\ Configure(s) => IInv'
         /\ CheckTag(s) => IInv'
         /\ InsertTag(s) => IInv'
         /\ TagMany(s) => IInv'
         /\ Cleanup(s) => IInv'
<1>0. WhyOK /\ CallsOK /\ IsCall(call[s])
  BY DEF IInv, CallsOK
<1> USE IdleFacts DEF links, ghosts
<1>1. ASSUME CheckCreate(s) PROVE IInv'
 <2> DEFINE r0 == call[s]
            v == VocOf[r0.term]
            r(row) == [r0 EXCEPT !.at = "insert", !.row = row]
 <2>1. r0.op = "create" /\ r0.at = "check"
   BY <1>1 DEF CheckCreate, At
 <2>2. ASSUME NEW row PROVE IsCall(r(row))
   BY <1>0, <2>1, NothingFacts DEF IsCall, HalfOK, MergeOK, DocOK
 <2>3. ASSUME NEW row, Hold(s, r(row)), UNCHANGED <<rels, why>> PROVE IInv'
  <3> HIDE DEF r
  <3> QED
    BY <2>1, <2>2, <2>3, BeginKeeps
 <2>4. ASSUME Ends(s), UNCHANGED <<rels, why>> PROVE IInv'
   BY <1>0, <2>1, <2>4, EndKeeps, UnmarkedFacts
 <2>5. \/ Ends(s)
       \/ Hold(s, r(RowForInsert(Siblings(r0.other, v), r0.other, r0.orow)))
   BY <1>1, Zenon DEF CheckCreate
 <2>6. UNCHANGED <<rels, why>>
   BY <1>1 DEF CheckCreate
 <2> QED
   BY <2>3, <2>4, <2>5, <2>6, Zenon
<1>2. ASSUME InsertTerm(s) PROVE IInv'
 <2>1. call[s].at # "second" /\ Ends(s) /\ UNCHANGED rels
   BY <1>0, <1>2 DEF InsertTerm
 <2>2. MarksMore
   BY <1>0, <1>2, BecauseElsewhere, UnmarkedFacts DEF InsertTerm
 <2> QED
   BY <2>1, <2>2, EndKeeps
<1>3. ASSUME CommitMove(s) PROVE IInv'
 <2>1. call[s].at # "second" /\ Ends(s) /\ UNCHANGED rels
   BY <1>0, <1>3 DEF CommitMove
 <2>2. MarksMore
   BY <1>0, <1>3, BecauseElsewhere DEF CommitMove
 <2> QED
   BY <2>1, <2>2, EndKeeps
<1>4. ASSUME MoveFails(s) PROVE IInv'
  BY <1>0, <1>4, EndKeeps, UnmarkedFacts DEF MoveFails
<1>5. ASSUME SaveActive(s) PROVE IInv'
 <2>1. call[s].at # "second" /\ Ends(s) /\ UNCHANGED rels
   BY <1>0, <1>5 DEF SaveActive
 <2>2. MarksMore
   BY <1>0, <1>5, BecauseElsewhere, UnmarkedFacts DEF SaveActive
 <2> QED
   BY <2>1, <2>2, EndKeeps
<1>6. ASSUME SaveParent(s) PROVE IInv'
 <2>1. call[s].at # "second" /\ Ends(s) /\ UNCHANGED rels
   BY <1>0, <1>6 DEF SaveParent
 <2>2. MarksMore
   BY <1>0, <1>6, BecauseElsewhere, UnmarkedFacts DEF SaveParent
 <2> QED
   BY <2>1, <2>2, EndKeeps
<1>7. ASSUME Configure(s) PROVE IInv'
 <2>1. call[s].at # "second" /\ Ends(s) /\ UNCHANGED rels
   BY <1>0, <1>7 DEF Configure
 <2>2. MarksMore
   BY <1>0, <1>7, ReconfiguredMarks, UnmarkedFacts, Zenon DEF Configure
 <2> QED
   BY <2>1, <2>2, EndKeeps
<1>8. ASSUME CheckTag(s) PROVE IInv'
 <2> DEFINE r0 == call[s]
            r == [r0 EXCEPT !.at = "insert", !.tags = tags]
 <2>1. r0.op = "tag" /\ r0.at = "check"
   BY <1>8 DEF CheckTag, At
 <2>2. IsCall(r)
   BY <1>0, <2>1, NothingFacts DEF IsCall, HalfOK, MergeOK, DocOK
 <2>3. (Ends(s) \/ Hold(s, r)) /\ UNCHANGED <<rels, why>>
   BY <1>8, Zenon DEF CheckTag
 <2> HIDE DEF r
 <2> QED
   BY <1>0, <2>1, <2>2, <2>3, BeginKeeps, EndKeeps, UnmarkedFacts
<1>9. ASSUME InsertTag(s) PROVE IInv'
 <2>1. call[s].at # "second" /\ Ends(s) /\ UNCHANGED rels
   BY <1>0, <1>9 DEF InsertTag
 <2>2. MarksMore
   BY <1>0, <1>9, TaggedMarks, UnmarkedFacts, Zenon DEF InsertTag
 <2> QED
   BY <2>1, <2>2, EndKeeps
<1>10. ASSUME TagMany(s) PROVE IInv'
 <2>1. call[s].at # "second" /\ Ends(s) /\ UNCHANGED rels
   BY <1>0, <1>10 DEF TagMany
 <2>2. MarksMore
   BY <1>0, <1>10, TaggedMarks, UnmarkedFacts, Zenon DEF TagMany
 <2> QED
   BY <2>1, <2>2, EndKeeps
<1>11. ASSUME Cleanup(s) PROVE IInv'
 <2>1. call[s].at # "second" /\ Ends(s) /\ UNCHANGED rels
   BY <1>0, <1>11 DEF Cleanup
 <2>2. MarksMore
   BY <1>0, <1>11, Zenon DEF Cleanup, WhyOK, MarksMore
 <2> QED
   BY <2>1, <2>2, EndKeeps
<1> QED
  BY <1>1, <1>2, <1>3, <1>4, <1>5, <1>6, <1>7, <1>8, <1>9, <1>10, <1>11

\* Steps that are no part of a call.
LEMMA OthersKeep ==
  ASSUME IInv, NEW s \in Session
  PROVE  /\ \A t, o : Untag(s, t, o) => IInv'
         /\ \A o : NewObject(s, o) \/ DropObject(s, o) => IInv'
         /\ FixTypes(s) \/ FixPaths(s) => IInv'
<1>1. ASSUME UNCHANGED <<call, rels, why>> PROVE IInv'
  BY <1>1, StayKeeps, UnmarkedFacts DEF IInv
<1> QED
  BY <1>1 DEF Untag, NewObject, DropObject, FixTypes, FixPaths, links, ghosts

(***************************************************************************)
(* Deletes take the rows of a pair together.                               *)
(***************************************************************************)
LEMMA UnlinkKeeps ==
  ASSUME IInv, NEW s \in Session, NEW r, Replaces(s, r), call[s].at # "second" \/ r = call[s],
         NEW S, Unlink(S), UNCHANGED why
  PROVE  IInv'
<1>0. \A q : q \in rels' <=> q \in rels /\ q.from \notin S /\ q.to \notin S
  BY DEF Unlink
<1>3. WhyOK' /\ Marked' = Marked
  BY DEF IInv, WhyOK, Marked
<1>1. RelsOK'
  BY <1>0, <1>3 DEF IInv, RelsOK
<1>2. CallsOK'
  BY ReplacesFacts DEF IInv
<1>4. PairsOK'
 <2> SUFFICES ASSUME NEW q \in rels', q.type \in Bidirectional
              PROVE  Mirror(q) \in rels' \/ Excuses(q, Marked) \/ q \in Lonely'
   BY <1>3 DEF PairsOK, PairedBut
 <2>1. q \in rels /\ q.from \notin S /\ q.to \notin S /\ IsRel(q)
   BY <1>0 DEF IInv, RelsOK, IsRelOf
 <2>2. Mirror(q) \in rels \/ Excuses(q, Marked) \/ q \in Lonely
   BY <2>1 DEF IInv, PairsOK, PairedBut
 <2>3. Mirror(q) \in rels => Mirror(q) \in rels'
   BY <1>0, <2>1, MirrorFacts
 <2>4. q \in Lonely => q \in Lonely'
   BY LonelyKept DEF IInv
 <2> QED
   BY <2>2, <2>3, <2>4
<1> QED
  BY <1>1, <1>2, <1>3, <1>4 DEF IInv

LEMMA DeletesKeep ==
  ASSUME IInv, NEW s \in Session
  PROVE  /\ DeleteTerm(s) => IInv'
         /\ \A v : ClearVocabulary(s, v) => IInv'
<1>0. WhyOK /\ CallsOK
  BY DEF IInv
<1>1. ASSUME DeleteTerm(s) PROVE IInv'
 <2>1. Replaces(s, Nothing) /\ call[s].at # "second" /\ UNCHANGED why
   BY <1>0, <1>1, EndsFacts, IdleFacts DEF DeleteTerm
 <2>2. UNCHANGED rels \/ \E S : Unlink(S)
   BY <1>1 DEF DeleteTerm, EraseTerms
 <2> QED
   BY <1>0, <2>1, <2>2, UnlinkKeeps, Harmless, UnmarkedFacts
<1>2. ASSUME NEW v, ClearVocabulary(s, v) PROVE IInv'
 <2>1. Replaces(s, call[s]) /\ UNCHANGED why
   BY <1>0, <1>2, StaysFacts DEF ClearVocabulary
 <2>2. UNCHANGED rels \/ \E S : Unlink(S)
   BY <1>2 DEF ClearVocabulary, EraseTerms
 <2> QED
   BY <1>0, <2>1, <2>2, UnlinkKeeps, Harmless, UnmarkedFacts
<1> QED
  BY <1>1, <1>2

(***************************************************************************)
(* merge_terms                                                             *)
(***************************************************************************)
LEMMA MergeBegins ==
  ASSUME IInv, NEW s \in Session
  PROVE  /\ \A pos : \A a, b \in Term : BeginMerge(s, a, b, pos) => IInv'
         /\ ReadMerge(s) => IInv'
<1>0. WhyOK /\ CallsOK /\ IsCall(call[s])
  BY DEF IInv, CallsOK
<1>1. ASSUME NEW a \in Term, NEW b \in Term, NEW pos, BeginMerge(s, a, b, pos) PROVE IInv'
 <2> DEFINE r0 == WithTwo(a, b)
            r1 == [r0 EXCEPT !.pos = pos]
            r == As(r1, "merge", "read")
 <2>1. DOMAIN r0 = Fields /\ r0.term = a /\ r0.other = b
   BY WithFacts
 <2> HIDE DEF r0
 <2>2. DOMAIN r1 = Fields /\ r1.term = a /\ r1.other = b
   BY <2>1
 <2> HIDE DEF r1
 <2>r. DOMAIN r = Fields /\ r.op = "merge" /\ r.at = "read" /\ r.term = r1.term /\ r.other = r1.other
   BY <2>2, NothingFacts DEF As
 <2>3. IsCall(r)
  <3> HIDE DEF r
  <3> QED
    BY <2>2, <2>r DEF IsCall, HalfOK, MergeOK, DocOK
 <2>4. Hold(s, r) /\ UNCHANGED <<rels, why>> /\ Idle(s, "merge")
   BY <1>1 DEF BeginMerge, r1, r0, links, ghosts
 <2> HIDE DEF r
 <2> QED
   BY <1>0, <2>3, <2>4, IdleFacts, BeginKeeps
<1>2. ASSUME ReadMerge(s) PROVE IInv'
 <2> DEFINE r0 == call[s]
            r(kids) == [r0 EXCEPT !.at = "write", !.kids = kids, !.tags = tags, !.rels = rels]
 <2>1. r0.op = "merge" /\ r0.at = "read"
   BY <1>2 DEF ReadMerge, At
 <2>2. ASSUME NEW kids PROVE IsCall(r(kids))
   BY <1>0, <2>1, NothingFacts DEF IsCall, HalfOK, MergeOK, DocOK
 <2>3. ASSUME NEW kids, Hold(s, r(kids)), UNCHANGED <<rels, why>> PROVE IInv'
  <3> HIDE DEF r
  <3> QED
    BY <2>1, <2>2, <2>3, BeginKeeps
 <2>4. Ends(s) \/ Hold(s, r(Children(db, Rows, r0.term)))
   BY <1>2, Zenon DEF ReadMerge
 <2>5. UNCHANGED <<rels, why>>
   BY <1>2 DEF ReadMerge, ghosts
 <2> QED
   BY <1>0, <2>1, <2>3, <2>4, <2>5, EndKeeps, UnmarkedFacts, Zenon
<1> QED
  BY <1>1, <1>2

LEMMA MergeMarks ==
  ASSUME WhyOK, NEW s \in Session, CommitMerge(s), ~MergeFails(s)
  PROVE  WhyOK' /\ \A t \in Term : why'.pair[t] = MergedCauses(s, t)
<1> DEFINE f == [t \in Term |-> MergedCauses(s, t)]
<1>1. why'.pair = f /\ DOMAIN why' = DOMAIN why /\ why' = [k \in DOMAIN why' |-> why'[k]]
  BY Zenon DEF CommitMerge, WhyOK
<1> QED
  BY <1>1 DEF WhyOK

LEMMA CommitMergeKeeps ==
  ASSUME IInv, NEW s \in Session, CommitMerge(s)
  PROVE  IInv'
<1> DEFINE r == call[s]  a == r.term  b == r.other
<1>0. WhyOK /\ CallsOK /\ RelsOK /\ PairsOK /\ IsCall(r)
  BY DEF IInv, CallsOK
<1>1. r.op = "merge" /\ r.at = "write" /\ Ends(s)
  BY DEF CommitMerge, At
<1>2. a \in Term /\ b \in Term
  BY <1>0, <1>1 DEF IsCall, MergeOK
<1>3. CASE MergeFails(s)
 <2>1. UNCHANGED <<rels, why>>
   BY <1>3 DEF CommitMerge, ghosts
 <2> QED
   BY <1>0, <1>1, <2>1, EndKeeps, UnmarkedFacts
<1>4. CASE ~MergeFails(s)
 <2> DEFINE mine == fetched[s].rels
            ends == UNION {BothEnds(p) : p \in Left(mine, rels)}
            mixed == Mixed(s, a) \/ Mixed(s, b)
 <2>1. rels' = MergedRels(rels, mine, r.rels, a, b)
   BY <1>4 DEF CommitMerge
 <2>2. WhyOK' /\ \A t \in Term : why'.pair[t] = MergedCauses(s, t)
   BY <1>0, <1>4, MergeMarks
 <2>3. MarksMore
   BY <2>2 DEF MarksMore, MergedCauses
 <2>4. Marked \subseteq Marked'
   BY <1>0, <2>3, MarkedKept
 <2>5. Replaces(s, Nothing)
   BY <1>1, EndsFacts
 <2>6. a \in Marked' => b \in Marked'
  <3> SUFFICES ASSUME a # b, MergedCauses(s, a) # {} PROVE MergedCauses(s, b) # {}
    BY <1>2, <2>2 DEF Marked
  <3>1. CASE why.pair[a] # {}
    BY <3>1 DEF MergedCauses
  <3>2. CASE why.pair[a] = {}
   <4>1. If("raced", (Mixed(s, r.term) \/ Mixed(s, r.other)) /\ a \in {r.term, r.other} \cup ends) # {}
     BY <3>2 DEF MergedCauses
   <4>2. mixed
     BY <4>1 DEF If
   <4>3. "raced" \in If("raced", (Mixed(s, r.term) \/ Mixed(s, r.other)) /\ b \in {r.term, r.other} \cup ends)
     BY <4>2 DEF If
   <4> QED
     BY <4>3 DEF MergedCauses
  <3> QED
    BY <3>1, <3>2
 <2>7. mixed => {a, b} \cup (Term \cap ends) \subseteq Marked'
  <3> SUFFICES ASSUME mixed, NEW t \in Term, t \in {a, b} \cup ends PROVE t \in Marked'
    BY <1>2
  <3>1. "raced" \in If("raced", (Mixed(s, r.term) \/ Mixed(s, r.other)) /\ t \in {r.term, r.other} \cup ends)
    BY DEF If
  <3>2. "raced" \in MergedCauses(s, t)
    BY <3>1 DEF MergedCauses
  <3> QED
    BY <2>2, <3>2 DEF Marked
 <2>8. PairedBut(rels, Marked', Lonely)
   BY <1>0, <2>4 DEF PairsOK, PairedBut, Excuses
 <2>9. ~mixed => /\ mine = Fetched(Touching(rels, a))
                 /\ Touching(rels, a) = Touching(r.rels, a) /\ Touching(rels, b) = Touching(r.rels, b)
                 /\ \A q \in Lonely : a \notin {q.from, q.to} /\ b \notin {q.from, q.to}
   BY DEF Mixed, HalfWay, Lonely, Awaits
 <2>r. \A q \in rels : /\ IsRel(q) /\ q.from \in Term /\ q.to \in Term
                       /\ q.from = q.to => q.from \in Marked'
   BY <1>0, <2>4 DEF RelsOK, IsRelOf
 <2>m. mixed => b \in Marked' /\ \A p \in Left(mine, rels) : Excuses(p.is, Marked')
  <3> SUFFICES ASSUME mixed, NEW p \in Left(mine, rels) PROVE Excuses(p.is, Marked')
    BY <2>7
  <3>1. p.is.from \in Term \cap ends
    BY <2>r DEF Left, BothEnds
  <3> QED
    BY <2>7, <3>1 DEF Excuses
 <2> HIDE DEF mixed, ends, mine
 <2>i. RelsOK'
  <3>1. \A q \in rels' : IsRel(q) /\ q.from \in Term /\ q.to \in Term /\ (q.from = q.to => q.from \in Marked')
    BY <1>2, <2>1, <2>6, <2>9, <2>r, <2>m, MergedIrreflexive
  <3> QED
    BY <3>1 DEF RelsOK, IsRelOf
 <2>10. PairedBut(rels', Marked', Lonely)
   BY <2>1, <2>6, <2>8, <2>9, <2>r, <2>m, MergedPaired
 <2>11. PairsOK'
  <3>1. \A q \in rels' : q \in Lonely => q \in Lonely'
    BY <1>0, <1>1, <2>5, LonelyKept
  <3> QED
    BY <2>10, <3>1 DEF PairsOK, PairedBut
 <2> QED
   BY <1>0, <2>2, <2>i, <2>5, <2>11, ReplacesFacts DEF IInv
<1> QED
  BY <1>3, <1>4

(***************************************************************************)
(* Relationships made and undone in two steps, and single rows.            *)
(***************************************************************************)
LEMMA FirstKeeps ==
  ASSUME IInv, NEW s \in Session, NEW op \in {"relate", "unrelate"}, NEW a \in Term, NEW b \in Term, NEW type, NEW new,
         First(s, op, a, b, type, new),
         \/ new = rels \cup {Rel(a, b, type)}
         \/ new = rels \ {Rel(a, b, type)}
  PROVE  IInv'
<1> DEFINE r0 == As(Nothing, op, "second")
           r == [r0 EXCEPT !.term = a, !.other = b, !.type = type]
           t == Rel(a, b, type)
<1>0. WhyOK /\ CallsOK /\ RelsOK /\ PairsOK
  BY DEF IInv
<1>1. a # b /\ rels' = new /\ UNCHANGED why /\ Idle(s, op)
  BY DEF First, ghosts
<1>2. WhyOK' /\ Marked' = Marked
  BY <1>0, <1>1 DEF WhyOK, Marked
<1>3. RelsOK'
  BY <1>0, <1>1, <1>2, RelFacts DEF RelsOK, IsRelOf
<1>4. t.from = a /\ t.to = b /\ t.type = type /\ Mirror(t) = Rel(b, a, type)
  BY RelFacts
<1>5. CASE type \in Bidirectional
 <2>1. DOMAIN r0 = Fields /\ r0.op = op /\ r0.at = "second"
  <3>1. DOMAIN Nothing = Fields
    BY NothingFacts
  <3> QED
    BY <3>1, AsFacts
 <2> HIDE DEF r0
 <2>2. DOMAIN r = Fields /\ r.op = op /\ r.at = "second" /\ r.term = a /\ r.other = b /\ r.type = type
   BY <2>1, NothingFacts
 <2>3. Hold(s, r)
   BY <1>5 DEF First, SecondRow, r0
 <2> HIDE DEF r
 <2>4. IsCall(r)
   BY <1>1, <1>5, <2>2 DEF IsCall, HalfOK, MergeOK, DocOK
 <2>5. Replaces(s, r)
   BY <2>3, <2>4 DEF Hold, Replaces
 <2>6. CallsOK' /\ call'[s] = r
   BY <1>0, <2>5, ReplacesFacts
 <2>7. ASSUME NEW q \in rels', q.type = type, {q.from, q.to} = {a, b}
       PROVE  q \in Lonely'
   BY <2>2, <2>6, <2>7 DEF Lonely, Awaits
 <2>8. PairsOK'
  <3> SUFFICES ASSUME NEW q \in rels', q.type \in Bidirectional, q \notin Lonely'
               PROVE  Mirror(q) \in rels' \/ Excuses(q, Marked)
    BY <1>2 DEF PairsOK, PairedBut
  <3>1. ~(q.type = type /\ {q.from, q.to} = {a, b})
    BY <2>7
  <3>2. q # t /\ q \in rels /\ IsRel(q)
    BY <1>0, <1>1, <1>4, <3>1 DEF RelsOK, IsRelOf
  <3>3. Mirror(q) # t
    BY <1>4, <3>1, <3>2, MirrorFacts
  <3>4. Mirror(q) \in rels \/ Excuses(q, Marked) \/ q \in Lonely
    BY <1>0, <3>2 DEF PairsOK, PairedBut
  <3>5. q \in Lonely => q \in Lonely'
    BY <1>0, <1>1, <2>5, LonelyKept, IdleFacts
  <3> QED
    BY <1>1, <3>2, <3>3, <3>4, <3>5
 <2> QED
   BY <1>2, <1>3, <2>6, <2>8 DEF IInv
<1>6. CASE type \notin Bidirectional
 <2>1. UNCHANGED call
   BY <1>6 DEF First, SecondRow
 <2>2. CallsOK'
   BY <1>0, <2>1 DEF CallsOK
 <2>3. PairsOK'
  <3> SUFFICES ASSUME NEW q \in rels', q.type \in Bidirectional
               PROVE  Mirror(q) \in rels' \/ Excuses(q, Marked) \/ q \in Lonely'
    BY <1>2 DEF PairsOK, PairedBut
  <3>1. q # t /\ q \in rels /\ IsRel(q)
    BY <1>0, <1>1, <1>4, <1>6 DEF RelsOK, IsRelOf
  <3>2. Mirror(q) # t
    BY <1>4, <1>6, <3>1, MirrorFacts
  <3>3. Mirror(q) \in rels \/ Excuses(q, Marked) \/ q \in Lonely
    BY <1>0, <3>1 DEF PairsOK, PairedBut
  <3>4. q \in Lonely => q \in Lonely'
    BY <2>1 DEF Lonely, Awaits
  <3> QED
    BY <1>1, <3>1, <3>2, <3>3, <3>4
 <2> QED
   BY <1>2, <1>3, <2>2, <2>3 DEF IInv
<1> QED
  BY <1>5, <1>6

LEMMA SecondKeeps ==
  ASSUME IInv, NEW s \in Session, SecondRelate(s)
  PROVE  IInv'
<1> DEFINE r == call[s]  a == r.term  b == r.other
           t == Rel(a, b, r.type)  back == Rel(b, a, r.type)
<1>0. WhyOK /\ CallsOK /\ RelsOK /\ PairsOK /\ IsCall(r)
  BY DEF IInv, CallsOK
<1>1. r.op \in {"relate", "unrelate"} /\ r.type \in Bidirectional /\ a \in Term /\ b \in Term /\ a # b
  BY <1>0 DEF IsCall, HalfOK, SecondRelate
<1>2. Replaces(s, Nothing)
  BY EndsFacts DEF SecondRelate
<1>3. Because("pair", IF PairTouched(r) THEN {a, b} ELSE {a, b} \ Rows, {"raced"})
  BY DEF SecondRelate
<1>4. MarksMore /\ (PairTouched(r) \/ ~({a, b} \subseteq Rows) => a \in Marked' \/ b \in Marked')
 <2>1. MarksMore /\ \A x \in Term \cap (IF PairTouched(r) THEN {a, b} ELSE {a, b} \ Rows) :
                     {"raced"} \subseteq why'.pair[x]
   BY <1>0, <1>3, BecausePair
 <2> QED
   BY <1>1, <2>1 DEF Marked
<1>5. /\ t.from = a /\ t.to = b /\ t.type = r.type /\ IsRel(t)
      /\ back.from = b /\ back.to = a /\ back.type = r.type /\ IsRel(back)
      /\ Mirror(t) = back /\ Mirror(back) = t
  BY RelFacts
<1>6. /\ {a, b} \subseteq Rows => rels' = IF r.op = "relate" THEN rels \cup {back} ELSE rels \ {back}
      /\ ~({a, b} \subseteq Rows) => rels' = rels
  BY DEF SecondRelate
<1>7. RelsOK'
  BY <1>0, <1>1, <1>4, <1>5, <1>6, MarkedKept DEF RelsOK, IsRelOf
<1>8. PairsOK'
 <2> SUFFICES ASSUME NEW q \in rels', q.type \in Bidirectional, ~Excuses(q, Marked')
              PROVE  Mirror(q) \in rels' \/ q \in Lonely'
   BY DEF PairsOK, PairedBut
 <2>1. IsRel(q) /\ ~Excuses(q, Marked)
   BY <1>0, <1>4, <1>7, MarkedKept DEF RelsOK, IsRelOf, Excuses
 \* a row of the pair itself
 <2>2. CASE q.type = r.type /\ {q.from, q.to} = {a, b}
  <3>1. q = t \/ q = back
    BY <2>1, <2>2 DEF IsRel
  <3>2. ~PairTouched(r) /\ {a, b} \subseteq Rows
    BY <1>4, <1>5, <3>1 DEF Excuses
  <3>3. (r.op = "relate" /\ t \in rels) \/ (r.op = "unrelate" /\ t \notin rels)
    BY <1>1, <3>2 DEF PairTouched
  <3> QED
    BY <1>5, <1>6, <3>1, <3>2, <3>3
 <2>3. CASE ~(q.type = r.type /\ {q.from, q.to} = {a, b})
  <3>1. q # back /\ q \in rels /\ Mirror(q) # back
    BY <1>5, <1>6, <2>1, <2>3, MirrorFacts
  <3>2. Mirror(q) \in rels \/ q \in Lonely
    BY <1>0, <2>1, <3>1 DEF PairsOK, PairedBut
  <3>3. q \in Lonely => q \in Lonely'
    BY <1>0, <1>2, <2>3, LonelyKept
  <3> QED
    BY <1>6, <3>1, <3>2, <3>3
 <2> QED
   BY <2>2, <2>3
<1> QED
  BY <1>0, <1>2, <1>4, <1>7, <1>8, ReplacesFacts DEF IInv, MarksMore

LEMMA EditKeeps ==
  ASSUME IInv, UNCHANGED call, NEW xs, Because("pair", xs, {"inline"}),
         NEW gone, NEW new, rels' = (rels \ gone) \cup new,
         \A q \in gone : q.from \in xs /\ q.to \in xs,
         \A q \in new : IsRelOf(q, Term) /\ q.from # q.to /\ q.from \in xs /\ q.to \in xs
  PROVE  IInv'
<1>0. WhyOK /\ CallsOK /\ RelsOK /\ PairsOK
  BY DEF IInv
<1>1. MarksMore /\ \A x \in Term \cap xs : {"inline"} \subseteq why'.pair[x]
  BY <1>0, BecausePair
<1>2. Term \cap xs \subseteq Marked'
  BY <1>1 DEF Marked
<1>3. RelsOK'
  BY <1>0, <1>1, MarkedKept DEF RelsOK
<1>4. PairsOK'
 <2> SUFFICES ASSUME NEW q \in rels', q.type \in Bidirectional, ~Excuses(q, Marked')
              PROVE  Mirror(q) \in rels' \/ q \in Lonely'
   BY DEF PairsOK, PairedBut
 <2>1. IsRelOf(q, Term) /\ ~Excuses(q, Marked) /\ q.from \notin xs
   BY <1>0, <1>1, <1>2, <1>3, MarkedKept DEF Excuses, RelsOK, IsRelOf
 <2>2. q \in rels /\ Mirror(q) \notin gone
   BY <2>1, MirrorFacts DEF IsRelOf
 <2>3. Mirror(q) \in rels \/ q \in Lonely
   BY <1>0, <2>1, <2>2 DEF PairsOK, PairedBut
 <2> QED
   BY <2>2, <2>3 DEF Lonely, Awaits
<1> QED
  BY <1>0, <1>1, <1>3, <1>4 DEF IInv, CallsOK, MarksMore

LEMMA InlineKeeps ==
  ASSUME IInv, NEW s \in Session, NEW b \in Term, NEW type
  PROVE  /\ \A a \in Term : EditInline(s, a, b, type) => IInv'
         /\ \A r \in rels : EditRow(s, r, b, type) => IInv'
<1>1. ASSUME NEW a \in Term, EditInline(s, a, b, type) PROVE IInv'
 <2> DEFINE t == Rel(a, b, type)
 <2>1. /\ a # b /\ UNCHANGED call /\ Because("pair", {a, b}, {"inline"})
       /\ rels' = (rels \ {t}) \cup {} \/ rels' = (rels \ {}) \cup {t}
   BY <1>1 DEF EditInline
 <2>2. t.from = a /\ t.to = b /\ IsRelOf(t, Term)
   BY RelFacts DEF IsRelOf
 <2> DEFINE xs == {a, b}
 <2>a. t.from \in xs /\ t.to \in xs /\ t.from # t.to /\ Because("pair", xs, {"inline"})
   BY <2>1, <2>2
 <2> HIDE DEF t, xs
 <2>b. ASSUME NEW gone \in {{}, {t}}, NEW new \in {{}, {t}}, rels' = (rels \ gone) \cup new PROVE IInv'
  <3>1. /\ \A q \in gone : q.from \in xs /\ q.to \in xs
        /\ \A q \in new : IsRelOf(q, Term) /\ q.from # q.to /\ q.from \in xs /\ q.to \in xs
    BY <2>2, <2>a
  <3> QED
    BY <2>1, <2>a, <2>b, <3>1, EditKeeps
 <2>3. CASE rels' = (rels \ {t}) \cup {}
   BY <2>3, <2>b
 <2>4. CASE rels' = (rels \ {}) \cup {t}
   BY <2>4, <2>b
 <2> QED
   BY <2>1, <2>3, <2>4
<1>2. ASSUME NEW r \in rels, EditRow(s, r, b, type) PROVE IInv'
 <2> DEFINE t == Rel(r.from, b, type)
            xs == {r.from, r.to, b}
 <2>1. r.from # b /\ UNCHANGED call /\ Because("pair", xs, {"inline"}) /\ rels' = (rels \ {r}) \cup {t}
   BY <1>2 DEF EditRow
 <2>2. r.from \in Term
   BY DEF IInv, RelsOK, IsRelOf
 <2>3. t.from = r.from /\ t.to = b /\ IsRelOf(t, Term)
   BY <2>2, RelFacts DEF IsRelOf
 <2> DEFINE gone == {r}
            new == {t}
 <2>4. /\ \A q \in gone : q.from \in xs /\ q.to \in xs
       /\ \A q \in new : IsRelOf(q, Term) /\ q.from # q.to /\ q.from \in xs /\ q.to \in xs
   BY <2>1, <2>3
 <2>5. UNCHANGED call /\ Because("pair", xs, {"inline"}) /\ rels' = (rels \ gone) \cup new
   BY <2>1
 <2> HIDE DEF t, xs, gone, new
 <2> QED
   BY <2>4, <2>5, EditKeeps
<1> QED
  BY <1>1, <1>2

LEMMA KillKeeps ==
  ASSUME IInv, NEW s \in Session, Kill(s)
  PROVE  IInv'
<1> DEFINE r == call[s]  a == r.term  b == r.other
<1>0. WhyOK /\ CallsOK /\ RelsOK /\ PairsOK /\ IsCall(r)
  BY DEF IInv, CallsOK
<1>1. Replaces(s, Nothing) /\ UNCHANGED rels /\ Ends(s)
  BY EndsFacts DEF Kill
<1>2. MarksMore /\ \A x \in Term \cap {a, b} : If("killed", r.at = "second") \subseteq why'.pair[x]
  BY <1>0, BecausePair DEF Kill
<1>3. CASE r.at # "second"
  BY <1>1, <1>2, <1>3, EndKeeps
<1>4. CASE r.at = "second"
 <2>1. a \in Term /\ b \in Term /\ a \in Marked' /\ b \in Marked'
   BY <1>0, <1>2, <1>4 DEF IsCall, HalfOK, Marked, If
 <2>2. RelsOK'
   BY <1>0, <1>1, <1>2, MarkedKept DEF RelsOK
 <2>3. PairsOK'
  <3> SUFFICES ASSUME NEW q \in rels, q.type \in Bidirectional, ~Excuses(q, Marked')
               PROVE  Mirror(q) \in rels \/ q \in Lonely'
    BY <1>1 DEF PairsOK, PairedBut
  <3>1. ~Excuses(q, Marked) /\ {q.from, q.to} # {a, b}
    BY <1>0, <1>2, <2>1, MarkedKept DEF Excuses
  <3>2. Mirror(q) \in rels \/ q \in Lonely
    BY <1>0, <3>1 DEF PairsOK, PairedBut
  <3> QED
    BY <1>0, <1>1, <3>1, <3>2, LonelyKept
 <2> QED
   BY <1>0, <1>1, <1>2, <2>2, <2>3, ReplacesFacts DEF IInv, MarksMore
<1> QED
  BY <1>3, <1>4

(***************************************************************************)
(* import_vocabulary: different slugs are those of different terms.        *)
(***************************************************************************)
LEMMA NamedFacts ==
  ASSUME NEW w \in Vocab, NEW t \in Term
  PROVE  Named(w, SlugOf[t]) \in Term /\ SlugOf[Named(w, SlugOf[t])] = SlugOf[t]
<1>1. \E u \in Term : VocOf[u] = w /\ SlugOf[u] = SlugOf[t]
  BY SlugAssumption
<1> QED
  BY <1>1 DEF Named

LEMMA ExportFacts ==
  ASSUME RelsOK, NEW v, NEW all
  PROVE  \A q \in Exported(v, all).rels : IsRelOf(q, {SlugOf[t] : t \in Term})
<1> DEFINE S == {t \in TermsOf(v) : all \/ t \in active}
           R == {Rel(SlugOf[r.from], SlugOf[r.to], r.type) : r \in {r \in rels : {r.from, r.to} \subseteq S}}
<1>1. Exported(v, all).rels = R
  BY Zenon DEF Exported
<1>2. ASSUME NEW q \in R PROVE IsRelOf(q, {SlugOf[t] : t \in Term})
 <2>1. PICK r \in rels : {r.from, r.to} \subseteq S /\ q = Rel(SlugOf[r.from], SlugOf[r.to], r.type)
   OBVIOUS
 <2>2. r.from \in Term /\ r.to \in Term
   BY DEF RelsOK, IsRelOf
 <2> QED
   BY <2>1, <2>2, RelFacts DEF IsRelOf
<1> QED
  BY <1>1, <1>2

LEMMA BeginImportKeeps ==
  ASSUME IInv, NEW s \in Session, NEW v \in Vocab, NEW w \in Vocab, NEW all, BeginImport(s, v, w, all)
  PROVE  IInv'
<1> DEFINE r0 == As(Nothing, "import", "import")
           doc == Exported(v, all)
           same == (v = w)
           r == [r0 EXCEPT !.obj = w, !.doc = doc, !.live = same]
<1>1. DOMAIN r0 = Fields /\ r0.op = "import" /\ r0.at = "import"
 <2>1. DOMAIN Nothing = Fields
   BY NothingFacts
 <2> QED
   BY <2>1, AsFacts
<1>2. Hold(s, r) /\ Idle(s, "import") /\ UNCHANGED <<rels, why>>
  BY DEF BeginImport, links, ghosts
<1>3. \A q \in doc.rels : IsRelOf(q, {SlugOf[t] : t \in Term})
  BY ExportFacts DEF IInv
<1> HIDE DEF r0, doc, same
<1>4. DOMAIN r = Fields /\ r.op = "import" /\ r.at = "import" /\ r.obj = w /\ r.doc = doc
  BY <1>1, NothingFacts
<1> HIDE DEF r
<1>5. IsCall(r)
  BY <1>3, <1>4 DEF IsCall, HalfOK, MergeOK, DocOK
<1> QED
  BY <1>2, <1>5, BeginKeeps, IdleFacts DEF IInv

LEMMA ImportKeeps ==
  ASSUME IInv, NEW s \in Session, Import(s)
  PROVE  IInv'
<1> DEFINE r == call[s]  w == r.obj  doc == r.doc
<1>0. WhyOK /\ CallsOK /\ RelsOK /\ PairsOK /\ IsCall(r)
  BY DEF IInv, CallsOK
<1>1. Ends(s) /\ r.op = "import" /\ r.at = "import"
  BY Zenon DEF Import, At
<1>2. w \in Vocab /\ \A q \in doc.rels : IsRelOf(q, {SlugOf[t] : t \in Term})
  BY <1>0, <1>1 DEF IsCall, DocOK
<1>3. Replaces(s, Nothing)
  BY <1>1, EndsFacts
<1>4. ASSUME UNCHANGED <<rels, why>> PROVE IInv'
  BY <1>0, <1>1, <1>4, EndKeeps, UnmarkedFacts
<1>5. ASSUME NEW voc, NEW P, P \subseteq doc.rels, \A q \in P : q.from # q.to, Reconfigured(w, voc),
             NEW pairs, pairs = {Rel(Named(w, q.from), Named(w, q.to), q.type) : q \in P},
             rels' = rels \cup pairs \cup {Mirror(q) : q \in {q \in pairs : q.type \in Bidirectional}}
      PROVE  IInv'
 <2>1. MarksMore
   BY <1>0, <1>5, ReconfiguredMarks
 <2>2. \A q \in pairs : IsRelOf(q, Term) /\ q.from # q.to
  <3> DEFINE named(q) == Rel(Named(w, q.from), Named(w, q.to), q.type)
  <3> SUFFICES ASSUME NEW q \in P PROVE IsRelOf(named(q), Term) /\ named(q).from # named(q).to
    BY <1>5
  <3>1. PICK t \in Term, u \in Term : q.from = SlugOf[t] /\ q.to = SlugOf[u] /\ q.from # q.to
    BY <1>2, <1>5 DEF IsRelOf
  <3> QED
    BY <1>2, <3>1, NamedFacts, RelFacts DEF IsRelOf
 <2>3. RelsOK'
   BY <1>0, <1>5, <2>1, <2>2, MarkedKept, MirrorFacts DEF RelsOK, IsRelOf
 <2>4. PairsOK'
  <3> SUFFICES ASSUME NEW q \in rels', q.type \in Bidirectional, ~Excuses(q, Marked')
               PROVE  Mirror(q) \in rels' \/ q \in Lonely'
    BY DEF PairsOK, PairedBut
  <3>1. CASE q \in rels
   <4>1. ~Excuses(q, Marked)
     BY <1>0, <2>1, MarkedKept DEF Excuses
   <4>2. Mirror(q) \in rels \/ q \in Lonely
     BY <1>0, <3>1, <4>1 DEF PairsOK, PairedBut
   <4> QED
     BY <1>0, <1>1, <1>3, <1>5, <4>2, LonelyKept
  <3>2. CASE q \in pairs
    BY <1>5, <3>2
  <3>3. CASE \E p \in pairs : p.type \in Bidirectional /\ q = Mirror(p)
    BY <1>5, <2>2, <3>3, MirrorFacts DEF IsRelOf
  <3> QED
    BY <1>5, <3>1, <3>2, <3>3
 <2> QED
   BY <1>0, <1>3, <2>1, <2>3, <2>4, ReplacesFacts DEF IInv, MarksMore
<1>6. IInv'
 <2> DEFINE voc == IF r.live THEN [vocs[w] EXCEPT !.multiple = doc.voc.multiple, !.max = doc.voc.max] ELSE vocs[w]
            there(slug) == slug \in Slugs(w) \cup {doc.terms[i].slug : i \in NewEntries(w, doc)}
            P == {q \in doc.rels : q.from # q.to /\ there(q.from) /\ there(q.to)}
            pairs == {Rel(Named(w, q.from), Named(w, q.to), q.type) : q \in P}
            all == rels \cup pairs \cup {Mirror(q) : q \in {q \in pairs : q.type \in Bidirectional}}
 <2>1. \/ UNCHANGED rels /\ UNCHANGED why
       \/ Reconfigured(w, voc) /\ rels' = all
   BY Zenon DEF Import
 <2>2. P \subseteq doc.rels /\ \A q \in P : q.from # q.to
   OBVIOUS
 <2> HIDE DEF voc, P
 <2> QED
   BY <1>4, <1>5, <2>1, <2>2
<1> QED
  BY <1>6

(***************************************************************************)
(* The theorem                                                             *)
(***************************************************************************)
LEMMA RelsInTerms ==
  ASSUME IInv, NEW s \in Session
  PROVE  /\ \A type : \A a, b \in Term : Relate(s, a, b, type) => IInv'
         /\ \A type : \A a, b \in Term : Unrelate(s, a, b, type) => IInv'
  BY FirstKeeps DEF Relate, Unrelate

LEMMA NextIInv == IInv /\ [Next]_vars => IInv'
<1> SUFFICES ASSUME IInv, [Next]_vars PROVE IInv'
  OBVIOUS
<1>1. CASE UNCHANGED vars
  BY <1>1, StutterKeeps
<1>2. CASE Next
  BY <1>2, BeginsKeep, StepsKeep, OthersKeep, DeletesKeep, MergeBegins, CommitMergeKeeps,
     RelsInTerms, SecondKeeps, InlineKeeps, KillKeeps, BeginImportKeeps, ImportKeeps, Zenon DEF Next
<1> QED
  BY <1>1, <1>2

\* At rest nobody is about to complete a pair.
LEMMA IInvPairsKept == IInv => PairsKept
<1> SUFFICES ASSUME IInv PROVE PairsKept
  OBVIOUS
<1> DEFINE sound == {r \in rels : (why.pair[r.from] \cup why.pair[r.to]) = {}}
<1>1. Irreflexive(sound)
  BY DEF IInv, RelsOK, Irreflexive, Marked
<1>2. ASSUME AtRest PROVE Paired(sound)
 <2> SUFFICES ASSUME NEW r \in rels, (why.pair[r.from] \cup why.pair[r.to]) = {}, r.type \in Bidirectional
              PROVE  Mirror(r) \in rels /\ (why.pair[Mirror(r).from] \cup why.pair[Mirror(r).to]) = {}
   BY DEF Paired
 <2>1. IsRel(r) /\ ~Excuses(r, Marked)
   BY DEF IInv, RelsOK, IsRelOf, Excuses, Marked
 <2>2. r \notin Lonely
   BY <1>2 DEF AtRest, Lonely, Awaits, IInv, CallsOK, IsCall, HalfOK
 <2> QED
   BY <2>1, <2>2, MirrorFacts DEF IInv, PairsOK, PairedBut
<1> QED
  BY <1>1, <1>2 DEF PairsKept

(* Synonyms and related terms are found from both sides, and no term is      *)
(* related to itself, for any terms, vocabularies, sessions and operations:  *)
(* the two rows of a pair are written by two transactions, and a merge       *)
(* writes by primary key rows it has read before, so that only a call that   *)
(* was killed half way, met another for the same rows, or a single row       *)
(* written in the admin leaves one without the other or a term related to    *)
(* itself.                                                                   *)
THEOREM PairsCorrect == Spec => []PairsKept
<1>1. Spec => []IInv
  BY InitIInv, NextIInv, PTL DEF Spec
<1> QED
  BY <1>1, IInvPairsKept, PTL
(***************************************************************************)
(* Tags.  A single-term vocabulary gives an object one term; an object     *)
(* that was given a term keeps one; a term that was merged away has none.  *)
(* All three hold between the calls too.  What is needed of a call under   *)
(* way: the term of a create is in nobody else's hands and no row yet, a   *)
(* merge is within one vocabulary, and a tag that will be inserted was     *)
(* alone in what the call has read.                                        *)
(***************************************************************************)
WhyShape == DOMAIN why = {"nest", "tag", "late", "pair"} /\ DOMAIN why.tag = Vocab /\ DOMAIN why.late = Term
TableOK ==
  /\ Rows \subseteq Term /\ Rows \subseteq used /\ DOMAIN vocs = Vocab
  /\ merged \subseteq Rows /\ merged \cap active = {}
  /\ WhyShape

NewTerm(r, given, rows) == r.op = "create" => r.term \in Term /\ r.term \in given /\ r.term \notin rows
MergeVoc(r) ==
  r.op = "merge" /\ r.at = "write" =>
    VocOf[r.term] = VocOf[r.other] /\ \A g \in r.tags : g = Tag(g.term, g.obj)
TagCall(r) ==
  r.op = "tag" /\ r.at = "insert" =>
    r.voc.multiple \/ TaggedIn(r.tags \ Replaced(r), VocOf[r.term], r.obj) = {}
CallsRight ==
  /\ \A s \in Session : NewTerm(call[s], used, Rows) /\ MergeVoc(call[s]) /\ TagCall(call[s])
  /\ \A s, z \in Session :
       call[s].op = "create" /\ call[z].op = "create" /\ call[s].term = call[z].term => s = z

TagsShape == \A g \in tags : g = Tag(g.term, g.obj)
OneEach ==
  \A v \in Vocab, o \in Obj :
    why.tag[v] = {} /\ ~vocs[v].multiple => \A t, u \in TaggedIn(tags, v, o) : t = u
Homes == \A v \in Vocab : why.tag[v] = {} => \A o \in home[v] : TaggedIn(tags, v, o) # {}
Gone == \A g \in tags : g.term \in merged => why.late[g.term] # {}
LinksRight == TagsShape /\ OneEach /\ Homes /\ Gone

TagInv == TableOK /\ CallsRight /\ LinksRight

LEMMA TagFacts ==
  \A t, o : Tag(t, o).term = t /\ Tag(t, o).obj = o
  BY DEF Tag

LEMMA TaggedFacts ==
  ASSUME NEW g, NEW v, NEW o, NEW t
  PROVE  t \in TaggedIn(g, v, o) <=> t \in Term /\ VocOf[t] = v /\ Tag(t, o) \in g
  BY DEF TaggedIn

LEMMA InitTagInv == Init => TagInv
<1> SUFFICES ASSUME Init PROVE TagInv
  OBVIOUS
<1>1. PICK d \in Deployments : dep = d
  BY DEF Init
<1>2. /\ DOMAIN d.db \subseteq Term /\ DOMAIN d.vocs = Vocab
      /\ \A g \in d.tags : g = Tag(g.term, g.obj) /\ g.term \in DOMAIN d.db
      /\ \A v \in Vocab, o \in Obj :
           ~d.vocs[v].multiple => \A t, u \in TaggedIn(d.tags, v, o) : t = u
  BY <1>1, DeploymentsAssumption
<1>3. WhyShape
  BY DEF Init, WhyShape
<1>4. TableOK
  BY <1>1, <1>2, <1>3 DEF Init, TableOK, Rows
<1>5. CallsRight
  BY NothingFacts DEF Init, CallsRight, NewTerm, MergeVoc, TagCall
<1>6. TagsShape /\ OneEach /\ Gone
  BY <1>1, <1>2, Zenon DEF Init, TagsShape, OneEach, Gone
<1>7. Homes
 <2> SUFFICES ASSUME NEW v \in Vocab, NEW o \in home[v] PROVE TaggedIn(tags, v, o) # {}
   BY DEF Homes
 <2>1. home[v] = {g.obj : g \in {g \in tags : VocOf[g.term] = v}}
   BY DEF Init
 <2>2. PICK g \in tags : VocOf[g.term] = v /\ o = g.obj
   BY <2>1
 <2>3. g = Tag(g.term, g.obj) /\ g.term \in Term
   BY <1>1, <1>2 DEF Init
 <2> QED
   BY <2>2, <2>3, TaggedFacts
<1> QED
  BY <1>4, <1>5, <1>6, <1>7 DEF TagInv, LinksRight

(***************************************************************************)
(* Calls.  One is replaced; the terms that others are about to create are  *)
(* not the rows that come.                                                 *)
(***************************************************************************)
OthersTerms(s) == {call[z].term : z \in {z \in Session \ {s} : call[z].op = "create"}}

LEMMA CallStep ==
  ASSUME CallsOK, CallsRight, NEW s \in Session, NEW r, call' = [call EXCEPT ![s] = r],
         NewTerm(r, used', Rows'), MergeVoc(r), TagCall(r), used \subseteq used',
         OthersTerms(s) \cap (Rows' \ Rows) = {}, r.op = "create" => r.term \notin OthersTerms(s)
  PROVE  CallsRight'
<1>1. call'[s] = r /\ \A z \in Session \ {s} : call'[z] = call[z]
  BY DEF CallsOK
<1>2. \A z \in Session \ {s} : call[z].op = "create" => call[z].term \in OthersTerms(s)
  BY DEF OthersTerms
<1>3. \A z \in Session \ {s} : NewTerm(call'[z], used', Rows') /\ MergeVoc(call'[z]) /\ TagCall(call'[z])
  BY <1>1, <1>2 DEF CallsRight, NewTerm
<1>4. \A z \in Session : NewTerm(call'[z], used', Rows') /\ MergeVoc(call'[z]) /\ TagCall(call'[z])
  BY <1>1, <1>3
<1>5. \A y, z \in Session :
        call'[y].op = "create" /\ call'[z].op = "create" /\ call'[y].term = call'[z].term => y = z
  BY <1>1, <1>2 DEF CallsRight
<1> QED
  BY <1>4, <1>5 DEF CallsRight, NewTerm, MergeVoc, TagCall, Replaced

LEMMA CallEnds ==
  ASSUME CallsOK, CallsRight, NEW s \in Session, Ends(s), used \subseteq used',
         OthersTerms(s) \cap (Rows' \ Rows) = {}
  PROVE  CallsRight'
<1>1. call' = [call EXCEPT ![s] = Nothing]
  BY DEF Ends, Hold
<1>2. NewTerm(Nothing, used', Rows') /\ MergeVoc(Nothing) /\ TagCall(Nothing) /\ Nothing.op # "create"
  BY NothingFacts DEF NewTerm, MergeVoc, TagCall
<1> QED
  BY <1>1, <1>2, CallStep

LEMMA CallStays ==
  ASSUME CallsRight, UNCHANGED call, used \subseteq used', Rows' \subseteq Rows
  PROVE  CallsRight'
  BY DEF CallsRight, NewTerm, MergeVoc, TagCall, Replaced

(***************************************************************************)
(* Causes only grow.                                                       *)
(***************************************************************************)
MoreCauses ==
  /\ WhyShape'
  /\ \A v \in Vocab : why.tag[v] \subseteq why'.tag[v]
  /\ \A t \in Term : why.late[t] \subseteq why'.late[t]

LEMMA SameCauses == WhyShape /\ UNCHANGED why => MoreCauses
  BY DEF WhyShape, MoreCauses

LEMMA BecauseCauses ==
  ASSUME WhyShape, NEW kind \in {"nest", "pair"}, NEW xs, NEW causes, Because(kind, xs, causes)
  PROVE  MoreCauses
<1>1. DOMAIN why' = DOMAIN why /\ why'.tag = why.tag /\ why'.late = why.late
  BY DEF Because, WhyShape
<1> QED
  BY <1>1 DEF WhyShape, MoreCauses

(***************************************************************************)
(* Steps that leave the tags alone.                                        *)
(***************************************************************************)
Steady ==
  /\ UNCHANGED <<tags, home>> /\ merged' \subseteq merged /\ MoreCauses
  /\ \A v \in Vocab : why'.tag[v] = {} /\ ~vocs'[v].multiple => ~vocs[v].multiple

LEMMA SteadyLinks ==
  ASSUME TableOK, LinksRight, Steady
  PROVE  LinksRight'
<1>1. TagsShape' /\ Gone'
  BY DEF LinksRight, TagsShape, Gone, Steady, MoreCauses, TableOK
<1>2. Homes'
  BY DEF LinksRight, Homes, Steady, MoreCauses, TaggedIn
<1>3. OneEach'
 <2> SUFFICES ASSUME NEW v \in Vocab, NEW o \in Obj, why'.tag[v] = {}, ~vocs'[v].multiple
              PROVE  \A t, u \in TaggedIn(tags', v, o) : t = u
   BY DEF OneEach, TaggedIn
 <2>1. why.tag[v] = {} /\ ~vocs[v].multiple /\ tags' = tags
   BY DEF Steady, MoreCauses
 <2> QED
   BY <2>1 DEF LinksRight, OneEach
<1> QED
  BY <1>1, <1>2, <1>3 DEF LinksRight

(***************************************************************************)
(* The services write rows of the table; none but a create and an import   *)
(* adds one.                                                               *)
(***************************************************************************)
LEMMA MovedDomain ==
  ASSUME NEW d, NEW V, NEW n, NEW r, NEW plan
  PROVE  DOMAIN Moved(d, V, n, r, plan) = DOMAIN d
<1>1. \A e, src, D, old, new : DOMAIN Rerooted(e, src, D, old, new) = DOMAIN e
  BY DEF Rerooted
<1>2. \E e : DOMAIN e = DOMAIN d /\ \E D, new : Moved(d, V, n, r, plan) = Rerooted(e, d, D, r.path, new)
  BY DEF Moved
<1> QED
  BY <1>1, <1>2

LEMMA AfterMoveDomain ==
  ASSUME NEW d, NEW t, NEW r, NEW u, NEW urow, NEW pos
  PROVE  DOMAIN AfterMove(d, t, r, u, urow, pos) = DOMAIN d
<1> DEFINE m == Moved(d, active, t, r, Plan(d, t, r, u, urow, pos))
<1>1. DOMAIN m = DOMAIN d
  BY MovedDomain
<1>2. AfterMove(d, t, r, u, urow, pos) \in {d, m, [m EXCEPT ![t] = d[t]]}
  BY DEF AfterMove
<1> HIDE DEF m
<1> QED
  BY <1>1, <1>2

LEMMA PreSaveDomain ==
  ASSUME NEW d, NEW t, NEW p, NEW prow
  PROVE  DOMAIN AfterPreSave(d, t, p, prow) = DOMAIN d
<1>1. \A V, r, row : DOMAIN RootedSubtree(d, V, r, row) = DOMAIN d
  BY DEF RootedSubtree, Rerooted, CloseOrderGap
<1> QED
  BY <1>1, AfterMoveDomain DEF AfterPreSave

LEMMA RebuiltDomain ==
  ASSUME NEW d, NEW scope, NEW tie
  PROVE  DOMAIN Rebuilt(d, scope, tie) = DOMAIN d
  BY DEF Rebuilt

(***************************************************************************)
(* Steps that leave the tags alone, in three kinds: those that only change *)
(* a call, those that end one, those that are no part of one.              *)
(***************************************************************************)
LEMMA TagStutter ==
  ASSUME TagInv, UNCHANGED vars
  PROVE  TagInv'
  BY DEF TagInv, TableOK, WhyShape, CallsRight, NewTerm, MergeVoc, TagCall, Replaced, LinksRight, TagsShape, OneEach, Homes, Gone,
         TaggedIn, Rows, vars, tree, links, ghosts

LEMMA CallOnly ==
  ASSUME IInv, TagInv, NEW s \in Session, NEW r, Hold(s, r), UNCHANGED <<tree, tags, merged, home, why>>,
         used \subseteq used', NewTerm(r, used', Rows), MergeVoc(r), TagCall(r),
         r.op = "create" => r.term \notin OthersTerms(s)
  PROVE  TagInv'
<1>1. Rows' = Rows
  BY DEF tree, Rows
<1>2. CallsRight'
  BY <1>1, CallStep DEF Hold, IInv, TagInv
<1>3. TableOK'
  BY <1>1 DEF TagInv, TableOK, WhyShape, tree
<1>4. LinksRight'
  BY DEF TagInv, LinksRight, TagsShape, OneEach, Homes, Gone, TaggedIn, tree
<1> QED
  BY <1>2, <1>3, <1>4 DEF TagInv

LEMMA EndsSteady ==
  ASSUME IInv, TagInv, NEW s \in Session, Ends(s), Steady, TableOK', used \subseteq used',
         OthersTerms(s) \cap (Rows' \ Rows) = {}
  PROVE  TagInv'
  BY CallEnds, SteadyLinks DEF IInv, TagInv

LEMMA StaysSteady ==
  ASSUME TagInv, UNCHANGED call, Steady, TableOK', used \subseteq used', Rows' \subseteq Rows
  PROVE  TagInv'
  BY CallStays, SteadyLinks DEF TagInv

\* A table with the same rows.
LEMMA SameRows ==
  ASSUME TableOK, Rows' = Rows, UNCHANGED <<active, vocs, used, merged>>, MoreCauses
  PROVE  TableOK'
  BY DEF TableOK, MoreCauses

LEMMA SteadyWhy ==
  ASSUME UNCHANGED <<tags, home, vocs, merged>>, MoreCauses
  PROVE  Steady
  BY DEF Steady

\* What a call that does not create a term, nor insert a tag, relies on.
LEMMA OtherOps ==
  ASSUME NEW r, r.op \notin {"create", "merge", "tag"}, NEW given, NEW rows
  PROVE  NewTerm(r, given, rows) /\ MergeVoc(r) /\ TagCall(r) /\ r.op # "create"
  BY DEF NewTerm, MergeVoc, TagCall

(***************************************************************************)
(* Calls that begin.                                                       *)
(***************************************************************************)
LEMMA BeginsOther ==
  ASSUME IInv, TagInv, NEW s \in Session, NEW r, Hold(s, r), r.op \notin {"create", "merge", "tag"},
         UNCHANGED <<tree, links, used, ghosts>>
  PROVE  TagInv'
<1>1. NewTerm(r, used', Rows) /\ MergeVoc(r) /\ TagCall(r) /\ r.op # "create"
  BY OtherOps
<1> QED
  BY <1>1, CallOnly DEF links, ghosts

LEMMA BeginsOtherAs ==
  ASSUME IInv, TagInv, NEW s \in Session, NEW r, NEW op, NEW at, DOMAIN r = Fields, Hold(s, As(r, op, at)),
         op \notin {"create", "merge", "tag"}, UNCHANGED <<tree, links, used, ghosts>>
  PROVE  TagInv'
  BY AsFacts, BeginsOther

LEMMA TagBegins ==
  ASSUME IInv, TagInv, NEW s \in Session
  PROVE  /\ \A t \in Term : \A p : BeginCreate(s, t, p) => TagInv'
         /\ \A t, u, pos : BeginMove(s, t, u, pos) => TagInv'
         /\ \A t, op : BeginSave(s, t, op) => TagInv'
         /\ \A t, p : BeginReparent(s, t, p) => TagInv'
         /\ \A t : BeginDelete(s, t) => TagInv'
         /\ \A v, field, value : BeginConfigure(s, v, field, value) => TagInv'
         /\ \A a, b, strategy : BeginMerge(s, a, b, strategy) => TagInv'
         /\ \A t, o, old : BeginTag(s, t, o, old) => TagInv'
         /\ \A t, os : BeginTagMany(s, t, os) => TagInv'
         /\ BeginCleanup(s) => TagInv'
         /\ \A v, w, all : BeginImport(s, v, w, all) => TagInv'
<1>1. ASSUME NEW t \in Term, NEW p, BeginCreate(s, t, p) PROVE TagInv'
 <2> DEFINE r0 == WithTwo(NoParent, p)
            r1 == [r0 EXCEPT !.term = t, !.voc = vocs[VocOf[t]]]
            r == As(r1, "create", "check")
 <2>0. DOMAIN r0 = Fields
   BY WithFacts
 <2>a. Hold(s, r) /\ t \notin used /\ used' = used \cup {t} /\ UNCHANGED <<tree, tags, merged, home, why>>
   BY <1>1 DEF BeginCreate, links, ghosts
 <2> HIDE DEF r0
 <2>1. DOMAIN r1 = Fields /\ r1.term = t
   BY <2>0, NothingFacts
 <2> HIDE DEF r1
 <2>2. r.op = "create" /\ r.term = t
  <3>1. r.op = "create" /\ \A f \in Fields \ {"op", "at"} : r[f] = r1[f]
    BY <2>1, AsFacts
  <3> QED
    BY <2>1, <3>1, NothingFacts
 <2>3. NewTerm(r, used', Rows) /\ MergeVoc(r) /\ TagCall(r)
   BY <2>2, <2>a DEF NewTerm, MergeVoc, TagCall, TagInv, TableOK
 <2>4. t \notin OthersTerms(s)
   BY <2>a DEF OthersTerms, TagInv, CallsRight, NewTerm
 <2> HIDE DEF r
 <2> QED
   BY <2>a, <2>2, <2>3, <2>4, CallOnly
<1>2. ASSUME NEW t, NEW u, NEW pos, BeginMove(s, t, u, pos) PROVE TagInv'
 <2> DEFINE r == [WithTwo(t, u) EXCEPT !.pos = pos]
 <2>1. DOMAIN r = Fields
   BY WithFacts
 <2> QED
   BY <1>2, <2>1, BeginsOtherAs DEF BeginMove
<1>3. ASSUME NEW t, NEW op, BeginSave(s, t, op) PROVE TagInv'
  BY <1>3, WithFacts, BeginsOtherAs DEF BeginSave
<1>4. ASSUME NEW t, NEW p, BeginReparent(s, t, p) PROVE TagInv'
  BY <1>4, WithFacts, BeginsOtherAs DEF BeginReparent
<1>5. ASSUME NEW t, BeginDelete(s, t) PROVE TagInv'
  BY <1>5, WithFacts, BeginsOtherAs DEF BeginDelete
<1>6. ASSUME NEW v, NEW field, NEW value, BeginConfigure(s, v, field, value) PROVE TagInv'
 <2> DEFINE voc == [vocs[v] EXCEPT ![field] = value]
            r == [Nothing EXCEPT !.obj = v, !.type = field, !.voc = voc]
 <2> HIDE DEF voc
 <2>1. DOMAIN r = Fields
   BY NothingFacts
 <2> USE DEF voc
 <2>2. Hold(s, As(r, "configure", "save")) /\ UNCHANGED <<tree, links, used, ghosts>>
   BY <1>6, Zenon DEF BeginConfigure
 <2> HIDE DEF r
 <2> QED
   BY <2>1, <2>2, BeginsOtherAs
<1>7. ASSUME NEW a, NEW b, NEW strategy, BeginMerge(s, a, b, strategy) PROVE TagInv'
 <2> DEFINE r0 == WithTwo(a, b)
            r1 == [r0 EXCEPT !.pos = strategy]
            r == As(r1, "merge", "read")
 <2>0. DOMAIN r0 = Fields
   BY WithFacts
 <2> HIDE DEF r0
 <2>1. DOMAIN r1 = Fields
   BY <2>0
 <2> USE DEF r0
 <2>2. Hold(s, r) /\ UNCHANGED <<tree, tags, used, merged, home, why>>
   BY <1>7 DEF BeginMerge, links, ghosts
 <2> HIDE DEF r1
 <2>3. r.op = "merge" /\ r.at = "read"
   BY <2>1, AsFacts
 <2> HIDE DEF r
 <2>4. NewTerm(r, used', Rows) /\ MergeVoc(r) /\ TagCall(r)
   BY <2>3 DEF NewTerm, MergeVoc, TagCall
 <2> QED
   BY <2>2, <2>3, <2>4, CallOnly
<1>8. ASSUME NEW t, NEW o, NEW old, BeginTag(s, t, o, old) PROVE TagInv'
 <2> DEFINE r0 == With(t)
            r == [r0 EXCEPT !.op = "tag", !.at = "check", !.obj = o, !.other = old]
 <2>1. DOMAIN r0 = Fields
   BY WithFacts
 <2>2. Hold(s, r) /\ UNCHANGED <<tree, tags, used, merged, home, why>>
   BY <1>8 DEF BeginTag, links, ghosts
 <2> HIDE DEF r0
 <2>3. r.op = "tag" /\ r.at = "check"
   BY <2>1, NothingFacts
 <2> HIDE DEF r
 <2>4. NewTerm(r, used', Rows) /\ MergeVoc(r) /\ TagCall(r)
   BY <2>3 DEF NewTerm, MergeVoc, TagCall
 <2> QED
   BY <2>2, <2>3, <2>4, CallOnly
<1>9. ASSUME NEW t, NEW os, BeginTagMany(s, t, os) PROVE TagInv'
 <2> DEFINE r0 == As(With(t), "tag_many", "insert")
            r == [r0 EXCEPT !.objs = os]
 <2>1. DOMAIN r0 = Fields /\ r0.op = "tag_many"
   BY WithFacts, AsFacts
 <2>2. Hold(s, r) /\ UNCHANGED <<tree, links, used, ghosts>>
   BY <1>9 DEF BeginTagMany
 <2> HIDE DEF r0
 <2>3. r.op = "tag_many"
   BY <2>1, NothingFacts
 <2> HIDE DEF r
 <2> QED
   BY <2>2, <2>3, BeginsOther
<1>10. ASSUME BeginCleanup(s) PROVE TagInv'
 <2> DEFINE r0 == As(Nothing, "cleanup", "delete")
            r == [r0 EXCEPT !.objs = objs]
 <2>0. DOMAIN Nothing = Fields
   BY NothingFacts
 <2>1. DOMAIN r0 = Fields /\ r0.op = "cleanup"
   BY <2>0, AsFacts
 <2>2. Hold(s, r) /\ UNCHANGED <<tree, links, used, ghosts>>
   BY <1>10 DEF BeginCleanup
 <2> HIDE DEF r0
 <2>3. r.op = "cleanup"
   BY <2>1, NothingFacts
 <2> HIDE DEF r
 <2> QED
   BY <2>2, <2>3, BeginsOther
<1>11. ASSUME NEW v, NEW w, NEW all, BeginImport(s, v, w, all) PROVE TagInv'
 <2> DEFINE r0 == As(Nothing, "import", "import")
            doc == Exported(v, all)
            same == (v = w)
            r == [r0 EXCEPT !.obj = w, !.doc = doc, !.live = same]
 <2>0. DOMAIN Nothing = Fields
   BY NothingFacts
 <2>1. DOMAIN r0 = Fields /\ r0.op = "import"
   BY <2>0, AsFacts
 <2>2. Hold(s, r) /\ UNCHANGED <<tree, links, used, ghosts>>
   BY <1>11 DEF BeginImport
 <2> HIDE DEF r0, doc, same
 <2>3. r.op = "import"
   BY <2>1, NothingFacts
 <2> HIDE DEF r
 <2> QED
   BY <2>2, <2>3, BeginsOther
<1> QED
  BY <1>1, <1>2, <1>3, <1>4, <1>5, <1>6, <1>7, <1>8, <1>9, <1>10, <1>11

(***************************************************************************)
(* Calls that read.                                                        *)
(***************************************************************************)
LEMMA TagReads ==
  ASSUME IInv, TagInv, NEW s \in Session
  PROVE  /\ CheckCreate(s) => TagInv'
         /\ ReadMerge(s) => TagInv'
         /\ CheckTag(s) => TagInv'
<1>0. IsCall(call[s]) /\ NewTerm(call[s], used, Rows)
  BY DEF IInv, CallsOK, TagInv, CallsRight
<1>a. ASSUME Ends(s), UNCHANGED <<tree, links, used, ghosts>> PROVE TagInv'
  BY <1>a, NothingFacts, BeginsOther DEF Ends
<1>b. call[s].op = "create" => call[s].term \notin OthersTerms(s)
  BY DEF TagInv, CallsRight, OthersTerms
<1>1. ASSUME CheckCreate(s) PROVE TagInv'
 <2> DEFINE r0 == call[s]
            row == RowForInsert(Siblings(r0.other, VocOf[r0.term]), r0.other, r0.orow)
            r == [r0 EXCEPT !.at = "insert", !.row = row]
 <2>1. At(s, "create", "check") /\ UNCHANGED <<tree, links, used, ghosts>> /\ (Ends(s) \/ Hold(s, r))
   BY <1>1, Zenon DEF CheckCreate
 <2>2. DOMAIN r0 = Fields /\ r0.op = "create"
   BY <1>0, <2>1 DEF IsCall, At
 <2> HIDE DEF row
 <2>3. r.op = "create" /\ r.term = r0.term
   BY <2>2, NothingFacts
 <2>4. NewTerm(r, used', Rows) /\ MergeVoc(r) /\ TagCall(r)
   BY <1>0, <2>1, <2>2, <2>3 DEF NewTerm, MergeVoc, TagCall
 <2> HIDE DEF r
 <2> QED
   BY <1>a, <1>b, <2>1, <2>2, <2>3, <2>4, CallOnly DEF links, ghosts
<1>2. ASSUME ReadMerge(s) PROVE TagInv'
 <2> DEFINE r0 == call[s]
            kids == Children(db, Rows, r0.term)
            r == [r0 EXCEPT !.at = "write", !.kids = kids, !.tags = tags, !.rels = rels]
 <2>1. /\ At(s, "merge", "read") /\ UNCHANGED <<tree, tags, rels, objs, used, ghosts>>
       /\ (Ends(s) /\ UNCHANGED fetched) \/ (VocOf[r0.term] = VocOf[r0.other] /\ Hold(s, r))
   BY <1>2, Zenon DEF ReadMerge
 <2>2. DOMAIN r0 = Fields /\ r0.op = "merge"
   BY <1>0, <2>1 DEF IsCall, At
 <2> HIDE DEF kids
 <2>3. r.op = "merge" /\ r.term = r0.term /\ r.other = r0.other /\ r.tags = tags
   BY <2>2, NothingFacts
 <2> HIDE DEF r
 <2>4. CASE VocOf[r0.term] = VocOf[r0.other] /\ Hold(s, r)
  <3>1. NewTerm(r, used', Rows) /\ MergeVoc(r) /\ TagCall(r)
    BY <2>3, <2>4 DEF NewTerm, MergeVoc, TagCall, TagInv, LinksRight, TagsShape
  <3> QED
    BY <2>1, <2>3, <2>4, <3>1, CallOnly DEF ghosts
 <2>5. CASE Ends(s) /\ UNCHANGED fetched
  <3>1. UNCHANGED links
    BY <2>1, <2>5 DEF links
  <3> QED
    BY <1>a, <2>1, <2>5, <3>1
 <2> QED
   BY <2>1, <2>4, <2>5
<1>3. ASSUME CheckTag(s) PROVE TagInv'
 <2> DEFINE r0 == call[s]
            r == [r0 EXCEPT !.at = "insert", !.tags = tags]
 <2>1. /\ At(s, "tag", "check") /\ UNCHANGED <<tree, links, used, ghosts>>
       /\ Ends(s) \/ (~TagRefused(r0, tags \ Replaced(r0)) /\ Hold(s, r))
   BY <1>3, Zenon DEF CheckTag
 <2>2. DOMAIN r0 = Fields /\ r0.op = "tag"
   BY <1>0, <2>1 DEF IsCall, At
 <2>3. /\ r.op = "tag" /\ r.term = r0.term /\ r.other = r0.other /\ r.obj = r0.obj /\ r.voc = r0.voc
       /\ r.tags = tags
   BY <2>2, NothingFacts
 <2> HIDE DEF r
 <2>4. CASE ~TagRefused(r0, tags \ Replaced(r0)) /\ Hold(s, r)
  <3>1. Replaced(r) = Replaced(r0)
    BY <2>3 DEF Replaced
  <3>2. r.voc.multiple \/ TaggedIn(tags \ Replaced(r), VocOf[r.term], r.obj) = {}
    BY <2>3, <2>4, <3>1, Zenon DEF TagRefused
  <3>3. NewTerm(r, used', Rows) /\ MergeVoc(r) /\ TagCall(r)
    BY <2>3, <3>2 DEF NewTerm, MergeVoc, TagCall
  <3> QED
    BY <2>1, <2>3, <2>4, <3>3, CallOnly DEF links, ghosts
 <2> QED
   BY <1>a, <2>1, <2>4
<1> QED
  BY <1>1, <1>2, <1>3

(***************************************************************************)
(* The services on terms.                                                  *)
(***************************************************************************)
LEMMA TermSteps ==
  ASSUME IInv, TagInv, NEW s \in Session
  PROVE  /\ InsertTerm(s) => TagInv'
         /\ CommitMove(s) => TagInv'
         /\ MoveFails(s) => TagInv'
         /\ SaveActive(s) => TagInv'
         /\ SaveParent(s) => TagInv'
<1>0. TableOK /\ WhyShape /\ NewTerm(call[s], used, Rows)
  BY DEF TagInv, TableOK, CallsRight
<1>a. ASSUME Ends(s), UNCHANGED <<db, vocs, active, links, used, ghosts>> PROVE TagInv'
 <2>1. Nothing.op \notin {"create", "merge", "tag"}
   BY NothingFacts
 <2> QED
   BY <1>a, <2>1, BeginsOther DEF Ends, tree
<1>b. ASSUME Ends(s), Rows' = Rows, UNCHANGED <<active, vocs, used, tags, home, merged>>, MoreCauses PROVE TagInv'
 <2>1. TableOK'
   BY <1>0, <1>b, SameRows
 <2>2. Steady
   BY <1>b, SteadyWhy
 <2> QED
   BY <1>b, <2>1, <2>2, EndsSteady
<1>1. ASSUME InsertTerm(s) PROVE TagInv'
 <2> DEFINE r == call[s]  v == VocOf[r.term]
            causes == If("raced", vocs[v] # r.voc \/ (r.other # NoParent /\ db[r.other] # r.orow))
            d == WithRow(db, r.term, r.row)
 <2>1. /\ At(s, "create", "insert") /\ Ends(s) /\ UNCHANGED <<dep, vocs, links, used, begun, merged, home>>
       /\ \/ UNCHANGED <<db, active, why>>
          \/ db' = d /\ active' = active \cup {r.term} /\ Because("nest", {v}, causes)
   BY <1>1, Zenon DEF InsertTerm
 <2>2. CASE UNCHANGED <<db, active, why>>
   BY <1>a, <2>1, <2>2 DEF ghosts
 <2> HIDE DEF causes
 <2>3. CASE db' = d /\ active' = active \cup {r.term} /\ Because("nest", {v}, causes)
  <3>1. Rows' = Rows \cup {r.term}
    BY <2>3 DEF WithRow, Rows
  <3>2. r.op = "create" /\ r.term \in Term /\ r.term \in used /\ r.term \notin Rows
    BY <1>0, <2>1 DEF NewTerm, At
  <3>3. MoreCauses
    BY <1>0, <2>3, BecauseCauses
  <3>4. Steady
    BY <2>1, <3>3, SteadyWhy DEF links
  <3>5. TableOK'
    BY <1>0, <2>1, <2>3, <3>1, <3>2, <3>3 DEF TableOK, MoreCauses
  <3>6. OthersTerms(s) \cap (Rows' \ Rows) = {}
    BY <3>1, <3>2 DEF OthersTerms, TagInv, CallsRight
  <3> QED
    BY <2>1, <3>4, <3>5, <3>6, EndsSteady
 <2> QED
   BY <2>1, <2>2, <2>3
<1>2. ASSUME CommitMove(s) PROVE TagInv'
 <2> DEFINE r == call[s]  d == AfterMove(db, r.term, r.row, r.other, r.orow, r.pos)
 <2>1. /\ db' = d /\ Because("nest", {VocOf[r.term]} \cup Crossed(d), {"moved"}) /\ Ends(s)
       /\ UNCHANGED <<active, vocs, links, used, merged, home>>
   BY <1>2, Zenon DEF CommitMove
 <2>2. Rows' = Rows
   BY <2>1, AfterMoveDomain DEF Rows
 <2>3. MoreCauses
   BY <1>0, <2>1, BecauseCauses
 <2> QED
   BY <1>b, <2>1, <2>2, <2>3 DEF links
<1>3. ASSUME MoveFails(s) PROVE TagInv'
  BY <1>3, <1>a DEF MoveFails, tree
<1>4. ASSUME SaveActive(s) PROVE TagInv'
 <2> DEFINE r == call[s]  p == r.row.parent  d == AfterPreSave(db, r.term, p, RowOf(p))
 <2>1. /\ Ends(s) /\ UNCHANGED <<dep, vocs, links, used, begun, home>>
       /\ \/ UNCHANGED <<db, active, merged, why>>
          \/ /\ db' = d
             /\ active' = IF r.op = "activate" THEN active \cup {r.term} ELSE active \ {r.term}
             /\ merged' = IF r.op = "activate" THEN merged \ {r.term} ELSE merged
             /\ Because("nest", Crossed(d), {"moved"})
   BY <1>4, Zenon DEF SaveActive
 <2>2. CASE UNCHANGED <<db, active, merged, why>>
   BY <1>a, <2>1, <2>2 DEF ghosts
 <2>3. CASE /\ db' = d
            /\ active' = IF r.op = "activate" THEN active \cup {r.term} ELSE active \ {r.term}
            /\ merged' = IF r.op = "activate" THEN merged \ {r.term} ELSE merged
            /\ Because("nest", Crossed(d), {"moved"})
  <3>1. Rows' = Rows
    BY <2>3, PreSaveDomain DEF Rows
  <3>2. MoreCauses
    BY <1>0, <2>3, BecauseCauses
  <3>3. merged' \subseteq merged /\ merged' \cap active' = {}
    BY <1>0, <2>3 DEF TableOK
  <3>4. TableOK'
    BY <1>0, <2>1, <3>1, <3>2, <3>3 DEF TableOK, MoreCauses
  <3>5. Steady
    BY <2>1, <3>2, <3>3 DEF Steady, links
  <3> QED
    BY <2>1, <3>1, <3>4, <3>5, EndsSteady
 <2> QED
   BY <2>1, <2>2, <2>3
<1>5. ASSUME SaveParent(s) PROVE TagInv'
 <2> DEFINE r == call[s]  p == r.other  d0 == AfterPreSave(db, r.term, p, r.orow)
            d == [d0 EXCEPT ![r.term].parent = p]
            crossed == If(VocOf[r.term], db[r.term].parent # p) \cup Crossed(d)
 <2>1. /\ Ends(s) /\ UNCHANGED <<dep, active, vocs, links, used, begun, merged, home>>
       /\ UNCHANGED <<db, why>> \/ (db' = d /\ Because("nest", crossed, {"updated"}))
   BY <1>5, Zenon DEF SaveParent
 <2>2. CASE UNCHANGED <<db, why>>
   BY <1>a, <2>1, <2>2 DEF ghosts
 <2> HIDE DEF crossed
 <2>3. CASE db' = d /\ Because("nest", crossed, {"updated"})
  <3>1. DOMAIN d = DOMAIN d0 /\ DOMAIN d0 = Rows
    BY PreSaveDomain DEF Rows
  <3>2. Rows' = Rows
    BY <2>3, <3>1 DEF Rows
  <3>3. MoreCauses
    BY <1>0, <2>3, BecauseCauses
  <3> QED
    BY <1>b, <2>1, <3>2, <3>3 DEF links
 <2> QED
   BY <2>1, <2>2, <2>3
<1> QED
  BY <1>1, <1>2, <1>3, <1>4, <1>5

(***************************************************************************)
(* Fewer tags.                                                             *)
(***************************************************************************)
LEMMA FewerTags ==
  ASSUME TableOK, LinksRight, tags' \subseteq tags, merged' \subseteq merged, UNCHANGED vocs, MoreCauses, Homes'
  PROVE  LinksRight'
<1>1. TagsShape' /\ Gone'
  BY DEF LinksRight, TagsShape, Gone, MoreCauses, TableOK
<1>2. OneEach'
 <2> SUFFICES ASSUME NEW v \in Vocab, NEW o \in Obj, why'.tag[v] = {}, ~vocs[v].multiple,
                     NEW t \in TaggedIn(tags', v, o), NEW u \in TaggedIn(tags', v, o)
              PROVE  t = u
   BY DEF OneEach, TaggedIn
 <2>1. why.tag[v] = {} /\ t \in TaggedIn(tags, v, o) /\ u \in TaggedIn(tags, v, o)
   BY DEF MoreCauses, TaggedIn
 <2> QED
   BY <2>1 DEF LinksRight, OneEach
<1> QED
  BY <1>1, <1>2 DEF LinksRight

LEMMA ErasedDomain ==
  ASSUME NEW S, NEW held
  PROVE  DOMAIN Erased(S, held) = Rows \ S
  BY Zenon DEF Erased

\* What deleting the terms of S leaves, apart from the calls.
LEMMA EraseKeeps ==
  ASSUME TagInv, NEW S, NEW held, EraseTerms(S, held), UNCHANGED <<vocs, used, why>>
  PROVE  TableOK' /\ LinksRight' /\ Rows' \subseteq Rows
<1>0. TableOK /\ LinksRight /\ MoreCauses
  BY SameCauses DEF TagInv, TableOK
<1> DEFINE d == Erased(S, held)
<1>1. \/ UNCHANGED <<db, active, merged, tags, home>>
      \/ db' = d /\ active' = active \ S /\ merged' = merged \ S /\ Unlink(S)
  BY Zenon DEF EraseTerms
<1>2. CASE UNCHANGED <<db, active, merged, tags, home>>
  BY <1>0, <1>2, SameRows, SteadyWhy, SteadyLinks DEF Rows
<1>3. CASE db' = d /\ active' = active \ S /\ merged' = merged \ S /\ Unlink(S)
 <2>1. Rows' = Rows \ S
   BY <1>3, ErasedDomain DEF Rows
 <2>2. TableOK'
   BY <1>0, <1>3, <2>1 DEF TableOK, MoreCauses
 <2>3. tags' = {g \in tags : g.term \notin S}
   BY <1>3 DEF Unlink
 <2>4. Homes'
  <3> SUFFICES ASSUME NEW v \in Vocab, why'.tag[v] = {}, NEW o \in home'[v]
               PROVE  \E t : t \in TaggedIn(tags', v, o)
    BY DEF Homes, TaggedIn
  <3>1. /\ home' = [x \in Vocab |-> {y \in home[x] : \E t \in Term \ S : VocOf[t] = x /\ Tag(t, y) \in tags}
                                    \cup {y \in home[x] : TaggedIn(tags, x, y) = {}}]
    BY <1>3, Zenon DEF Unlink
  <3>2. o \in home[v] /\ \/ \E t \in Term \ S : VocOf[t] = v /\ Tag(t, o) \in tags
                         \/ TaggedIn(tags, v, o) = {}
    BY <3>1
  <3>3. PICK t \in Term \ S : VocOf[t] = v /\ Tag(t, o) \in tags
    BY <1>0, <3>2 DEF LinksRight, Homes
  <3> QED
    BY <2>3, <3>3, TagFacts, TaggedFacts
 <2>5. LinksRight'
   BY <1>0, <1>3, <2>3, <2>4, FewerTags
 <2> QED
   BY <2>1, <2>2, <2>5
<1> QED
  BY <1>1, <1>2, <1>3

LEMMA TagDeletes ==
  ASSUME IInv, TagInv, NEW s \in Session
  PROVE  /\ DeleteTerm(s) => TagInv'
         /\ \A v : ClearVocabulary(s, v) => TagInv'
<1>1. ASSUME DeleteTerm(s) PROVE TagInv'
 <2> DEFINE r == call[s]  S == Subtrees(db, {r.term} \cap Rows)
            held == [t \in S |-> IF t = r.term THEN r.row ELSE db[t]]
 <2>1. EraseTerms(S, held) /\ Ends(s) /\ UNCHANGED <<vocs, used, why>>
   BY <1>1, Zenon DEF DeleteTerm
 <2> HIDE DEF S, held
 <2>2. TableOK' /\ LinksRight' /\ Rows' \subseteq Rows
   BY <2>1, EraseKeeps
 <2>3. OthersTerms(s) \cap (Rows' \ Rows) = {}
   BY <2>2
 <2> QED
   BY <2>1, <2>2, <2>3, CallEnds DEF IInv, TagInv
<1>2. ASSUME NEW v, ClearVocabulary(s, v) PROVE TagInv'
 <2>1. EraseTerms(TermsOf(v), db) /\ UNCHANGED <<vocs, used, why, call>>
   BY <1>2, Zenon DEF ClearVocabulary
 <2>2. TableOK' /\ LinksRight' /\ Rows' \subseteq Rows
   BY <2>1, EraseKeeps
 <2> QED
   BY <2>1, <2>2, CallStays DEF TagInv
<1> QED
  BY <1>1, <1>2

(***************************************************************************)
(* Settings.  A vocabulary that becomes a single-term one is marked.       *)
(***************************************************************************)
LEMMA ReconfiguredSteady ==
  ASSUME TableOK, NEW v, NEW new, Reconfigured(v, new), UNCHANGED <<tags, home, merged>>
  PROVE  Steady /\ DOMAIN vocs' = Vocab
<1> DEFINE unfit == Unfit(v, new)
           switched == If("switched", ~new.multiple /\ vocs[v].multiple)
           w1 == [why EXCEPT !.nest[v] = @ \cup unfit]
<1>0. WhyShape /\ DOMAIN vocs = Vocab
  BY DEF TableOK
<1>1. vocs' = [vocs EXCEPT ![v] = new] /\ why' = [w1 EXCEPT !.tag[v] = @ \cup switched]
  BY Zenon DEF Reconfigured
<1> HIDE DEF unfit
<1>2. DOMAIN w1 = DOMAIN why /\ w1.tag = why.tag /\ w1.late = why.late
  BY <1>0 DEF WhyShape
<1> HIDE DEF w1
<1>3. switched = {} => new.multiple \/ ~vocs[v].multiple
  BY DEF If
<1> HIDE DEF switched
<1>4. DOMAIN why' = DOMAIN why /\ why'.tag = [why.tag EXCEPT ![v] = @ \cup switched] /\ why'.late = why.late
  BY <1>0, <1>1, <1>2 DEF WhyShape
<1>5. MoreCauses
  BY <1>0, <1>4 DEF WhyShape, MoreCauses
<1>6. ASSUME NEW x \in Vocab, why'.tag[x] = {}, ~vocs'[x].multiple PROVE ~vocs[x].multiple
 <2>1. CASE x = v
  <3>1. switched = {} /\ vocs'[v] = new
    BY <1>0, <1>1, <1>4, <1>6, <2>1 DEF WhyShape
  <3> QED
    BY <1>3, <1>6, <2>1, <3>1
 <2>2. CASE x # v
   BY <1>0, <1>1, <1>6, <2>2
 <2> QED
   BY <2>1, <2>2
<1> QED
  BY <1>0, <1>1, <1>5, <1>6 DEF Steady

LEMMA TagConfigure ==
  ASSUME IInv, TagInv, NEW s \in Session, Configure(s)
  PROVE  TagInv'
<1> DEFINE r == call[s]  v == r.obj  new == [vocs[v] EXCEPT ![r.type] = r.voc[r.type]]
<1>0. TableOK /\ WhyShape
  BY DEF TagInv, TableOK
<1>1. /\ Ends(s) /\ UNCHANGED <<dep, db, active, links, used, begun, merged, home>>
      /\ UNCHANGED <<vocs, why>> \/ Reconfigured(v, new)
  BY Zenon DEF Configure
<1> HIDE DEF new
<1>2. Steady /\ DOMAIN vocs' = Vocab
 <2>1. CASE UNCHANGED <<vocs, why>>
   BY <1>0, <1>1, <2>1, SameCauses DEF Steady, links, TableOK
 <2>2. CASE Reconfigured(v, new)
   BY <1>0, <1>1, <2>2, ReconfiguredSteady DEF links
 <2> QED
   BY <1>1, <2>1, <2>2
<1>3. Rows' = Rows
  BY <1>1 DEF Rows
<1>4. TableOK'
  BY <1>0, <1>1, <1>2, <1>3 DEF TableOK, Steady, MoreCauses
<1> QED
  BY <1>1, <1>2, <1>3, <1>4, EndsSteady

(***************************************************************************)
(* Tagging.  When no cause is given the objects had none of the terms but  *)
(* the one that is replaced.                                               *)
(***************************************************************************)
LEMMA TaggedKeeps ==
  ASSUME TableOK, LinksRight, NEW t \in Rows, NEW os, NEW lost, NEW causes, Tagged(t, os, lost, causes),
         \A g \in lost : g.obj \in os,
         causes = {} /\ ~vocs[VocOf[t]].multiple => \A o \in os : TaggedIn(tags \ lost, VocOf[t], o) = {},
         UNCHANGED <<vocs, active, merged>>
  PROVE  LinksRight' /\ MoreCauses
<1> DEFINE v == VocOf[t]
           after == (tags \ lost) \cup {Tag(t, o) : o \in os}
           stale == If("stale", t \notin active)
           w1 == [why EXCEPT !.tag[v] = @ \cup causes]
<1>0. WhyShape /\ t \in Term /\ v \in Vocab
  BY VocAssumption DEF TableOK
<1>1. /\ tags' = after
      /\ home' = [u \in Vocab |-> IF u = v THEN home[u] \cup os
                                  ELSE {o \in home[u] : TaggedIn(tags, u, o) = {} \/ TaggedIn(after, u, o) # {}}]
      /\ why' = [w1 EXCEPT !.late[t] = @ \cup stale]
  BY Zenon DEF Tagged
<1>2. /\ DOMAIN w1 = DOMAIN why /\ w1.late = why.late
      /\ w1.tag = [why.tag EXCEPT ![v] = @ \cup causes]
  BY <1>0 DEF WhyShape
<1> HIDE DEF w1
<1>3. stale = {} => t \in active
  BY DEF If
<1> HIDE DEF stale
<1>4. /\ DOMAIN why' = DOMAIN why /\ why'.tag = [why.tag EXCEPT ![v] = @ \cup causes]
      /\ why'.late = [why.late EXCEPT ![t] = @ \cup stale]
  BY <1>0, <1>1, <1>2 DEF WhyShape
<1>5. MoreCauses
  BY <1>0, <1>4 DEF WhyShape, MoreCauses
<1>6. \A g : g \in after <=> (g \in tags /\ g \notin lost) \/ \E o \in os : g = Tag(t, o)
  OBVIOUS
<1> HIDE DEF after
<1>7. TagsShape'
  BY <1>1, <1>6, TagFacts DEF LinksRight, TagsShape
<1>8. Gone'
 <2> SUFFICES ASSUME NEW g \in after, g.term \in merged PROVE why'.late[g.term] # {}
   BY <1>1 DEF Gone
 <2>1. CASE g \in tags
   BY <1>5, <2>1 DEF LinksRight, Gone, MoreCauses, TableOK
 <2>2. CASE \E o \in os : g = Tag(t, o)
  <3>1. g.term = t /\ stale # {}
    BY <1>3, <2>2, TagFacts DEF TableOK
  <3> QED
    BY <1>0, <1>4, <3>1 DEF WhyShape
 <2> QED
   BY <1>6, <2>1, <2>2
<1>9. Homes'
 <2> SUFFICES ASSUME NEW u \in Vocab, why'.tag[u] = {}, NEW o \in home'[u]
              PROVE  TaggedIn(after, u, o) # {}
   BY <1>1 DEF Homes, TaggedIn
 <2>1. why.tag[u] = {}
   BY <1>5 DEF MoreCauses
 <2>2. CASE o \in os /\ u = v
   BY <1>0, <1>6, <2>2, TaggedFacts
 <2>3. CASE o \notin os /\ u = v
  <3>1. o \in home[v]
    BY <1>1, <2>3
  <3>2. PICK x : x \in TaggedIn(tags, v, o)
    BY <1>0, <2>1, <2>3, <3>1 DEF LinksRight, Homes
  <3>3. Tag(x, o) \notin lost
    BY <2>3, TagFacts
  <3> QED
    BY <1>6, <2>3, <3>2, <3>3, TaggedFacts
 <2>4. CASE u # v
  <3>1. o \in home[u] /\ (TaggedIn(tags, u, o) = {} \/ TaggedIn(after, u, o) # {})
    BY <1>1, <2>4
  <3> QED
    BY <2>1, <3>1 DEF LinksRight, Homes
 <2> QED
   BY <2>2, <2>3, <2>4
<1>10. OneEach'
 <2> SUFFICES ASSUME NEW u \in Vocab, NEW o \in Obj, why'.tag[u] = {}, ~vocs[u].multiple,
                     NEW x \in TaggedIn(after, u, o), NEW y \in TaggedIn(after, u, o)
              PROVE  x = y
   BY <1>1 DEF OneEach, TaggedIn
 <2>1. why.tag[u] = {}
   BY <1>5 DEF MoreCauses
 <2>2. CASE u = v /\ o \in os
  <3>1. causes = {}
    BY <1>0, <1>4, <2>2 DEF WhyShape
  <3>2. TaggedIn(tags \ lost, v, o) = {}
    BY <2>2, <3>1
  <3>3. \A z \in TaggedIn(after, v, o) : z = t
   <4> SUFFICES ASSUME NEW z \in TaggedIn(after, v, o) PROVE z = t
     OBVIOUS
   <4>1. Tag(z, o) \notin tags \ lost
     BY <3>2, TaggedFacts
   <4>2. PICK q \in os : Tag(z, o) = Tag(t, q)
     BY <1>6, <4>1, TaggedFacts
   <4> QED
     BY <4>2, TagFacts
  <3> QED
    BY <2>2, <3>3
 <2>3. CASE u # v \/ o \notin os
  <3>1. \A z \in TaggedIn(after, u, o) : z \in TaggedIn(tags, u, o)
   <4> SUFFICES ASSUME NEW z \in TaggedIn(after, u, o), Tag(z, o) \notin tags PROVE FALSE
     BY TaggedFacts
   <4>1. PICK q \in os : Tag(z, o) = Tag(t, q)
     BY <1>6, TaggedFacts
   <4>2. z = t /\ o = q
     BY <4>1, TagFacts
   <4> QED
     BY <2>3, <4>2, TaggedFacts
  <3> QED
    BY <2>1, <3>1 DEF LinksRight, OneEach
 <2> QED
   BY <2>2, <2>3
<1> QED
  BY <1>5, <1>7, <1>8, <1>9, <1>10 DEF LinksRight

LEMMA TagInserts ==
  ASSUME IInv, TagInv, NEW s \in Session
  PROVE  /\ InsertTag(s) => TagInv'
         /\ TagMany(s) => TagInv'
<1> DEFINE r == call[s]  v == VocOf[r.term]
<1>0. TableOK /\ WhyShape /\ LinksRight /\ TagCall(r)
  BY DEF TagInv, TableOK, CallsRight
<1>a. ASSUME Ends(s), UNCHANGED <<tree, used, merged>>, TableOK' \/ MoreCauses, LinksRight' PROVE TagInv'
 <2>1. Rows' = Rows
   BY <1>a DEF tree, Rows
 <2>2. TableOK'
   BY <1>0, <1>a, <2>1, SameRows DEF tree
 <2>3. CallsRight'
   BY <1>a, <2>1, CallEnds DEF IInv, TagInv
 <2> QED
   BY <1>a, <2>2, <2>3 DEF TagInv
<1>b. ASSUME UNCHANGED <<tree, tags, home, why, merged>> PROVE LinksRight' /\ MoreCauses
  BY <1>0, <1>b, SameCauses, SteadyWhy, SteadyLinks DEF tree
<1>1. ASSUME InsertTag(s) PROVE TagInv'
 <2> DEFINE left == tags \ Replaced(r)
            before == r.tags \ Replaced(r)
            raced == If("raced", TaggedIn(left, v, r.obj) # TaggedIn(before, v, r.obj))
            switched == If("switched", vocs[v].multiple # r.voc.multiple)
 <2>1. /\ At(s, "tag", "insert") /\ Ends(s) /\ UNCHANGED <<tree, used, merged>>
       /\ \/ r.term \in Rows /\ Tagged(r.term, {r.obj}, Replaced(r), raced \cup switched)
          \/ UNCHANGED <<tags, home, why>>
   BY <1>1, Zenon DEF InsertTag
 <2>2. CASE UNCHANGED <<tags, home, why>>
   BY <1>a, <1>b, <2>1, <2>2
 <2>3. CASE r.term \in Rows /\ Tagged(r.term, {r.obj}, Replaced(r), raced \cup switched)
  <3>1. \A g \in Replaced(r) : g.obj \in {r.obj}
    BY TagFacts DEF Replaced
  <3>2. /\ raced \cup switched = {} => TaggedIn(left, v, r.obj) = TaggedIn(before, v, r.obj)
        /\ raced \cup switched = {} => vocs[v].multiple = r.voc.multiple
    BY DEF If
  <3>3. r.voc.multiple \/ TaggedIn(before, v, r.obj) = {}
    BY <1>0, <2>1 DEF TagCall, At
  <3> HIDE DEF raced, switched
  <3>4. raced \cup switched = {} /\ ~vocs[v].multiple => TaggedIn(tags \ Replaced(r), v, r.obj) = {}
    BY <3>2, <3>3
  <3>5. LinksRight' /\ MoreCauses
    BY <1>0, <2>1, <2>3, <3>1, <3>4, TaggedKeeps DEF tree
  <3> QED
    BY <1>a, <2>1, <3>5
 <2> QED
   BY <2>1, <2>2, <2>3
<1>2. ASSUME TagMany(s) PROVE TagInv'
 <2>1. /\ Ends(s) /\ UNCHANGED <<tree, used, merged>>
       /\ \/ r.term \in Rows /\ Tagged(r.term, r.objs, {}, {"bulk"})
          \/ UNCHANGED <<tags, home, why>>
   BY <1>2, Zenon DEF TagMany
 <2>2. CASE UNCHANGED <<tags, home, why>>
   BY <1>a, <1>b, <2>1, <2>2
 <2>3. CASE r.term \in Rows /\ Tagged(r.term, r.objs, {}, {"bulk"})
  <3> DEFINE none == {}  bulk == {"bulk"}
  <3>1. (\A g \in none : g.obj \in r.objs) /\ bulk # {} /\ Tagged(r.term, r.objs, none, bulk)
    BY <2>3
  <3> HIDE DEF none, bulk
  <3>2. LinksRight' /\ MoreCauses
    BY <1>0, <2>1, <2>3, <3>1, TaggedKeeps DEF tree
  <3> QED
    BY <1>a, <2>1, <3>2
 <2> QED
   BY <2>1, <2>2, <2>3
<1> QED
  BY <1>1, <1>2

(***************************************************************************)
(* merge_terms.  An object of a comes to b unless merge_terms has seen it  *)
(* there; what it has not read stays with a.                               *)
(***************************************************************************)
LEMMA MergedTagMembers ==
  ASSUME NEW g, NEW mine, NEW old, NEW a, NEW b, NEW h
  PROVE  h \in MergedTags(g, mine, old, a, b) <=>
           \/ h \in g /\ ~\E p \in Left(mine, g) : p.is = h
           \/ \E p \in Left(mine, g) : TagMoves(old, a, b, p.was.obj) /\ h = Tag(b, p.is.obj)
  BY DEF MergedTags, GoingTags, Left, Still, Retagged

\* When the rows are those that the merge has read.
ReadTags(mine, g, old, a) == Left(mine, g) = Fetched({h \in g \cap old : h.term = a})
LEMMA MergedTagFacts ==
  ASSUME NEW g, \A h \in g : h = Tag(h.term, h.obj), NEW mine, NEW old, NEW a, NEW b, NEW h,
         ReadTags(mine, g, old, a)
  PROVE  h \in MergedTags(g, mine, old, a, b) <=>
           \/ h \in g /\ (h.term # a \/ h \notin old)
           \/ \E o \in ObjectsOf(g, a) : TagMoves(old, a, b, o) /\ h = Tag(b, o)
<1> DEFINE S == {x \in g \cap old : x.term = a}
<1>1. /\ \A p \in Left(mine, g) : p.was = p.is /\ p.is \in S
      /\ \A x \in S : [was |-> x, is |-> x] \in Left(mine, g)
  BY FetchedFacts DEF ReadTags
<1>2. (\E p \in Left(mine, g) : p.is = h) <=> h \in S
  BY <1>1
<1>3. ASSUME NEW p \in Left(mine, g), TagMoves(old, a, b, p.was.obj), h = Tag(b, p.is.obj)
      PROVE  \E o \in ObjectsOf(g, a) : TagMoves(old, a, b, o) /\ h = Tag(b, o)
  BY <1>1, <1>3 DEF ObjectsOf
<1>4. ASSUME NEW o \in ObjectsOf(g, a), TagMoves(old, a, b, o), h = Tag(b, o)
      PROVE  \E p \in Left(mine, g) : TagMoves(old, a, b, p.was.obj) /\ h = Tag(b, p.is.obj)
 <2>1. PICK x \in g : x.term = a /\ x.obj = o
   BY DEF ObjectsOf
 <2>2. x = Tag(a, o)
   BY <2>1
 <2>3. x \in S
   BY <1>4, <2>1, <2>2 DEF TagMoves
 <2> QED
   BY <1>1, <1>4, <2>1, <2>3
<1> QED
  BY <1>2, <1>3, <1>4, MergedTagMembers

LEMMA ObjectsFacts ==
  ASSUME NEW g, \A h \in g : h = Tag(h.term, h.obj), NEW t, NEW o
  PROVE  o \in ObjectsOf(g, t) <=> Tag(t, o) \in g
<1>1. o \in ObjectsOf(g, t) <=> \E h \in g : h.term = t /\ h.obj = o
  BY DEF ObjectsOf
<1> QED
  BY <1>1, TagFacts

LEMMA MergeKeepsLinks ==
  ASSUME TableOK, LinksRight, NEW a \in Rows, NEW b \in Rows, VocOf[a] = VocOf[b],
         NEW old, \A g \in old : g = Tag(g.term, g.obj),
         NEW mine, ReadTags(mine, tags, old, a), tags' = MergedTags(tags, mine, old, a, b), merged' = merged \cup {a}, UNCHANGED <<vocs, home>>,
         \A v \in Vocab : why.tag[v] \subseteq why'.tag[v],
         a = b => why'.tag[VocOf[a]] # {},
         (\E o \in ObjectsOf(tags, a) : Tag(b, o) \in old \ tags) => why'.tag[VocOf[a]] # {},
         ObjectsOf(tags, a) # ObjectsOf(old, a) => why'.late[a] # {},
         a # b /\ b \notin active => why'.late[b] # {},
         \A t \in Term \ {a} : why.late[t] \subseteq why'.late[t]
  PROVE  LinksRight'
<1> DEFINE v == VocOf[a]
<1>0. a \in Term /\ b \in Term /\ v \in Vocab
  BY VocAssumption DEF TableOK
<1>1. \A o : (o \in ObjectsOf(tags, a) <=> Tag(a, o) \in tags) /\ (o \in ObjectsOf(old, a) <=> Tag(a, o) \in old)
  BY ObjectsFacts DEF LinksRight, TagsShape
<1>2. \A h : h \in tags' <=> \/ h \in tags /\ (h.term # a \/ h \notin old)
                             \/ \E o \in ObjectsOf(tags, a) : TagMoves(old, a, b, o) /\ h = Tag(b, o)
 <2> TAKE h
 <2>1. \A g \in tags : g = Tag(g.term, g.obj)
   BY DEF LinksRight, TagsShape
 <2>2. h \in MergedTags(tags, mine, old, a, b) <=>
         \/ h \in tags /\ (h.term # a \/ h \notin old)
         \/ \E o \in ObjectsOf(tags, a) : TagMoves(old, a, b, o) /\ h = Tag(b, o)
  <3> DEFINE facts == /\ \A g \in tags : g = Tag(g.term, g.obj)
                      /\ ReadTags(mine, tags, old, a)
  <3>1. facts
    BY <2>1
  <3> QED
    BY ONLY <3>1, MergedTagFacts
 <2> QED
   BY <2>2
<1>3. \A t, o : Tag(t, o) \in tags' <=>
                  \/ Tag(t, o) \in tags /\ (t # a \/ Tag(t, o) \notin old)
                  \/ t = b /\ Tag(a, o) \in tags /\ Tag(a, o) \in old /\ Tag(b, o) \notin old
 <2> TAKE t, o
 <2>1. Tag(t, o) \in tags' <=> \/ Tag(t, o) \in tags /\ (t # a \/ Tag(t, o) \notin old)
                               \/ \E q \in ObjectsOf(tags, a) : TagMoves(old, a, b, q) /\ Tag(t, o) = Tag(b, q)
   BY <1>2, TagFacts
 <2>2. (\E q \in ObjectsOf(tags, a) : TagMoves(old, a, b, q) /\ Tag(t, o) = Tag(b, q))
         <=> t = b /\ o \in ObjectsOf(tags, a) /\ TagMoves(old, a, b, o)
   BY TagFacts
 <2> QED
   BY <1>1, <2>1, <2>2 DEF TagMoves
<1>4. TagsShape'
  BY <1>2, TagFacts DEF LinksRight, TagsShape
<1>5. Gone'
 <2> SUFFICES ASSUME NEW g \in tags', g.term \in merged \cup {a} PROVE why'.late[g.term] # {}
   BY DEF Gone
 <2> DEFINE t == g.term  o == g.obj
 <2>1. g = Tag(t, o)
   BY <1>4 DEF TagsShape
 <2> HIDE DEF t, o
 <2>2. t = g.term
   BY DEF t
 <2>3. CASE t = a
  <3>1. CASE Tag(t, o) \in tags /\ Tag(t, o) \notin old
    BY <1>1, <2>2, <2>3, <3>1
  <3>2. CASE ~(Tag(t, o) \in tags /\ Tag(t, o) \notin old)
    BY <1>3, <2>1, <2>3, <3>2
  <3> QED
    BY <3>1, <3>2
 <2>4. CASE t # a /\ Tag(t, o) \in tags
   BY <1>0, <2>1, <2>2, <2>4 DEF LinksRight, Gone, TableOK
 <2>5. CASE t # a /\ Tag(t, o) \notin tags
  <3>1. t = b
    BY <1>3, <2>1, <2>5
  <3>2. b \notin active
    BY <2>2, <2>5, <3>1 DEF TableOK
  <3> QED
    BY <2>2, <2>5, <3>1, <3>2
 <2> QED
   BY <2>3, <2>4, <2>5
<1>6. Homes'
 <2> SUFFICES ASSUME NEW u \in Vocab, why'.tag[u] = {}, NEW o \in home[u]
              PROVE  \E x : x \in TaggedIn(tags', u, o)
   BY DEF Homes, TaggedIn
 <2>1. PICK t : t \in TaggedIn(tags, u, o)
   BY <1>0 DEF LinksRight, Homes
 <2>2. t \in Term /\ VocOf[t] = u /\ Tag(t, o) \in tags
   BY <2>1, TaggedFacts
 <2>3. CASE Tag(t, o) \in tags'
   BY <2>2, <2>3, TaggedFacts
 <2>4. CASE Tag(t, o) \notin tags'
  <3>1. t = a /\ Tag(a, o) \in old /\ u = v
    BY <1>3, <2>2, <2>4
  <3>2. a # b /\ ~(Tag(b, o) \in old /\ Tag(b, o) \notin tags)
    BY <1>1, <2>2, <3>1
  <3>3. Tag(b, o) \in tags'
    BY <1>3, <2>2, <3>1, <3>2
  <3> QED
    BY <1>0, <3>1, <3>3, TaggedFacts
 <2> QED
   BY <2>3, <2>4
<1>7. OneEach'
 <2> SUFFICES ASSUME NEW u \in Vocab, NEW o \in Obj, why'.tag[u] = {}, ~vocs[u].multiple,
                     NEW x, NEW y, x \in TaggedIn(tags', u, o), y \in TaggedIn(tags', u, o)
              PROVE  x = y
   BY DEF OneEach, TaggedIn
 <2>1. \A p, q : p \in TaggedIn(tags, u, o) /\ q \in TaggedIn(tags, u, o) => p = q
   BY <1>0 DEF LinksRight, OneEach
 <2>2. /\ x \in Term /\ VocOf[x] = u /\ Tag(x, o) \in tags'
       /\ y \in Term /\ VocOf[y] = u /\ Tag(y, o) \in tags'
   BY TaggedFacts
 <2>3. CASE Tag(a, o) \in tags /\ Tag(a, o) \in old /\ u = v
  <3>1. a # b /\ a \in TaggedIn(tags, u, o)
    BY <1>0, <2>3, TaggedFacts
  <3>2. \A z \in Term : VocOf[z] = u /\ Tag(z, o) \in tags' => z = b
   <4> SUFFICES ASSUME NEW z \in Term, VocOf[z] = u, Tag(z, o) \in tags', z # b PROVE FALSE
     OBVIOUS
   <4>1. Tag(z, o) \in tags /\ (z # a \/ Tag(z, o) \notin old)
     BY <1>3
   <4>2. z \in TaggedIn(tags, u, o)
     BY <4>1, TaggedFacts
   <4> QED
     BY <2>1, <2>3, <3>1, <4>1, <4>2
  <3> QED
    BY <2>2, <3>2
 <2>4. CASE ~(Tag(a, o) \in tags /\ Tag(a, o) \in old /\ u = v)
  <3>1. \A z \in Term : VocOf[z] = u /\ Tag(z, o) \in tags' => z \in TaggedIn(tags, u, o)
    BY <1>3, <2>4, TaggedFacts
  <3> QED
    BY <2>1, <2>2, <3>1
 <2> QED
   BY <2>3, <2>4
<1> QED
  BY <1>4, <1>5, <1>6, <1>7 DEF LinksRight

\* When they are not, all the vocabularies of the rows are marked.
LEMMA StrayedKeepsLinks ==
  ASSUME TableOK, LinksRight, NEW a \in Rows, NEW b \in Rows, VocOf[a] = VocOf[b],
         NEW old, NEW mine, tags' = MergedTags(tags, mine, old, a, b),
         merged' = merged \cup {a}, UNCHANGED <<vocs, home>>,
         \A v \in Vocab : why.tag[v] \subseteq why'.tag[v],
         why'.tag[VocOf[a]] # {},
         \A p \in Left(mine, tags) : VocOf[p.is.term] \in Vocab => why'.tag[VocOf[p.is.term]] # {},
         why'.late[a] # {},
         a # b /\ b \notin active => why'.late[b] # {},
         \A t \in Term \ {a} : why.late[t] \subseteq why'.late[t]
  PROVE  LinksRight'
<1>1. \A h : h \in tags' <=> \/ h \in tags /\ ~\E p \in Left(mine, tags) : p.is = h
                             \/ \E p \in Left(mine, tags) : TagMoves(old, a, b, p.was.obj) /\ h = Tag(b, p.is.obj)
  BY MergedTagMembers
<1>2. TagsShape'
  BY <1>1, TagFacts DEF LinksRight, TagsShape
<1>3. Gone'
 <2> SUFFICES ASSUME NEW g \in tags', g.term \in merged \cup {a} PROVE why'.late[g.term] # {}
   BY DEF Gone
 <2>1. CASE g.term = a
   BY <2>1
 <2>2. CASE g.term # a /\ g \in tags
   BY <2>2 DEF LinksRight, Gone, TableOK
 <2>3. CASE g.term # a /\ g \notin tags
  <3>1. g.term = b
    BY <1>1, <2>3, TagFacts
  <3> QED
    BY <2>3, <3>1 DEF TableOK
 <2> QED
   BY <2>1, <2>2, <2>3
<1>4. ASSUME NEW u \in Vocab, why'.tag[u] = {}, NEW o PROVE TaggedIn(tags', u, o) = TaggedIn(tags, u, o)
 <2>1. ASSUME NEW t \in Term, VocOf[t] = u PROVE Tag(t, o) \in tags' <=> Tag(t, o) \in tags
  <3>1. t # b
    BY <1>4, <2>1
  <3>2. \A p \in Left(mine, tags) : p.is # Tag(t, o)
    BY <1>4, <2>1, TagFacts
  <3> QED
    BY <1>1, <3>1, <3>2, TagFacts
 <2> QED
   BY <2>1 DEF TaggedIn
<1>5. \A u \in Vocab : why'.tag[u] = {} => why.tag[u] = {}
  OBVIOUS
<1>6. Homes' /\ OneEach'
  BY <1>4, <1>5 DEF LinksRight, Homes, OneEach
<1> QED
  BY <1>2, <1>3, <1>6 DEF LinksRight

LEMMA TagMerge ==
  ASSUME IInv, TagInv, NEW s \in Session, CommitMerge(s)
  PROVE  TagInv'
<1> DEFINE r == call[s]  a == r.term  b == r.other  v == VocOf[a]
           mine == fetched[s].tags
           nest == [u \in Vocab |-> why.nest[u] \cup If("merged", u = v /\ r.kids \cap active # {})
                                            \cup If("moved", u \in Crossed(AfterMerge(r)))]
           tag == [u \in Vocab |-> why.tag[u] \cup MergedTag(s, u)]
           late == [t \in Term |-> MergedLate(s, t)]
           pair == [t \in Term |-> MergedCauses(s, t)]
           Commit == /\ {a, b} \ Rows = {}
                     /\ db' = AfterMerge(r) /\ active' = active \ {a} /\ merged' = merged \cup {a}
                     /\ tags' = MergedTags(tags, mine, r.tags, a, b) /\ home' = home
                     /\ why' = [why EXCEPT !.nest = nest,
                                           !.tag = tag,
                                           !.late = late,
                                           !.pair = pair]
<1>0. TableOK /\ WhyShape /\ LinksRight /\ MergeVoc(r)
  BY DEF TagInv, TableOK, CallsRight
<1>1. /\ At(s, "merge", "write") /\ Ends(s) /\ UNCHANGED <<vocs, used>>
      /\ UNCHANGED <<db, active, tags, rels, ghosts>> \/ Commit
  BY Zenon DEF CommitMerge, MergeFails
<1>2. CASE UNCHANGED <<db, active, tags, rels, ghosts>>
 <2>1. Steady /\ MoreCauses /\ Rows' = Rows
   BY <1>0, <1>1, <1>2, SameCauses, SteadyWhy DEF ghosts, Rows
 <2>2. TableOK'
   BY <1>0, <1>1, <1>2, <2>1, SameRows DEF ghosts
 <2> QED
   BY <1>1, <2>1, <2>2, EndsSteady
<1>3. /\ DOMAIN tag = Vocab
      /\ \A u \in Vocab : why.tag[u] \subseteq tag[u] /\ MergedTag(s, u) \subseteq tag[u]
  OBVIOUS
<1>4. /\ a = b => MergedTag(s, v) # {}
      /\ (\E o \in ObjectsOf(tags, a) : Tag(b, o) \in r.tags \ tags) => MergedTag(s, v) # {}
      /\ TagsStrayed(s) => MergedTag(s, v) # {}
      /\ TagsStrayed(s) => \A p \in Left(mine, tags) : MergedTag(s, VocOf[p.is.term]) # {}
 <2>1. \A cause, holds : holds => cause \in If(cause, holds)
   BY DEF If
 <2> QED
   BY <2>1 DEF MergedTag
<1>5. /\ DOMAIN late = Term
      /\ a \in Term /\ late[a] = {} => ~TagsStrayed(s) /\ ObjectsOf(tags, a) = ObjectsOf(r.tags, a)
      /\ \A t \in Term \ {a} : why.late[t] \subseteq late[t]
      /\ b \in Term \ {a} /\ b \notin active => late[b] # {}
  BY DEF MergedLate, If
<1>p. ~TagsStrayed(s) => ReadTags(mine, tags, r.tags, a)
  BY DEF TagsStrayed, ReadTags
<1> HIDE DEF nest, tag, late, pair
<1>6. CASE Commit
 <2>0. /\ {a, b} \ Rows = {}
       /\ db' = AfterMerge(r) /\ active' = active \ {a} /\ merged' = merged \cup {a}
       /\ tags' = MergedTags(tags, mine, r.tags, a, b) /\ home' = home
   BY <1>6
 <2>1. WhyShape' /\ why'.late = late /\ why'.tag = tag
  <3> DEFINE w1 == [why EXCEPT !.nest = nest]
             w2 == [w1 EXCEPT !.tag = tag]
             w3 == [w2 EXCEPT !.late = late]
  <3>1. why' = [w3 EXCEPT !.pair = pair]
    BY <1>6, Zenon
  <3> HIDE DEF Commit
  <3>2. DOMAIN w1 = DOMAIN why
    BY <1>0 DEF WhyShape
  <3> HIDE DEF w1
  <3>3. DOMAIN w2 = DOMAIN why /\ w2.tag = tag
    BY <1>0, <3>2 DEF WhyShape
  <3> HIDE DEF w2
  <3>4. DOMAIN w3 = DOMAIN why /\ w3.tag = tag /\ w3.late = late
    BY <1>0, <3>3 DEF WhyShape
  <3> HIDE DEF w3
  <3>5. DOMAIN why' = DOMAIN why /\ why'.tag = tag /\ why'.late = late
    BY <1>0, <3>1, <3>4 DEF WhyShape
  <3> QED
    BY <1>0, <1>3, <1>5, <3>5 DEF WhyShape
 <2> HIDE DEF Commit
 <2>2. Rows' = Rows
  <3>1. DOMAIN WithChildrenOf(r) = Rows
    BY DEF WithChildrenOf
  <3> QED
    BY <2>0, <3>1, PreSaveDomain DEF AfterMerge, Rows
 <2>3. a \in Rows /\ b \in Rows /\ a \in Term /\ b \in Term /\ v \in Vocab
   BY <1>0, <2>0, VocAssumption DEF TableOK
 <2>4. TableOK'
   BY <1>0, <1>1, <2>0, <2>1, <2>2, <2>3 DEF TableOK
 <2>5. VocOf[a] = VocOf[b] /\ \A g \in r.tags : g = Tag(g.term, g.obj)
   BY <1>0, <1>1 DEF MergeVoc, At
 <2>6. /\ \A u \in Vocab : why.tag[u] \subseteq why'.tag[u] /\ MergedTag(s, u) \subseteq why'.tag[u]
       /\ a # b /\ b \notin active => why'.late[b] # {}
       /\ \A t \in Term \ {a} : why.late[t] \subseteq why'.late[t]
   BY <1>3, <1>5, <2>1, <2>3
 <2>7. LinksRight'
  <3>1. CASE ~TagsStrayed(s)
   <4>1. /\ a = b => why'.tag[VocOf[a]] # {}
         /\ (\E o \in ObjectsOf(tags, a) : Tag(b, o) \in r.tags \ tags) => why'.tag[VocOf[a]] # {}
         /\ ObjectsOf(tags, a) # ObjectsOf(r.tags, a) => why'.late[a] # {}
     BY <1>4, <1>5, <2>1, <2>3, <2>6
   <4> QED
     BY <1>0, <1>1, <1>p, <2>0, <2>3, <2>5, <2>6, <3>1, <4>1, MergeKeepsLinks
  <3>2. CASE TagsStrayed(s)
   <4>1. /\ why'.tag[VocOf[a]] # {} /\ why'.late[a] # {}
         /\ \A p \in Left(mine, tags) : VocOf[p.is.term] \in Vocab => why'.tag[VocOf[p.is.term]] # {}
     BY <1>4, <1>5, <2>1, <2>3, <2>6, <3>2
   <4> QED
     BY <1>0, <1>1, <2>0, <2>3, <2>5, <2>6, <4>1, StrayedKeepsLinks
  <3> QED
    BY <3>1, <3>2
 <2>8. CallsRight'
   BY <1>1, <2>2, CallEnds DEF IInv, TagInv
 <2> QED
   BY <2>4, <2>7, <2>8 DEF TagInv
<1> QED
  BY <1>1, <1>2, <1>6

(***************************************************************************)
(* Untagging, cleaning up, objects.                                        *)
(***************************************************************************)
LEMMA TagRemovals ==
  ASSUME IInv, TagInv, NEW s \in Session
  PROVE  /\ \A t, o : Untag(s, t, o) => TagInv'
         /\ Cleanup(s) => TagInv'
<1>0. TableOK /\ WhyShape /\ LinksRight
  BY DEF TagInv, TableOK
<1>1. ASSUME NEW t, NEW o, Untag(s, t, o) PROVE TagInv'
 <2> DEFINE g == {Tag(t, o)}
 <2>1. /\ tags' = tags \ g /\ UNCHANGED <<tree, used, call, merged, why>>
       /\ home' = [v \in Vocab |-> {x \in home[v] : TaggedIn(tags, v, x) = {} \/ TaggedIn(tags \ g, v, x) # {}}]
   BY <1>1, Zenon DEF Untag, Untagged
 <2> HIDE DEF g
 <2>2. Rows' = Rows /\ MoreCauses
   BY <1>0, <2>1, SameCauses DEF tree, Rows
 <2>3. Homes'
  <3> SUFFICES ASSUME NEW v \in Vocab, why.tag[v] = {}, NEW x \in home'[v] PROVE TaggedIn(tags \ g, v, x) # {}
    BY <2>1 DEF Homes, TaggedIn
  <3>1. x \in home[v] /\ (TaggedIn(tags, v, x) = {} \/ TaggedIn(tags \ g, v, x) # {})
    BY <2>1
  <3> QED
    BY <1>0, <3>1 DEF LinksRight, Homes
 <2>4. TableOK'
   BY <1>0, <2>1, <2>2, SameRows DEF tree
 <2>5. LinksRight'
   BY <1>0, <2>1, <2>2, <2>3, FewerTags DEF tree
 <2>6. CallsRight'
   BY <2>1, <2>2, CallStays DEF TagInv
 <2> QED
   BY <2>4, <2>5, <2>6 DEF TagInv
<1>2. ASSUME Cleanup(s) PROVE TagInv'
 <2> DEFINE r == call[s]  orphans == {g \in tags : g.obj \notin r.objs}
            young(v) == If("young", \E g \in orphans : VocOf[g.term] = v /\ g.obj \in objs)
 <2>1. /\ tags' = tags \ orphans /\ home' = [v \in Vocab |-> home[v] \cap (objs \cup r.objs)]
       /\ why' = [why EXCEPT !.tag = [v \in Vocab |-> @[v] \cup young(v)]]
       /\ Ends(s) /\ UNCHANGED <<tree, used, merged>>
   BY <1>2, Zenon DEF Cleanup
 <2>2. \A v : young(v) = {} => ~\E g \in orphans : VocOf[g.term] = v /\ g.obj \in objs
   BY DEF If
 <2> HIDE DEF young
 <2>3. DOMAIN why' = DOMAIN why /\ why'.tag = [v \in Vocab |-> why.tag[v] \cup young(v)] /\ why'.late = why.late
   BY <1>0, <2>1 DEF WhyShape
 <2>4. MoreCauses /\ Rows' = Rows
   BY <1>0, <2>1, <2>3 DEF MoreCauses, WhyShape, tree, Rows
 <2>5. Homes'
  <3> SUFFICES ASSUME NEW v \in Vocab, why'.tag[v] = {}, NEW o \in home'[v] PROVE \E x : x \in TaggedIn(tags', v, o)
    BY DEF Homes, TaggedIn
  <3>1. why.tag[v] = {} /\ young(v) = {} /\ o \in home[v] /\ (o \in objs \/ o \in r.objs)
    BY <2>1, <2>3
  <3>2. PICK t : t \in TaggedIn(tags, v, o)
    BY <1>0, <3>1 DEF LinksRight, Homes
  <3>3. Tag(t, o) \in tags /\ VocOf[t] = v /\ t \in Term
    BY <3>2, TaggedFacts
  <3>4. Tag(t, o) \notin orphans
    BY <2>2, <3>1, <3>3, TagFacts
  <3> QED
    BY <2>1, <3>3, <3>4, TaggedFacts
 <2>6. TableOK'
   BY <1>0, <2>1, <2>4, SameRows DEF tree
 <2>7. LinksRight'
   BY <1>0, <2>1, <2>4, <2>5, FewerTags DEF tree
 <2>8. CallsRight'
   BY <2>1, <2>4, CallEnds DEF IInv, TagInv
 <2> QED
   BY <2>6, <2>7, <2>8 DEF TagInv
<1> QED
  BY <1>1, <1>2

(***************************************************************************)
(* Objects, relationships, repairs and killed calls leave the tags alone.  *)
(***************************************************************************)
LEMMA TagElsewhere ==
  ASSUME IInv, TagInv, NEW s \in Session
  PROVE  /\ \A o : NewObject(s, o) => TagInv'
         /\ \A o : DropObject(s, o) => TagInv'
         /\ \A a, b, type : Relate(s, a, b, type) => TagInv'
         /\ \A a, b, type : Unrelate(s, a, b, type) => TagInv'
         /\ SecondRelate(s) => TagInv'
         /\ \A a, b, type : EditInline(s, a, b, type) \/ EditRow(s, a, b, type) => TagInv'
         /\ FixTypes(s) => TagInv'
         /\ FixPaths(s) => TagInv'
         /\ Kill(s) => TagInv'
<1>0. TableOK /\ WhyShape
  BY DEF TagInv, TableOK
<1>a. ASSUME Rows' = Rows, UNCHANGED <<active, vocs, tags, merged, home, call>>, MoreCauses, used \subseteq used'
      PROVE  TagInv'
 <2>1. TableOK'
   BY <1>0, <1>a DEF TableOK, MoreCauses
 <2> QED
   BY <1>a, <2>1, SteadyWhy, StaysSteady
<1>b. ASSUME Rows' = Rows, UNCHANGED <<active, vocs, tags, merged, home, used>>, MoreCauses, Ends(s)
      PROVE  TagInv'
 <2>1. TableOK' /\ Steady
   BY <1>0, <1>b, SameRows, SteadyWhy
 <2> QED
   BY <1>b, <2>1, EndsSteady
<1>1. ASSUME NEW o, NewObject(s, o) PROVE TagInv'
  BY <1>0, <1>1, <1>a, SameCauses DEF NewObject, tree, ghosts, Rows
<1>2. ASSUME NEW o, DropObject(s, o) PROVE TagInv'
  BY <1>0, <1>2, <1>a, SameCauses DEF DropObject, tree, ghosts, Rows
<1>3. ASSUME NEW op \in {"relate", "unrelate"}, NEW a, NEW b, NEW type, NEW new, First(s, op, a, b, type, new)
      PROVE  TagInv'
 <2> DEFINE r0 == As(Nothing, op, "second")
            r == [r0 EXCEPT !.term = a, !.other = b, !.type = type]
 <2>1. UNCHANGED <<tree, tags, used, ghosts>> /\ (Hold(s, r) \/ UNCHANGED call)
   BY <1>3, Zenon DEF First
 <2>2. CASE UNCHANGED call
   BY <1>0, <1>a, <2>1, <2>2, SameCauses DEF tree, ghosts, Rows
 <2>3. CASE Hold(s, r)
  <3>0. DOMAIN Nothing = Fields
    BY NothingFacts
  <3>1. DOMAIN r0 = Fields /\ r0.op = op
    BY <3>0, AsFacts
  <3> HIDE DEF r0
  <3>2. r.op = op
    BY <3>1, NothingFacts
  <3> HIDE DEF r
  <3>3. NewTerm(r, used', Rows) /\ MergeVoc(r) /\ TagCall(r) /\ r.op # "create"
    BY <3>2, OtherOps
  <3> QED
    BY <2>1, <2>3, <3>3, CallOnly DEF ghosts
 <2> QED
   BY <2>1, <2>2, <2>3
<1>4. ASSUME NEW a, NEW b, NEW type, Relate(s, a, b, type) PROVE TagInv'
  BY <1>3, <1>4 DEF Relate
<1>5. ASSUME NEW a, NEW b, NEW type, Unrelate(s, a, b, type) PROVE TagInv'
  BY <1>3, <1>5 DEF Unrelate
<1>6. ASSUME SecondRelate(s) PROVE TagInv'
 <2> DEFINE r == call[s]  xs == IF PairTouched(r) THEN {r.term, r.other} ELSE {r.term, r.other} \ Rows
 <2>1. Because("pair", xs, {"raced"}) /\ Ends(s) /\ UNCHANGED <<tree, tags, used, merged, home>>
   BY <1>6, Zenon DEF SecondRelate
 <2>2. MoreCauses
   BY <1>0, <2>1, BecauseCauses
 <2> QED
   BY <1>b, <2>1, <2>2 DEF tree, Rows
<1>7. ASSUME NEW a, NEW b, NEW type, EditInline(s, a, b, type) \/ EditRow(s, a, b, type) PROVE TagInv'
 <2>1. /\ \E xs : Because("pair", xs, {"inline"})
       /\ UNCHANGED <<tree, tags, used, call, merged, home>>
   BY <1>7, Zenon DEF EditInline, EditRow
 <2>2. MoreCauses
   BY <1>0, <2>1, BecauseCauses
 <2> QED
   BY <1>a, <2>1, <2>2 DEF tree, Rows
<1>8. ASSUME FixTypes(s) PROVE TagInv'
 <2>1. Rows' = Rows /\ UNCHANGED <<active, vocs, links, used, call, ghosts>>
   BY <1>8 DEF FixTypes, Rows
 <2> QED
   BY <1>0, <1>a, <2>1, SameCauses DEF links, ghosts
<1>9. ASSUME FixPaths(s) PROVE TagInv'
 <2>1. UNCHANGED <<active, vocs, links, used, call, ghosts>> /\ \E tie : db' = Rebuilt(db, VocOf, tie) \/ db' = db
   BY <1>9, Zenon DEF FixPaths
 <2>2. Rows' = Rows
   BY <2>1, RebuiltDomain DEF Rows
 <2> QED
   BY <1>0, <1>a, <2>1, <2>2, SameCauses DEF links, ghosts
<1>10. ASSUME Kill(s) PROVE TagInv'
 <2> DEFINE r == call[s]  causes == If("killed", r.at = "second")
 <2>1. Because("pair", {r.term, r.other}, causes) /\ Ends(s) /\ UNCHANGED <<tree, tags, used, merged, home>>
   BY <1>10, Zenon DEF Kill
 <2> HIDE DEF causes
 <2>2. MoreCauses
   BY <1>0, <2>1, BecauseCauses
 <2> QED
   BY <1>b, <2>1, <2>2 DEF tree, Rows
<1> QED
  BY <1>1, <1>2, <1>4, <1>5, <1>6, <1>7, <1>8, <1>9, <1>10

LEMMA TagImport ==
  ASSUME IInv, TagInv, NEW s \in Session, Import(s)
  PROVE  TagInv'
<1> DEFINE r == call[s]  w == r.obj
<1>0. TableOK /\ WhyShape /\ IsCall(r)
  BY DEF IInv, CallsOK, TagInv, TableOK
<1>1. Ends(s) /\ r.op = "import" /\ UNCHANGED <<tags, merged, home>>
  BY Zenon DEF Import, At
<1>2. \/ UNCHANGED <<tree, rels, used, why>>
      \/ \E voc, asleep, born, awake :
           /\ born \subseteq Term \ Rows /\ awake \subseteq born
           /\ \A u \in Session \ {s} : {call[u].term, call[u].other} \cap born = {}
           /\ Rows' = Rows \cup born /\ active' = (active \ asleep) \cup awake
           /\ Reconfigured(w, voc) /\ used' = used \cup born
 <2> DEFINE doc == r.doc
            voc == IF r.live THEN [vocs[w] EXCEPT !.multiple = doc.voc.multiple, !.max = doc.voc.max] ELSE vocs[w]
            asleep == {Named(w, e.slug) : e \in {e \in Range(doc.terms) : e.slug \in Slugs(w) /\ Known(w, e) /\ ~e.live}}
            new == NewEntries(w, doc)
            named(t, i) == VocOf[t] = w /\ SlugOf[t] = doc.terms[i].slug
            born == {t \in Term \ Rows : \E i \in new : named(t, i)}
            awake == {t \in born : \E i \in new : named(t, i) /\ doc.terms[i].live}
            row(i) == RowOfNew(w, doc, active \ asleep, i)
            d == [t \in Rows \cup born |-> IF t \in Rows THEN db[t] ELSE row(CHOOSE i \in new : named(t, i))]
 <2>1. /\ \A u \in Session \ {s} : {call[u].term, call[u].other} \cap born = {}
       /\ \/ UNCHANGED <<tree, rels, used, why>>
          \/ /\ db' = d /\ active' = (active \ asleep) \cup awake
             /\ Reconfigured(w, voc) /\ used' = used \cup born
   BY Zenon DEF Import
 <2>2. born \subseteq Term \ Rows /\ awake \subseteq born
   OBVIOUS
 <2> HIDE DEF voc, asleep, born, awake, row
 <2>3. db' = d => Rows' = Rows \cup born
   BY DEF Rows
 <2> QED
   BY <2>1, <2>2, <2>3
<1>3. CASE UNCHANGED <<tree, rels, used, why>>
 <2>1. MoreCauses /\ Rows' = Rows
   BY <1>0, <1>3, SameCauses DEF tree, Rows
 <2>2. TableOK' /\ Steady
   BY <1>0, <1>1, <1>3, <2>1, SameRows, SteadyWhy DEF tree
 <2> QED
   BY <1>1, <1>3, <2>1, <2>2, EndsSteady
<1>4. ASSUME NEW voc, NEW asleep, NEW born, NEW awake,
             born \subseteq Term \ Rows, awake \subseteq born,
             \A u \in Session \ {s} : {call[u].term, call[u].other} \cap born = {},
             Rows' = Rows \cup born, active' = (active \ asleep) \cup awake,
             Reconfigured(w, voc), used' = used \cup born
      PROVE  TagInv'
 <2>1. w \in Vocab
   BY <1>0, <1>1 DEF IsCall, DocOK
 <2>2. Steady /\ DOMAIN vocs' = Vocab
   BY <1>0, <1>1, <1>4, <2>1, ReconfiguredSteady
 <2>3. merged \cap active' = {}
   BY <1>0, <1>4 DEF TableOK
 <2>4. TableOK'
   BY <1>0, <1>1, <1>4, <2>2, <2>3 DEF TableOK, Steady, MoreCauses
 <2>5. OthersTerms(s) \cap (Rows' \ Rows) = {}
   BY <1>4 DEF OthersTerms
 <2> QED
   BY <1>1, <1>4, <2>2, <2>4, <2>5, EndsSteady
<1> QED
  BY <1>2, <1>3, <1>4

LEMMA NextTagInv == IInv /\ TagInv /\ [Next]_vars => TagInv'
<1> SUFFICES ASSUME IInv, TagInv, [Next]_vars PROVE TagInv'
  OBVIOUS
<1>1. CASE UNCHANGED vars
  BY <1>1, TagStutter
<1>2. CASE Next
  BY <1>2, TagBegins, TagReads, TermSteps, TagDeletes, TagConfigure, TagMerge, TagInserts, TagRemovals,
     TagElsewhere, TagImport, Zenon DEF Next
<1> QED
  BY <1>1, <1>2

LEMMA TagInvTagsRight == TagInv => TagsRight
<1> SUFFICES ASSUME TagInv, AtRest
             PROVE  /\ \A v \in Vocab : why.tag[v] = {} =>
                         \A o \in Obj :
                           /\ ~vocs[v].multiple => Cardinality(TaggedIn(tags, v, o)) <= 1
                           /\ o \in home[v] => TaggedIn(tags, v, o) # {}
                    /\ \A t \in merged : why.late[t] = {} => ObjectsOf(tags, t) = {}
  BY Zenon DEF TagsRight
<1>1. ASSUME NEW v \in Vocab, why.tag[v] = {}, NEW o \in Obj, ~vocs[v].multiple
      PROVE  Cardinality(TaggedIn(tags, v, o)) <= 1
 <2> DEFINE S == TaggedIn(tags, v, o)
 <2>1. \A t, u \in S : t = u
   BY <1>1 DEF TagInv, LinksRight, OneEach
 <2> HIDE DEF S
 <2>2. CASE S = {}
   BY <2>2, FS_EmptySet DEF S
 <2>3. ASSUME NEW t \in S PROVE Cardinality(S) <= 1
  <3>1. S = {t}
    BY <2>1
  <3> QED
    BY <3>1, FS_Singleton
 <2> QED
   BY <2>2, <2>3 DEF S
<1>2. ASSUME NEW v \in Vocab, why.tag[v] = {}, NEW o \in home[v] PROVE TaggedIn(tags, v, o) # {}
  BY <1>2 DEF TagInv, LinksRight, Homes
<1>3. ASSUME NEW t \in merged, why.late[t] = {} PROVE ObjectsOf(tags, t) = {}
  BY <1>3 DEF TagInv, LinksRight, Gone, ObjectsOf
<1> QED
  BY <1>1, <1>2, <1>3

(* A single-term vocabulary gives an object one term, an object that was     *)
(* given a term keeps one until it is untagged, and a term that was merged   *)
(* away has none, for any terms, vocabularies, objects, sessions and         *)
(* operations, unless one of the causes that TagsRight names has come in     *)
(* between the reads and the writes of a call.                               *)
THEOREM TagsStay == Spec => []TagsRight
<1>1. Init => IInv /\ TagInv
  BY InitIInv, InitTagInv
<1>2. IInv /\ TagInv /\ [Next]_vars => (IInv /\ TagInv)'
  BY NextIInv, NextTagInv
<1>3. Spec => [](IInv /\ TagInv)
  BY <1>1, <1>2, PTL DEF Spec
<1> QED
  BY <1>3, TagInvTagsRight, PTL

(***************************************************************************)
(* Nesting.  Depth counts the terms above one along the parent key, the    *)
(* services compare the depth column; Level ties the two together, and     *)
(* Loose says that there is no cycle.  In a vocabulary without a cause no  *)
(* step changes the parent or the depth of a term, so only new terms and   *)
(* new settings matter.                                                    *)
(***************************************************************************)
Above(t, p) == p = NoParent \/ VocOf[p] = VocOf[t]     \* p may be the parent of t
Shaped(d) == \A t \in DOMAIN d : {"parent", "depth"} \subseteq DOMAIN d[t]
Parented(d) == \A t \in DOMAIN d : Above(t, d[t].parent) /\ d[t].parent \in DOMAIN d \cup {NoParent}
Level(d, t) ==
  /\ d[t].depth \in Nat
  /\ d[t].depth = IF d[t].parent = NoParent THEN 0 ELSE d[d[t].parent].depth + 1
Fits(row, voc) ==
  /\ voc.flat => row.parent = NoParent
  /\ voc.max # Unlimited => row.depth <= voc.max
Loose(v) == \A C \in SUBSET TermsOf(v) : C # {} => \E x \in C : db[x].parent \notin C
Nested(v) == Loose(v) /\ \A t \in TermsOf(v) : Level(db, t) /\ Fits(db[t], vocs[v])
NestsRight == \A v \in Vocab : why.nest[v] = {} => Nested(v)

VocsOK == vocs \in [Vocab -> Vocabulary]
NestTable == Shaped(db) /\ Parented(db) /\ VocsOK /\ DOMAIN why.nest = Vocab

(* Of a call: a save of an old instance brings the parent the table has, and *)
(* whatever it brings is of the vocabulary; a create has been checked.       *)
Savers == {"activate", "deactivate", "merge"}
SaveCall(r, given, d, nest) ==
  r.op \in Savers =>
    /\ r.term \in given /\ Above(r.term, r.row.parent)
    /\ r.term \in DOMAIN d /\ nest[VocOf[r.term]] = {} => d[r.term].parent = r.row.parent
OtherCall(r) ==
  /\ r.op = "move" => Above(r.other, r.orow.parent)
  /\ r.op = "merge" /\ r.at = "write" => \A k \in r.kids : VocOf[k] = VocOf[r.term]
  /\ r.op = "configure" => r.obj \in Vocab /\ r.type \in DOMAIN Settings /\ r.voc[r.type] \in Settings[r.type]
  /\ r.op = "import" => r.doc.voc \in Vocabulary
CreateCall(r) ==
  r.op = "create" =>
    /\ r.other # r.term
    /\ r.at = "insert" =>
         /\ {"parent", "depth"} \subseteq DOMAIN r.row /\ r.row.parent = r.other
         /\ r.row.depth = IF r.other = NoParent THEN 0 ELSE r.orow.depth + 1
         /\ ~Misplaced(VocOf[r.term], r.voc, r.other) /\ ~TooDeep(r.voc, r.other, r.row.depth)
Apart == \A s, z \in Session : call[s].op = "create" /\ call[z].op \in Savers => call[s].term # call[z].term
NestCalls ==
  /\ Apart
  /\ \A s \in Session : SaveCall(call[s], used, db, why.nest) /\ OtherCall(call[s]) /\ CreateCall(call[s])

NestInv == NestTable /\ NestsRight /\ NestCalls

(***************************************************************************)
(* Depth by the column and by the parent key.                              *)
(***************************************************************************)
LEMMA AncestorFacts ==
  ASSUME NEW x \in Rows
  PROVE  /\ x \in Lineage(db, x)
         /\ \A a \in Lineage(db, x) : a \in Rows
         /\ \A a \in Rows, C \in SUBSET Rows : a \in C /\ ClosedUnderChildren(db, C) /\ a \in Lineage(db, x) => x \in C
  BY DEF Lineage, Subtrees, Rows

LEMMA LineOfRoot ==
  ASSUME NEW x \in Rows, db[x].parent = NoParent, NoParent \notin Rows
  PROVE  Lineage(db, x) = {x}
<1>1. ASSUME NEW a \in Lineage(db, x), a # x PROVE FALSE
 <2> DEFINE C == Rows \ {x}
 <2>1. ClosedUnderChildren(db, C)
   BY DEF ClosedUnderChildren, Rows
 <2> QED
   BY <1>1, <2>1, AncestorFacts
<1> QED
  BY <1>1, AncestorFacts

LEMMA LineOfChildTerm ==
  ASSUME NEW x \in Rows, NEW p \in Rows, db[x].parent = p
  PROVE  Lineage(db, x) = Lineage(db, p) \cup {x}
<1>1. ASSUME NEW a \in Lineage(db, p) PROVE a \in Lineage(db, x)
 <2> SUFFICES ASSUME NEW C \in SUBSET DOMAIN db, {a} \subseteq C, ClosedUnderChildren(db, C) PROVE x \in C
   BY <1>1 DEF Lineage, Subtrees, Rows
 <2>1. p \in C
   BY <1>1 DEF Lineage, Subtrees
 <2> QED
   BY <2>1 DEF ClosedUnderChildren, Rows
<1>2. ASSUME NEW a \in Lineage(db, x), a # x PROVE a \in Lineage(db, p)
 <2>0. a \in Rows
   BY AncestorFacts
 <2> SUFFICES ASSUME NEW C \in SUBSET DOMAIN db, {a} \subseteq C, ClosedUnderChildren(db, C), p \notin C PROVE FALSE
   BY <2>0 DEF Lineage, Subtrees, Rows
 <2> DEFINE B == C \ {x}
 <2>1. ClosedUnderChildren(db, B)
   BY DEF ClosedUnderChildren
 <2> QED
   BY <1>2, <2>0, <2>1, AncestorFacts DEF Rows
<1> QED
  BY <1>1, <1>2, AncestorFacts

\* The terms of a vocabulary at least as deep as n are closed under children.
LEMMA DeepClosed ==
  ASSUME Parented(db), NoParent \notin Rows, NEW v, \A t \in TermsOf(v) : Level(db, t), NEW n \in Nat
  PROVE  ClosedUnderChildren(db, {y \in TermsOf(v) : db[y].depth >= n})
<1> DEFINE C == {y \in TermsOf(v) : db[y].depth >= n}
<1> SUFFICES ASSUME NEW x \in Rows, db[x].parent \in C PROVE x \in C
  BY DEF ClosedUnderChildren, Rows
<1>1. db[x].parent # NoParent /\ x \in TermsOf(v)
  BY DEF TermsOf, Parented, Above, Rows
<1>2. db[x].depth = db[db[x].parent].depth + 1 /\ db[db[x].parent].depth \in Nat
  BY <1>1 DEF Level
<1> QED
  BY <1>1, <1>2

LEMMA DepthRight ==
  ASSUME TableOK, Parented(db), NEW v, Nested(v)
  PROVE  \A t \in TermsOf(v) : t \in Rooted(db) /\ Depth(t) = db[t].depth
<1>0. NoParent \notin Rows /\ IsFiniteSet(Rows)
  BY TermAssumption, FS_Subset DEF TableOK, NoParent
<1>1. \A t \in TermsOf(v) : t \in Rows /\ Level(db, t) /\ VocOf[t] = v
  BY DEF Nested, TermsOf
<1>2. \A t \in Rows : IsFiniteSet(Lineage(db, t))
  BY <1>0, AncestorFacts, FS_Subset
<1> DEFINE Right(t) == t \in Rooted(db) /\ Cardinality(Lineage(db, t)) = db[t].depth + 1
           C == {t \in TermsOf(v) : ~Right(t)}
<1> SUFFICES C = {}
  BY <1>1 DEF Depth, Level
<1> SUFFICES ASSUME NEW x \in C, db[x].parent \notin C PROVE FALSE
 <2>1. C \in SUBSET TermsOf(v)
   OBVIOUS
 <2> HIDE DEF C
 <2> QED
   BY <2>1 DEF Nested, Loose
<1>3. x \in Rows /\ Level(db, x) /\ VocOf[x] = v
  BY <1>1
<1>4. CASE db[x].parent = NoParent
 <2>1. Lineage(db, x) = {x}
   BY <1>0, <1>3, <1>4, LineOfRoot
 <2>2. Cardinality(Lineage(db, x)) = 1
   BY <2>1, FS_Singleton
 <2>3. x \in Rooted(db)
   BY <1>3, <1>4, <2>1 DEF Rooted, Rows
 <2> QED
   BY <1>3, <1>4, <2>2, <2>3 DEF Level
<1>5. CASE db[x].parent # NoParent
 <2> DEFINE p == db[x].parent
 <2>1. p \in TermsOf(v)
   BY <1>3, <1>5 DEF Parented, Above, TermsOf, Rows
 <2>2. p \in Rows /\ p \in Rooted(db) /\ Cardinality(Lineage(db, p)) = db[p].depth + 1 /\ Level(db, p)
   BY <1>1, <2>1
 <2>3. Lineage(db, x) = Lineage(db, p) \cup {x}
   BY <1>3, <2>2, LineOfChildTerm
 <2>4. db[x].depth = db[p].depth + 1 /\ db[x].depth \in Nat /\ db[p].depth \in Nat
   BY <1>3, <1>5, <2>2 DEF Level
 <2>5. x \notin Lineage(db, p)
  <3> DEFINE B == {y \in TermsOf(v) : db[y].depth >= db[x].depth}
  <3>1. ClosedUnderChildren(db, B)
    BY <1>0, <1>1, <2>4, DeepClosed
  <3>2. x \in B /\ p \notin B /\ B \subseteq Rows
    BY <1>3, <2>4 DEF TermsOf
  <3> QED
    BY <1>3, <2>2, <3>1, <3>2, AncestorFacts
 <2>6. Cardinality(Lineage(db, x)) = db[x].depth + 1
   BY <1>2, <2>2, <2>3, <2>4, <2>5, FS_AddElement
 <2>7. x \in Rooted(db)
   BY <1>3, <2>2, <2>3 DEF Rooted, Rows
 <2> QED
   BY <2>6, <2>7
<1> QED
  BY <1>4, <1>5

LEMMA NestInvNestingRight == TableOK /\ NestInv => NestingRight
<1> SUFFICES ASSUME TableOK, NestInv PROVE NestingRight
  OBVIOUS
<1>1. SameVocabulary
 <2>1. NoParent \notin Rows
   BY TermAssumption DEF TableOK, NoParent
 <2> QED
   BY <2>1 DEF SameVocabulary, NestInv, NestTable, Parented, Above, Rows
<1>2. ASSUME NEW v \in Vocab, why.nest[v] = {}, NEW t \in TermsOf(v)
      PROVE  /\ t \in Rooted(db)
             /\ vocs[v].flat => db[t].parent = NoParent
             /\ vocs[v].max # Unlimited => Depth(t) <= vocs[v].max
 <2>1. Nested(v)
   BY <1>2 DEF NestInv, NestsRight
 <2>2. t \in Rooted(db) /\ Depth(t) = db[t].depth
   BY <2>1, DepthRight DEF NestInv, NestTable
 <2> QED
   BY <2>1, <2>2 DEF Nested, Fits
<1> QED
  BY <1>1, <1>2 DEF NestingRight

LEMMA InitNestInv == Init => NestInv
<1> SUFFICES ASSUME Init PROVE NestInv
  OBVIOUS
<1>1. PICK d \in Deployments : dep = d
  BY DEF Init
<1>2. db = d.db /\ vocs = d.vocs /\ Rows = DOMAIN d.db
  BY <1>1 DEF Init, Rows
<1>3. /\ Rows \subseteq Term /\ d.vocs \in [Vocab -> Vocabulary]
      /\ \A t \in Rows : Legal(d, VocOf[t], d.db[t])
      /\ Forest(d.db)
  BY <1>2, DeploymentsAssumption
<1>4. NestTable
 <2>1. Shaped(db) /\ Parented(db)
   BY <1>2, <1>3 DEF Shaped, Parented, Above, Legal, Rows, Blank
 <2>2. VocsOK /\ DOMAIN why.nest = Vocab
   BY <1>2, <1>3 DEF VocsOK, Init
 <2> QED
   BY <2>1, <2>2 DEF NestTable
<1>5. ASSUME NEW v \in Vocab PROVE Nested(v)
 <2>1. Loose(v)
   BY <1>2, <1>3 DEF Loose, Forest, TermsOf
 <2>2. ASSUME NEW t \in TermsOf(v) PROVE Level(db, t) /\ Fits(db[t], vocs[v])
  <3>1. t \in Rows /\ VocOf[t] = v /\ Legal(d, v, db[t]) /\ vocs[v] \in Vocabulary
    BY <1>2, <1>3 DEF TermsOf
  <3> QED
    BY <1>2, <3>1 DEF Level, Fits, Legal, Vocabulary, Unlimited, NoParent, Rows
 <2> QED
   BY <2>1, <2>2 DEF Nested
<1>6. NestCalls
  BY NothingFacts DEF Init, NestCalls, Apart, SaveCall, Savers, OtherCall, CreateCall
<1> QED
  BY <1>4, <1>5, <1>6 DEF NestInv, NestsRight

(***************************************************************************)
(* Steps.  Settled is what a step does to a vocabulary that has no cause   *)
(* yet: the terms keep their parents and depths, the new ones are right.   *)
(***************************************************************************)
MoreNest == DOMAIN why'.nest = Vocab /\ \A v \in Vocab : why.nest[v] \subseteq why'.nest[v]
Settled ==
  \A t \in Rows' : why'.nest[VocOf[t]] = {} =>
    /\ Fits(db'[t], vocs'[VocOf[t]])
    /\ t \in Rows => db'[t].parent = db[t].parent /\ db'[t].depth = db[t].depth
    /\ t \notin Rows => Level(db', t) /\ db'[t].parent \in Rows \cup {NoParent}
TableAfter == Shaped(db') /\ Parented(db') /\ VocsOK' /\ MoreNest /\ Settled

LEMMA NestsAfter ==
  ASSUME TableOK, TableOK', NestTable, NestsRight, TableAfter
  PROVE  NestTable' /\ NestsRight'
<1>0. NoParent \notin Rows' /\ Rows' \subseteq Term
  BY TermAssumption DEF TableOK, NoParent
<1>1. NestTable'
  BY DEF NestTable, TableAfter, MoreNest, Shaped, Parented
<1>2. ASSUME NEW v \in Vocab, why'.nest[v] = {} PROVE Nested(v)'
 <2>1. Nested(v)
   BY <1>2 DEF TableAfter, MoreNest, NestsRight
 <2>2. /\ \A t \in Rows' : Above(t, db'[t].parent) /\ db'[t].parent \in Rows' \cup {NoParent}
       /\ \A t \in Rows : db[t].parent \in Rows \cup {NoParent}
   BY DEF TableAfter, Parented, NestTable, Rows
 <2>3. \A t \in Rows' : VocOf[t] = v =>
         /\ Fits(db'[t], vocs'[v])
         /\ t \in Rows => db'[t].parent = db[t].parent /\ db'[t].depth = db[t].depth
         /\ t \notin Rows => Level(db', t) /\ db'[t].parent \in Rows \cup {NoParent}
   BY <1>2 DEF TableAfter, Settled
 <2>4. Loose(v)'
  <3> SUFFICES ASSUME NEW C, C \subseteq TermsOf(v)', C # {}, \A x \in C : db'[x].parent \in C
               PROVE  FALSE
    BY DEF Loose
  <3>1. \A x \in C : x \in Rows' /\ VocOf[x] = v
    BY DEF TermsOf
  <3> DEFINE B == C \cap Rows
  <3>2. B \in SUBSET TermsOf(v)
    BY <3>1 DEF TermsOf
  <3>3. \A x \in C : db'[x].parent \in Rows
    BY <1>0, <2>2, <2>3, <3>1
  <3>4. B # {}
    BY <3>3
  <3>5. PICK x \in B : db[x].parent \notin B
    BY <2>1, <3>2, <3>4 DEF Nested, Loose
  <3> QED
    BY <2>3, <3>1, <3>3, <3>5
 <2>5. ASSUME NEW t \in Rows', VocOf[t] = v PROVE Level(db', t)
  <3>1. CASE t \notin Rows
    BY <2>3, <2>5, <3>1
  <3>2. CASE t \in Rows
   <4>1. Level(db, t)
     BY <2>1, <2>5, <3>2 DEF Nested, TermsOf
   <4>2. ASSUME db[t].parent # NoParent PROVE db'[db[t].parent].depth = db[db[t].parent].depth
     BY <2>2, <2>3, <2>5, <3>2, <4>2 DEF Above
   <4> QED
     BY <2>3, <2>5, <3>2, <4>1, <4>2 DEF Level
  <3> QED
    BY <3>1, <3>2
 <2> QED
   BY <2>3, <2>4, <2>5 DEF Nested, TermsOf, Level, Fits
<1> QED
  BY <1>1, <1>2 DEF NestsRight

\* The calls after a step of s that holds r from then on.
Bystander(s, r) ==
  /\ \A z \in Session \ {s} : call[z].op \in Savers /\ r.op = "create" => call[z].term # r.term
  /\ \A z \in Session \ {s} : call[z].op = "create" /\ r.op \in Savers => call[z].term # r.term
Unborn(s) == \A z \in Session \ {s} : call[z].op \in Savers => call[z].term \notin Rows' \ Rows

LEMMA CallsAfter ==
  ASSUME CallsOK, NestCalls, TableOK', Settled, MoreNest, used \subseteq used', NEW s \in Session, NEW r,
         call' = [call EXCEPT ![s] = r], Unborn(s), Bystander(s, r),
         SaveCall(r, used', db', why'.nest), OtherCall(r), CreateCall(r)
  PROVE  NestCalls'
<1>1. call'[s] = r /\ \A z \in Session \ {s} : call'[z] = call[z]
  BY DEF CallsOK
<1>2. ASSUME NEW z \in Session \ {s} PROVE SaveCall(call[z], used', db', why'.nest)
 <2> SUFFICES ASSUME call[z].op \in Savers
              PROVE  /\ call[z].term \in used' /\ Above(call[z].term, call[z].row.parent)
                     /\ call[z].term \in Rows' /\ why'.nest[VocOf[call[z].term]] = {} =>
                          db'[call[z].term].parent = call[z].row.parent
   BY DEF SaveCall, Rows
 <2>1. /\ call[z].term \in used /\ Above(call[z].term, call[z].row.parent)
       /\ call[z].term \in Rows /\ why.nest[VocOf[call[z].term]] = {} =>
            db[call[z].term].parent = call[z].row.parent
   BY DEF NestCalls, SaveCall, Rows
 <2>2. ASSUME call[z].term \in Rows', why'.nest[VocOf[call[z].term]] = {}
       PROVE  call[z].term \in Rows /\ why.nest[VocOf[call[z].term]] = {} /\ db'[call[z].term].parent = db[call[z].term].parent
  <3>1. call[z].term \in Rows
    BY <2>2 DEF Unborn
  <3>2. VocOf[call[z].term] \in Vocab
    BY <2>2, VocAssumption DEF TableOK
  <3> QED
    BY <2>2, <3>1, <3>2 DEF Settled, MoreNest
 <2> QED
   BY <2>1, <2>2
<1>3. \A z \in Session : SaveCall(call'[z], used', db', why'.nest) /\ OtherCall(call'[z]) /\ CreateCall(call'[z])
  BY <1>1, <1>2 DEF NestCalls
<1>4. Apart'
 <2> SUFFICES ASSUME NEW x \in Session, NEW z \in Session, call'[x].op = "create", call'[z].op \in Savers
              PROVE  call'[x].term # call'[z].term
   BY DEF Apart, Savers
 <2>1. call'[x].op # call'[z].op
   BY DEF Savers
 <2>2. CASE x # s /\ z # s
   BY <1>1, <2>2 DEF NestCalls, Apart
 <2>3. CASE x = s /\ z # s
   BY <1>1, <2>3 DEF Bystander
 <2>4. CASE x # s /\ z = s
   BY <1>1, <2>4 DEF Bystander
 <2> QED
   BY <2>1, <2>2, <2>3, <2>4
<1> QED
  BY <1>3, <1>4 DEF NestCalls, SaveCall, OtherCall, CreateCall, Savers

NoNest(r) == r.op \notin Savers \cup {"create", "move", "merge", "configure", "import"}

LEMMA NothingNest ==
  ASSUME NEW r, NoNest(r), NEW given, NEW d, NEW nest, NEW s
  PROVE  SaveCall(r, given, d, nest) /\ OtherCall(r) /\ CreateCall(r) /\ Bystander(s, r)
  BY DEF NoNest, SaveCall, OtherCall, CreateCall, Bystander

(***************************************************************************)
(* Steps that leave the table alone.                                       *)
(***************************************************************************)
Untouched == UNCHANGED tree /\ why'.nest = why.nest /\ used \subseteq used'

LEMMA UntouchedAfter ==
  ASSUME TableOK, NestTable, NestsRight, Untouched
  PROVE  TableAfter /\ Rows' = Rows
<1>1. Rows' = Rows /\ db' = db /\ vocs' = vocs
  BY DEF Untouched, tree, Rows
<1>2. Settled
 <2> SUFFICES ASSUME NEW t \in Rows, why.nest[VocOf[t]] = {} PROVE Fits(db[t], vocs[VocOf[t]])
   BY <1>1 DEF Settled, Untouched
 <2>1. VocOf[t] \in Vocab
   BY VocAssumption DEF TableOK
 <2> QED
   BY <2>1 DEF NestsRight, Nested, TermsOf
<1> QED
  BY <1>1, <1>2 DEF TableAfter, NestTable, MoreNest, Untouched, VocsOK

\* A step of a call that goes on, or begins, with r.
LEMMA NestCallOnly ==
  ASSUME IInv, TagInv, TagInv', NestInv, NEW s \in Session, NEW r, Hold(s, r), Untouched,
         SaveCall(r, used', db, why.nest), OtherCall(r), CreateCall(r), Bystander(s, r)
  PROVE  NestInv'
<1>1. TableOK /\ TableOK' /\ CallsOK /\ NestTable /\ NestsRight /\ NestCalls
  BY DEF IInv, TagInv, NestInv
<1>2. TableAfter /\ Rows' = Rows
  BY <1>1, UntouchedAfter
<1>3. Unborn(s)
  BY <1>2 DEF Unborn
<1>4. NestCalls'
  BY <1>1, <1>2, <1>3, CallsAfter DEF Hold, Untouched, TableAfter, tree
<1> QED
  BY <1>1, <1>2, <1>4, NestsAfter DEF NestInv

LEMMA NestNone ==
  ASSUME IInv, TagInv, TagInv', NestInv, NEW s \in Session, NEW r, Hold(s, r), Untouched, NoNest(r)
  PROVE  NestInv'
  BY NothingNest, NestCallOnly

LEMMA NestEnds ==
  ASSUME IInv, TagInv, TagInv', NestInv, NEW s \in Session, Ends(s), Untouched
  PROVE  NestInv'
<1>1. NoNest(Nothing)
  BY NothingFacts DEF NoNest, Savers
<1> QED
  BY <1>1, NestNone DEF Ends

\* A step that writes the table and ends a call, or is no part of one.
LEMMA NestWrites ==
  ASSUME IInv, TagInv, TagInv', NestInv, NEW s \in Session, Ends(s) \/ (UNCHANGED call /\ Rows' \subseteq Rows),
         TableAfter, used \subseteq used', Unborn(s)
  PROVE  NestInv'
<1>1. TableOK /\ TableOK' /\ CallsOK /\ NestTable /\ NestsRight /\ NestCalls /\ Settled /\ MoreNest
  BY DEF IInv, TagInv, NestInv, TableAfter
<1>2. NestTable' /\ NestsRight'
  BY <1>1, NestsAfter
<1>3. CASE Ends(s)
 <2>1. NoNest(Nothing)
   BY NothingFacts DEF NoNest, Savers
 <2>2. /\ SaveCall(Nothing, used', db', why'.nest) /\ OtherCall(Nothing) /\ CreateCall(Nothing) /\ Bystander(s, Nothing)
       /\ call' = [call EXCEPT ![s] = Nothing]
   BY <1>3, <2>1, NothingNest DEF Ends, Hold
 <2>3. NestCalls'
   BY <1>1, <2>2, CallsAfter
 <2> QED
   BY <1>2, <2>3 DEF NestInv
<1>4. CASE UNCHANGED call /\ Rows' \subseteq Rows
 <2>1. ASSUME NEW r, r = call[s] PROVE NestCalls'
  <3>1. call' = [call EXCEPT ![s] = r]
    BY <1>1, <1>4, <2>1 DEF CallsOK
  <3>2. OtherCall(r) /\ CreateCall(r) /\ Bystander(s, r)
    BY <1>1, <2>1 DEF NestCalls, Apart, Bystander
  <3>3. SaveCall(r, used, db, why.nest)
    BY <1>1, <2>1 DEF NestCalls
  <3>4. SaveCall(r, used', db', why'.nest)
   <4> SUFFICES ASSUME r.op \in Savers, r.term \in Rows', why'.nest[VocOf[r.term]] = {}
                PROVE  db'[r.term].parent = r.row.parent
     BY <3>3 DEF SaveCall, Rows
   <4>1. r.term \in Rows /\ VocOf[r.term] \in Vocab
     BY <1>1, <1>4, VocAssumption DEF TableOK
   <4> QED
     BY <1>1, <3>3, <4>1 DEF SaveCall, Settled, MoreNest, Rows
  <3> QED
    BY <1>1, <3>1, <3>2, <3>4, CallsAfter
 <2> QED
   BY <1>2, <2>1 DEF NestInv
<1> QED
  BY <1>3, <1>4

LEMMA NestStays ==
  ASSUME IInv, TagInv, TagInv', NestInv, NEW s \in Session, UNCHANGED call, Untouched
  PROVE  NestInv'
<1>1. TableAfter /\ Rows' = Rows
  BY UntouchedAfter DEF TagInv, NestInv
<1>2. Unborn(s)
  BY <1>1 DEF Unborn
<1> QED
  BY <1>1, <1>2, NestWrites DEF Untouched

\* The same vocabularies, and no more terms than before.
LEMMA NestSame ==
  ASSUME IInv, TagInv, TagInv', NestInv, NEW s \in Session, Ends(s) \/ UNCHANGED call,
         Rows' \subseteq Rows, UNCHANGED vocs, used \subseteq used', Shaped(db'), Parented(db'), MoreNest,
         \A t \in Rows' : why'.nest[VocOf[t]] = {} => db'[t].parent = db[t].parent /\ db'[t].depth = db[t].depth
  PROVE  NestInv'
<1>1. Settled
 <2> SUFFICES ASSUME NEW t \in Rows', why'.nest[VocOf[t]] = {} PROVE Fits(db'[t], vocs[VocOf[t]])
   BY DEF Settled
 <2>1. VocOf[t] \in Vocab /\ t \in Rows
   BY VocAssumption DEF TagInv, TableOK
 <2>2. Fits(db[t], vocs[VocOf[t]])
   BY <2>1 DEF MoreNest, NestInv, NestsRight, Nested, TermsOf
 <2> QED
   BY <2>2 DEF Fits
<1>2. TableAfter
  BY <1>1 DEF TableAfter, NestInv, NestTable, VocsOK
<1>3. Unborn(s)
  BY DEF Unborn
<1> QED
  BY <1>2, <1>3, NestWrites

(***************************************************************************)
(* Causes.                                                                 *)
(***************************************************************************)
LEMMA NestBecause ==
  ASSUME WhyShape, DOMAIN why.nest = Vocab, NEW xs, NEW causes, Because("nest", xs, causes)
  PROVE  MoreNest /\ \A v \in Vocab : why'.nest[v] = {} /\ v \in xs => causes = {}
<1>1. why'.nest = [v \in Vocab |-> IF v \in xs THEN why.nest[v] \cup causes ELSE why.nest[v]]
  BY DEF Because, WhyShape
<1> QED
  BY <1>1 DEF MoreNest

LEMMA NestElsewhere ==
  ASSUME WhyShape, NEW xs, NEW causes, Because("pair", xs, causes)
  PROVE  why'.nest = why.nest
  BY DEF Because, WhyShape

LEMMA NestTagged ==
  ASSUME WhyShape, NEW t, NEW os, NEW lost, NEW causes, Tagged(t, os, lost, causes)
  PROVE  why'.nest = why.nest
<1> DEFINE w1 == [why EXCEPT !.tag[VocOf[t]] = @ \cup causes]
           late == If("stale", t \notin active)
<1>1. why' = [w1 EXCEPT !.late[t] = @ \cup late]
  BY Zenon DEF Tagged
<1>2. DOMAIN w1 = DOMAIN why /\ w1.nest = why.nest
  BY DEF WhyShape
<1> HIDE DEF w1, late
<1> QED
  BY <1>1, <1>2 DEF WhyShape

LEMMA NestReconfigured ==
  ASSUME WhyShape, DOMAIN why.nest = Vocab, NEW v, NEW new, Reconfigured(v, new)
  PROVE  MoreNest /\ (v \in Vocab /\ why'.nest[v] = {} => Unfit(v, new) = {})
<1> DEFINE unfit == Unfit(v, new)
           switched == If("switched", ~new.multiple /\ vocs[v].multiple)
           w1 == [why EXCEPT !.nest[v] = @ \cup unfit]
<1>1. why' = [w1 EXCEPT !.tag[v] = @ \cup switched]
  BY Zenon DEF Reconfigured
<1> HIDE DEF unfit, switched
<1>2. DOMAIN w1 = DOMAIN why /\ w1.nest = [why.nest EXCEPT ![v] = @ \cup unfit]
  BY DEF WhyShape
<1> HIDE DEF w1
<1>3. why'.nest = w1.nest
  BY <1>1, <1>2 DEF WhyShape
<1>4. MoreNest /\ (v \in Vocab /\ why'.nest[v] = {} => unfit = {})
  BY <1>2, <1>3 DEF MoreNest
<1> QED
  BY <1>4 DEF unfit

(***************************************************************************)
(* Calls that begin.                                                       *)
(***************************************************************************)
LEMMA HeldFacts ==
  ASSUME NEW t, NEW u
  PROVE  /\ With(t).row = RowOf(t)
         /\ WithTwo(t, u).row = RowOf(t) /\ WithTwo(t, u).orow = RowOf(u)
<1> DEFINE r1 == [Nothing EXCEPT !.term = t]
           r2 == [r1 EXCEPT !.row = RowOf(t)]
           r3 == [r2 EXCEPT !.live = (t \in active)]
           r4 == [r3 EXCEPT !.voc = IF t = NoParent THEN NoVoc ELSE vocs[VocOf[t]]]
           r5 == [r4 EXCEPT !.other = u]
           r6 == [r5 EXCEPT !.orow = RowOf(u)]
<1>1. With(t) = r4 /\ WithTwo(t, u) = r6
  BY Zenon DEF With, WithTwo
<1>2. DOMAIN r1 = Fields
  BY NothingFacts
<1> HIDE DEF r1
<1>3. DOMAIN r2 = Fields /\ r2.row = RowOf(t)
  BY <1>2, NothingFacts
<1> HIDE DEF r2
<1>4. DOMAIN r3 = Fields /\ r3.row = RowOf(t)
  BY <1>3
<1> HIDE DEF r3
<1>5. DOMAIN r4 = Fields /\ r4.row = RowOf(t)
  BY <1>4
<1> HIDE DEF r4
<1>6. DOMAIN r5 = Fields /\ r5.row = RowOf(t)
  BY <1>5
<1> HIDE DEF r5
<1>7. DOMAIN r6 = Fields /\ r6.row = RowOf(t) /\ r6.orow = RowOf(u)
  BY <1>6, NothingFacts
<1> QED
  BY <1>1, <1>5, <1>7

\* A saver begins with the row the table has.
LEMMA SaverBegins ==
  ASSUME TagInv, NestInv, NEW r, NEW t \in Rows, r.op \in Savers, r.at # "write",
         r.term = t, r.row = RowOf(t), NEW s
  PROVE  SaveCall(r, used, db, why.nest) /\ OtherCall(r) /\ CreateCall(r) /\ Bystander(s, r)
<1>1. t \in used /\ RowOf(t) = db[t] /\ Above(t, db[t].parent)
  BY TermAssumption DEF TagInv, TableOK, RowOf, NoParent, NestInv, NestTable, Parented, Rows
<1>2. SaveCall(r, used, db, why.nest)
  BY <1>1 DEF SaveCall
<1>3. OtherCall(r) /\ CreateCall(r)
  BY DEF OtherCall, CreateCall, Savers
<1>4. Bystander(s, r)
  BY DEF Bystander, Savers, TagInv, CallsRight, NewTerm
<1> QED
  BY <1>2, <1>3, <1>4

LEMMA NestBeginsOther ==
  ASSUME IInv, TagInv, TagInv', NestInv, NEW s \in Session, NEW r, NEW op, NEW at, DOMAIN r = Fields,
         Hold(s, As(r, op, at)), op \notin Savers \cup {"create", "move", "merge", "configure", "import"},
         UNCHANGED <<tree, links, used, ghosts>>
  PROVE  NestInv'
<1>1. NoNest(As(r, op, at))
  BY AsFacts DEF NoNest
<1>2. Untouched
  BY DEF Untouched, ghosts
<1> QED
  BY <1>1, <1>2, NestNone

LEMMA NestBegins ==
  ASSUME IInv, TagInv, TagInv', NestInv, NEW s \in Session
  PROVE  /\ \A t \in Term, p \in Rows \cup {NoParent} : BeginCreate(s, t, p) => NestInv'
         /\ \A t, u \in Rows : \A pos : BeginMove(s, t, u, pos) => NestInv'
         /\ \A t \in Rows : \A op : BeginSave(s, t, op) => NestInv'
         /\ \A t, p : BeginReparent(s, t, p) => NestInv'
         /\ \A t : BeginDelete(s, t) => NestInv'
         /\ \A v \in Vocab, field \in DOMAIN Settings : \A value \in Settings[field] :
              BeginConfigure(s, v, field, value) => NestInv'
         /\ \A a, b, strategy : BeginMerge(s, a, b, strategy) => NestInv'
         /\ \A t, o, old : BeginTag(s, t, o, old) => NestInv'
         /\ \A t, os : BeginTagMany(s, t, os) => NestInv'
         /\ BeginCleanup(s) => NestInv'
         /\ \A v, w \in Vocab : \A all : BeginImport(s, v, w, all) => NestInv'
<1>0. ASSUME UNCHANGED tree, UNCHANGED why, used \subseteq used' PROVE Untouched
  BY <1>0 DEF Untouched
<1>1. ASSUME NEW t \in Term, NEW p \in Rows \cup {NoParent}, BeginCreate(s, t, p) PROVE NestInv'
 <2> DEFINE r0 == WithTwo(NoParent, p)
            r1 == [r0 EXCEPT !.term = t, !.voc = vocs[VocOf[t]]]
            r == As(r1, "create", "check")
 <2>0. DOMAIN r0 = Fields /\ r0.other = p
   BY WithFacts
 <2>a. Hold(s, r) /\ t \notin used /\ used' = used \cup {t} /\ UNCHANGED <<tree, why>>
   BY <1>1 DEF BeginCreate, ghosts
 <2> HIDE DEF r0
 <2>1. DOMAIN r1 = Fields /\ r1.term = t /\ r1.other = p
   BY <2>0, NothingFacts
 <2> HIDE DEF r1
 <2>2. r.op = "create" /\ r.at = "check" /\ r.term = t /\ r.other = p
  <3>1. r.op = "create" /\ r.at = "check" /\ \A f \in Fields \ {"op", "at"} : r[f] = r1[f]
    BY <2>1, AsFacts
  <3> QED
    BY <2>1, <3>1, NothingFacts
 <2> HIDE DEF r
 <2>3. t # p
   BY <2>a, TermAssumption DEF TagInv, TableOK, NoParent
 <2>4. SaveCall(r, used', db, why.nest) /\ OtherCall(r) /\ CreateCall(r)
   BY <2>2, <2>3 DEF SaveCall, OtherCall, CreateCall, Savers
 <2>5. Bystander(s, r)
   BY <2>2, <2>a DEF Bystander, NestInv, NestCalls, SaveCall, Savers
 <2> QED
   BY <1>0, <2>a, <2>4, <2>5, NestCallOnly
<1>2. ASSUME NEW t \in Rows, NEW u \in Rows, NEW pos, BeginMove(s, t, u, pos) PROVE NestInv'
 <2> DEFINE r0 == WithTwo(t, u)
            r1 == [r0 EXCEPT !.pos = pos]
            r == As(r1, "move", "move")
 <2>0. DOMAIN r0 = Fields /\ r0.other = u /\ r0.orow = RowOf(u)
   BY WithFacts, HeldFacts
 <2>a. Hold(s, r) /\ UNCHANGED <<tree, used, why>>
   BY <1>2 DEF BeginMove, ghosts
 <2> HIDE DEF r0
 <2>1. DOMAIN r1 = Fields /\ r1.other = u /\ r1.orow = RowOf(u)
   BY <2>0, NothingFacts
 <2> HIDE DEF r1
 <2>2. r.op = "move" /\ r.other = u /\ r.orow = RowOf(u)
  <3>1. r.op = "move" /\ \A f \in Fields \ {"op", "at"} : r[f] = r1[f]
    BY <2>1, AsFacts
  <3> QED
    BY <2>1, <3>1, NothingFacts
 <2> HIDE DEF r
 <2>3. RowOf(u) = db[u] /\ Above(u, db[u].parent)
   BY TermAssumption DEF TagInv, TableOK, RowOf, NoParent, NestInv, NestTable, Parented, Rows
 <2>4. SaveCall(r, used', db, why.nest) /\ OtherCall(r) /\ CreateCall(r) /\ Bystander(s, r)
   BY <2>2, <2>3 DEF SaveCall, OtherCall, CreateCall, Savers, Bystander
 <2> QED
   BY <1>0, <2>a, <2>4, NestCallOnly
<1>3. ASSUME NEW t \in Rows, NEW op, BeginSave(s, t, op) PROVE NestInv'
 <2> DEFINE r0 == With(t)
            r == As(r0, op, "save")
 <2>0. DOMAIN r0 = Fields /\ r0.term = t /\ r0.row = RowOf(t)
   BY WithFacts, HeldFacts
 <2>a. Hold(s, r) /\ UNCHANGED <<tree, used, why>> /\ op \in {"activate", "deactivate"}
   BY <1>3 DEF BeginSave, ghosts
 <2> HIDE DEF r0
 <2>2. r.op = op /\ r.at = "save" /\ r.term = t /\ r.row = RowOf(t)
  <3>1. r.op = op /\ r.at = "save" /\ \A f \in Fields \ {"op", "at"} : r[f] = r0[f]
    BY <2>0, AsFacts
  <3> QED
    BY <2>0, <3>1, NothingFacts
 <2> HIDE DEF r
 <2>3. r.op \in Savers
   BY <2>2, <2>a DEF Savers
 <2>4. SaveCall(r, used, db, why.nest) /\ OtherCall(r) /\ CreateCall(r) /\ Bystander(s, r)
   BY <2>2, <2>3, SaverBegins
 <2> QED
   BY <1>0, <2>a, <2>4, NestCallOnly
<1>4. ASSUME NEW t, NEW p, BeginReparent(s, t, p) PROVE NestInv'
  BY <1>4, WithFacts, NestBeginsOther DEF BeginReparent, Savers
<1>5. ASSUME NEW t, BeginDelete(s, t) PROVE NestInv'
  BY <1>5, WithFacts, NestBeginsOther DEF BeginDelete, Savers
<1>6. ASSUME NEW v \in Vocab, NEW field \in DOMAIN Settings, NEW value \in Settings[field],
             BeginConfigure(s, v, field, value)
      PROVE  NestInv'
 <2> DEFINE voc == [vocs[v] EXCEPT ![field] = value]
            r1 == [Nothing EXCEPT !.obj = v, !.type = field, !.voc = voc]
            r == As(r1, "configure", "save")
 <2>a. Hold(s, r) /\ UNCHANGED <<tree, used, why>>
   BY <1>6 DEF BeginConfigure, ghosts
 <2>0. voc[field] = value
   BY DEF NestInv, NestTable, VocsOK, Vocabulary, Settings
 <2> HIDE DEF voc
 <2>1. DOMAIN r1 = Fields /\ r1.obj = v /\ r1.type = field /\ r1.voc = voc
   BY NothingFacts
 <2> HIDE DEF r1
 <2>2. r.op = "configure" /\ r.obj = v /\ r.type = field /\ r.voc = voc
  <3>1. r.op = "configure" /\ \A f \in Fields \ {"op", "at"} : r[f] = r1[f]
    BY <2>1, AsFacts
  <3> QED
    BY <2>1, <3>1, NothingFacts
 <2> HIDE DEF r
 <2>4. SaveCall(r, used', db, why.nest) /\ OtherCall(r) /\ CreateCall(r) /\ Bystander(s, r)
   BY <2>0, <2>2 DEF SaveCall, OtherCall, CreateCall, Savers, Bystander
 <2> QED
   BY <1>0, <2>a, <2>4, NestCallOnly
<1>7. ASSUME NEW a, NEW b, NEW strategy, BeginMerge(s, a, b, strategy) PROVE NestInv'
 <2> DEFINE r0 == WithTwo(a, b)
            r1 == [r0 EXCEPT !.pos = strategy]
            r == As(r1, "merge", "read")
 <2>0. DOMAIN r0 = Fields /\ r0.term = a /\ r0.row = RowOf(a)
   BY WithFacts, HeldFacts
 <2>a. Hold(s, r) /\ UNCHANGED <<tree, used, why>> /\ a \in Rows
   BY <1>7 DEF BeginMerge, ghosts
 <2> HIDE DEF r0
 <2>1. DOMAIN r1 = Fields /\ r1.term = a /\ r1.row = RowOf(a)
   BY <2>0, NothingFacts
 <2> HIDE DEF r1
 <2>2. r.op = "merge" /\ r.at = "read" /\ r.term = a /\ r.row = RowOf(a)
  <3>1. r.op = "merge" /\ r.at = "read" /\ \A f \in Fields \ {"op", "at"} : r[f] = r1[f]
    BY <2>1, AsFacts
  <3> QED
    BY <2>1, <3>1, NothingFacts
 <2> HIDE DEF r
 <2>3. r.op \in Savers
   BY <2>2 DEF Savers
 <2>4. SaveCall(r, used, db, why.nest) /\ OtherCall(r) /\ CreateCall(r) /\ Bystander(s, r)
   BY <2>2, <2>3, <2>a, SaverBegins
 <2> QED
   BY <1>0, <2>a, <2>4, NestCallOnly
<1>8. ASSUME NEW t, NEW o, NEW old, BeginTag(s, t, o, old) PROVE NestInv'
 <2> DEFINE r0 == With(t)
            r == [r0 EXCEPT !.op = "tag", !.at = "check", !.obj = o, !.other = old]
 <2>1. DOMAIN r0 = Fields
   BY WithFacts
 <2>2. Hold(s, r) /\ UNCHANGED <<tree, used, why>>
   BY <1>8 DEF BeginTag, ghosts
 <2> HIDE DEF r0
 <2>3. NoNest(r)
   BY <2>1, NothingFacts DEF NoNest, Savers
 <2> HIDE DEF r
 <2> QED
   BY <1>0, <2>2, <2>3, NestNone
<1>9. ASSUME NEW t, NEW os, BeginTagMany(s, t, os) PROVE NestInv'
 <2> DEFINE r0 == As(With(t), "tag_many", "insert")
            r == [r0 EXCEPT !.objs = os]
 <2>1. DOMAIN r0 = Fields /\ r0.op = "tag_many"
   BY WithFacts, AsFacts
 <2>2. Hold(s, r) /\ UNCHANGED <<tree, used, why>>
   BY <1>9 DEF BeginTagMany, ghosts
 <2> HIDE DEF r0
 <2>3. NoNest(r)
   BY <2>1, NothingFacts DEF NoNest, Savers
 <2> HIDE DEF r
 <2> QED
   BY <1>0, <2>2, <2>3, NestNone
<1>10. ASSUME BeginCleanup(s) PROVE NestInv'
 <2> DEFINE r0 == As(Nothing, "cleanup", "delete")
            r == [r0 EXCEPT !.objs = objs]
 <2>0. DOMAIN Nothing = Fields
   BY NothingFacts
 <2>1. DOMAIN r0 = Fields /\ r0.op = "cleanup"
   BY <2>0, AsFacts
 <2>2. Hold(s, r) /\ UNCHANGED <<tree, used, why>>
   BY <1>10 DEF BeginCleanup, ghosts
 <2> HIDE DEF r0
 <2>3. NoNest(r)
   BY <2>1, NothingFacts DEF NoNest, Savers
 <2> HIDE DEF r
 <2> QED
   BY <1>0, <2>2, <2>3, NestNone
<1>11. ASSUME NEW v \in Vocab, NEW w \in Vocab, NEW all, BeginImport(s, v, w, all) PROVE NestInv'
 <2> DEFINE r0 == As(Nothing, "import", "import")
            doc == Exported(v, all)
            same == (v = w)
            r == [r0 EXCEPT !.obj = w, !.doc = doc, !.live = same]
 <2>0. DOMAIN Nothing = Fields
   BY NothingFacts
 <2>1. DOMAIN r0 = Fields /\ r0.op = "import"
   BY <2>0, AsFacts
 <2>2. Hold(s, r) /\ UNCHANGED <<tree, used, why>>
   BY <1>11 DEF BeginImport, ghosts
 <2>3. doc.voc \in Vocabulary
   BY DEF Exported, NestInv, NestTable, VocsOK
 <2> HIDE DEF r0, doc, same
 <2>4. r.op = "import" /\ r.doc = doc
   BY <2>1, NothingFacts
 <2> HIDE DEF r
 <2>5. SaveCall(r, used', db, why.nest) /\ OtherCall(r) /\ CreateCall(r) /\ Bystander(s, r)
   BY <2>3, <2>4 DEF SaveCall, OtherCall, CreateCall, Savers, Bystander
 <2> QED
   BY <1>0, <2>2, <2>5, NestCallOnly
<1> QED
  BY <1>1, <1>2, <1>3, <1>4, <1>5, <1>6, <1>7, <1>8, <1>9, <1>10, <1>11

(***************************************************************************)
(* Calls that read, and what is not about the table.                       *)
(***************************************************************************)
LEMMA NestReads ==
  ASSUME IInv, TagInv, TagInv', NestInv, NEW s \in Session
  PROVE  /\ CheckCreate(s) => NestInv'
         /\ ReadMerge(s) => NestInv'
         /\ CheckTag(s) => NestInv'
<1>0. /\ IsCall(call[s]) /\ SaveCall(call[s], used, db, why.nest) /\ OtherCall(call[s]) /\ CreateCall(call[s])
      /\ Parented(db)
  BY DEF IInv, CallsOK, NestInv, NestCalls, NestTable
<1>a. ASSUME UNCHANGED <<tree, used, ghosts>> PROVE Untouched
  BY <1>a DEF Untouched, ghosts
<1>b. ASSUME NEW r, r.term = call[s].term, r.op = call[s].op PROVE Bystander(s, r)
  BY <1>b DEF NestInv, NestCalls, Apart, Bystander
<1>1. ASSUME CheckCreate(s) PROVE NestInv'
 <2> DEFINE r0 == call[s]
            row == RowForInsert(Siblings(r0.other, VocOf[r0.term]), r0.other, r0.orow)
            r == [r0 EXCEPT !.at = "insert", !.row = row]
 <2>1. /\ At(s, "create", "check") /\ UNCHANGED <<tree, links, used, ghosts>>
       /\ \/ Ends(s)
          \/ /\ Hold(s, r)
             /\ ~Misplaced(VocOf[r0.term], r0.voc, r0.other) /\ ~TooDeep(r0.voc, r0.other, r0.orow.depth + 1)
   BY <1>1, Zenon DEF CheckCreate
 <2>2. DOMAIN r0 = Fields /\ r0.op = "create"
   BY <1>0, <2>1 DEF IsCall, At
 <2>3. /\ {"parent", "depth"} \subseteq DOMAIN row /\ row.parent = r0.other
       /\ row.depth = IF r0.other = NoParent THEN 0 ELSE r0.orow.depth + 1
   BY DEF RowForInsert
 <2> HIDE DEF row
 <2>4. /\ r.op = "create" /\ r.term = r0.term /\ r.other = r0.other /\ r.voc = r0.voc
       /\ r.orow = r0.orow /\ r.row = row
   BY <2>2, NothingFacts
 <2> HIDE DEF r
 <2>5. CASE Ends(s)
   BY <1>a, <2>1, <2>5, NestEnds
 <2>6. CASE /\ Hold(s, r)
            /\ ~Misplaced(VocOf[r0.term], r0.voc, r0.other) /\ ~TooDeep(r0.voc, r0.other, r0.orow.depth + 1)
  <3>1. CreateCall(r)
    BY <1>0, <2>2, <2>3, <2>4, <2>6 DEF CreateCall, TooDeep
  <3>2. SaveCall(r, used', db, why.nest) /\ OtherCall(r) /\ Bystander(s, r)
    BY <1>b, <2>2, <2>4 DEF SaveCall, OtherCall, Savers
  <3> QED
    BY <1>a, <2>1, <2>6, <3>1, <3>2, NestCallOnly
 <2> QED
   BY <2>1, <2>5, <2>6
<1>2. ASSUME ReadMerge(s) PROVE NestInv'
 <2> DEFINE r0 == call[s]
            kids == Children(db, Rows, r0.term)
            r == [r0 EXCEPT !.at = "write", !.kids = kids, !.tags = tags, !.rels = rels]
 <2>1. /\ At(s, "merge", "read") /\ UNCHANGED <<tree, used, ghosts>>
       /\ Ends(s) \/ Hold(s, r)
   BY <1>2, Zenon DEF ReadMerge
 <2>2. DOMAIN r0 = Fields /\ r0.op = "merge" /\ r0.term \in Term
   BY <1>0, <2>1 DEF IsCall, At, MergeOK
 <2>3. \A k \in kids : VocOf[k] = VocOf[r0.term]
   BY <1>0, <2>2, TermAssumption DEF Children, Parented, Above, Rows, NoParent
 <2> HIDE DEF kids
 <2>4. /\ r.op = "merge" /\ r.term = r0.term /\ r.row = r0.row /\ r.kids = kids
   BY <2>2, NothingFacts
 <2> HIDE DEF r
 <2>5. SaveCall(r, used, db, why.nest) /\ OtherCall(r) /\ CreateCall(r) /\ Bystander(s, r)
   BY <1>0, <1>b, <2>2, <2>3, <2>4 DEF SaveCall, OtherCall, CreateCall
 <2> QED
   BY <1>a, <2>1, <2>5, NestCallOnly, NestEnds
<1>3. ASSUME CheckTag(s) PROVE NestInv'
 <2> DEFINE r0 == call[s]
            r == [r0 EXCEPT !.at = "insert", !.tags = tags]
 <2>1. At(s, "tag", "check") /\ UNCHANGED <<tree, links, used, ghosts>> /\ (Ends(s) \/ Hold(s, r))
   BY <1>3, Zenon DEF CheckTag
 <2>2. DOMAIN r0 = Fields /\ r0.op = "tag"
   BY <1>0, <2>1 DEF IsCall, At
 <2>3. NoNest(r)
   BY <2>2, NothingFacts DEF NoNest, Savers
 <2> HIDE DEF r
 <2> QED
   BY <1>a, <2>1, <2>3, NestNone, NestEnds
<1> QED
  BY <1>1, <1>2, <1>3

LEMMA NestLinks ==
  ASSUME IInv, TagInv, TagInv', NestInv, NEW s \in Session
  PROVE  /\ MoveFails(s) => NestInv'
         /\ InsertTag(s) => NestInv'
         /\ TagMany(s) => NestInv'
         /\ \A t, o : Untag(s, t, o) => NestInv'
         /\ \A o : NewObject(s, o) => NestInv'
         /\ \A o : DropObject(s, o) => NestInv'
         /\ Cleanup(s) => NestInv'
         /\ \A a, b, type : Relate(s, a, b, type) => NestInv'
         /\ \A a, b, type : Unrelate(s, a, b, type) => NestInv'
         /\ SecondRelate(s) => NestInv'
         /\ \A a, b, type : EditInline(s, a, b, type) \/ EditRow(s, a, b, type) => NestInv'
         /\ Kill(s) => NestInv'
<1>0. WhyShape
  BY DEF TagInv, TableOK
<1>a. ASSUME UNCHANGED tree, used \subseteq used', UNCHANGED why \/ why'.nest = why.nest PROVE Untouched
  BY <1>a DEF Untouched
<1>1. ASSUME MoveFails(s) PROVE NestInv'
  BY <1>1, <1>a, NestEnds DEF MoveFails, ghosts
<1>2. ASSUME InsertTag(s) PROVE NestInv'
 <2>1. /\ Ends(s) /\ UNCHANGED <<tree, used>>
       /\ UNCHANGED why \/ \E t, os, lost, causes : Tagged(t, os, lost, causes)
   BY <1>2, Zenon DEF InsertTag
 <2> QED
   BY <1>0, <1>a, <2>1, NestTagged, NestEnds
<1>3. ASSUME TagMany(s) PROVE NestInv'
 <2>1. /\ Ends(s) /\ UNCHANGED <<tree, used>>
       /\ UNCHANGED why \/ \E t, os, lost, causes : Tagged(t, os, lost, causes)
   BY <1>3, Zenon DEF TagMany
 <2> QED
   BY <1>0, <1>a, <2>1, NestTagged, NestEnds
<1>4. ASSUME NEW t, NEW o, Untag(s, t, o) PROVE NestInv'
  BY <1>4, <1>a, NestStays DEF Untag
<1>5. ASSUME NEW o, NewObject(s, o) PROVE NestInv'
  BY <1>5, <1>a, NestStays DEF NewObject, ghosts
<1>6. ASSUME NEW o, DropObject(s, o) PROVE NestInv'
  BY <1>6, <1>a, NestStays DEF DropObject, ghosts
<1>7. ASSUME Cleanup(s) PROVE NestInv'
 <2>1. /\ Ends(s) /\ UNCHANGED <<tree, used>>
       /\ \E tag : why' = [why EXCEPT !.tag = tag]
   BY <1>7, Zenon DEF Cleanup
 <2>2. why'.nest = why.nest
   BY <1>0, <2>1 DEF WhyShape
 <2> QED
   BY <1>a, <2>1, <2>2, NestEnds
<1>8. ASSUME NEW op \in {"relate", "unrelate"}, NEW a, NEW b, NEW type, NEW new, First(s, op, a, b, type, new)
      PROVE  NestInv'
 <2> DEFINE r0 == As(Nothing, op, "second")
            r == [r0 EXCEPT !.term = a, !.other = b, !.type = type]
 <2>1. UNCHANGED <<tree, used, ghosts>> /\ (Hold(s, r) \/ UNCHANGED call)
   BY <1>8, Zenon DEF First
 <2>0. DOMAIN Nothing = Fields
   BY NothingFacts
 <2>2. DOMAIN r0 = Fields /\ r0.op = op
   BY <2>0, AsFacts
 <2> HIDE DEF r0
 <2>3. NoNest(r)
   BY <2>2, NothingFacts DEF NoNest, Savers
 <2> HIDE DEF r
 <2> QED
   BY <1>a, <2>1, <2>3, NestNone, NestStays DEF ghosts
<1>9. ASSUME NEW a, NEW b, NEW type, Relate(s, a, b, type) PROVE NestInv'
  BY <1>8, <1>9 DEF Relate
<1>10. ASSUME NEW a, NEW b, NEW type, Unrelate(s, a, b, type) PROVE NestInv'
  BY <1>8, <1>10 DEF Unrelate
<1>11. ASSUME SecondRelate(s) PROVE NestInv'
 <2>1. /\ Ends(s) /\ UNCHANGED <<tree, used>>
       /\ \E xs, causes : Because("pair", xs, causes)
   BY <1>11, Zenon DEF SecondRelate
 <2> QED
   BY <1>0, <1>a, <2>1, NestElsewhere, NestEnds
<1>12. ASSUME NEW a, NEW b, NEW type, EditInline(s, a, b, type) \/ EditRow(s, a, b, type) PROVE NestInv'
 <2>1. UNCHANGED <<tree, used, call>> /\ \E xs : Because("pair", xs, {"inline"})
   BY <1>12, Zenon DEF EditInline, EditRow
 <2> QED
   BY <1>0, <1>a, <2>1, NestElsewhere, NestStays
<1>13. ASSUME Kill(s) PROVE NestInv'
 <2>1. /\ Ends(s) /\ UNCHANGED <<tree, used>>
       /\ \E xs, causes : Because("pair", xs, causes)
   BY <1>13, Zenon DEF Kill
 <2> QED
   BY <1>0, <1>a, <2>1, NestElsewhere, NestEnds
<1> QED
  BY <1>1, <1>2, <1>3, <1>4, <1>5, <1>6, <1>7, <1>9, <1>10, <1>11, <1>12, <1>13

(***************************************************************************)
(* What the operators on the table do to parents.                          *)
(***************************************************************************)
SameParents(e, d) == DOMAIN e = DOMAIN d /\ Shaped(e) /\ \A x \in DOMAIN d : e[x].parent = d[x].parent

LEMMA GapParents ==
  ASSUME NEW d, Shaped(d), NEW p, NEW removed
  PROVE  SameParents(CloseOrderGap(d, p, removed), d)
  BY DEF Shaped, SameParents, CloseOrderGap

LEMMA ShiftParents ==
  ASSUME NEW d, Shaped(d), NEW V, NEW S, NEW base, NEW delta
  PROVE  SameParents(ShiftSiblings(d, V, S, base, delta), d)
<1> DEFINE e == ShiftSiblings(d, V, S, base, delta)
           own(x) == [d[x] EXCEPT !.path = NewPath(base, d[x].order + delta), !.order = @ + delta]
           below(r, path) == [r EXCEPT !.path = path, !.depth = Len(path) - 1]
           row(x) == IF x \in S THEN own(x) ELSE d[x]
<1>1. /\ DOMAIN e = DOMAIN d
      /\ \A x \in DOMAIN d : e[x] = row(x) \/ \E path : e[x] = below(row(x), path)
  BY Zenon DEF ShiftSiblings
<1> SUFFICES ASSUME NEW x \in DOMAIN d PROVE {"parent", "depth"} \subseteq DOMAIN e[x] /\ e[x].parent = d[x].parent
  BY <1>1 DEF SameParents, Shaped
<1> DEFINE o == row(x)
<1>2. {"parent", "depth"} \subseteq DOMAIN own(x) /\ own(x).parent = d[x].parent
  BY DEF Shaped
<1>3. {"parent", "depth"} \subseteq DOMAIN o /\ o.parent = d[x].parent
  BY <1>2 DEF Shaped
<1>4. e[x] = o \/ \E path : e[x] = below(o, path)
  BY <1>1
<1> HIDE DEF o, e
<1> QED
  BY <1>3, <1>4

LEMMA RerootedParents ==
  ASSUME NEW d, Shaped(d), NEW src, NEW D, NEW old, NEW new
  PROVE  SameParents(Rerooted(d, src, D, old, new), d)
<1> DEFINE e == Rerooted(d, src, D, old, new)
           below(r, path) == [r EXCEPT !.path = path, !.depth = Len(path) - 1]
<1>1. /\ DOMAIN e = DOMAIN d
      /\ \A x \in DOMAIN d : e[x] = d[x] \/ \E path : e[x] = below(d[x], path)
  BY Zenon DEF Rerooted
<1> QED
  BY <1>1 DEF SameParents, Shaped

LEMMA MovedParents ==
  ASSUME NEW d, Shaped(d), NEW V, NEW n, NEW r, NEW plan
  PROVE  /\ Shaped(Moved(d, V, n, r, plan)) /\ DOMAIN Moved(d, V, n, r, plan) = DOMAIN d
         /\ \A x \in DOMAIN d : Moved(d, V, n, r, plan)[x].parent = IF x = n THEN plan.parent ELSE d[x].parent
<1> DEFINE D  == Below(d, V, r.path)
           d0 == [x \in DOMAIN d |-> IF x = n \/ x \in D THEN [d[x] EXCEPT !.path = <<0>> \o @] ELSE d[x]]
           S1 == {x \in Children(d0, V, r.parent) : d0[x].order > r.order}
           d1 == ShiftSiblings(d0, V, S1, PathOfParent(d, r.parent), -1)
           S2 == {x \in Children(d1, V, plan.parent) : d1[x].order >= plan.order}
           d2 == ShiftSiblings(d1, V, S2, plan.base, 1)
           path == NewPath(plan.base, plan.order)
           d3 == [x \in DOMAIN d |->
                   IF x = n THEN [d2[x] EXCEPT !.parent = plan.parent, !.path = path,
                                               !.depth = plan.depth, !.order = plan.order]
                   ELSE d2[x]]
<1>1. Moved(d, V, n, r, plan) = Rerooted(d3, d, D, r.path, path)
  BY Zenon DEF Moved
<1>2. SameParents(d0, d)
 <2> HIDE DEF D
 <2> QED
   BY DEF SameParents, Shaped
<1> HIDE DEF d0
<1>3. SameParents(d1, d0)
  BY <1>2, ShiftParents DEF SameParents
<1> HIDE DEF d1
<1>4. SameParents(d2, d1)
  BY <1>3, ShiftParents DEF SameParents
<1> HIDE DEF d2, path, D
<1>5. DOMAIN d2 = DOMAIN d /\ Shaped(d2) /\ \A x \in DOMAIN d : d2[x].parent = d[x].parent
  BY <1>2, <1>3, <1>4 DEF SameParents
<1>6. /\ DOMAIN d3 = DOMAIN d /\ Shaped(d3)
      /\ \A x \in DOMAIN d : d3[x].parent = IF x = n THEN plan.parent ELSE d[x].parent
  BY <1>5 DEF Shaped
<1> HIDE DEF d3
<1>7. SameParents(Rerooted(d3, d, D, r.path, path), d3)
  BY <1>6, RerootedParents
<1> QED
  BY <1>1, <1>6, <1>7 DEF SameParents

\* e is d but for the parent of t, which may be p.
Reparented(e, d, t, p) ==
  /\ DOMAIN e = DOMAIN d /\ Shaped(e)
  /\ \A x \in DOMAIN d : e[x].parent = d[x].parent \/ (x = t /\ e[x].parent = p)

LEMMA AfterMoveParents ==
  ASSUME NEW d, Shaped(d), NEW t, NEW r, NEW u, NEW urow, NEW pos
  PROVE  /\ Reparented(AfterMove(d, t, r, u, urow, pos), d, t, Plan(d, t, r, u, urow, pos).parent)
         /\ Plan(d, t, r, u, urow, pos).parent \in {u, urow.parent}
         /\ pos = "last-child" => Plan(d, t, r, u, urow, pos).parent = u
<1>1. /\ Plan(d, t, r, u, urow, pos).parent \in {u, urow.parent}
      /\ pos = "last-child" => Plan(d, t, r, u, urow, pos).parent = u
  BY DEF Plan, MovePlan
<1> DEFINE plan == Plan(d, t, r, u, urow, pos)
<1> DEFINE m == Moved(d, active, t, r, plan)
<1>2. AfterMove(d, t, r, u, urow, pos) \in {d, m, [m EXCEPT ![t] = d[t]]}
  BY DEF AfterMove
<1>3. Reparented(d, d, t, plan.parent)
  BY DEF Reparented
<1> HIDE DEF plan
<1>4. Shaped(m) /\ DOMAIN m = DOMAIN d /\ \A x \in DOMAIN d : m[x].parent = IF x = t THEN plan.parent ELSE d[x].parent
  BY MovedParents
<1> HIDE DEF m
<1>5. Reparented(m, d, t, plan.parent) /\ Reparented([m EXCEPT ![t] = d[t]], d, t, plan.parent)
  BY <1>4 DEF Reparented, Shaped
<1> QED
  BY <1>1, <1>2, <1>3, <1>5 DEF plan

LEMMA PreSaveParents ==
  ASSUME NEW d, Shaped(d), NEW t, NEW p, NEW prow
  PROVE  /\ Reparented(AfterPreSave(d, t, p, prow), d, t, p)
         /\ t \in DOMAIN d /\ d[t].parent = p => AfterPreSave(d, t, p, prow) = d
<1> DEFINE e == AfterPreSave(d, t, p, prow)
<1>1. CASE ~Reseats(d, t, p)
  BY <1>1 DEF AfterPreSave, Reparented
<1>2. CASE Reseats(d, t, p) /\ p = NoParent
 <2> DEFINE row == RowForRoot({x \in Children(d, active, NoParent) : VocOf[x] = VocOf[t]})
 <2>1. e = RootedSubtree(d, active, d[t], row)
   BY <1>2, Zenon DEF AfterPreSave
 <2> HIDE DEF row
 <2>2. SameParents(RootedSubtree(d, active, d[t], row), d)
  <3> DEFINE c == CloseOrderGap(d, d[t].parent, d[t].order)
  <3>1. SameParents(c, d)
    BY GapParents
  <3>2. SameParents(Rerooted(c, d, Below(d, active, d[t].path), d[t].path, row.path), c)
   <4> HIDE DEF c
   <4> QED
     BY <3>1, RerootedParents DEF SameParents
  <3> QED
    BY <3>1, <3>2 DEF SameParents, RootedSubtree
 <2> QED
   BY <1>2, <2>1, <2>2 DEF SameParents, Reparented, Reseats
<1>3. CASE Reseats(d, t, p) /\ p # NoParent
 <2>1. e = AfterMove(d, t, d[t], p, prow, "last-child")
   BY <1>3, Zenon DEF AfterPreSave
 <2> QED
   BY <1>3, <2>1, AfterMoveParents DEF Reseats
<1> QED
  BY <1>1, <1>2, <1>3

LEMMA CrossedFacts ==
  ASSUME NEW d, NEW x \in Rows, VocOf[x] \notin Crossed(d)
  PROVE  d[x].depth = db[x].depth
  BY DEF Crossed

LEMMA StorableParents ==
  ASSUME NEW d, Commits(d)
  PROVE  \A x \in DOMAIN d : d[x].parent \in DOMAIN d \cup {NoParent}
  BY DEF Commits, Storable

\* A step that writes d, which has the terms of db, with the causes it gives.
LEMMA NestWritten ==
  ASSUME IInv, TagInv, TagInv', NestInv, NEW s \in Session, Ends(s), UNCHANGED <<vocs, used>>, MoreNest,
         NEW d, db' = d, DOMAIN d = Rows, Shaped(d), Commits(d),
         \A x \in Rows : Above(x, d[x].parent),
         \A x \in Rows : why'.nest[VocOf[x]] = {} => d[x].parent = db[x].parent /\ d[x].depth = db[x].depth
  PROVE  NestInv'
<1>1. Rows' = Rows
  BY DEF Rows
<1>2. Parented(db')
  BY StorableParents DEF Parented
<1> QED
  BY <1>1, <1>2, NestSame

LEMMA NestInsert ==
  ASSUME IInv, TagInv, TagInv', NestInv, NEW s \in Session, InsertTerm(s)
  PROVE  NestInv'
<1> DEFINE r == call[s]  v == VocOf[r.term]  t == r.term  p == r.other
           raced == vocs[v] # r.voc \/ (p # NoParent /\ db[p] # r.orow)
           causes == If("raced", raced)
           d == WithRow(db, t, r.row)
<1>0. /\ TableOK /\ WhyShape /\ NewTerm(r, used, Rows) /\ CreateCall(r) /\ NestTable /\ NestsRight /\ NestCalls
      /\ NoParent \notin Rows /\ Rows \subseteq Term
  BY TermAssumption DEF TagInv, TableOK, CallsRight, NestInv, NestCalls, NoParent
<1>1. /\ At(s, "create", "insert") /\ Ends(s) /\ UNCHANGED <<vocs, used>>
      /\ \/ UNCHANGED <<db, active, why>>
         \/ Commits(d) /\ db' = d /\ Because("nest", {v}, causes)
  BY Zenon DEF InsertTerm
<1>2. CASE UNCHANGED <<db, active, why>>
  BY <1>1, <1>2, NestEnds DEF Untouched, tree
<1>3. CASE Commits(d) /\ db' = d /\ Because("nest", {v}, causes)
 <2>1. t \in Term /\ t \notin Rows /\ v \in Vocab
   BY <1>0, <1>1, VocAssumption DEF NewTerm, At
 <2>2. /\ p # t /\ {"parent", "depth"} \subseteq DOMAIN r.row /\ r.row.parent = p
       /\ r.row.depth = IF p = NoParent THEN 0 ELSE r.orow.depth + 1
       /\ ~Misplaced(v, r.voc, p) /\ ~TooDeep(r.voc, p, r.row.depth)
   BY <1>0, <1>1 DEF CreateCall, At
 <2>3. DOMAIN d = Rows \cup {t} /\ d[t] = r.row /\ \A x \in Rows : d[x] = db[x]
   BY <2>1 DEF WithRow, Rows
 <2>4. p \in Rows \cup {NoParent} /\ Above(t, p)
   BY <1>3, <2>2, <2>3, StorableParents DEF Misplaced, Above
 <2>5. Shaped(d) /\ Parented(d)
   BY <1>0, <2>2, <2>3, <2>4 DEF NestTable, Shaped, Parented, Rows
 <2>6. MoreNest /\ (why'.nest[v] = {} => ~raced)
  <3>1. causes = {} => ~raced
   <4> HIDE DEF raced
   <4> QED
     BY DEF If
  <3> HIDE DEF raced, causes
  <3>2. MoreNest /\ \A x \in Vocab : why'.nest[x] = {} /\ x \in {v} => causes = {}
    BY <1>0, <1>3, NestBecause DEF NestTable
  <3> QED
    BY <2>1, <3>1, <3>2
 <2>7. Settled
  <3> SUFFICES ASSUME NEW x \in Rows \cup {t}, why'.nest[VocOf[x]] = {}
               PROVE  /\ Fits(d[x], vocs[VocOf[x]])
                      /\ x \notin Rows => Level(d, x) /\ d[x].parent \in Rows \cup {NoParent}
    BY <1>1, <1>3, <2>3 DEF Settled, Rows
  <3>1. CASE x \in Rows
   <4>1. VocOf[x] \in Vocab
     BY <1>0, <3>1, VocAssumption
   <4>2. Nested(VocOf[x])
     BY <1>0, <2>6, <4>1 DEF MoreNest, NestsRight
   <4> QED
     BY <2>3, <3>1, <4>2 DEF Nested, TermsOf
  <3>2. CASE x = t
   <4>1. vocs[v] = r.voc /\ (p # NoParent => db[p] = r.orow) /\ r.voc \in Vocabulary
     BY <1>0, <2>1, <2>6, <3>2 DEF NestTable, VocsOK
   <4>2. Nested(v)
     BY <1>0, <2>1, <2>6, <3>2 DEF MoreNest, NestsRight
   <4>3. p # NoParent => p \in TermsOf(v)
     BY <2>4 DEF Above, TermsOf
   <4>4. p # NoParent => db[p].depth \in Nat
     BY <4>2, <4>3 DEF Nested, Level
   <4>5. Level(d, t)
     BY <2>2, <2>3, <2>4, <4>1, <4>4 DEF Level
   <4>6. Fits(r.row, r.voc)
    <5> DEFINE c == r.voc  row == r.row
    <5>1. c.max # Unlimited => c.max \in Nat
      BY <4>1 DEF Vocabulary
    <5>2. c.flat => row.parent = NoParent
      BY <2>2 DEF Misplaced
    <5>3. ASSUME c.max # Unlimited PROVE row.depth <= c.max
     <6>1. CASE p = NoParent
       BY <2>2, <5>1, <5>3, <6>1
     <6>2. CASE p # NoParent
      <7>1. row.depth \in Nat
        BY <2>2, <4>1, <4>4, <6>2
      <7> QED
        BY <2>2, <5>1, <5>3, <6>2, <7>1 DEF TooDeep
     <6> QED
       BY <6>1, <6>2
    <5> QED
      BY <5>2, <5>3 DEF Fits
   <4> QED
     BY <2>2, <2>3, <2>4, <3>2, <4>1, <4>5, <4>6
  <3> QED
    BY <3>1, <3>2
 <2>8. Unborn(s)
   BY <1>0, <1>1, <1>3, <2>3 DEF Unborn, NestCalls, Apart, At, Rows
 <2>9. TableAfter
   BY <1>0, <1>1, <1>3, <2>5, <2>6, <2>7 DEF TableAfter, NestTable, VocsOK
 <2> QED
   BY <1>1, <2>8, <2>9, NestWrites
<1> QED
  BY <1>1, <1>2, <1>3

LEMMA NestMove ==
  ASSUME IInv, TagInv, TagInv', NestInv, NEW s \in Session, CommitMove(s)
  PROVE  NestInv'
<1> DEFINE r == call[s]  t == r.term
           d == AfterMove(db, t, r.row, r.other, r.orow, r.pos)
           xs == {VocOf[t]} \cup Crossed(d)
<1>0. TableOK /\ WhyShape /\ NestTable /\ OtherCall(r)
  BY DEF TagInv, TableOK, NestInv, NestCalls
<1>1. /\ At(s, "move", "move") /\ VocOf[t] = VocOf[r.other] /\ Commits(d) /\ db' = d
      /\ Because("nest", xs, {"moved"}) /\ Ends(s) /\ UNCHANGED <<vocs, used>>
  BY Zenon DEF CommitMove
<1>2. \E p \in {r.other, r.orow.parent} : Reparented(d, db, t, p)
  BY <1>0, AfterMoveParents DEF NestTable
<1>3. MoreNest /\ \A v \in Vocab : why'.nest[v] = {} => v \notin xs
 <2> HIDE DEF xs
 <2> QED
   BY <1>0, <1>1, NestBecause DEF NestTable
<1> HIDE DEF d
<1>4. Above(r.other, r.orow.parent)
  BY <1>0, <1>1 DEF OtherCall, At
<1>5. DOMAIN d = Rows /\ Shaped(d)
  BY <1>2 DEF Reparented, Rows
<1>6. \A x \in Rows : Above(x, d[x].parent)
  BY <1>0, <1>1, <1>2, <1>4 DEF Reparented, Above, NestTable, Parented, Rows
<1>7. ASSUME NEW x \in Rows, why'.nest[VocOf[x]] = {} PROVE d[x].parent = db[x].parent /\ d[x].depth = db[x].depth
 <2>1. VocOf[x] \in Vocab
   BY <1>0, VocAssumption DEF TableOK
 <2>2. VocOf[x] # VocOf[t] /\ VocOf[x] \notin Crossed(d)
   BY <1>3, <1>7, <2>1
 <2> QED
   BY <1>2, <2>2, CrossedFacts DEF Reparented, Rows
<1> QED
  BY <1>1, <1>3, <1>5, <1>6, <1>7, NestWritten

LEMMA NestSaveActive ==
  ASSUME IInv, TagInv, TagInv', NestInv, NEW s \in Session, SaveActive(s)
  PROVE  NestInv'
<1> DEFINE r == call[s]  t == r.term  p == r.row.parent
           d == AfterPreSave(db, t, p, RowOf(p))
<1>0. TableOK /\ WhyShape /\ NestTable /\ SaveCall(r, used, db, why.nest)
  BY DEF TagInv, TableOK, NestInv, NestCalls
<1>1. /\ r.op \in {"activate", "deactivate"} /\ Ends(s) /\ UNCHANGED <<vocs, used>>
      /\ \/ UNCHANGED <<db, active, merged, why>>
         \/ Commits(d) /\ db' = d /\ ~SaveFails(db, t, p, RowOf(p)) /\ Because("nest", Crossed(d), {"moved"})
  BY Zenon DEF SaveActive
<1>2. CASE UNCHANGED <<db, active, merged, why>>
 <2>1. CASE UNCHANGED tree
   BY <1>1, <1>2, <2>1, NestEnds DEF Untouched
 <2>2. UNCHANGED tree
   BY <1>1, <1>2 DEF tree
 <2> QED
   BY <2>1, <2>2
<1>3. CASE Commits(d) /\ db' = d /\ ~SaveFails(db, t, p, RowOf(p)) /\ Because("nest", Crossed(d), {"moved"})
 <2>1. Reparented(d, db, t, p) /\ (t \in Rows /\ db[t].parent = p => d = db)
   BY <1>0, PreSaveParents DEF NestTable, Rows
 <2>2. MoreNest /\ \A v \in Vocab : why'.nest[v] = {} => v \notin Crossed(d)
  <3> HIDE DEF d
  <3> QED
    BY <1>0, <1>3, NestBecause DEF NestTable
 <2>3. t \in Rows
   BY <1>3 DEF SaveFails, Rows
 <2> HIDE DEF d
 <2>4. Above(t, p) /\ (why.nest[VocOf[t]] = {} => db[t].parent = p)
   BY <1>0, <1>1, <2>3 DEF SaveCall, Savers, Rows
 <2>5. DOMAIN d = Rows /\ Shaped(d)
   BY <2>1 DEF Reparented, Rows
 <2>6. \A x \in Rows : Above(x, d[x].parent)
   BY <1>0, <2>1, <2>4 DEF Reparented, NestTable, Parented, Rows
 <2>7. ASSUME NEW x \in Rows, why'.nest[VocOf[x]] = {} PROVE d[x].parent = db[x].parent /\ d[x].depth = db[x].depth
  <3>1. VocOf[x] \in Vocab
    BY <1>0, VocAssumption DEF TableOK
  <3>2. why.nest[VocOf[x]] = {} /\ VocOf[x] \notin Crossed(d)
    BY <2>2, <2>7, <3>1 DEF MoreNest
  <3>3. x = t => d = db
    BY <2>1, <2>3, <2>4, <3>2
  <3> QED
    BY <2>1, <3>2, <3>3, CrossedFacts DEF Reparented, Rows
 <2> QED
   BY <1>1, <1>3, <2>2, <2>5, <2>6, <2>7, NestWritten
<1> QED
  BY <1>1, <1>2, <1>3

LEMMA NestSaveParent ==
  ASSUME IInv, TagInv, TagInv', NestInv, NEW s \in Session, SaveParent(s)
  PROVE  NestInv'
<1> DEFINE r == call[s]  t == r.term  p == r.other
           d0 == AfterPreSave(db, t, p, r.orow)
           d == [d0 EXCEPT ![t].parent = p]
           moves == db[t].parent # p
           xs == If(VocOf[t], moves) \cup Crossed(d)
<1>0. TableOK /\ WhyShape /\ NestTable
  BY DEF TagInv, TableOK, NestInv
<1>1. /\ Ends(s) /\ UNCHANGED <<vocs, used>>
      /\ \/ UNCHANGED <<db, active, why>>
         \/ /\ Commits(d) /\ db' = d /\ ~SaveFails(db, t, p, r.orow) /\ ~Misplaced(VocOf[t], r.voc, p)
            /\ Because("nest", xs, {"updated"})
  BY Zenon DEF SaveParent
<1>2. CASE UNCHANGED <<db, active, why>>
  BY <1>1, <1>2, NestEnds DEF Untouched, tree
<1>3. CASE /\ Commits(d) /\ db' = d /\ ~SaveFails(db, t, p, r.orow) /\ ~Misplaced(VocOf[t], r.voc, p)
           /\ Because("nest", xs, {"updated"})
 <2>1. Reparented(d0, db, t, p)
   BY <1>0, PreSaveParents DEF NestTable, Rows
 <2>2. MoreNest /\ \A v \in Vocab : why'.nest[v] = {} => v \notin xs
  <3> HIDE DEF xs
  <3> QED
    BY <1>0, <1>3, NestBecause DEF NestTable
 <2>3. t \in Rows /\ Above(t, p)
   BY <1>3 DEF SaveFails, Misplaced, Above, Rows
 <2> HIDE DEF d0
 <2>4. /\ DOMAIN d = Rows /\ Shaped(d) /\ d[t].parent = p
       /\ \A x \in Rows \ {t} : d[x] = d0[x]
   BY <2>1, <2>3 DEF Reparented, Shaped, Rows
 <2>5. \A x \in Rows \ {t} : d[x].parent = db[x].parent
   BY <2>1, <2>4 DEF Reparented, Rows
 <2> HIDE DEF d, moves
 <2>6. \A x \in Rows : Above(x, d[x].parent)
   BY <1>0, <2>3, <2>4, <2>5 DEF NestTable, Parented, Rows
 <2>7. ASSUME NEW x \in Rows, why'.nest[VocOf[x]] = {} PROVE d[x].parent = db[x].parent /\ d[x].depth = db[x].depth
  <3>1. VocOf[x] \in Vocab
    BY <1>0, VocAssumption DEF TableOK
  <3>2. VocOf[x] \notin Crossed(d) /\ (moves => VocOf[x] # VocOf[t])
    BY <2>2, <2>7, <3>1 DEF If
  <3>3. x = t => d[x].parent = db[x].parent
    BY <2>4, <3>2 DEF moves
  <3> QED
    BY <2>5, <3>2, <3>3, CrossedFacts
 <2> QED
   BY <1>1, <1>3, <2>2, <2>4, <2>6, <2>7, NestWritten
<1> QED
  BY <1>1, <1>2, <1>3

LEMMA NestMerge ==
  ASSUME IInv, TagInv, TagInv', NestInv, NEW s \in Session, CommitMerge(s)
  PROVE  NestInv'
<1> DEFINE r == call[s]  a == r.term  p == r.row.parent
           w == WithChildrenOf(r)
           d == AfterMerge(r)
           kids(v) == If("merged", v = VocOf[a] /\ r.kids \cap active # {})
           crossed(v) == If("moved", v \in Crossed(d))
           nest == [v \in Vocab |-> why.nest[v] \cup kids(v) \cup crossed(v)]
<1>0. TableOK /\ WhyShape /\ NestTable /\ SaveCall(r, used, db, why.nest) /\ OtherCall(r) /\ MergeVoc(r)
  BY DEF TagInv, TableOK, CallsRight, NestInv, NestCalls
<1>1. /\ At(s, "merge", "write") /\ Ends(s) /\ UNCHANGED <<vocs, used>>
      /\ \/ UNCHANGED <<db, active, ghosts>>
         \/ /\ ~MergeFails(s) /\ db' = d
            /\ \E tag, late, pair : why' = [why EXCEPT !.nest = nest, !.tag = tag, !.late = late, !.pair = pair]
 <2> DEFINE tag == [v \in Vocab |-> why.tag[v] \cup MergedTag(s, v)]
            late == [t \in Term |-> MergedLate(s, t)]
            pair == [t \in Term |-> MergedCauses(s, t)]
 <2>1. /\ At(s, "merge", "write") /\ Ends(s) /\ UNCHANGED <<vocs, used>>
       /\ \/ UNCHANGED <<db, active, ghosts>>
          \/ /\ ~MergeFails(s) /\ db' = d
             /\ why' = [why EXCEPT !.nest = nest, !.tag = tag, !.late = late, !.pair = pair]
   BY Zenon DEF CommitMerge
 <2> HIDE DEF tag, late, pair, nest
 <2> QED
   BY <2>1
<1>2. CASE UNCHANGED <<db, active, ghosts>>
  BY <1>1, <1>2, NestEnds DEF Untouched, tree, ghosts
<1>3. ASSUME ~MergeFails(s), db' = d,
             NEW tag, NEW late, NEW pair,
             why' = [why EXCEPT !.nest = nest, !.tag = tag, !.late = late, !.pair = pair]
      PROVE  NestInv'
 <2>1. why'.nest = nest
  <3> HIDE DEF nest
  <3> QED
    BY <1>0, <1>3 DEF WhyShape
 <2>2. /\ MoreNest
       /\ \A v \in Vocab : why'.nest[v] = {} =>
            why.nest[v] = {} /\ v \notin Crossed(d) /\ (v = VocOf[a] => r.kids \cap active = {})
  <3> HIDE DEF d
  <3>1. \A v \in Vocab : nest[v] = why.nest[v] \cup kids(v) \cup crossed(v)
    OBVIOUS
  <3>2. \A v : /\ crossed(v) = {} => v \notin Crossed(d)
               /\ kids(v) = {} => (v = VocOf[a] => r.kids \cap active = {})
    BY DEF If
  <3> HIDE DEF kids, crossed
  <3> QED
    BY <2>1, <3>1, <3>2 DEF MoreNest
 <2>3. a \in Rows /\ Commits(d)
   BY <1>3 DEF MergeFails
 <2>4. /\ DOMAIN w = Rows
       /\ \A x \in Rows : w[x] = IF x \in r.kids \cap active THEN [db[x] EXCEPT !.parent = NewParent(r)] ELSE db[x]
   BY DEF WithChildrenOf
 <2>5. d = AfterPreSave(w, a, p, RowOf(p))
   BY DEF AfterMerge
 <2> HIDE DEF w, d
 <2>6. Shaped(w) /\ \A x \in Rows : w[x].parent = IF x \in r.kids \cap active THEN NewParent(r) ELSE db[x].parent
   BY <1>0, <2>4 DEF Shaped, NestTable, Rows
 <2>7. Reparented(d, w, a, p) /\ (w[a].parent = p => d = w)
   BY <2>3, <2>4, <2>5, <2>6, PreSaveParents
 <2>8. /\ Above(a, p) /\ (why.nest[VocOf[a]] = {} => db[a].parent = p)
       /\ VocOf[a] = VocOf[r.other] /\ \A k \in r.kids : VocOf[k] = VocOf[a]
   BY <1>0, <1>1, <2>3 DEF SaveCall, OtherCall, MergeVoc, Savers, At, Rows
 <2>9. \A x \in Rows : Above(x, w[x].parent)
   BY <1>0, <2>6, <2>8 DEF NewParent, Above, NestTable, Parented, Rows
 <2>10. DOMAIN d = Rows /\ Shaped(d) /\ \A x \in Rows : Above(x, d[x].parent)
   BY <2>4, <2>7, <2>8, <2>9 DEF Reparented
 <2>11. ASSUME NEW x \in Rows, why'.nest[VocOf[x]] = {} PROVE d[x].parent = db[x].parent /\ d[x].depth = db[x].depth
  <3>1. VocOf[x] \in Vocab
    BY <1>0, VocAssumption DEF TableOK
  <3>2. why.nest[VocOf[x]] = {} /\ VocOf[x] \notin Crossed(d) /\ (VocOf[x] = VocOf[a] => r.kids \cap active = {})
    BY <2>2, <2>11, <3>1
  <3>3. w[x].parent = db[x].parent
    BY <2>6, <2>8, <3>2
  <3>4. x = a => d[x].parent = w[x].parent
    BY <2>3, <2>7, <2>8, <3>2, <3>3
  <3> QED
    BY <2>4, <2>7, <3>2, <3>3, <3>4, CrossedFacts DEF Reparented
 <2> QED
   BY <1>1, <1>3, <2>2, <2>3, <2>10, <2>11, NestWritten
<1> QED
  BY <1>1, <1>2, <1>3

(***************************************************************************)
(* Deletes and repairs.                                                    *)
(***************************************************************************)
LEMMA NestErase ==
  ASSUME IInv, TagInv, TagInv', NestInv, NEW s \in Session, Ends(s) \/ UNCHANGED call,
         NEW S, NEW held, EraseTerms(S, held), UNCHANGED <<vocs, used, why>>
  PROVE  NestInv'
<1> DEFINE d == Erased(S, held)
<1>0. NestTable
  BY DEF NestInv
<1>1. UNCHANGED <<db, active>> \/ (Storable(d, MaxPath) /\ db' = d)
  BY Zenon DEF EraseTerms
<1>2. CASE UNCHANGED <<db, active>>
  BY <1>2, NestEnds, NestStays DEF Untouched, tree
<1>3. CASE Storable(d, MaxPath) /\ db' = d
 <2>1. /\ DOMAIN d = Rows \ S /\ Shaped(d)
       /\ \A t \in Rows \ S : d[t].parent = db[t].parent /\ d[t].depth = db[t].depth
  <3> DEFINE reordered(row, o) == [row EXCEPT !.order = o]
  <3>1. DOMAIN d = Rows \ S
    BY ErasedDomain
  <3>2. \A t \in Rows \ S : \E o : d[t] = reordered(db[t], o)
    BY Zenon DEF Erased
  <3> HIDE DEF d
  <3>3. ASSUME NEW t \in Rows \ S
        PROVE  {"parent", "depth"} \subseteq DOMAIN d[t] /\ d[t].parent = db[t].parent /\ d[t].depth = db[t].depth
   <4>1. {"parent", "depth"} \subseteq DOMAIN db[t]
     BY <1>0 DEF NestTable, Shaped, Rows
   <4> QED
     BY <3>2, <4>1
  <3> QED
    BY <3>1, <3>3 DEF Shaped
 <2> HIDE DEF d
 <2>2. Parented(d)
   BY <1>0, <1>3, <2>1 DEF Parented, NestTable, Storable, Rows
 <2>3. Rows' \subseteq Rows /\ MoreNest
   BY <1>0, <1>3, <2>1 DEF Rows, MoreNest, NestTable
 <2>4. \A t \in Rows' : db'[t].parent = db[t].parent /\ db'[t].depth = db[t].depth
   BY <1>3, <2>1 DEF Rows
 <2> QED
   BY <1>3, <2>1, <2>2, <2>3, <2>4, NestSame
<1> QED
  BY <1>1, <1>2, <1>3

LEMMA NestDeletes ==
  ASSUME IInv, TagInv, TagInv', NestInv, NEW s \in Session
  PROVE  /\ DeleteTerm(s) => NestInv'
         /\ \A v : ClearVocabulary(s, v) => NestInv'
<1>1. ASSUME DeleteTerm(s) PROVE NestInv'
 <2> DEFINE r == call[s]  S == Subtrees(db, {r.term} \cap Rows)
            held == [t \in S |-> IF t = r.term THEN r.row ELSE db[t]]
 <2>1. EraseTerms(S, held) /\ Ends(s) /\ UNCHANGED <<vocs, used, why>>
   BY <1>1, Zenon DEF DeleteTerm
 <2> HIDE DEF S, held
 <2> QED
   BY <2>1, NestErase
<1>2. ASSUME NEW v, ClearVocabulary(s, v) PROVE NestInv'
 <2>1. EraseTerms(TermsOf(v), db) /\ UNCHANGED <<vocs, used, why, call>>
   BY <1>2, Zenon DEF ClearVocabulary
 <2> QED
   BY <2>1, NestErase
<1> QED
  BY <1>1, <1>2

LEMMA NestFixTypes ==
  ASSUME IInv, TagInv, TagInv', NestInv, NEW s \in Session, FixTypes(s)
  PROVE  NestInv'
<1> DEFINE flat(t) == vocs[VocOf[t]].flat
<1>0. TableOK /\ NestTable /\ NestsRight
  BY DEF TagInv, NestInv
<1>1. /\ UNCHANGED <<vocs, used, call, why>>
      /\ Rows' = Rows
      /\ \A t \in Rows : db'[t] = IF flat(t) THEN [db[t] EXCEPT !.parent = NoParent] ELSE db[t]
  BY DEF FixTypes, ghosts, Rows
<1>2. ASSUME NEW t \in Rows
      PROVE  /\ {"parent", "depth"} \subseteq DOMAIN db'[t] /\ db'[t].depth = db[t].depth
             /\ db'[t].parent = IF flat(t) THEN NoParent ELSE db[t].parent
 <2>1. {"parent", "depth"} \subseteq DOMAIN db[t]
   BY <1>0 DEF NestTable, Shaped, Rows
 <2> QED
   BY <1>1, <2>1
<1> HIDE DEF flat
<1>3. Shaped(db') /\ Parented(db')
  BY <1>0, <1>1, <1>2 DEF Shaped, Parented, Above, NestTable, Rows
<1>4. ASSUME NEW t \in Rows, why.nest[VocOf[t]] = {} PROVE db'[t].parent = db[t].parent
 <2>1. VocOf[t] \in Vocab
   BY <1>0, VocAssumption DEF TableOK
 <2>2. Fits(db[t], vocs[VocOf[t]])
   BY <1>0, <1>4, <2>1 DEF NestsRight, Nested, TermsOf
 <2> QED
   BY <1>2, <2>2 DEF Fits, flat
<1>5. MoreNest
  BY <1>0, <1>1 DEF MoreNest, NestTable
<1> QED
  BY <1>1, <1>2, <1>3, <1>4, <1>5, NestSame

LEMMA NestFixPaths ==
  ASSUME IInv, TagInv, TagInv', NestInv, NEW s \in Session, FixPaths(s)
  PROVE  NestInv'
<1>0. TableOK /\ NestTable /\ NestsRight
  BY DEF TagInv, NestInv
<1>1. /\ UNCHANGED <<active, vocs, used, call, why>>
      /\ \E tie : UNCHANGED db \/ (db' = Rebuilt(db, VocOf, tie) /\ Commits(Rebuilt(db, VocOf, tie)))
  BY Zenon DEF FixPaths, ghosts
<1>2. ASSUME UNCHANGED db PROVE NestInv'
  BY <1>1, <1>2, NestStays DEF Untouched, tree
<1>3. ASSUME NEW tie, db' = Rebuilt(db, VocOf, tie), Commits(Rebuilt(db, VocOf, tie)) PROVE NestInv'
 <2> DEFINE d == Rebuilt(db, VocOf, tie)
            spoiled(row, path) == [row EXCEPT !.path = path]
            row(x) == RebuiltRow(db, VocOf, tie, x)
 <2>1. /\ DOMAIN d = Rows
       /\ \A x \in Rows : \/ d[x] = db[x]
                          \/ x \in Rooted(db) /\ d[x] = row(x)
                          \/ d[x] = spoiled(db[x], <<-x>>)
   BY DEF Rebuilt, Rows
 <2>2. \A x : /\ DOMAIN row(x) = {"parent", "path", "depth", "order"}
              /\ row(x).parent = db[x].parent /\ row(x).depth = Depth(x)
   BY DEF RebuiltRow, Depth
 <2> HIDE DEF d, row
 <2>3. ASSUME NEW x \in Rows
       PROVE  /\ {"parent", "depth"} \subseteq DOMAIN d[x] /\ d[x].parent = db[x].parent
              /\ d[x].depth = db[x].depth \/ d[x].depth = Depth(x)
  <3>1. {"parent", "depth"} \subseteq DOMAIN db[x]
    BY <1>0 DEF NestTable, Shaped, Rows
  <3> QED
    BY <2>1, <2>2, <3>1
 <2>4. Shaped(d) /\ \A x \in DOMAIN d : Above(x, d[x].parent)
   BY <1>0, <2>1, <2>3 DEF Shaped, Parented, NestTable, Rows
 <2>5. Parented(d)
   BY <1>3, <2>4, StorableParents DEF Parented, d
 <2>6. ASSUME NEW x \in Rows, why.nest[VocOf[x]] = {} PROVE d[x].depth = db[x].depth
  <3>1. VocOf[x] \in Vocab /\ x \in TermsOf(VocOf[x])
    BY <1>0, VocAssumption DEF TableOK, TermsOf
  <3>2. Nested(VocOf[x])
    BY <1>0, <2>6, <3>1 DEF NestsRight
  <3>3. Depth(x) = db[x].depth
    BY <1>0, <3>1, <3>2, DepthRight DEF NestTable
  <3> QED
    BY <2>3, <3>3
 <2>7. MoreNest
   BY <1>0, <1>1 DEF MoreNest, NestTable
 <2>8. db' = d /\ Rows' = Rows
   BY <1>3, <2>1 DEF d, Rows
 <2> QED
   BY <1>1, <2>3, <2>4, <2>5, <2>6, <2>7, <2>8, NestSame
<1> QED
  BY <1>1, <1>2, <1>3

(***************************************************************************)
(* Settings.                                                               *)
(***************************************************************************)
LEMMA NestSettings ==
  ASSUME TableOK, NestTable, NestsRight, NEW v \in Vocab, NEW new \in Vocabulary, Reconfigured(v, new)
  PROVE  /\ VocsOK' /\ MoreNest /\ vocs'[v] = new
         /\ \A t \in Rows : why'.nest[VocOf[t]] = {} => Fits(db[t], vocs'[VocOf[t]])
<1>0. WhyShape /\ DOMAIN why.nest = Vocab
  BY DEF TableOK, NestTable
<1>1. vocs' = [vocs EXCEPT ![v] = new]
  BY DEF Reconfigured
<1>2. VocsOK' /\ vocs'[v] = new
  BY <1>1 DEF VocsOK, NestTable
<1>3. MoreNest /\ (why'.nest[v] = {} => Unfit(v, new) = {})
  BY <1>0, NestReconfigured
<1>4. ASSUME NEW t \in Rows, why'.nest[VocOf[t]] = {} PROVE Fits(db[t], vocs'[VocOf[t]])
 <2>1. VocOf[t] \in Vocab /\ t \in TermsOf(VocOf[t])
   BY VocAssumption DEF TableOK, TermsOf
 <2>2. Nested(VocOf[t])
   BY <1>3, <1>4, <2>1 DEF MoreNest, NestsRight
 <2>3. CASE VocOf[t] # v
  <3>1. vocs'[VocOf[t]] = vocs[VocOf[t]]
    BY <1>1, <2>1, <2>3 DEF NestTable, VocsOK
  <3> QED
    BY <2>1, <2>2, <3>1 DEF Nested
 <2>4. CASE VocOf[t] = v
  <3> DEFINE retyped == new.flat /\ \E x \in TermsOf(v) : db[x].parent # NoParent
             limited == new.max # Unlimited /\ \E x \in TermsOf(v) : Depth(x) > new.max
  <3>1. If("retyped", retyped) \cup If("limited", limited) = {}
    BY <1>3, <1>4, <2>4 DEF Unfit
  <3>2. ~retyped /\ ~limited
   <4> HIDE DEF retyped, limited
   <4> QED
     BY <3>1 DEF If
  <3>3. Depth(t) = db[t].depth /\ db[t].depth \in Nat
    BY <2>1, <2>2, DepthRight DEF NestTable, Nested, Level
  <3>4. new.max # Unlimited => new.max \in Nat
    BY DEF Vocabulary
  <3>5. new.max # Unlimited => db[t].depth <= new.max
    BY <2>1, <2>4, <3>2, <3>3, <3>4
  <3>6. new.flat => db[t].parent = NoParent
    BY <2>1, <2>4, <3>2
  <3> QED
    BY <1>2, <2>4, <3>5, <3>6 DEF Fits
 <2> QED
   BY <2>3, <2>4
<1> QED
  BY <1>2, <1>3, <1>4

LEMMA NestConfigure ==
  ASSUME IInv, TagInv, TagInv', NestInv, NEW s \in Session, Configure(s)
  PROVE  NestInv'
<1> DEFINE r == call[s]  v == r.obj  new == [vocs[v] EXCEPT ![r.type] = r.voc[r.type]]
<1>0. TableOK /\ NestTable /\ NestsRight /\ OtherCall(r)
  BY DEF TagInv, NestInv, NestCalls
<1>1. /\ At(s, "configure", "save") /\ Ends(s) /\ UNCHANGED <<db, active, used>>
      /\ UNCHANGED <<vocs, why>> \/ Reconfigured(v, new)
  BY Zenon DEF Configure
<1>2. CASE UNCHANGED <<vocs, why>>
  BY <1>1, <1>2, NestEnds DEF Untouched, tree
<1>3. CASE Reconfigured(v, new)
 <2>1. v \in Vocab /\ r.type \in DOMAIN Settings /\ r.voc[r.type] \in Settings[r.type]
   BY <1>0, <1>1 DEF OtherCall, At
 <2>2. new \in Vocabulary
   BY <1>0, <2>1 DEF NestTable, VocsOK, Vocabulary, Settings
 <2> HIDE DEF new
 <2>3. /\ VocsOK' /\ MoreNest
       /\ \A t \in Rows : why'.nest[VocOf[t]] = {} => Fits(db[t], vocs'[VocOf[t]])
   BY <1>0, <1>3, <2>1, <2>2, NestSettings
 <2>4. Rows' = Rows /\ db' = db
   BY <1>1 DEF Rows
 <2>5. TableAfter /\ Unborn(s)
   BY <1>0, <2>3, <2>4 DEF TableAfter, Settled, Unborn, NestTable
 <2> QED
   BY <1>1, <2>5, NestWrites
<1> QED
  BY <1>1, <1>2, <1>3

(***************************************************************************)
(* Imports.  The parent of a new term is a term that was there.            *)
(***************************************************************************)
LEMMA ParentNamedFacts ==
  ASSUME TableOK, NEW w \in Vocab, NEW e, Known(w, e)
  PROVE  LET p == ParentNamed(w, e) IN p = NoParent \/ (p \in Rows /\ VocOf[p] = w)
<1> SUFFICES ASSUME e.parent # NoSlug PROVE Named(w, e.parent) \in Rows /\ VocOf[Named(w, e.parent)] = w
  BY DEF ParentNamed
<1>1. PICK t \in TermsOf(w) : SlugOf[t] = e.parent
  BY DEF Known, Slugs
<1>2. t \in Term /\ t \in Rows /\ VocOf[t] = w
  BY <1>1 DEF TermsOf, TableOK
<1>3. Named(w, e.parent) \in Term /\ VocOf[Named(w, e.parent)] = w /\ SlugOf[Named(w, e.parent)] = e.parent
  BY <1>1, <1>2 DEF Named
<1>4. Named(w, e.parent) = t
  BY <1>1, <1>2, <1>3, SlugAssumption
<1> QED
  BY <1>2, <1>4

LEMMA RowOfNewFacts ==
  ASSUME NEW w, NEW doc, NEW V, NEW i
  PROVE  LET p == ParentNamed(w, doc.terms[i])  row == RowOfNew(w, doc, V, i) IN
         /\ {"parent", "depth"} \subseteq DOMAIN row /\ row.parent = p
         /\ row.depth = IF p = NoParent THEN 0 ELSE RowOf(p).depth + 1
<1> DEFINE p == ParentNamed(w, doc.terms[i])
<1>1. \E sibs : RowOfNew(w, doc, V, i) = RowForInsert(sibs, p, RowOf(p))
  BY Zenon DEF RowOfNew
<1> HIDE DEF p
<1>2. \A sibs, held : /\ {"parent", "depth"} \subseteq DOMAIN RowForInsert(sibs, p, held)
                      /\ RowForInsert(sibs, p, held).parent = p
                      /\ RowForInsert(sibs, p, held).depth = IF p = NoParent THEN 0 ELSE held.depth + 1
  BY DEF RowForInsert
<1>3. /\ {"parent", "depth"} \subseteq DOMAIN RowOfNew(w, doc, V, i) /\ RowOfNew(w, doc, V, i).parent = p
      /\ RowOfNew(w, doc, V, i).depth = IF p = NoParent THEN 0 ELSE RowOf(p).depth + 1
  BY <1>1, <1>2
<1> QED
  BY <1>3 DEF p

\* The settings that an import leaves.
ImportVoc(r) ==
  IF r.live THEN [vocs[r.obj] EXCEPT !.multiple = r.doc.voc.multiple, !.max = r.doc.voc.max] ELSE vocs[r.obj]

LEMMA ImportVocFacts ==
  ASSUME VocsOK, NEW r, r.obj \in Vocab, r.doc.voc \in Vocabulary
  PROVE  ImportVoc(r) \in Vocabulary
<1> DEFINE v == vocs[r.obj]  m == r.doc.voc.multiple  x == r.doc.voc.max
<1>1. v \in Vocabulary /\ m \in BOOLEAN /\ x \in Nat \cup {Unlimited}
  BY DEF VocsOK, Vocabulary
<1> HIDE DEF v, m, x
<1>2. [v EXCEPT !.multiple = m, !.max = x] \in Vocabulary
  BY <1>1 DEF Vocabulary
<1> QED
  BY <1>1, <1>2 DEF ImportVoc, v, m, x

LEMMA NestImport ==
  ASSUME IInv, TagInv, TagInv', NestInv, NEW s \in Session, Import(s)
  PROVE  NestInv'
<1> DEFINE r == call[s]  w == r.obj  doc == r.doc  new == NewEntries(w, doc)
           named(t, i) == VocOf[t] = w /\ SlugOf[t] = doc.terms[i].slug
           voc == ImportVoc(r)
<1>0. TableOK /\ NestTable /\ NestsRight /\ OtherCall(r) /\ IsCall(r)
  BY DEF IInv, CallsOK, TagInv, NestInv, NestCalls
<1>1. Ends(s) /\ r.op = "import"
  BY Zenon DEF Import, At
<1>2. w \in Vocab /\ voc \in Vocabulary
  BY <1>0, <1>1, ImportVocFacts DEF IsCall, DocOK, OtherCall, NestTable
<1>3. \/ UNCHANGED <<tree, used, why>>
      \/ \E V, born :
           /\ born = {t \in Term \ Rows : \E i \in new : named(t, i)}
           /\ \A u \in Session \ {s} : {call[u].term, call[u].other} \cap born = {}
           /\ db' = [t \in Rows \cup born |->
                       IF t \in Rows THEN db[t] ELSE RowOfNew(w, doc, V, CHOOSE i \in new : named(t, i))]
           /\ \A i \in new : LET row == RowOfNew(w, doc, V, i) IN
                ~Misplaced(w, voc, row.parent) /\ ~TooDeep(voc, row.parent, row.depth)
           /\ Commits(db') /\ Reconfigured(w, voc) /\ used' = used \cup born
 <2> DEFINE asleep == {Named(w, e.slug) : e \in {e \in Range(doc.terms) : e.slug \in Slugs(w) /\ Known(w, e) /\ ~e.live}}
            V == active \ asleep
            born == {t \in Term \ Rows : \E i \in new : named(t, i)}
            row(i) == RowOfNew(w, doc, V, i)
            d == [t \in Rows \cup born |-> IF t \in Rows THEN db[t] ELSE row(CHOOSE i \in new : named(t, i))]
            refused == \E i \in new : Misplaced(w, voc, row(i).parent) \/ TooDeep(voc, row(i).parent, row(i).depth)
 <2>1. /\ \A u \in Session \ {s} : {call[u].term, call[u].other} \cap born = {}
       /\ \/ UNCHANGED <<tree, rels, used, why>>
          \/ ~refused /\ Commits(d) /\ db' = d /\ Reconfigured(w, voc) /\ used' = used \cup born
   BY Zenon DEF Import, ImportVoc
 <2>2. CASE UNCHANGED <<tree, rels, used, why>>
   BY <2>2
 <2>3. CASE ~refused /\ Commits(d) /\ db' = d /\ Reconfigured(w, voc) /\ used' = used \cup born
  <3>1. \A i \in new : ~Misplaced(w, voc, row(i).parent) /\ ~TooDeep(voc, row(i).parent, row(i).depth)
    BY <2>3, Zenon
  <3>2. Commits(db')
    BY <2>3
  <3> QED
    BY <2>1, <2>3, <3>1, <3>2, Zenon
 <2> QED
   BY <2>1, <2>2, <2>3
<1>4. CASE UNCHANGED <<tree, used, why>>
  BY <1>1, <1>4, NestEnds DEF Untouched
<1>5. ASSUME NEW V, NEW born,
             born = {t \in Term \ Rows : \E i \in new : named(t, i)},
             \A u \in Session \ {s} : {call[u].term, call[u].other} \cap born = {},
             db' = [t \in Rows \cup born |->
                      IF t \in Rows THEN db[t] ELSE RowOfNew(w, doc, V, CHOOSE i \in new : named(t, i))],
             \A i \in new : LET row == RowOfNew(w, doc, V, i) IN
               ~Misplaced(w, voc, row.parent) /\ ~TooDeep(voc, row.parent, row.depth),
             Commits(db'), Reconfigured(w, voc), used' = used \cup born
      PROVE  NestInv'
 <2> HIDE DEF voc
 <2>1. /\ VocsOK' /\ MoreNest /\ vocs'[w] = voc
       /\ \A t \in Rows : why'.nest[VocOf[t]] = {} => Fits(db[t], vocs'[VocOf[t]])
   BY <1>0, <1>2, <1>5, NestSettings
 <2>2. Rows' = Rows \cup born /\ \A t \in Rows : db'[t] = db[t]
   BY <1>5 DEF Rows
 <2>3. ASSUME NEW t \in born
       PROVE  \E p \in Rows \cup {NoParent} :
                /\ p # NoParent => VocOf[p] = w
                /\ {"parent", "depth"} \subseteq DOMAIN db'[t] /\ db'[t].parent = p
                /\ db'[t].depth = IF p = NoParent THEN 0 ELSE db[p].depth + 1
                /\ ~Misplaced(w, voc, p) /\ ~TooDeep(voc, p, db'[t].depth)
                /\ VocOf[t] = w /\ t \notin Rows
  <3> DEFINE i == CHOOSE i \in new : named(t, i)
             p == ParentNamed(w, doc.terms[i])
  <3>1. i \in new /\ VocOf[t] = w /\ t \notin Rows
    BY <1>5
  <3>2. db'[t] = RowOfNew(w, doc, V, i)
    BY <1>5, <3>1, Zenon
  <3> HIDE DEF i
  <3>3. Known(w, doc.terms[i])
    BY <3>1 DEF NewEntries
  <3>4. p = NoParent \/ (p \in Rows /\ VocOf[p] = w)
    BY <1>0, <1>2, <3>3, ParentNamedFacts
  <3>5. /\ {"parent", "depth"} \subseteq DOMAIN db'[t] /\ db'[t].parent = p
        /\ db'[t].depth = IF p = NoParent THEN 0 ELSE RowOf(p).depth + 1
    BY <3>2, RowOfNewFacts
  <3>6. ~Misplaced(w, voc, p) /\ ~TooDeep(voc, p, db'[t].depth)
    BY <1>5, <3>1, <3>2, <3>5
  <3> HIDE DEF p
  <3> QED
    BY <3>1, <3>4, <3>5, <3>6 DEF RowOf
 <2>4. Shaped(db')
  <3> SUFFICES ASSUME NEW t \in Rows \cup born PROVE {"parent", "depth"} \subseteq DOMAIN db'[t]
    BY <2>2 DEF Shaped, Rows
  <3>1. t \in Rows => {"parent", "depth"} \subseteq DOMAIN db[t]
    BY <1>0 DEF NestTable, Shaped, Rows
  <3> QED
    BY <2>2, <2>3, <3>1
 <2>5. Parented(db')
  <3> SUFFICES ASSUME NEW t \in Rows \cup born PROVE Above(t, db'[t].parent)
    BY <1>5, <2>2, StorableParents DEF Parented, Rows
  <3>1. t \in Rows => Above(t, db[t].parent)
    BY <1>0 DEF NestTable, Parented, Rows
  <3>2. t \in born => Above(t, db'[t].parent)
    BY <2>3 DEF Above
  <3> QED
    BY <2>2, <3>1, <3>2
 <2>6. Settled
  <3> SUFFICES ASSUME NEW t \in Rows \cup born, why'.nest[VocOf[t]] = {}
               PROVE  /\ Fits(db'[t], vocs'[VocOf[t]])
                      /\ t \notin Rows => Level(db', t) /\ db'[t].parent \in Rows \cup {NoParent}
    BY <2>2 DEF Settled
  <3>1. CASE t \in Rows
    BY <2>1, <2>2, <3>1
  <3>2. CASE t \in born
   <4>1. PICK p \in Rows \cup {NoParent} :
           /\ p # NoParent => VocOf[p] = w
           /\ db'[t].parent = p
           /\ db'[t].depth = IF p = NoParent THEN 0 ELSE db[p].depth + 1
           /\ ~Misplaced(w, voc, p) /\ ~TooDeep(voc, p, db'[t].depth)
           /\ VocOf[t] = w /\ t \notin Rows
     BY <2>3, <3>2
   <4>2. Nested(w)
     BY <1>0, <1>2, <2>1, <4>1 DEF MoreNest, NestsRight
   <4>3. p # NoParent => p \in Rows /\ db[p].depth \in Nat
     BY <4>1, <4>2 DEF Nested, Level, TermsOf
   <4>4. Level(db', t)
     BY <2>2, <4>1, <4>3 DEF Level
   <4>5. Fits(db'[t], voc)
    <5> DEFINE row == db'[t]
    <5>1. voc.max # Unlimited => voc.max \in Nat
      BY <1>2 DEF Vocabulary
    <5>2. voc.flat => row.parent = NoParent
      BY <4>1 DEF Misplaced
    <5>3. ASSUME voc.max # Unlimited PROVE row.depth <= voc.max
     <6>1. CASE p = NoParent
       BY <4>1, <5>1, <5>3, <6>1
     <6>2. CASE p # NoParent
      <7>1. row.depth \in Nat
        BY <4>1, <4>3, <6>2
      <7> QED
        BY <4>1, <5>1, <5>3, <6>2, <7>1 DEF TooDeep
     <6> QED
       BY <6>1, <6>2
    <5> QED
      BY <5>2, <5>3 DEF Fits
   <4> QED
     BY <2>1, <4>1, <4>4, <4>5
  <3> QED
    BY <3>1, <3>2
 <2>7. Unborn(s)
   BY <1>5, <2>2 DEF Unborn
 <2>8. TableAfter /\ used \subseteq used'
   BY <1>5, <2>1, <2>4, <2>5, <2>6 DEF TableAfter
 <2> QED
   BY <1>1, <2>7, <2>8, NestWrites
<1> HIDE DEF voc, new, named
<1> QED
  BY <1>3, <1>4, <1>5, Zenon

(***************************************************************************)
(* The theorem                                                             *)
(***************************************************************************)
LEMMA NextNestInv == IInv /\ TagInv /\ NestInv /\ [Next]_vars => NestInv'
<1> SUFFICES ASSUME IInv, TagInv, NestInv, [Next]_vars PROVE NestInv'
  OBVIOUS
<1>0. TagInv'
  BY NextTagInv
<1>1. CASE UNCHANGED vars
  BY <1>1 DEF vars, tree, ghosts, NestInv, NestTable, Shaped, Parented, VocsOK, NestsRight, Nested, Loose, TermsOf, Rows,
       Level, Fits, NestCalls, Apart, SaveCall, OtherCall, CreateCall
<1>2. CASE Next
  BY <1>0, <1>2, NestBegins, NestReads, NestLinks, NestInsert, NestMove, NestSaveActive, NestSaveParent, NestMerge,
     NestDeletes, NestConfigure, NestFixTypes, NestFixPaths, NestImport, Zenon DEF Next
<1> QED
  BY <1>1, <1>2

(* A parent is a term of the same vocabulary; no term of a flat vocabulary   *)
(* has one, none of a limited one is deeper than the limit, and each is      *)
(* below a root, for any terms, vocabularies, settings, sessions and         *)
(* operations, unless one of the causes that NestingRight names has come.    *)
THEOREM NestingStays == Spec => []NestingRight
<1>1. Init => IInv /\ TagInv /\ NestInv
  BY InitIInv, InitTagInv, InitNestInv
<1>2. IInv /\ TagInv /\ NestInv /\ [Next]_vars => (IInv /\ TagInv /\ NestInv)'
  BY NextIInv, NextTagInv, NextNestInv
<1>3. Spec => [](IInv /\ TagInv /\ NestInv)
  BY <1>1, <1>2, PTL DEF Spec
<1>4. TagInv /\ NestInv => NestingRight
  BY NestInvNestingRight DEF TagInv
<1> QED
  BY <1>3, <1>4, PTL

=============================================================================
