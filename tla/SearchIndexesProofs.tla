------------------------ MODULE SearchIndexesProofs --------------------------
(* What the live index serves and what the rows say of its settings, proved    *)
(* for every set of callers, documents and deployments and every number of     *)
(* calls and failures: it is exact at rest (LiveExactUnlessGap), a right       *)
(* document stays (ServedStaysServed), and a row that says is_synced is one    *)
(* whose settings the engine holds (SyncedUnlessDrift).                        *)
(*                                                                             *)
(* The first part is about documents, in histories without one of the causes   *)
(* in "broken". What a reindex still has to do is read off the order of its    *)
(* steps, which is stated for what is left of any list of steps (Ordered).     *)
(* While full reindexes are under way a document may be missing for as long as *)
(* one of them will still bring it (Pledges); the rebuilt index of a           *)
(* zero-downtime reindex is right for all rows that were not written since     *)
(* they were read (BuildRight).                                                *)
(*                                                                             *)
(* The second part is about settings, in histories without one of the causes   *)
(* in "drift". A call that may still push or mark a row has the row as it is   *)
(* (Copies), a mark comes right after a push (Marks), and while the engine     *)
(* lacks the settings of a row that says is_synced, the call that saved it is  *)
(* still to withdraw the flag or to push (Debts).                              *)
EXTENDS SearchIndexes, FiniteSetTheorems, SequenceTheorems, TLAPS

(* ----------------------------- lists of steps ------------------------------ *)

Plain == {"insert", "save", "notify", "provision", "configure", "mark", "push", "erase", "drop", "tmpclean"}
Documentary == {"clear", "read", "fill", "tmpcreate", "tmpconfigure", "tmpread", "tmpfill", "swap", "tmpdelete"}
StepName == Plain \cup Documentary \cup {"send"}

Among(t) == {t[i] : i \in DOMAIN t}

(* A list of steps ends with what is left of a reindex, if anything; before a  *)
(* whole reindex there may be plain steps.                                     *)
EndsAs(t, w) ==
  \A i \in 1 .. Len(t) :
    IF i + Len(w) <= Len(t) THEN t[i] \in Plain ELSE t[i] = w[i + Len(w) - Len(t)]
Ordered(t) == t \in Seq(StepName) /\ \E w \in {<<>>, AllSteps, ZeroSteps} : EndsAs(t, w)
Shaped(t) == Ordered(t) \/ t = <<"send">>

(* ------------------------------ the invariant ------------------------------ *)

CallShape(r) ==
  /\ DOMAIN r = DOMAIN NoCall
  /\ Shaped(r.todo) /\ r.docs \in [Doc -> Nat] /\ r.dirty \in SUBSET Doc

EngineShape(e) ==
  /\ DOMAIN e = Uid
  /\ \A u \in Uid : DOMAIN e[u] = DOMAIN NoIndex /\ e[u].docs \in [Doc -> Nat]

Shapes ==
  /\ dep \in Deployments
  /\ DOMAIN call = Caller /\ \A c \in Caller : CallShape(call[c])
  /\ EngineShape(engine)
  /\ db \in [Doc -> Nat] /\ gap \in SUBSET Doc

(* A full reindex under way will bring the row d as it is.                     *)
Pledges(c, d) ==
  /\ Refills(c) /\ d \notin call[c].dirty /\ db[d] # 0
  /\ "read" \notin Ahead(c) => call[c].docs[d] = db[d]
Sound(d) == engine["live"].docs[d] = db[d] \/ \E c \in Caller : Pledges(c, d)

(* What is not written since it was read is what was read, or has been sent.   *)
ReadsRight(c) == \A d \in Doc \ call[c].dirty : call[c].docs[d] \in {0, db[d]}

GapRight == \A d \in Doc \ gap : Sound(d)
RefillRight(c) ==
  Refills(c) =>
    /\ call[c].dirty \subseteq gap
    /\ \A d \in Doc \ call[c].dirty : Sound(d)
    /\ "read" \notin Ahead(c) => ReadsRight(c)
ClearRight(c) == "clear" \in Ahead(c) => call[c].dirty = {}
SendRight(c) == Step(c) = "send" => \E d \in Doc : call[c].dirty = {d} /\ call[c].docs[d] = db[d]

(* The one caller whose temporary index will be swapped in.                    *)
Builds(c) == "swap" \in Ahead(c) /\ "tmpcreate" \notin Ahead(c)
BuildsAlone == \A c, o \in Caller : Builds(c) /\ Builds(o) => c = o
BuildRight(c) ==
  /\ Builds(c) /\ ~Rebuilds(c) => engine["tmp"].docs = NoDocs
  /\ Rebuilds(c) => /\ ReadsRight(c)
                    /\ \A d \in Doc \ call[c].dirty : call[c].docs[d] = 0 => engine["tmp"].docs[d] = db[d]
                    /\ "tmpfill" \notin Ahead(c) => call[c].docs = NoDocs

CallerRight(c) == RefillRight(c) /\ ClearRight(c) /\ SendRight(c) /\ BuildRight(c)
Served == GapRight /\ BuildsAlone /\ \A c \in Caller : CallerRight(c)

DocsInv == Shapes /\ (broken = {} => Served)

(* A deletion that the engine goes on with is a cause.                         *)
Waited == clearing # {} => broken # {}
IndexInv == DocsInv /\ Waited

(* ------------------------ lemmas about lists of steps ---------------------- *)

(* What is left of a list after its first step.                                *)
LEMMA AmongTail ==
  ASSUME NEW S, NEW t \in Seq(S), t # <<>>
  PROVE  /\ Tail(t) \in Seq(S) /\ Head(t) = t[1] /\ 1 \in DOMAIN t
         /\ Among(t) = {Head(t)} \cup Among(Tail(t))
         /\ Among(Tail(t)) = {t[i] : i \in 2 .. Len(t)}
<1>1. /\ Tail(t) \in Seq(S) /\ Len(t) \in Nat /\ Len(t) >= 1 /\ DOMAIN t = 1 .. Len(t)
      /\ DOMAIN Tail(t) = 1 .. Len(t) - 1 /\ Head(t) = t[1]
  OBVIOUS
<1>2. \A i \in 1 .. Len(t) - 1 : i + 1 \in 2 .. Len(t) /\ Tail(t)[i] = t[i + 1]
  BY <1>1
<1>3. \A i \in 2 .. Len(t) : i - 1 \in 1 .. Len(t) - 1 /\ Tail(t)[i - 1] = t[i]
  BY <1>1
<1>4. Among(Tail(t)) = {t[i] : i \in 2 .. Len(t)}
 <2>1. Among(Tail(t)) \subseteq {t[i] : i \in 2 .. Len(t)}
   BY <1>1, <1>2 DEF Among
 <2>2. {t[i] : i \in 2 .. Len(t)} \subseteq {Tail(t)[i] : i \in 1 .. Len(t) - 1}
   BY <1>3
 <2> QED BY <1>1, <2>1, <2>2 DEF Among
<1>5. 1 .. Len(t) = {1} \cup 2 .. Len(t)
  BY <1>1
<1>6. Among(t) = {t[1]} \cup {t[i] : i \in 2 .. Len(t)}
  BY <1>1, <1>5 DEF Among
<1> QED BY <1>1, <1>4, <1>6

(* What is left of a shaped list is shaped.                                    *)
LEMMA TailOrdered ==
  ASSUME NEW t, Ordered(t), t # <<>>
  PROVE  Ordered(Tail(t))
<1>1. PICK w \in {<<>>, AllSteps, ZeroSteps} : EndsAs(t, w)
  BY DEF Ordered
<1>2. t \in Seq(StepName) /\ Len(w) \in Nat
  BY DEF Ordered, AllSteps, ZeroSteps
<1>3. /\ Tail(t) \in Seq(StepName) /\ Len(t) \in Nat /\ Len(Tail(t)) = Len(t) - 1
      /\ \A i \in 1 .. Len(t) - 1 : i + 1 \in 1 .. Len(t) /\ Tail(t)[i] = t[i + 1]
  BY <1>2
<1>4. \A i \in 1 .. Len(t) - 1 :
        IF i + 1 + Len(w) <= Len(t) THEN t[i + 1] \in Plain ELSE t[i + 1] = w[i + 1 + Len(w) - Len(t)]
  BY <1>1, <1>3 DEF EndsAs
<1>5. \A i \in 1 .. Len(t) - 1 :
        /\ i + 1 + Len(w) <= Len(t) <=> i + Len(w) <= Len(t) - 1
        /\ i + 1 + Len(w) - Len(t) = i + Len(w) - (Len(t) - 1)
  BY <1>2, <1>3
<1>6. EndsAs(Tail(t), w)
  BY <1>3, <1>4, <1>5 DEF EndsAs
<1> QED BY <1>3, <1>6 DEF Ordered

(* A list whose reindex, if any, has not begun. Plain steps may come first.    *)
Whole(t) == t \in Seq(StepName) /\ \E w \in {<<>>, AllSteps, ZeroSteps} : Len(w) <= Len(t) /\ EndsAs(t, w)

(* Plain steps may be put before any list.                                     *)
LEMMA PlainFirst ==
  ASSUME NEW t, Whole(t), NEW p \in Seq(Plain)
  PROVE  Whole(p \o t) /\ Ordered(p \o t)
<1>1. PICK w \in {<<>>, AllSteps, ZeroSteps} : Len(w) <= Len(t) /\ EndsAs(t, w)
  BY DEF Whole
<1>2. t \in Seq(StepName) /\ p \in Seq(StepName) /\ Len(w) \in Nat
  BY DEF Whole, AllSteps, ZeroSteps, StepName
<1>3. /\ p \o t \in Seq(StepName) /\ Len(p \o t) = Len(p) + Len(t) /\ Len(p) \in Nat /\ Len(t) \in Nat
      /\ \A i \in 1 .. Len(p) : (p \o t)[i] = p[i] /\ p[i] \in Plain
      /\ \A i \in Len(p) + 1 .. Len(p) + Len(t) : (p \o t)[i] = t[i - Len(p)]
  BY <1>2
<1>4. ASSUME NEW i \in 1 .. Len(p) + Len(t)
      PROVE  IF i + Len(w) <= Len(p) + Len(t) THEN (p \o t)[i] \in Plain
             ELSE (p \o t)[i] = w[i + Len(w) - (Len(p) + Len(t))]
 <2>1. CASE i <= Len(p)
  <3>1. i + Len(w) <= Len(p) + Len(t)
    BY <1>1, <1>2, <1>3, <2>1
  <3> QED BY <1>3, <2>1, <3>1
 <2>2. CASE i > Len(p)
  <3>1. i - Len(p) \in 1 .. Len(t)
    BY <1>3, <2>2
  <3>2. IF i - Len(p) + Len(w) <= Len(t) THEN t[i - Len(p)] \in Plain
        ELSE t[i - Len(p)] = w[i - Len(p) + Len(w) - Len(t)]
    BY <1>1, <3>1 DEF EndsAs
  <3>3. i - Len(p) + Len(w) - Len(t) = i + Len(w) - (Len(p) + Len(t))
    BY <1>2, <1>3
  <3>4. (p \o t)[i] = t[i - Len(p)]
    BY <1>3, <2>2
  <3> QED BY <1>2, <1>3, <3>2, <3>3, <3>4
 <2> QED BY <1>2, <1>3, <2>1, <2>2
<1>5. EndsAs(p \o t, w) /\ Len(w) <= Len(p \o t)
  BY <1>1, <1>2, <1>3, <1>4 DEF EndsAs
<1> QED BY <1>3, <1>5 DEF Ordered, Whole

(* After a plain step nothing of a reindex has been done.                      *)
LEMMA PlainWhole ==
  ASSUME NEW t, Ordered(t), t # <<>>, Head(t) \in Plain
  PROVE  Whole(t) /\ Whole(Tail(t))
<1>1. PICK w \in {<<>>, AllSteps, ZeroSteps} : EndsAs(t, w)
  BY DEF Ordered
<1>2. t \in Seq(StepName) /\ Len(w) \in Nat /\ \A i \in 1 .. Len(w) : w[i] \in Documentary
  BY DEF Ordered, AllSteps, ZeroSteps, Documentary
<1>3. /\ Tail(t) \in Seq(StepName) /\ Len(t) \in Nat /\ Len(t) >= 1 /\ Len(Tail(t)) = Len(t) - 1
      /\ \A i \in 1 .. Len(t) - 1 : i + 1 \in 1 .. Len(t) /\ Tail(t)[i] = t[i + 1]
      /\ Head(t) = t[1]
  BY <1>2
<1>4. 1 + Len(w) <= Len(t)
 <2>1. SUFFICES ASSUME ~(1 + Len(w) <= Len(t)) PROVE FALSE
   OBVIOUS
 <2>2. t[1] = w[1 + Len(w) - Len(t)] /\ 1 + Len(w) - Len(t) \in 1 .. Len(w)
   BY <1>1, <1>2, <1>3, <2>1 DEF EndsAs
 <2>3. t[1] \in Documentary
   BY <1>2, <2>2
 <2> QED BY <1>3, <2>3 DEF Plain, Documentary
<1>5. \A i \in 1 .. Len(t) - 1 :
        IF i + 1 + Len(w) <= Len(t) THEN t[i + 1] \in Plain ELSE t[i + 1] = w[i + 1 + Len(w) - Len(t)]
  BY <1>1, <1>3 DEF EndsAs
<1>6. \A i \in 1 .. Len(t) - 1 :
        /\ i + 1 + Len(w) <= Len(t) <=> i + Len(w) <= Len(t) - 1
        /\ i + 1 + Len(w) - Len(t) = i + Len(w) - (Len(t) - 1)
  BY <1>2, <1>3
<1>7. EndsAs(Tail(t), w)
  BY <1>3, <1>5, <1>6 DEF EndsAs
<1>8. Len(w) <= Len(t) /\ Len(w) <= Len(Tail(t))
  BY <1>2, <1>3, <1>4
<1> QED BY <1>1, <1>2, <1>3, <1>7, <1>8 DEF Whole

(* What is still to come of a reindex after each of its steps.                 *)
After(h) ==
  CASE h = "clear" -> {"read", "fill"}
    [] h = "read" -> {"fill"}
    [] h = "fill" -> {}
    [] h = "tmpcreate" -> {"tmpconfigure", "tmpread", "tmpfill", "swap", "tmpdelete"}
    [] h = "tmpconfigure" -> {"tmpread", "tmpfill", "swap", "tmpdelete"}
    [] h = "tmpread" -> {"tmpfill", "swap", "tmpdelete"}
    [] h = "tmpfill" -> {"swap", "tmpdelete"}
    [] h = "swap" -> {"tmpdelete"}
    [] h = "tmpdelete" -> {}

(* The places of a list of three or of six steps, for the two reindexes.       *)
LEMMA UpTo3 == \A n \in Nat : n >= 1 /\ ~(1 + 3 <= n) => n = 1 \/ n = 2 \/ n = 3
  OBVIOUS
LEMMA UpTo6 == \A n \in Nat : n >= 1 /\ ~(1 + 6 <= n) => n = 1 \/ n = 2 \/ n = 3 \/ n = 4 \/ n = 5 \/ n = 6
  OBVIOUS

(* Behind a step of a reindex comes the rest of that reindex.                  *)
LEMMA RestOfReindex ==
  ASSUME NEW t, Ordered(t), t # <<>>
  PROVE  /\ Head(t) \in StepName
         /\ Head(t) \in Documentary => Among(Tail(t)) = After(Head(t))
<1>1. PICK w \in {<<>>, AllSteps, ZeroSteps} : EndsAs(t, w)
  BY DEF Ordered
<1>2. /\ t \in Seq(StepName) /\ Len(t) \in Nat /\ Len(t) >= 1 /\ Head(t) = t[1] /\ Head(t) \in StepName
      /\ Among(Tail(t)) = {t[i] : i \in 2 .. Len(t)}
 <2>1. t \in Seq(StepName)
   BY DEF Ordered
 <2> QED BY <2>1, AmongTail
<1>3. SUFFICES ASSUME Head(t) \in Documentary PROVE Among(Tail(t)) = After(Head(t))
  BY <1>2
<1>4. ~(1 + Len(w) <= Len(t))
 <2>1. 1 + Len(w) <= Len(t) => t[1] \in Plain
   BY <1>1, <1>2 DEF EndsAs
 <2> QED BY <1>2, <1>3, <2>1 DEF Plain, Documentary
<1>5. Len(w) \in Nat /\ \A i \in 1 .. Len(t) : t[i] = w[i + Len(w) - Len(t)]
 <2>1. Len(w) \in Nat
   BY DEF AllSteps, ZeroSteps
 <2>2. \A i \in 1 .. Len(t) : ~(i + Len(w) <= Len(t))
   BY <1>2, <1>4, <2>1
 <2> QED BY <1>1, <2>1, <2>2 DEF EndsAs
<1>6. w # <<>>
  BY <1>2, <1>4
<1>7. CASE w = AllSteps
 <2>1. Len(w) = 3 /\ w[1] = "clear" /\ w[2] = "read" /\ w[3] = "fill"
   BY <1>7 DEF AllSteps
 <2>2. Len(t) = 1 \/ Len(t) = 2 \/ Len(t) = 3
   BY <1>2, <1>4, <2>1, UpTo3
 <2>3. CASE Len(t) = 1
  <3>1. t[1] = "fill"
    BY <1>5, <2>1, <2>3
  <3>2. 2 .. Len(t) = {}
    BY <2>3
  <3>3. Among(Tail(t)) = {}
    BY <1>2, <3>2
  <3> QED BY <1>2, <3>1, <3>3 DEF After
 <2>4. CASE Len(t) = 2
  <3>1. t[1] = "read" /\ t[2] = "fill"
    BY <1>5, <2>1, <2>4
  <3>2. 2 .. Len(t) = {2}
    BY <2>4
  <3>3. Among(Tail(t)) = {t[2]}
    BY <1>2, <3>2
  <3> QED BY <1>2, <3>1, <3>3 DEF After
 <2>5. CASE Len(t) = 3
  <3>1. t[1] = "clear" /\ t[2] = "read" /\ t[3] = "fill"
    BY <1>5, <2>1, <2>5
  <3>2. 2 .. Len(t) = {2, 3}
    BY <2>5
  <3>3. Among(Tail(t)) = {t[2], t[3]}
    BY <1>2, <3>2
  <3> QED BY <1>2, <3>1, <3>3 DEF After
 <2> QED BY <2>2, <2>3, <2>4, <2>5
<1>8. CASE w = ZeroSteps
 <2>1. Len(w) = 6 /\ w[1] = "tmpcreate" /\ w[2] = "tmpconfigure" /\ w[3] = "tmpread" /\ w[4] = "tmpfill" /\ w[5] = "swap" /\ w[6] = "tmpdelete"
   BY <1>8 DEF ZeroSteps
 <2>2. Len(t) = 1 \/ Len(t) = 2 \/ Len(t) = 3 \/ Len(t) = 4 \/ Len(t) = 5 \/ Len(t) = 6
   BY <1>2, <1>4, <2>1, UpTo6
 <2>3. CASE Len(t) = 1
  <3>1. t[1] = "tmpdelete"
    BY <1>5, <2>1, <2>3
  <3>2. 2 .. Len(t) = {}
    BY <2>3
  <3>3. Among(Tail(t)) = {}
    BY <1>2, <3>2
  <3> QED BY <1>2, <3>1, <3>3 DEF After
 <2>4. CASE Len(t) = 2
  <3>1. t[1] = "swap" /\ t[2] = "tmpdelete"
    BY <1>5, <2>1, <2>4
  <3>2. 2 .. Len(t) = {2}
    BY <2>4
  <3>3. Among(Tail(t)) = {t[2]}
    BY <1>2, <3>2
  <3> QED BY <1>2, <3>1, <3>3 DEF After
 <2>5. CASE Len(t) = 3
  <3>1. t[1] = "tmpfill" /\ t[2] = "swap" /\ t[3] = "tmpdelete"
    BY <1>5, <2>1, <2>5
  <3>2. 2 .. Len(t) = {2, 3}
    BY <2>5
  <3>3. Among(Tail(t)) = {t[2], t[3]}
    BY <1>2, <3>2
  <3> QED BY <1>2, <3>1, <3>3 DEF After
 <2>6. CASE Len(t) = 4
  <3>1. t[1] = "tmpread" /\ t[2] = "tmpfill" /\ t[3] = "swap" /\ t[4] = "tmpdelete"
    BY <1>5, <2>1, <2>6
  <3>2. 2 .. Len(t) = {2, 3, 4}
    BY <2>6
  <3>3. Among(Tail(t)) = {t[2], t[3], t[4]}
    BY <1>2, <3>2
  <3> QED BY <1>2, <3>1, <3>3 DEF After
 <2>7. CASE Len(t) = 5
  <3>1. t[1] = "tmpconfigure" /\ t[2] = "tmpread" /\ t[3] = "tmpfill" /\ t[4] = "swap" /\ t[5] = "tmpdelete"
    BY <1>5, <2>1, <2>7
  <3>2. 2 .. Len(t) = {2, 3, 4, 5}
    BY <2>7
  <3>3. Among(Tail(t)) = {t[2], t[3], t[4], t[5]}
    BY <1>2, <3>2
  <3> QED BY <1>2, <3>1, <3>3 DEF After
 <2>8. CASE Len(t) = 6
  <3>1. t[1] = "tmpcreate" /\ t[2] = "tmpconfigure" /\ t[3] = "tmpread" /\ t[4] = "tmpfill" /\ t[5] = "swap" /\ t[6] = "tmpdelete"
    BY <1>5, <2>1, <2>8
  <3>2. 2 .. Len(t) = {2, 3, 4, 5, 6}
    BY <2>8
  <3>3. Among(Tail(t)) = {t[2], t[3], t[4], t[5], t[6]}
    BY <1>2, <3>2
  <3> QED BY <1>2, <3>1, <3>3 DEF After
 <2> QED BY <2>2, <2>3, <2>4, <2>5, <2>6, <2>7, <2>8
<1> QED BY <1>6, <1>7, <1>8

(* A reindex that has not begun is whole, and of one kind.                     *)
LEMMA WholeAmong ==
  ASSUME NEW t, Whole(t)
  PROVE  LET A == Among(t) IN
         /\ "fill" \in A <=> "clear" \in A
         /\ "swap" \in A <=> "tmpcreate" \in A
         /\ "tmpread" \in A <=> "tmpcreate" \in A
         /\ ~("clear" \in A /\ "swap" \in A)
         /\ "send" \notin A
<1>1. PICK w \in {<<>>, AllSteps, ZeroSteps} : Len(w) <= Len(t) /\ EndsAs(t, w)
  BY DEF Whole
<1>2. t \in Seq(StepName) /\ Len(w) \in Nat /\ Len(t) \in Nat /\ DOMAIN t = 1 .. Len(t)
  BY DEF Whole, AllSteps, ZeroSteps
<1>3. \A i \in 1 .. Len(w) : i + (Len(t) - Len(w)) \in 1 .. Len(t) /\ t[i + (Len(t) - Len(w))] = w[i]
 <2>1. ASSUME NEW i \in 1 .. Len(w) PROVE i + (Len(t) - Len(w)) \in 1 .. Len(t) /\ t[i + (Len(t) - Len(w))] = w[i]
  <3>1. i + (Len(t) - Len(w)) \in 1 .. Len(t)
    BY <1>1, <1>2
  <3>2. ~(i + (Len(t) - Len(w)) + Len(w) <= Len(t)) /\ i + (Len(t) - Len(w)) + Len(w) - Len(t) = i
    BY <1>2
  <3> QED BY <1>1, <3>1, <3>2 DEF EndsAs
 <2> QED BY <2>1
<1>4. Among(w) \subseteq Among(t)
 <2>1. DOMAIN w = 1 .. Len(w)
   BY DEF AllSteps, ZeroSteps
 <2> QED BY <1>2, <1>3, <2>1 DEF Among
<1>5. \A i \in 1 .. Len(t) : t[i] \in Plain \/ t[i] \in Among(w)
 <2>1. ASSUME NEW i \in 1 .. Len(t), ~(i + Len(w) <= Len(t))
       PROVE  i + Len(w) - Len(t) \in 1 .. Len(w)
   BY <1>2, <2>1
 <2>2. DOMAIN w = 1 .. Len(w)
   BY DEF AllSteps, ZeroSteps
 <2> QED BY <1>1, <2>1, <2>2 DEF EndsAs, Among
<1>6. Among(t) \subseteq Plain \cup Among(w)
  BY <1>2, <1>5 DEF Among
<1>7. /\ Among(<<>>) = {}
      /\ Among(AllSteps) = {"clear", "read", "fill"}
      /\ Among(ZeroSteps) = {"tmpcreate", "tmpconfigure", "tmpread", "tmpfill", "swap", "tmpdelete"}
 <2>1. DOMAIN <<>> = {} /\ DOMAIN AllSteps = {1, 2, 3} /\ DOMAIN ZeroSteps = {1, 2, 3, 4, 5, 6}
   BY DEF AllSteps, ZeroSteps
 <2>2. Among(<<>>) = {}
   BY <2>1 DEF Among
 <2>3. Among(AllSteps) = {AllSteps[1], AllSteps[2], AllSteps[3]}
   BY <2>1 DEF Among
 <2>4. Among(ZeroSteps) = {ZeroSteps[1], ZeroSteps[2], ZeroSteps[3], ZeroSteps[4], ZeroSteps[5], ZeroSteps[6]}
   BY <2>1 DEF Among
 <2> QED BY <2>2, <2>3, <2>4 DEF AllSteps, ZeroSteps
<1>8. CASE w = <<>>
  BY <1>4, <1>6, <1>7, <1>8 DEF Plain
<1>9. CASE w = AllSteps
  BY <1>4, <1>6, <1>7, <1>9 DEF Plain
<1>10. CASE w = ZeroSteps
  BY <1>4, <1>6, <1>7, <1>10 DEF Plain
<1> QED BY <1>8, <1>9, <1>10

(* --------------------------- lemmas about the engine ----------------------- *)

(* The index u is the only one whose documents f may have changed.             *)
OnlyAt(u, e, f) == EngineShape(f) /\ \A v \in Uid : v # u => f[v].docs = e[v].docs
SameDocs(e, f) == EngineShape(f) /\ \A v \in Uid : f[v].docs = e[v].docs

(* The three ways in which a backend changes an engine.                        *)
LEMMA ReplaceEffect ==
  ASSUME NEW e, EngineShape(e), NEW u \in Uid, NEW i, DOMAIN i = DOMAIN NoIndex, i.docs \in [Doc -> Nat]
  PROVE  OnlyAt(u, e, Replace(e, u, i)) /\ Replace(e, u, i)[u].docs = i.docs
BY DEF EngineShape, OnlyAt, Replace

(* Making an index known touches no document; nor does a change of settings.   *)
LEMMA TouchEffect ==
  ASSUME NEW e, EngineShape(e), NEW u \in Uid
  PROVE  SameDocs(e, Touch(e, u))
BY DEF EngineShape, SameDocs, Touch, NoIndex

LEMMA SettingsEffect ==
  ASSUME NEW e, EngineShape(e), NEW u \in Uid, NEW s
  PROVE  SameDocs(e, [e EXCEPT ![u].settings = s])
BY DEF EngineShape, SameDocs, NoIndex

(* A stored version is that of its document in its index only.                 *)
LEMMA StoreEffect ==
  ASSUME NEW e, EngineShape(e), NEW u \in Uid, NEW d \in Doc, NEW n \in Nat
  PROVE  /\ OnlyAt(u, e, Store(e, u, d, n))
         /\ Store(e, u, d, n)[u].docs = [e[u].docs EXCEPT ![d] = n]
<1>1. [e[u].docs EXCEPT ![d] = n] \in [Doc -> Nat]
  BY DEF EngineShape
<1> QED BY <1>1 DEF EngineShape, OnlyAt, Store, NoIndex

(* No new, no removed index has documents.                                     *)
LEMMA EmptyIndexes ==
  /\ NoIndex.docs = NoDocs
  /\ DOMAIN FreshIndex = DOMAIN NoIndex /\ FreshIndex.docs = NoDocs
  /\ NoDocs \in [Doc -> Nat]
BY DEF NoIndex, FreshIndex, NoDocs

(* Creating and deleting an index concern no other index, on any backend.      *)
LEMMA CreateEffect ==
  ASSUME NEW b \in Backend, NEW e, EngineShape(e), NEW u \in Uid
  PROVE  OnlyAt(u, e, create_index(b, e, u).engine)
<1>1. OnlyAt(u, e, e)
  BY DEF OnlyAt, EngineShape
<1>2. OnlyAt(u, e, Replace(e, u, FreshIndex))
  BY ReplaceEffect, EmptyIndexes
<1>3. OnlyAt(u, e, Touch(e, u))
  BY TouchEffect DEF OnlyAt, SameDocs
<1>4. create_index(b, e, u).engine \in {e, Replace(e, u, FreshIndex), Touch(e, u)}
  BY DEF create_index, Backend, dummy_create, meilisearch_create, opensearch_create, typesense_create,
         solr_create, postgres_create, vespa_create, Done, If
<1> QED BY <1>1, <1>2, <1>3, <1>4

LEMMA DeleteEffect ==
  ASSUME NEW b \in Backend, NEW e, EngineShape(e), NEW u \in Uid
  PROVE  OnlyAt(u, e, delete_index(b, e, u).engine)
<1>1. OnlyAt(u, e, e)
  BY DEF OnlyAt, EngineShape
<1>2. OnlyAt(u, e, Replace(e, u, NoIndex))
  BY ReplaceEffect, EmptyIndexes
<1>3. delete_index(b, e, u).engine \in {e, Replace(e, u, NoIndex)}
  BY DEF delete_index, postgres_delete, vespa_delete, Done, If
<1> QED BY <1>1, <1>2, <1>3

(* Settings never touch documents, on any backend.                             *)
LEMMA PushEffect ==
  ASSUME NEW b \in Backend, NEW e, EngineShape(e), NEW u \in Uid, NEW s
  PROVE  SameDocs(e, update_settings(b, e, u, s).engine)
<1>1. SameDocs(e, e)
  BY DEF SameDocs
<1>2. SameDocs(e, [Touch(e, u) EXCEPT ![u].settings = Merge(@, s, Given(s, Key))])
 <2>1. SameDocs(e, Touch(e, u))
   BY TouchEffect
 <2>2. SameDocs(Touch(e, u), [Touch(e, u) EXCEPT ![u].settings = Merge(@, s, Given(s, Key))])
   BY <2>1, SettingsEffect DEF SameDocs
 <2> QED BY <2>1, <2>2 DEF SameDocs
<1>3. \A keys : SameDocs(e, [e EXCEPT ![u].settings = Merge(@, s, keys)])
  BY SettingsEffect
<1>4. SameDocs(e, [e EXCEPT ![u].settings = s])
  BY SettingsEffect
<1>5. CASE b = "meilisearch"
  BY <1>1, <1>2, <1>5 DEF update_settings, meilisearch_settings, If
<1>6. CASE b \in {"dummy", "postgres", "vespa"}
  BY <1>1, <1>4, <1>6 DEF update_settings, dummy_settings, postgres_settings, vespa_settings, Done, If
<1>7. CASE b \in {"opensearch", "typesense", "solr"}
  BY <1>1, <1>3, <1>7 DEF update_settings, opensearch_settings, typesense_settings, solr_settings, If
<1> QED BY <1>5, <1>6, <1>7 DEF Backend

(* What clearing, adding and removing do to the documents when they succeed.   *)
LEMMA ClearEffect ==
  ASSUME NEW b \in Backend, NEW e, EngineShape(e), NEW u \in Uid, clear_documents(b, e, u).ok
  PROVE  LET f == clear_documents(b, e, u).engine IN OnlyAt(u, e, f) /\ f[u].docs = NoDocs
BY EmptyIndexes DEF clear_documents, If, EngineShape, OnlyAt, NoIndex

LEMMA AddEffect ==
  ASSUME NEW b \in Backend, NEW e, EngineShape(e), NEW u \in Uid, NEW d \in Doc, NEW n \in Nat,
         add_document(b, e, u, d, n).ok
  PROVE  LET f == add_document(b, e, u, d, n).engine
         IN OnlyAt(u, e, f) /\ f[u].docs = [e[u].docs EXCEPT ![d] = n]
<1>1. add_document(b, e, u, d, n).engine \in {Store(e, u, d, n), Touch(Store(e, u, d, n), u)}
  BY DEF add_document, Backend, meilisearch_add, opensearch_add, postgres_add, vespa_add, typesense_add,
         solr_add, Done, If
<1>2. OnlyAt(u, e, Store(e, u, d, n)) /\ Store(e, u, d, n)[u].docs = [e[u].docs EXCEPT ![d] = n]
  BY StoreEffect
<1>3. SameDocs(Store(e, u, d, n), Touch(Store(e, u, d, n), u))
  BY <1>2, TouchEffect DEF OnlyAt
<1> QED BY <1>1, <1>2, <1>3 DEF OnlyAt, SameDocs

LEMMA RemoveEffect ==
  ASSUME NEW b \in Backend, NEW e, EngineShape(e), NEW u \in Uid, NEW d \in Doc, delete_document(b, e, u, d).ok
  PROVE  LET f == delete_document(b, e, u, d).engine
         IN OnlyAt(u, e, f) /\ f[u].docs = [e[u].docs EXCEPT ![d] = 0]
<1>1. delete_document(b, e, u, d).engine = Store(e, u, d, 0)
  BY DEF delete_document, If
<1> QED BY <1>1, StoreEffect

(* A swap is an exchange, an alias beside the index, or refused.               *)
LEMMA SwapExchanges ==
  ASSUME NEW b \in Backend, NEW e, NEW u, NEW v, swap_indexes(b, e, u, v).ok
  PROVE  /\ swap_indexes(b, e, u, v).engine = IF Exchanges(b, e, u, v) THEN Exchange(e, u, v) ELSE e
         /\ b \notin Unswappable /\ (Exchanges(b, e, u, v) => b \notin AliasOnly)
<1>1. CASE b \in AliasOnly
  BY <1>1 DEF swap_indexes, AliasOnly, Unswappable, opensearch_swap, typesense_swap, solr_swap, Done, Exchanges
<1>2. CASE b \in Unswappable
  BY <1>2 DEF swap_indexes, Unswappable, If
<1>3. CASE b = "dummy"
  BY <1>3 DEF swap_indexes, AliasOnly, Unswappable, dummy_swap, Done, Exchanges
<1>4. CASE b = "meilisearch"
  BY <1>4 DEF swap_indexes, AliasOnly, Unswappable, meilisearch_swap, Done, Exchanges
<1> QED BY <1>1, <1>2, <1>3, <1>4 DEF Backend, AliasOnly, Unswappable

LEMMA SwapEffect ==
  ASSUME NEW b \in Backend, NEW e, EngineShape(e), NEW u \in Uid, NEW v \in Uid, u # v, swap_indexes(b, e, u, v).ok
  PROVE  LET f == swap_indexes(b, e, u, v).engine IN
         IF Exchanges(b, e, u, v) THEN EngineShape(f) /\ f[u].docs = e[v].docs ELSE f = e
<1>1. swap_indexes(b, e, u, v).engine = IF Exchanges(b, e, u, v) THEN Exchange(e, u, v) ELSE e
  BY SwapExchanges
<1>2. EngineShape(Exchange(e, u, v)) /\ Exchange(e, u, v)[u].docs = e[v].docs
  BY DEF EngineShape, Exchange
<1> QED BY <1>1, <1>2

(* ---------------------------- lemmas about calls --------------------------- *)

(* What a list of steps says about a caller.                                   *)
NotBegun(t) ==
  /\ "fill" \in Among(t) <=> "clear" \in Among(t)
  /\ "swap" \in Among(t) <=> "tmpcreate" \in Among(t)
  /\ "tmpread" \in Among(t) <=> "tmpcreate" \in Among(t)
  /\ ~("clear" \in Among(t) /\ "swap" \in Among(t))
  /\ "send" \notin Among(t)

(* A call whose reindex has not begun neither refills nor rebuilds.            *)
LEMMA WholeNotBegun ==
  ASSUME NEW t, Whole(t)
  PROVE  NotBegun(t) /\ Shaped(t)
BY WholeAmong DEF NotBegun, Whole, Shaped, Ordered

(* The lists a call may begin with.                                            *)
LEMMA Lists ==
  /\ Whole(<<>>) /\ Whole(AllSteps) /\ Whole(ZeroSteps)
  /\ Shaped(<<"send">>) /\ Among(<<"send">>) = {"send"} /\ Among(<<>>) = {}
<1>1. EndsAs(<<>>, <<>>) /\ EndsAs(AllSteps, AllSteps) /\ EndsAs(ZeroSteps, ZeroSteps)
  BY DEF EndsAs, AllSteps, ZeroSteps
<1>2. AllSteps \in Seq(StepName) /\ ZeroSteps \in Seq(StepName) /\ <<>> \in Seq(StepName)
  BY DEF AllSteps, ZeroSteps, StepName, Documentary
<1>3. Whole(<<>>) /\ Whole(AllSteps) /\ Whole(ZeroSteps)
 <2>1. Len(<<>>) <= Len(<<>>) /\ Len(AllSteps) <= Len(AllSteps) /\ Len(ZeroSteps) <= Len(ZeroSteps)
   BY DEF AllSteps, ZeroSteps
 <2> QED BY <1>1, <1>2, <2>1 DEF Whole
<1>4. DOMAIN <<"send">> = {1} /\ DOMAIN <<>> = {}
  OBVIOUS
<1> QED BY <1>3, <1>4 DEF Shaped, Among

(* What is still to come before and after the first step of a list.            *)
LEMMA FirstStep ==
  ASSUME NEW t, Shaped(t), t # <<>>
  PROVE  /\ Head(t) \in StepName
         /\ Among(t) = {Head(t)} \cup Among(Tail(t)) /\ Shaped(Tail(t))
         /\ Head(t) \in Plain => Whole(t) /\ Whole(Tail(t))
         /\ Head(t) \in Documentary => Among(Tail(t)) = After(Head(t))
         /\ Head(t) = "send" => Tail(t) = <<>> /\ t = <<"send">>
<1>1. Shaped(t) /\ t # <<>>
  OBVIOUS
<1>2. CASE t = <<"send">>
 <2>1. Head(t) = "send" /\ Tail(t) = <<>> /\ "send" \in StepName
   BY <1>2 DEF StepName
 <2>2. Among(t) = {"send"} /\ Among(Tail(t)) = {} /\ Shaped(Tail(t))
   BY <1>2, <2>1, Lists, WholeNotBegun
 <2> QED BY <1>1, <1>2, <2>1, <2>2 DEF Plain, Documentary
<1>3. CASE Ordered(t)
 <2>1. t \in Seq(StepName)
   BY <1>3 DEF Ordered
 <2>2. Among(t) = {Head(t)} \cup Among(Tail(t))
   BY <1>1, <2>1, AmongTail
 <2>3. Ordered(Tail(t))
   BY <1>1, <1>3, TailOrdered
 <2>4. /\ Head(t) \in StepName
       /\ Head(t) \in Documentary => Among(Tail(t)) = After(Head(t))
   BY <1>1, <1>3, RestOfReindex
 <2>5. Head(t) \in Plain => Whole(t) /\ Whole(Tail(t))
   BY <1>1, <1>3, PlainWhole
 <2>6. Head(t) # "send"
  <3>1. PICK w \in {<<>>, AllSteps, ZeroSteps} : EndsAs(t, w)
    BY <1>3 DEF Ordered
  <3>2. Len(t) \in Nat /\ 1 \in 1 .. Len(t) /\ Head(t) = t[1] /\ Len(w) \in Nat
    BY <1>1, <2>1 DEF AllSteps, ZeroSteps
  <3>3. t[1] \in Plain \/ (~(1 + Len(w) <= Len(t)) /\ t[1] = w[1 + Len(w) - Len(t)])
    BY <3>1, <3>2 DEF EndsAs
  <3>4. ASSUME ~(1 + Len(w) <= Len(t)) PROVE 1 + Len(w) - Len(t) \in 1 .. Len(w)
    BY <3>2, <3>4
  <3>5. \A i \in 1 .. Len(w) : w[i] \in Documentary
    BY DEF AllSteps, ZeroSteps, Documentary
  <3> QED BY <3>2, <3>3, <3>4, <3>5 DEF Plain, Documentary
 <2> QED BY <1>1, <2>2, <2>3, <2>4, <2>5, <2>6 DEF Shaped
<1> QED BY <1>1, <1>2, <1>3 DEF Shaped

(* The idle call, and what Rest leaves.                                        *)
LEMMA RestEffect ==
  ASSUME NEW r, CallShape(r)
  PROVE  /\ CallShape(Rest(r)) /\ Rest(r).todo = r.todo
         /\ r.todo # <<>> => Rest(r) = r
<1>1. CallShape([NoCall EXCEPT !.inst = IF r.op \in {"create", "update"} THEN r.inst ELSE NoRow])
  BY Lists, WholeNotBegun, EmptyIndexes DEF CallShape, NoCall
<1> QED BY <1>1 DEF Rest, NoCall

(* Rows that are noted as written while a call held them.                      *)
LEMMA DirtyEffect ==
  ASSUME NEW r, CallShape(r), NEW S \in SUBSET Doc
  PROVE  LET q == [r EXCEPT !.dirty = @ \cup S]
         IN CallShape(q) /\ q.todo = r.todo /\ q.docs = r.docs /\ q.dirty = r.dirty \cup S
<1> DEFINE q == [r EXCEPT !.dirty = @ \cup S]
<1>1. {"todo", "docs", "dirty"} \subseteq DOMAIN r /\ DOMAIN q = DOMAIN r
  BY DEF CallShape, NoCall
<1>2. q.todo = r.todo /\ q.docs = r.docs /\ q.dirty = r.dirty \cup S
  BY <1>1
<1> QED BY <1>1, <1>2 DEF CallShape

(* Every caller in its place: the one that acts goes on with r.                *)
LEMMA GoesOnEffect ==
  ASSUME NEW c \in Caller, NEW r, NEW S \in SUBSET Doc, GoesOn(c, r, S),
         DOMAIN call = Caller, \A o \in Caller : CallShape(call[o]), CallShape(r)
  PROVE  /\ DOMAIN call' = Caller /\ \A o \in Caller : CallShape(call'[o])
         /\ call'[c] = Rest(r)
         /\ \A o \in Caller \ {c} :
              /\ call'[o].todo = call[o].todo /\ call'[o].docs = call[o].docs
              /\ call'[o].dirty = IF Refills(o) THEN call[o].dirty \cup S ELSE call[o].dirty
<1>1. DOMAIN call' = Caller /\ call'[c] = Rest(r)
  BY DEF GoesOn
<1>2. \A o \in Caller \ {c} : call'[o] = IF Refills(o) THEN [call[o] EXCEPT !.dirty = @ \cup S] ELSE call[o]
  BY DEF GoesOn
<1>3. ASSUME NEW o \in Caller \ {c}
      PROVE  /\ CallShape(call'[o]) /\ call'[o].todo = call[o].todo /\ call'[o].docs = call[o].docs
             /\ call'[o].dirty = IF Refills(o) THEN call[o].dirty \cup S ELSE call[o].dirty
 <2>1. CallShape(call[o])
   OBVIOUS
 <2>2. CASE Refills(o)
  <3> DEFINE q == [call[o] EXCEPT !.dirty = @ \cup S]
  <3>1. call'[o] = q
    BY <1>2, <2>2
  <3>2. CallShape(q) /\ q.todo = call[o].todo /\ q.docs = call[o].docs /\ q.dirty = call[o].dirty \cup S
    BY <2>1, DirtyEffect
  <3> HIDE DEF q
  <3> QED BY <2>2, <3>1, <3>2
 <2>3. CASE ~Refills(o)
   BY <1>2, <2>1, <2>3
 <2> QED BY <2>2, <2>3
<1> QED BY <1>1, <1>3, RestEffect

(* What a caller is in the middle of.                                          *)
ListKind(t) ==
  /\ t # <<>> /\ Head(t) = "send" => Among(t) = {"send"}
  /\ "swap" \in Among(t) /\ "tmpread" \notin Among(t) => "tmpcreate" \notin Among(t)
  /\ ~("swap" \in Among(t) /\ "fill" \in Among(t))
  /\ ~("swap" \in Among(t) /\ "clear" \in Among(t))

(* Every list of steps is of one kind: no call refills and rebuilds.           *)
LEMMA Kinds ==
  ASSUME NEW t, Shaped(t)
  PROVE  ListKind(t)
<1>1. CASE t = <<>>
  BY <1>1, Lists DEF ListKind
<1>2. CASE t # <<>>
 <2>1. Head(t) \in Plain => NotBegun(t)
   BY <1>2, FirstStep, WholeNotBegun
 <2>2. Head(t) = "send" => Among(t) = {"send"}
   BY <1>2, FirstStep, Lists
 <2>3. Head(t) \in Documentary => Among(t) = {Head(t)} \cup After(Head(t))
   BY <1>2, FirstStep
 <2>4. Head(t) \in Plain \cup Documentary \cup {"send"}
   BY <1>2, FirstStep DEF StepName
 <2>5. CASE Head(t) = "send"
   BY <2>2, <2>5 DEF ListKind
 <2>6. CASE Head(t) \in {"clear", "read", "fill"}
   BY <2>3, <2>6 DEF ListKind, After, Documentary
 <2>7. CASE Head(t) \in {"tmpcreate", "tmpconfigure", "tmpread"}
   BY <2>3, <2>7 DEF ListKind, After, Documentary
 <2>8. CASE Head(t) \in {"tmpfill", "swap", "tmpdelete"}
   BY <2>3, <2>8 DEF ListKind, After, Documentary
 <2>9. CASE Head(t) \in Plain
   BY <2>1, <2>9 DEF ListKind, NotBegun, Plain
 <2> QED BY <2>4, <2>5, <2>6, <2>7, <2>8, <2>9 DEF Documentary
<1> QED BY <1>1, <1>2

(* The same of a caller, now and after a step.                                 *)
LEMMA CallerKind ==
  ASSUME NEW c \in Caller, CallShape(call[c])
  PROVE  /\ Rebuilds(c) => Builds(c)
         /\ Refills(c) => ~Builds(c)
         /\ "clear" \in Ahead(c) => ~Refills(c) /\ ~Builds(c)
         /\ Step(c) = "send" => ~Refills(c) /\ ~Builds(c) /\ "clear" \notin Ahead(c)
         /\ NotBegun(call[c].todo) => ~Refills(c) /\ ~Builds(c)
<1>1. Ahead(c) = Among(call[c].todo) /\ Shaped(call[c].todo)
  BY DEF Ahead, Among, CallShape
<1>2. ListKind(call[c].todo)
  BY <1>1, Kinds
<1> QED BY <1>1, <1>2 DEF ListKind, NotBegun, Rebuilds, Builds, Refills, Step, Idle

(* The same of the call a caller has after a step.                             *)
LEMMA CallerKindNext ==
  ASSUME NEW c \in Caller, CallShape(call'[c])
  PROVE  /\ Rebuilds(c)' => Builds(c)'
         /\ Refills(c)' => ~Builds(c)'
         /\ "clear" \in Ahead(c)' => ~Refills(c)' /\ ~Builds(c)'
         /\ Step(c)' = "send" => ~Refills(c)' /\ ~Builds(c)' /\ "clear" \notin Ahead(c)'
         /\ NotBegun(call'[c].todo) => ~Refills(c)' /\ ~Builds(c)'
<1>1. Ahead(c)' = Among(call'[c].todo) /\ Shaped(call'[c].todo)
  BY DEF Ahead, Among, CallShape
<1>2. ListKind(call'[c].todo)
  BY <1>1, Kinds
<1> QED BY <1>1, <1>2 DEF ListKind, NotBegun, Rebuilds, Builds, Refills, Step, Idle

(* Every step is one of the names.                                             *)
LEMMA NextStep ==
  ASSUME NEW c \in Caller, CallShape(call[c]), ~Idle(c)
  PROVE  /\ Step(c) \in StepName /\ Step(c) = Head(call[c].todo) /\ call[c].todo # <<>>
         /\ Ahead(c) = {Step(c)} \cup Among(Pop(c)) /\ Shaped(Pop(c))
         /\ Step(c) \in Plain => NotBegun(call[c].todo) /\ Whole(Pop(c)) /\ NotBegun(Pop(c))
         /\ Step(c) \in Documentary => Among(Pop(c)) = After(Step(c))
         /\ Step(c) = "send" => Pop(c) = <<>> /\ Ahead(c) = {"send"}
<1>1. call[c].todo # <<>> /\ Shaped(call[c].todo) /\ Ahead(c) = Among(call[c].todo)
  BY DEF Idle, CallShape, Ahead, Among
<1>2. Step(c) = Head(call[c].todo) /\ Pop(c) = Tail(call[c].todo)
  BY DEF Step, Pop, Idle
<1> QED BY <1>1, <1>2, FirstStep, WholeNotBegun, Lists

(* What a caller in a reindex still has to do is known from its step.          *)
LEMMA ReindexStep ==
  ASSUME NEW c \in Caller, CallShape(call[c]), Step(c) \in Documentary
  PROVE  ~Idle(c) /\ Ahead(c) = {Step(c)} \cup After(Step(c)) /\ Among(Pop(c)) = After(Step(c))
<1>1. ~Idle(c)
  BY DEF Step, Documentary
<1> QED BY <1>1, NextStep

(* A caller whose list of steps does not change.                               *)
LEMMA SameList ==
  ASSUME NEW c \in Caller, call'[c].todo = call[c].todo
  PROVE  /\ Ahead(c)' = Ahead(c) /\ Step(c)' = Step(c)
         /\ Refills(c)' <=> Refills(c)
         /\ Rebuilds(c)' <=> Rebuilds(c)
         /\ Builds(c)' <=> Builds(c)
BY DEF Ahead, Step, Idle, Refills, Rebuilds, Builds

(* -------------------- what a step does to the invariant -------------------- *)

Live(d) == engine["live"].docs[d]

(* The other callers stay where they are, but for the rows in S.               *)
OthersStay(c, S) ==
  \A o \in Caller \ {c} :
    /\ call'[o].todo = call[o].todo /\ call'[o].docs = call[o].docs
    /\ call'[o].dirty = IF Refills(o) THEN call[o].dirty \cup S ELSE call[o].dirty

(* The calls of the others stay what they are; only rows are noted in them.    *)
LEMMA OtherSame ==
  ASSUME NEW c \in Caller, NEW S, OthersStay(c, S), NEW o \in Caller \ {c}
  PROVE  /\ call'[o].todo = call[o].todo /\ call'[o].docs = call[o].docs
         /\ call'[o].dirty = IF Refills(o) THEN call[o].dirty \cup S ELSE call[o].dirty
         /\ Ahead(o)' = Ahead(o) /\ Step(o)' = Step(o)
         /\ Refills(o)' <=> Refills(o)
         /\ Rebuilds(o)' <=> Rebuilds(o)
         /\ Builds(o)' <=> Builds(o)
BY SameList DEF OthersStay

(* The invariant for a caller that does not act.                               *)
LEMMA OtherRight ==
  ASSUME NEW c \in Caller, NEW S \in SUBSET Doc, OthersStay(c, S), db' = db,
         NEW o \in Caller \ {c}, CallShape(call[o]), CallerRight(o),
         Refills(o) => /\ call[o].dirty \cup S \subseteq gap'
                       /\ \A d \in Doc \ (call[o].dirty \cup S) : Sound(d)',
         Builds(o) => engine'["tmp"].docs = engine["tmp"].docs
  PROVE  CallerRight(o)'
<1>1. /\ call'[o].todo = call[o].todo /\ call'[o].docs = call[o].docs
      /\ call'[o].dirty = IF Refills(o) THEN call[o].dirty \cup S ELSE call[o].dirty
      /\ Ahead(o)' = Ahead(o) /\ Step(o)' = Step(o)
      /\ Refills(o)' <=> Refills(o)
      /\ Rebuilds(o)' <=> Rebuilds(o)
      /\ Builds(o)' <=> Builds(o)
  BY OtherSame
<1>2. ReadsRight(o) => ReadsRight(o)'
  BY <1>1 DEF ReadsRight
<1>3. RefillRight(o)'
  BY <1>1, <1>2 DEF CallerRight, RefillRight
<1>4. ClearRight(o)'
  BY <1>1, CallerKind DEF CallerRight, ClearRight
<1>5. SendRight(o)'
  BY <1>1, CallerKind DEF CallerRight, SendRight
<1>6. BuildRight(o)'
 <2>1. Rebuilds(o) => Builds(o)
   BY CallerKind
 <2>2. call[o].dirty \subseteq call'[o].dirty
   BY <1>1
 <2> QED BY <1>1, <1>2, <2>1, <2>2 DEF CallerRight, BuildRight
<1> QED BY <1>3, <1>4, <1>5, <1>6 DEF CallerRight

(* A second rebuild of the temporary index does not begin unnoticed.           *)
LEMMA AloneStays ==
  ASSUME NEW c \in Caller, NEW S, OthersStay(c, S), BuildsAlone,
         \A o \in Caller \ {c} : ~(Builds(o) /\ Builds(c)')
  PROVE  BuildsAlone'
<1>1. SUFFICES ASSUME NEW a \in Caller, NEW o \in Caller, Builds(a)', Builds(o)', a # o PROVE FALSE
  BY DEF BuildsAlone
<1>2. CASE a # c /\ o # c
  BY <1>1, <1>2, OtherSame DEF BuildsAlone
<1>3. CASE a = c \/ o = c
  BY <1>1, <1>3, OtherSame
<1> QED BY <1>2, <1>3

(* A pledge of another caller is kept, but for the rows in S.                  *)
LEMMA PledgeStays ==
  ASSUME NEW c \in Caller, NEW S, OthersStay(c, S), db' = db,
         NEW o \in Caller \ {c}, NEW d \in Doc \ S, Pledges(o, d)
  PROVE  Pledges(o, d)'
<1>1. /\ call'[o].docs = call[o].docs /\ Ahead(o)' = Ahead(o) /\ (Refills(o)' <=> Refills(o))
      /\ call'[o].dirty = IF Refills(o) THEN call[o].dirty \cup S ELSE call[o].dirty
  BY OtherSame
<1>2. Refills(o)' /\ d \notin call'[o].dirty /\ db'[d] # 0
  BY <1>1 DEF Pledges
<1> QED BY <1>1, <1>2 DEF Pledges

(* A step of a caller that is not in the middle of a full reindex, before or   *)
(* after, and leaves at most the documents in S wrong.                         *)
Harmless(c, S) ==
  /\ OthersStay(c, S) /\ db' = db
  /\ \A d \in Doc \ S : Live(d)' \in {Live(d), db[d]}
  /\ \A d \in Doc \ gap' : d \notin gap \cup S \/ Live(d)' = db[d]
  /\ \A o \in Caller \ {c} : Refills(o) => call[o].dirty \cup S \subseteq gap'
  /\ \A o \in Caller \ {c} : Builds(o) => engine'["tmp"].docs = engine["tmp"].docs /\ ~Builds(c)'
  /\ ~Refills(c) /\ ~Refills(c)' /\ CallerRight(c)'

(* A harmless step leaves right what the live index serves.                    *)
LEMMA HarmlessServed ==
  ASSUME NEW c \in Caller, NEW S \in SUBSET Doc, Shapes, Shapes', Served, Harmless(c, S)
  PROVE  Served'
<1>1. /\ \A o \in Caller : CallShape(call[o])
      /\ db \in [Doc -> Nat] /\ gap' \in SUBSET Doc
  BY DEF Shapes
<1>2. OthersStay(c, S) /\ db' = db
  BY DEF Harmless
<1>3. \A d \in Doc \ S : Sound(d) => Sound(d)'
 <2>1. SUFFICES ASSUME NEW d \in Doc \ S, Sound(d) PROVE Sound(d)'
   OBVIOUS
 <2>2. CASE engine["live"].docs[d] = db[d]
   BY <2>2 DEF Harmless, Sound, Live
 <2>3. CASE \E o \in Caller : Pledges(o, d)
  <3>1. PICK o \in Caller : Pledges(o, d)
    BY <2>3
  <3>2. o \in Caller \ {c}
    BY <3>1 DEF Pledges, Harmless
  <3>3. Pledges(o, d)'
    BY <1>2, <3>1, <3>2, PledgeStays
  <3> QED BY <3>3 DEF Sound
 <2> QED BY <2>1, <2>2, <2>3 DEF Sound
<1>4. GapRight'
 <2>1. SUFFICES ASSUME NEW d \in Doc \ gap' PROVE Sound(d)'
   BY DEF GapRight
 <2>2. CASE d \notin gap \cup S
   BY <1>3, <2>2 DEF Served, GapRight
 <2>3. CASE Live(d)' = db[d]
   BY <2>3 DEF Harmless, Sound, Live
 <2> QED BY <2>1, <2>2, <2>3 DEF Harmless
<1>5. ASSUME NEW o \in Caller \ {c} PROVE CallerRight(o)'
 <2>1. CallShape(call[o]) /\ CallerRight(o)
   BY <1>1 DEF Served
 <2>2. Refills(o) => /\ call[o].dirty \cup S \subseteq gap'
                     /\ \A d \in Doc \ (call[o].dirty \cup S) : Sound(d)'
   BY <1>3, <2>1 DEF CallerRight, RefillRight, Harmless
 <2>3. Builds(o) => engine'["tmp"].docs = engine["tmp"].docs
   BY DEF Harmless
 <2> QED BY <1>2, <2>1, <2>2, <2>3, OtherRight
<1>6. BuildsAlone'
  BY <1>2, AloneStays DEF Served, Harmless
<1> QED BY <1>4, <1>5, <1>6 DEF Served, Harmless

(* The invariant for a caller in the middle of a full reindex.                 *)
LEMMA RefillerRight ==
  ASSUME NEW c \in Caller, CallShape(call'[c]), Refills(c)', RefillRight(c)'
  PROVE  CallerRight(c)' /\ ~Builds(c)'
<1>1. /\ Rebuilds(c)' => Builds(c)'
      /\ Refills(c)' => ~Builds(c)'
      /\ "clear" \in Ahead(c)' => ~Refills(c)' /\ ~Builds(c)'
      /\ Step(c)' = "send" => ~Refills(c)' /\ ~Builds(c)' /\ "clear" \notin Ahead(c)'
  BY CallerKindNext
<1> QED BY <1>1 DEF CallerRight, ClearRight, SendRight, BuildRight

(* The clear of a full reindex: every row is still to be read.                 *)
LEMMA ClearServed ==
  ASSUME NEW c \in Caller, Shapes, Shapes', Served, Step(c) = "clear",
         OthersStay(c, {}), db' = db, gap' = gap,
         engine'["live"].docs = NoDocs, engine'["tmp"].docs = engine["tmp"].docs,
         call'[c].todo = Pop(c), call'[c].dirty = call[c].dirty
  PROVE  Served'
<1>1. \A o \in Caller : CallShape(call[o]) /\ CallShape(call'[o])
  BY DEF Shapes
<1>2. Ahead(c)' = {"read", "fill"} /\ "clear" \in Ahead(c)
 <2>1. Ahead(c)' = Among(Pop(c))
   BY DEF Ahead, Among
 <2>2. Step(c) \in Documentary
   BY DEF Documentary
 <2> QED BY <1>1, <2>1, <2>2, ReindexStep DEF After
<1>3. Refills(c)' /\ call'[c].dirty = {} /\ "read" \in Ahead(c)'
  BY <1>2 DEF Refills, Served, CallerRight, ClearRight
<1>4. \A d \in Doc : Sound(d)'
 <2>1. \A d \in Doc : db[d] = 0 => engine'["live"].docs[d] = db'[d]
   BY DEF NoDocs
 <2>2. \A d \in Doc : db[d] # 0 => Pledges(c, d)'
   BY <1>3 DEF Pledges
 <2> QED BY <2>1, <2>2 DEF Sound
<1>5. RefillRight(c)'
  BY <1>3, <1>4 DEF RefillRight
<1>6. CallerRight(c)' /\ ~Builds(c)'
  BY <1>1, <1>3, <1>5, RefillerRight
<1>7. ASSUME NEW o \in Caller \ {c} PROVE CallerRight(o)'
 <2>1. CallShape(call[o]) /\ CallerRight(o)
   BY <1>1 DEF Served
 <2>2. Refills(o) => call[o].dirty \cup {} \subseteq gap'
   BY <2>1 DEF CallerRight, RefillRight
 <2> QED BY <1>4, <2>1, <2>2, OtherRight
<1>8. BuildsAlone'
  BY <1>6, AloneStays DEF Served
<1> QED BY <1>4, <1>6, <1>7, <1>8 DEF Served, GapRight

(* Its read: every row it will fill is as it is in the table.                  *)
LEMMA ReadServed ==
  ASSUME NEW c \in Caller, Shapes, Shapes', Served, Step(c) = "read",
         OthersStay(c, {}), db' = db, gap' = gap, engine' = engine,
         call'[c].todo = Pop(c), call'[c].dirty = call[c].dirty, call'[c].docs = db
  PROVE  Served'
<1>1. \A o \in Caller : CallShape(call[o]) /\ CallShape(call'[o])
  BY DEF Shapes
<1>2. Ahead(c)' = {"fill"} /\ Ahead(c) = {"read", "fill"}
 <2>1. Ahead(c)' = Among(Pop(c))
   BY DEF Ahead, Among
 <2>2. Step(c) \in Documentary
   BY DEF Documentary
 <2> QED BY <1>1, <2>1, <2>2, ReindexStep DEF After
<1>3. Refills(c)' /\ Refills(c)
  BY <1>2 DEF Refills
<1>4. \A d \in Doc : Sound(d) => Sound(d)'
 <2>1. SUFFICES ASSUME NEW d \in Doc, NEW o \in Caller, Pledges(o, d) PROVE Pledges(o, d)'
   BY DEF Sound
 <2>2. CASE o = c
   BY <1>3, <2>1, <2>2 DEF Pledges
 <2>3. CASE o # c
   BY <2>1, <2>3, PledgeStays
 <2> QED BY <2>2, <2>3
<1>5. RefillRight(c)'
 <2>1. ReadsRight(c)'
   BY DEF ReadsRight
 <2>2. RefillRight(c)
   BY DEF Served, CallerRight
 <2> QED BY <1>3, <1>4, <2>1, <2>2 DEF RefillRight
<1>6. CallerRight(c)' /\ ~Builds(c)'
  BY <1>1, <1>3, <1>5, RefillerRight
<1>7. ASSUME NEW o \in Caller \ {c} PROVE CallerRight(o)'
 <2>1. CallShape(call[o]) /\ CallerRight(o)
   BY <1>1 DEF Served
 <2>2. Refills(o) => /\ call[o].dirty \cup {} \subseteq gap'
                     /\ \A d \in Doc \ (call[o].dirty \cup {}) : Sound(d)'
   BY <1>4, <2>1 DEF CallerRight, RefillRight
 <2> QED BY <2>1, <2>2, OtherRight
<1>8. BuildsAlone'
  BY <1>6, AloneStays DEF Served
<1>9. GapRight'
  BY <1>4 DEF Served, GapRight
<1> QED BY <1>6, <1>7, <1>8, <1>9 DEF Served

(* The invariant for a caller in the middle of nothing.                        *)
LEMMA QuietRight ==
  ASSUME NEW c \in Caller, CallShape(call'[c]), NotBegun(call'[c].todo),
         "clear" \in Among(call'[c].todo) => call'[c].dirty = {}
  PROVE  CallerRight(c)' /\ ~Refills(c)' /\ ~Builds(c)'
<1>1. Ahead(c)' = Among(call'[c].todo) /\ Shaped(call'[c].todo)
  BY DEF Ahead, Among, CallShape
<1>2. ListKind(call'[c].todo)
  BY <1>1, Kinds
<1>3. Step(c)' # "send"
  BY <1>1, <1>2 DEF ListKind, NotBegun, Step, Idle
<1>4. ~Refills(c)' /\ ~Builds(c)' /\ ~Rebuilds(c)'
  BY CallerKindNext
<1> QED BY <1>1, <1>3, <1>4 DEF CallerRight, RefillRight, ClearRight, SendRight, BuildRight

(* One document of its fill: it is right, or it was written since the read and *)
(* the other full reindexes know.                                              *)
LEMMA FillServed ==
  ASSUME NEW c \in Caller, Shapes, Shapes', Served, Step(c) = "fill", NEW d \in Doc,
         call[c].docs[d] # 0, OthersStay(c, call[c].dirty \cap {d}), db' = db, gap' = gap,
         engine'["live"].docs = [engine["live"].docs EXCEPT ![d] = call[c].docs[d]],
         engine'["tmp"].docs = engine["tmp"].docs,
         call'[c].todo = call[c].todo, call'[c].dirty = call[c].dirty,
         call'[c].docs = [call[c].docs EXCEPT ![d] = 0]
  PROVE  Served'
<1> DEFINE S == call[c].dirty \cap {d}
<1>1. /\ \A o \in Caller : CallShape(call[o]) /\ CallShape(call'[o])
      /\ call[c].docs \in [Doc -> Nat] /\ call[c].dirty \subseteq Doc /\ engine["live"].docs \in [Doc -> Nat]
  BY DeploymentsAssumption DEF Shapes, CallShape, EngineShape
<1>2. Ahead(c) = {"fill"} /\ Refills(c) /\ Ahead(c)' = Ahead(c) /\ Refills(c)'
 <2>1. Ahead(c) = {"fill"}
  <3>1. Step(c) \in Documentary
    BY DEF Documentary
  <3> QED BY <1>1, <3>1, ReindexStep DEF After
 <2> QED BY <2>1, SameList DEF Refills
<1>3. RefillRight(c) /\ ReadsRight(c) /\ call[c].dirty \subseteq gap
  BY <1>2 DEF Served, CallerRight, RefillRight
<1>4. d \notin call[c].dirty => engine'["live"].docs[d] = db'[d]
  BY <1>1, <1>3 DEF ReadsRight
<1>5. \A e \in Doc \ {d} : Sound(e) => Sound(e)'
 <2>1. SUFFICES ASSUME NEW e \in Doc \ {d}, Sound(e) PROVE Sound(e)'
   OBVIOUS
 <2>2. engine'["live"].docs[e] = engine["live"].docs[e]
   BY <1>1
 <2>3. \A o \in Caller \ {c} : Pledges(o, e) => Pledges(o, e)'
   BY <1>1, PledgeStays
 <2>4. Pledges(c, e) => Pledges(c, e)'
   BY <1>1, <1>2 DEF Pledges
 <2> QED BY <2>1, <2>2, <2>3, <2>4 DEF Sound
<1>6. \A e \in Doc \ S : Sound(e) => Sound(e)'
  BY <1>4, <1>5 DEF Sound
<1>7. RefillRight(c)'
 <2>1. ReadsRight(c)'
   BY <1>1, <1>3 DEF ReadsRight
 <2>2. \A e \in Doc \ call'[c].dirty : Sound(e)'
   BY <1>2, <1>3, <1>6 DEF RefillRight
 <2> QED BY <1>3, <2>1, <2>2 DEF RefillRight
<1>8. CallerRight(c)' /\ ~Builds(c)'
  BY <1>1, <1>2, <1>7, RefillerRight
<1>9. ASSUME NEW o \in Caller \ {c} PROVE CallerRight(o)'
 <2>1. CallShape(call[o]) /\ CallerRight(o)
   BY <1>1 DEF Served
 <2>2. Refills(o) => /\ call[o].dirty \cup S \subseteq gap'
                     /\ \A e \in Doc \ (call[o].dirty \cup S) : Sound(e)'
   BY <1>3, <1>6, <2>1 DEF CallerRight, RefillRight
 <2>3. S \in SUBSET Doc
   BY <1>1
 <2> QED BY <2>1, <2>2, <2>3, OtherRight
<1>10. BuildsAlone'
  BY <1>8, AloneStays DEF Served
<1>11. GapRight'
  BY <1>3, <1>6 DEF Served, GapRight
<1> QED BY <1>8, <1>9, <1>10, <1>11 DEF Served

(* Its end: what was not written since the read is in place, or another full   *)
(* reindex has emptied the index since and brings it.                          *)
LEMMA FilledServed ==
  ASSUME NEW c \in Caller, Shapes, Shapes', Served, Step(c) = "fill",
         NEW S \in SUBSET call[c].dirty, OthersStay(c, S), db' = db,
         gap' = call[c].dirty \cup Unread(c),
         \A e \in Doc : engine'["live"].docs[e] = IF call[c].docs[e] # 0 THEN call[c].docs[e]
                                                   ELSE engine["live"].docs[e],
         \A e \in call[c].dirty \ S : call[c].docs[e] = 0,
         engine'["tmp"].docs = engine["tmp"].docs,
         call'[c].todo = Pop(c)
  PROVE  Served'
<1>1. /\ \A o \in Caller : CallShape(call[o]) /\ CallShape(call'[o])
      /\ call[c].dirty \subseteq Doc /\ S \in SUBSET Doc
  BY DEF Shapes, CallShape
<1>2. Ahead(c) = {"fill"} /\ Refills(c) /\ Among(Pop(c)) = {}
 <2>1. Step(c) \in Documentary
   BY DEF Documentary
 <2>2. Ahead(c) = {"fill"} /\ Among(Pop(c)) = {}
   BY <1>1, <2>1, ReindexStep DEF After
 <2> QED BY <2>2 DEF Refills
<1>3. RefillRight(c) /\ ReadsRight(c)
  BY <1>2 DEF Served, CallerRight, RefillRight
<1>4. \A o \in Caller \ {c}, e \in Doc \ S : Pledges(o, e) => Pledges(o, e)'
  BY <1>1, PledgeStays
<1>5. \A e \in Doc \ call[c].dirty : Sound(e)'
 <2>1. SUFFICES ASSUME NEW e \in Doc \ call[c].dirty PROVE Sound(e)'
   OBVIOUS
 <2>2. CASE call[c].docs[e] # 0
   BY <1>3, <2>2 DEF ReadsRight, Sound
 <2>3. CASE call[c].docs[e] = 0
  <3>1. ~Pledges(c, e)
    BY <1>2, <2>3 DEF Pledges
  <3>2. Sound(e)
    BY <1>2, <1>3 DEF RefillRight
  <3> QED BY <1>4, <2>3, <3>1, <3>2 DEF Sound
 <2> QED BY <2>2, <2>3
<1>6. ASSUME NEW o \in Caller \ {c}, Refills(o)
      PROVE  /\ call[o].dirty \cup S \subseteq gap'
             /\ \A e \in Doc \ (call[o].dirty \cup S) : Sound(e)'
 <2>1. call[o].dirty \subseteq Unread(c)
   BY <1>6 DEF Unread, Others, HoldsRows
 <2>2. ASSUME NEW e \in Doc \ (call[o].dirty \cup S), e \in call[c].dirty PROVE Sound(e)'
  <3>1. ~Pledges(c, e)
    BY <2>2 DEF Pledges
  <3>2. Sound(e)
    BY <1>6 DEF Served, CallerRight, RefillRight
  <3>3. engine'["live"].docs[e] = engine["live"].docs[e]
    BY <2>2
  <3> QED BY <1>4, <3>1, <3>2, <3>3 DEF Sound
 <2> QED BY <1>5, <2>1, <2>2
<1>7. CallerRight(c)' /\ ~Builds(c)'
 <2>1. NotBegun(call'[c].todo)
   BY <1>2 DEF NotBegun
 <2> QED BY <1>1, <1>2, <2>1, QuietRight
<1>8. ASSUME NEW o \in Caller \ {c} PROVE CallerRight(o)'
 <2>1. CallShape(call[o]) /\ CallerRight(o)
   BY <1>1 DEF Served
 <2> QED BY <1>1, <1>6, <2>1, OtherRight
<1>9. BuildsAlone'
  BY <1>7, AloneStays DEF Served
<1>10. GapRight'
  BY <1>5 DEF GapRight
<1> QED BY <1>7, <1>8, <1>9, <1>10 DEF Served

(* A row is written: the reindexes under way, and the gap, hear of it.         *)
LEMMA WriteServed ==
  ASSUME NEW c \in Caller, Shapes, Shapes', Served, WriteRow(c)
  PROVE  Served'
<1>1. PICK d \in Doc, version \in 0 .. 2 :
        /\ \A o \in Caller : Step(o) = "send" => d \notin call[o].dirty
        /\ Idle(c) /\ db' = [db EXCEPT ![d] = version] /\ gap' = gap \cup {d}
        /\ call' = [o \in Caller |->
                  IF o = c
                  THEN [NoCall EXCEPT !.op = "write", !.todo = <<"send">>, !.inst = row,
                                      !.docs[d] = version, !.dirty = {d}]
                  ELSE IF HoldsRows(o) THEN [call[o] EXCEPT !.dirty = @ \cup {d}]
                  ELSE call[o]]
        /\ engine' = engine
  BY DEF WriteRow
<1>2. /\ \A o \in Caller : CallShape(call[o]) /\ CallShape(call'[o])
      /\ db \in [Doc -> Nat] /\ gap \subseteq Doc
  BY DEF Shapes
<1>3. db'[d] = version /\ \A e \in Doc \ {d} : db'[e] = db[e]
  BY <1>1, <1>2
<1>4. ASSUME NEW o \in Caller \ {c}
      PROVE  /\ call'[o].todo = call[o].todo /\ call'[o].docs = call[o].docs
             /\ call'[o].dirty = IF HoldsRows(o) THEN call[o].dirty \cup {d} ELSE call[o].dirty
             /\ Ahead(o)' = Ahead(o) /\ Step(o)' = Step(o)
             /\ Refills(o)' <=> Refills(o)
             /\ Rebuilds(o)' <=> Rebuilds(o)
             /\ Builds(o)' <=> Builds(o)
 <2>1. call'[o] = IF HoldsRows(o) THEN [call[o] EXCEPT !.dirty = @ \cup {d}] ELSE call[o]
   BY <1>1
 <2>2. LET q == [call[o] EXCEPT !.dirty = @ \cup {d}]
       IN q.todo = call[o].todo /\ q.docs = call[o].docs /\ q.dirty = call[o].dirty \cup {d}
   BY <1>2, DirtyEffect
 <2>3. /\ call'[o].todo = call[o].todo /\ call'[o].docs = call[o].docs
       /\ call'[o].dirty = IF HoldsRows(o) THEN call[o].dirty \cup {d} ELSE call[o].dirty
  <3> DEFINE q == [call[o] EXCEPT !.dirty = @ \cup {d}]
  <3>1. q.todo = call[o].todo /\ q.docs = call[o].docs /\ q.dirty = call[o].dirty \cup {d}
    BY <2>2
  <3>2. call'[o] = IF HoldsRows(o) THEN q ELSE call[o]
    BY <2>1
  <3> HIDE DEF q
  <3> QED BY <3>1, <3>2
 <2> QED BY <2>3, SameList
<1>5. /\ call'[c].todo = <<"send">> /\ call'[c].dirty = {d} /\ call'[c].docs[d] = version
  BY <1>1 DEF NoCall, NoDocs
<1>6. ~Refills(c) /\ Ahead(c)' = {"send"} /\ Step(c)' = "send"
 <2>1. Ahead(c) = {}
   BY <1>1, Lists DEF Idle, Ahead, Among
 <2>2. Ahead(c)' = {"send"}
   BY <1>5, Lists DEF Ahead, Among
 <2>3. Step(c)' = "send"
   BY <1>5 DEF Step, Idle
 <2> QED BY <2>1, <2>2, <2>3 DEF Refills
<1>7. \A e \in Doc \ {d} : Sound(e) => Sound(e)'
 <2>1. SUFFICES ASSUME NEW e \in Doc \ {d}, NEW o \in Caller, Pledges(o, e) PROVE Pledges(o, e)'
   BY <1>1, <1>3 DEF Sound
 <2>2. o # c
   BY <1>6, <2>1 DEF Pledges
 <2>3. Refills(o)' /\ e \notin call'[o].dirty /\ db'[e] # 0
   BY <1>3, <1>4, <2>1, <2>2 DEF Pledges
 <2> QED BY <1>3, <1>4, <2>1, <2>2, <2>3 DEF Pledges
<1>8. ASSUME NEW o \in Caller \ {c} PROVE CallerRight(o)'
 <2>1. CallShape(call[o]) /\ CallerRight(o)
   BY <1>2 DEF Served
 <2>2. Rebuilds(o) => Builds(o)
   BY <2>1, CallerKind
 <2>3. HoldsRows(o) /\ ReadsRight(o) => ReadsRight(o)'
   BY <1>2, <1>3, <1>4 DEF ReadsRight
 <2>4. RefillRight(o)'
   BY <1>1, <1>4, <1>7, <2>1, <2>3 DEF CallerRight, RefillRight, HoldsRows
 <2>5. ClearRight(o)'
   BY <1>4, <2>1, <2>2, CallerKind DEF CallerRight, ClearRight, HoldsRows
 <2>6. SendRight(o)'
  <3>1. SUFFICES ASSUME Step(o) = "send" PROVE SendRight(o)'
    BY <1>4 DEF SendRight
  <3>2. call'[o].dirty = call[o].dirty
    BY <1>4, <2>1, <2>2, <3>1, CallerKind DEF HoldsRows
  <3>3. PICK e \in Doc : call[o].dirty = {e} /\ call[o].docs[e] = db[e]
    BY <2>1, <3>1 DEF CallerRight, SendRight
  <3>4. e # d
    BY <1>1, <3>1, <3>3
  <3> QED BY <1>3, <1>4, <3>2, <3>3, <3>4 DEF SendRight
 <2>7. BuildRight(o)'
  <3>1. BuildRight(o)
    BY <2>1 DEF CallerRight
  <3>2. Builds(o) /\ ~Rebuilds(o) => engine'["tmp"].docs = NoDocs
    BY <1>1, <3>1 DEF BuildRight
  <3>3. ASSUME Rebuilds(o)
        PROVE  /\ ReadsRight(o)'
               /\ \A e \in Doc \ call'[o].dirty : call'[o].docs[e] = 0 => engine'["tmp"].docs[e] = db'[e]
               /\ "tmpfill" \notin Ahead(o)' => call'[o].docs = NoDocs
   <4>1. HoldsRows(o) /\ call'[o].dirty = call[o].dirty \cup {d}
     BY <1>4, <3>3 DEF HoldsRows
   <4> QED BY <1>1, <1>3, <1>4, <2>3, <3>1, <3>3, <4>1 DEF BuildRight
  <3> QED BY <1>4, <3>2, <3>3 DEF BuildRight
 <2> QED BY <2>4, <2>5, <2>6, <2>7 DEF CallerRight
<1>9. CallerRight(c)' /\ ~Builds(c)'
 <2>1. ~Refills(c)' /\ ~Rebuilds(c)' /\ ~Builds(c)' /\ "clear" \notin Ahead(c)'
   BY <1>6 DEF Refills, Rebuilds, Builds
 <2>2. SendRight(c)'
   BY <1>3, <1>5 DEF SendRight
 <2> QED BY <2>1, <2>2 DEF CallerRight, RefillRight, ClearRight, BuildRight
<1>10. BuildsAlone'
 <2>1. SUFFICES ASSUME NEW a \in Caller, NEW o \in Caller, Builds(a)', Builds(o)', a # o PROVE FALSE
   BY DEF BuildsAlone
 <2> QED BY <1>4, <1>9, <2>1 DEF Served, BuildsAlone
<1>11. GapRight'
  BY <1>1, <1>7 DEF Served, GapRight
<1> QED BY <1>8, <1>9, <1>10, <1>11 DEF Served

(* ---------------------- steps that leave the engine alone ------------------ *)

(* A caller that is in the middle of nothing, with what it goes on with.       *)
QuietCall(k) == NotBegun(k.todo) /\ ("clear" \in Among(k.todo) => k.dirty = {})

(* A step that only replaces the call of one caller keeps the invariant if     *)
(* the new call has begun nothing.                                             *)
LEMMA CallOnly ==
  ASSUME NEW c \in Caller, NEW k, Shapes, CallShape(k), call' = [call EXCEPT ![c] = k],
         UNCHANGED <<dep, engine, db, gap>>
  PROVE  Shapes' /\ (Served /\ ~Refills(c) /\ QuietCall(k) => Served')
<1>1. DOMAIN call = Caller /\ \A o \in Caller : CallShape(call[o])
  BY DEF Shapes
<1>2. call'[c] = k /\ \A o \in Caller \ {c} : call'[o] = call[o]
  BY <1>1
<1>3. Shapes'
 <2>1. DOMAIN call' = Caller /\ \A o \in Caller : CallShape(call'[o])
   BY <1>1, <1>2
 <2> QED BY <2>1 DEF Shapes
<1>4. ASSUME Served, ~Refills(c), QuietCall(k) PROVE Served'
 <2>1. OthersStay(c, {})
   BY <1>2 DEF OthersStay
 <2>2. CallerRight(c)' /\ ~Refills(c)' /\ ~Builds(c)'
   BY <1>2, <1>4, QuietRight DEF QuietCall
 <2>3. \A o \in Caller \ {c} : Refills(o) => call[o].dirty \cup {} \subseteq gap'
   BY <1>4 DEF Served, CallerRight, RefillRight
 <2>4. Harmless(c, {})
   BY <1>4, <2>1, <2>2, <2>3 DEF Harmless, Live
 <2> QED BY <1>3, <1>4, <2>4, HarmlessServed
<1> QED BY <1>3, <1>4

(* The lists with which calls begin, and those of an error.                    *)
LEMMA PlainLists ==
  /\ InsertSteps \in Seq(Plain) /\ SyncSteps \in Seq(Plain) /\ <<"tmpclean">> \in Seq(Plain)
  /\ <<"save", "notify">> \o SyncSteps \in Seq(Plain) /\ <<"erase", "drop">> \in Seq(Plain)
<1>1. {"insert", "notify", "provision", "configure", "mark", "push", "save", "erase", "drop", "tmpclean"} \subseteq Plain
  BY DEF Plain
<1>2. InsertSteps \in Seq(Plain) /\ SyncSteps \in Seq(Plain) /\ <<"tmpclean">> \in Seq(Plain)
  BY <1>1 DEF InsertSteps, SyncSteps
<1>3. <<"save", "notify">> \in Seq(Plain) /\ <<"erase", "drop">> \in Seq(Plain)
  BY <1>1
<1> QED BY <1>2, <1>3

(* Plain steps are a whole list, and so is all a call begins with.             *)
LEMMA PlainAlone ==
  ASSUME NEW p \in Seq(Plain)
  PROVE  Whole(p)
<1>1. p \o <<>> = p
  OBVIOUS
<1> QED BY <1>1, PlainFirst, Lists

LEMMA BeginLists ==
  /\ Whole(InsertSteps) /\ Whole(SyncSteps) /\ Whole(<<"save", "notify">> \o SyncSteps)
  /\ Whole(<<"erase", "drop">>) /\ Whole(<<"tmpclean">>)
  /\ \A first \in {<<>>, InsertSteps} : Whole(first \o AllSteps) /\ Whole(first \o ZeroSteps)
  /\ Whole(<<"tmpclean">> \o AllSteps)
<1>1. \A first \in {<<>>, InsertSteps} : first \in Seq(Plain)
 <2>1. <<>> \in Seq(Plain)
   OBVIOUS
 <2> QED BY <2>1, PlainLists
<1> QED BY <1>1, PlainLists, PlainAlone, PlainFirst, Lists

(* A call that begins.                                                         *)
LEMMA NewCall ==
  ASSUME NEW op, NEW inst, NEW todo, Whole(todo)
  PROVE  LET k == [NoCall EXCEPT !.op = op, !.todo = todo, !.inst = inst]
         IN CallShape(k) /\ QuietCall(k)
<1> DEFINE k == [NoCall EXCEPT !.op = op, !.todo = todo, !.inst = inst]
<1>1. DOMAIN k = DOMAIN NoCall /\ k.todo = todo /\ k.docs = NoDocs /\ k.dirty = {}
  BY DEF NoCall
<1>2. NotBegun(todo) /\ Shaped(todo)
  BY WholeNotBegun
<1> QED BY <1>1, <1>2, EmptyIndexes DEF CallShape, QuietCall

(* An idle caller refills nothing; what it begins keeps the invariant.         *)
LEMMA IdleQuiet ==
  ASSUME NEW c \in Caller, Idle(c)
  PROVE  ~Refills(c) /\ Step(c) = "none" /\ Ahead(c) = {}
BY Lists DEF Idle, Refills, Ahead, Among, Step

LEMMA BeginKeeps ==
  ASSUME NEW c \in Caller, NEW op, NEW inst, NEW todo, Whole(todo), Begin(c, op, inst, todo), Shapes,
         UNCHANGED <<dep, engine, db, gap>>
  PROVE  Shapes' /\ (Served => Served')
<1> DEFINE k == [NoCall EXCEPT !.op = op, !.todo = todo, !.inst = inst]
<1>1. CallShape(k) /\ QuietCall(k)
  BY NewCall
<1>2. call' = [call EXCEPT ![c] = k] /\ Idle(c)
  BY DEF Begin
<1>3. ~Refills(c)
  BY <1>2, IdleQuiet
<1> HIDE DEF k
<1> QED BY <1>1, <1>2, <1>3, CallOnly

(* The service functions and the tasks begin.                                  *)
LEMMA BeginningsKeep ==
  ASSUME NEW c \in Caller, Shapes,
         CreateIndex(c) \/ UpdateSettings(c) \/ DeleteIndex(c) \/ Reindex(c)
  PROVE  Shapes' /\ (Served => Served')
<1>1. UNCHANGED <<dep, engine, db, gap>>
  BY DEF CreateIndex, UpdateSettings, DeleteIndex, Reindex
<1>2. CASE CreateIndex(c)
  BY <1>1, <1>2, BeginLists, BeginKeeps DEF CreateIndex
<1>3. CASE UpdateSettings(c)
  BY <1>1, <1>3, BeginLists, BeginKeeps DEF UpdateSettings
<1>4. CASE DeleteIndex(c)
  BY <1>1, <1>4, BeginLists, BeginKeeps DEF DeleteIndex
<1>5. CASE Reindex(c)
 <2>1. PICK inst \in Instances(c), first \in {<<>>, InsertSteps} :
         Begin(c, "all", inst, first \o AllSteps) \/ Begin(c, "zero", inst, first \o ZeroSteps)
   BY <1>5 DEF Reindex
 <2> QED BY <1>1, <2>1, BeginLists, BeginKeeps
<1> QED BY <1>2, <1>3, <1>4, <1>5

(* A reindex that is still whole lies behind the plain steps.                  *)
LEMMA PlainBefore ==
  ASSUME NEW p \in Seq(Plain), NEW t \in Seq(StepName), "clear" \in Among(p \o t)
  PROVE  "clear" \in Among(t)
<1>1. PICK i \in DOMAIN (p \o t) : (p \o t)[i] = "clear"
  BY DEF Among
<1>2. p \in Seq(StepName)
  BY DEF StepName
<1>3. /\ Len(p) \in Nat /\ Len(t) \in Nat /\ i \in 1 .. Len(p) + Len(t)
      /\ DOMAIN p = 1 .. Len(p) /\ DOMAIN t = 1 .. Len(t)
      /\ (p \o t)[i] = IF i <= Len(p) THEN p[i] ELSE t[i - Len(p)]
  BY <1>1, <1>2
<1>4. ~(i <= Len(p))
 <2>1. i <= Len(p) => p[i] \in Plain
   BY <1>3
 <2> QED BY <1>1, <1>3, <2>1 DEF Plain
<1>5. i - Len(p) \in DOMAIN t /\ t[i - Len(p)] = "clear"
  BY <1>1, <1>3, <1>4
<1> QED BY <1>5 DEF Among

(* A plain step of a call: what it goes on with is in the middle of nothing.   *)
LEMMA PlainGoesOn ==
  ASSUME NEW c \in Caller, CallShape(call[c]), Step(c) \in Plain,
         NEW r, DOMAIN r = DOMAIN NoCall, r.docs = call[c].docs, r.dirty = call[c].dirty,
         r.todo \in {Pop(c), <<>>, SyncSteps \o Pop(c)}
  PROVE  /\ CallShape(r) /\ CallShape(Rest(r)) /\ ~Refills(c)
         /\ ClearRight(c) => QuietCall(r) /\ QuietCall(Rest(r))
<1>1. ~Idle(c)
  BY DEF Step, Plain
<1>2. /\ Whole(Pop(c)) /\ NotBegun(call[c].todo) /\ Ahead(c) = {Step(c)} \cup Among(Pop(c))
  BY <1>1, NextStep
<1>3. Pop(c) \in Seq(StepName)
  BY <1>2 DEF Whole
<1>4. Whole(r.todo)
  BY <1>2, PlainLists, PlainFirst, Lists
<1>5. "clear" \in Among(r.todo) => "clear" \in Ahead(c)
 <2>1. "clear" \in Among(SyncSteps \o Pop(c)) => "clear" \in Among(Pop(c))
   BY <1>3, PlainLists, PlainBefore
 <2> QED BY <1>2, <2>1, Lists
<1>6. CallShape(r) /\ NotBegun(r.todo)
  BY <1>4, WholeNotBegun DEF CallShape
<1>7. CallShape(Rest(r)) /\ Rest(r).todo = r.todo /\ (r.todo # <<>> => Rest(r) = r)
  BY <1>6, RestEffect
<1>8. ~Refills(c)
  BY <1>2, CallerKind
<1>9. ASSUME ClearRight(c) PROVE QuietCall(r) /\ QuietCall(Rest(r))
 <2>1. QuietCall(r)
   BY <1>5, <1>6, <1>9 DEF QuietCall, ClearRight
 <2>2. r.todo = <<>> => QuietCall(Rest(r))
   BY <1>6, <1>7, Lists DEF QuietCall
 <2> QED BY <1>7, <2>1, <2>2
<1> QED BY <1>6, <1>7, <1>8, <1>9

(* Its database steps.                                                         *)
LEMMA SaveKeeps ==
  ASSUME NEW c \in Caller, Shapes, Save(c)
  PROVE  Shapes' /\ (Served => Served')
<1>1. CallShape(call[c]) /\ UNCHANGED <<dep, engine, db, gap>>
  BY DEF Shapes, Save
<1>2. Step(c) \in Plain
  BY DEF Save, Plain
<1>3. PICK t \in {Pop(c), <<>>} : call' = [call EXCEPT ![c] = Rest([call[c] EXCEPT !.todo = t])]
  BY DEF Save, Continue, Abort
<1> DEFINE r == [call[c] EXCEPT !.todo = t]
<1>4. DOMAIN r = DOMAIN NoCall /\ r.docs = call[c].docs /\ r.dirty = call[c].dirty /\ r.todo = t
  BY <1>1 DEF CallShape, NoCall
<1>5. call' = [call EXCEPT ![c] = Rest(r)]
  BY <1>3
<1> HIDE DEF r
<1>6. CallShape(Rest(r)) /\ ~Refills(c) /\ (ClearRight(c) => QuietCall(Rest(r)))
  BY <1>1, <1>2, <1>4, PlainGoesOn
<1> QED BY <1>1, <1>5, <1>6, CallOnly DEF Served, CallerRight

(* The steps on the row: they touch neither documents nor reindexes.           *)
LEMMA DropKeeps ==
  ASSUME NEW c \in Caller, Shapes, Drop(c)
  PROVE  Shapes' /\ (Served => Served')
<1>1. CallShape(call[c]) /\ UNCHANGED <<dep, engine, db, gap>>
  BY DEF Shapes, Drop
<1>2. Step(c) \in Plain
  BY DEF Drop, Plain
<1> DEFINE r == [call[c] EXCEPT !.todo = Pop(c)]
<1>4. DOMAIN r = DOMAIN NoCall /\ r.docs = call[c].docs /\ r.dirty = call[c].dirty /\ r.todo = Pop(c)
  BY <1>1 DEF CallShape, NoCall
<1>5. call' = [call EXCEPT ![c] = Rest(r)]
  BY DEF Drop, Continue
<1> HIDE DEF r
<1>6. CallShape(Rest(r)) /\ ~Refills(c) /\ (ClearRight(c) => QuietCall(Rest(r)))
  BY <1>1, <1>2, <1>4, PlainGoesOn
<1> QED BY <1>1, <1>5, <1>6, CallOnly DEF Served, CallerRight

LEMMA MarkKeeps ==
  ASSUME NEW c \in Caller, Shapes, Mark(c)
  PROVE  Shapes' /\ (Served => Served')
<1>1. CallShape(call[c]) /\ UNCHANGED <<dep, engine, db, gap>>
  BY DEF Shapes, Mark
<1>2. Step(c) \in Plain
  BY DEF Mark, Plain
<1> DEFINE r == [call[c] EXCEPT !.todo = Pop(c), !.inst.synced = TRUE]
<1>4. DOMAIN r = DOMAIN NoCall /\ r.docs = call[c].docs /\ r.dirty = call[c].dirty /\ r.todo = Pop(c)
  BY <1>1 DEF CallShape, NoCall
<1>5. call' = [call EXCEPT ![c] = Rest(r)]
  BY DEF Mark
<1> HIDE DEF r
<1>6. CallShape(Rest(r)) /\ ~Refills(c) /\ (ClearRight(c) => QuietCall(Rest(r)))
  BY <1>1, <1>2, <1>4, PlainGoesOn
<1> QED BY <1>1, <1>5, <1>6, CallOnly DEF Served, CallerRight

LEMMA NotifyKeeps ==
  ASSUME NEW c \in Caller, Shapes, Notify(c)
  PROVE  Shapes' /\ (Served => Served')
<1>1. CallShape(call[c]) /\ UNCHANGED <<dep, engine, db, gap>>
  BY DEF Shapes, Notify
<1>2. Step(c) \in Plain
  BY DEF Notify, Plain
<1>3. \/ call' = [call EXCEPT ![c] = Rest([call[c] EXCEPT !.todo = Pop(c)])]
      \/ call' = [call EXCEPT ![c] = [call[c] EXCEPT !.todo = SyncSteps \o Pop(c)]]
  BY DEF Notify, Continue
<1> DEFINE r(t) == [call[c] EXCEPT !.todo = t]
<1>4. \A t : DOMAIN r(t) = DOMAIN NoCall /\ r(t).docs = call[c].docs /\ r(t).dirty = call[c].dirty /\ r(t).todo = t
  BY <1>1 DEF CallShape, NoCall
<1>5. PICK k \in {Rest(r(Pop(c))), r(SyncSteps \o Pop(c))} : call' = [call EXCEPT ![c] = k]
  BY <1>3
<1> HIDE DEF r
<1>6. CallShape(k) /\ ~Refills(c) /\ (ClearRight(c) => QuietCall(k))
  BY <1>1, <1>2, <1>4, PlainGoesOn
<1> QED BY <1>1, <1>5, <1>6, CallOnly DEF Served, CallerRight

(* Nothing the invariant speaks of changes.                                    *)
LEMMA StutterKeeps ==
  ASSUME UNCHANGED <<dep, engine, db, gap, call>>, Shapes
  PROVE  Shapes' /\ (Served => Served')
<1>1. Shapes'
  BY DEF Shapes
<1>2. \A c \in Caller : /\ Ahead(c)' = Ahead(c) /\ Step(c)' = Step(c) /\ Refills(c)' = Refills(c)
                       /\ Rebuilds(c)' = Rebuilds(c) /\ Builds(c)' = Builds(c) /\ ReadsRight(c)' = ReadsRight(c)
  BY DEF Ahead, Step, Idle, Refills, Rebuilds, Builds, ReadsRight
<1>3. \A d \in Doc : Sound(d) => Sound(d)'
  BY <1>2 DEF Sound, Pledges
<1>4. \A c \in Caller : CallerRight(c) => CallerRight(c)'
  BY <1>2, <1>3 DEF CallerRight, RefillRight, ClearRight, SendRight, BuildRight
<1>5. BuildsAlone => BuildsAlone'
  BY <1>2 DEF BuildsAlone
<1>6. GapRight => GapRight'
  BY <1>3 DEF GapRight
<1> QED BY <1>1, <1>4, <1>5, <1>6 DEF Served

(* The tasks.                                                                  *)
LEMMA TasksKeep ==
  ASSUME NEW c \in Caller, Shapes, SyncTask(c) \/ SyncAll(c)
  PROVE  Shapes' /\ (Served => Served')
<1>1. CallShape(call[c]) /\ UNCHANGED <<dep, engine, db, gap>> /\ Idle(c)
  BY DEF Shapes, SyncTask, SyncAll
<1>2. ASSUME NEW k, DOMAIN k = DOMAIN NoCall, k.todo = SyncSteps, k.docs = NoDocs, k.dirty = {},
             call' = [call EXCEPT ![c] = k]
      PROVE  Shapes' /\ (Served => Served')
 <2>1. CallShape(k) /\ QuietCall(k)
   BY <1>2, BeginLists, WholeNotBegun, EmptyIndexes DEF CallShape, QuietCall
 <2> QED BY <1>1, <1>2, <2>1, IdleQuiet, CallOnly
<1>3. CASE SyncAll(c)
 <2> DEFINE k == [NoCall EXCEPT !.op = "sweep", !.todo = SyncSteps, !.inst = row]
 <2>1. DOMAIN k = DOMAIN NoCall /\ k.todo = SyncSteps /\ k.docs = NoDocs /\ k.dirty = {}
   BY DEF NoCall
 <2>2. call' = [call EXCEPT ![c] = k]
   BY <1>3 DEF SyncAll
 <2> HIDE DEF k
 <2> QED BY <1>2, <2>1, <2>2
<1>4. CASE SyncTask(c) /\ call' = call
  BY <1>1, <1>4, StutterKeeps
<1>5. CASE SyncTask(c) /\ call' # call
 <2>1. PICK n \in DOMAIN queue :
         call' = [call EXCEPT ![c] = [NoCall EXCEPT !.op = "task", !.todo = SyncSteps, !.inst = row, !.tries = n]]
   BY <1>5 DEF SyncTask
 <2> DEFINE k == [NoCall EXCEPT !.op = "task", !.todo = SyncSteps, !.inst = row, !.tries = n]
 <2>2. DOMAIN k = DOMAIN NoCall /\ k.todo = SyncSteps /\ k.docs = NoDocs /\ k.dirty = {}
   BY DEF NoCall
 <2>3. call' = [call EXCEPT ![c] = k]
   BY <2>1
 <2> HIDE DEF k
 <2> QED BY <1>2, <2>2, <2>3
<1> QED BY <1>3, <1>4, <1>5

(* A caller is killed; while it refills the index, that is a cause.            *)
LEMMA KillKeeps ==
  ASSUME NEW c \in Caller, Shapes, Kill(c)
  PROVE  Shapes' /\ (Served /\ broken' = {} => Served')
<1>1. CallShape(call[c]) /\ UNCHANGED <<dep, engine, db, gap>>
  BY DEF Shapes, Kill
<1> DEFINE r == [call[c] EXCEPT !.todo = <<>>]
<1>2. call' = [call EXCEPT ![c] = Rest(r)]
  BY DEF Kill, Abort
<1>3. CallShape(r) /\ r.todo = <<>>
  BY <1>1, Lists, WholeNotBegun DEF CallShape, NoCall
<1>4. CallShape(Rest(r)) /\ QuietCall(Rest(r))
  BY <1>3, RestEffect, Lists, WholeNotBegun DEF QuietCall
<1>5. broken' = {} => ~Refills(c)
  BY DEF Kill, Refills
<1> HIDE DEF r
<1> QED BY <1>1, <1>2, <1>4, <1>5, CallOnly

(* A written row keeps the types.                                              *)
LEMMA WriteShapes ==
  ASSUME NEW c \in Caller, Shapes, WriteRow(c)
  PROVE  Shapes'
<1>1. PICK d \in Doc, version \in 0 .. 2 :
        /\ db' = [db EXCEPT ![d] = version] /\ gap' = gap \cup {d}
        /\ call' = [o \in Caller |->
                  IF o = c
                  THEN [NoCall EXCEPT !.op = "write", !.todo = <<"send">>, !.inst = row,
                                      !.docs[d] = version, !.dirty = {d}]
                  ELSE IF HoldsRows(o) THEN [call[o] EXCEPT !.dirty = @ \cup {d}]
                  ELSE call[o]]
        /\ UNCHANGED <<dep, engine>>
  BY DEF WriteRow
<1>2. \A o \in Caller : CallShape(call[o])
  BY DEF Shapes
<1> DEFINE k == [NoCall EXCEPT !.op = "write", !.todo = <<"send">>, !.inst = row, !.docs[d] = version, !.dirty = {d}]
<1>3. CallShape(k)
 <2>1. DOMAIN k = DOMAIN NoCall /\ k.todo = <<"send">> /\ k.dirty = {d} /\ k.docs = [NoDocs EXCEPT ![d] = version]
   BY DEF NoCall
 <2>2. k.docs \in [Doc -> Nat]
  <3>1. version \in Nat /\ NoDocs \in [Doc -> Nat]
    BY EmptyIndexes
  <3> HIDE DEF k
  <3> QED BY <2>1, <3>1
 <2> QED BY <2>1, <2>2, Lists DEF CallShape
<1>4. call'[c] = k
  BY <1>1
<1> HIDE DEF k
<1>5. ASSUME NEW o \in Caller \ {c} PROVE CallShape(call'[o])
 <2> DEFINE q == [call[o] EXCEPT !.dirty = @ \cup {d}]
 <2>1. CallShape(q)
   BY <1>2, DirtyEffect
 <2>2. call'[o] = IF HoldsRows(o) THEN q ELSE call[o]
   BY <1>1
 <2> HIDE DEF q
 <2> QED BY <1>2, <2>1, <2>2
<1>6. DOMAIN call' = Caller
  BY <1>1
<1>7. db' \in [Doc -> Nat]
  BY <1>1 DEF Shapes
<1> QED BY <1>1, <1>3, <1>4, <1>5, <1>6, <1>7 DEF Shapes

(* The reads of the two reindexes.                                             *)
LEMMA ReadKeeps ==
  ASSUME NEW c \in Caller, Shapes, Read(c)
  PROVE  Shapes' /\ (Served => Served')
<1>1. /\ \A o \in Caller : CallShape(call[o])
      /\ DOMAIN call = Caller /\ db \in [Doc -> Nat]
      /\ UNCHANGED <<dep, engine, db, gap>>
      /\ Step(c) \in {"read", "tmpread"}
  BY DEF Shapes, Read
<1> DEFINE k == [call[c] EXCEPT !.todo = Pop(c), !.docs = db]
<1>2. DOMAIN k = DOMAIN NoCall /\ k.todo = Pop(c) /\ k.docs = db /\ k.dirty = call[c].dirty
  BY <1>1 DEF CallShape, NoCall
<1>3. call' = [call EXCEPT ![c] = k]
  BY DEF Read
<1> HIDE DEF k
<1>4. call'[c] = k /\ DOMAIN call' = Caller /\ \A o \in Caller \ {c} : call'[o] = call[o]
  BY <1>1, <1>3
<1>5. ~Idle(c) /\ Step(c) \in Documentary
  BY <1>1 DEF Step, Documentary
<1>6. CallShape(k)
  BY <1>1, <1>2, <1>5, NextStep DEF CallShape
<1>7. Shapes'
  BY <1>1, <1>4, <1>6 DEF Shapes
<1>8. OthersStay(c, {})
  BY <1>4 DEF OthersStay
<1>9. CASE Step(c) = "read"
  BY <1>1, <1>2, <1>4, <1>7, <1>8, <1>9, ReadServed
<1>10. ASSUME Step(c) = "tmpread", Served PROVE Served'
 <2>1. /\ Ahead(c) = {"tmpread", "tmpfill", "swap", "tmpdelete"}
       /\ Ahead(c)' = {"tmpfill", "swap", "tmpdelete"}
  <3>1. Ahead(c)' = Among(Pop(c))
    BY <1>2, <1>4 DEF Ahead, Among
  <3> QED BY <1>1, <1>5, <1>10, <3>1, ReindexStep DEF After
 <2>2. /\ Builds(c) /\ ~Rebuilds(c) /\ ~Refills(c)
       /\ Builds(c)' /\ Rebuilds(c)' /\ ~Refills(c)' /\ "clear" \notin Ahead(c)' /\ "send" \notin Ahead(c)'
   BY <2>1 DEF Builds, Rebuilds, Refills
 <2>3. engine["tmp"].docs = NoDocs
   BY <1>10, <2>2 DEF Served, CallerRight, BuildRight
 <2>4. BuildRight(c)'
  <3>1. ReadsRight(c)'
    BY <1>1, <1>2, <1>4 DEF ReadsRight
  <3>2. \A d \in Doc : call'[c].docs[d] = 0 => engine'["tmp"].docs[d] = db'[d]
    BY <1>1, <1>2, <1>4, <2>3 DEF NoDocs
  <3> QED BY <2>1, <2>2, <3>1, <3>2 DEF BuildRight
 <2>5. SendRight(c)'
  <3>1. Step(c)' # "send"
    BY <1>4, <1>6, <2>2, CallerKindNext
  <3> QED BY <3>1 DEF SendRight
 <2>6. CallerRight(c)'
   BY <2>2, <2>4, <2>5 DEF CallerRight, RefillRight, ClearRight
 <2>7. \A o \in Caller \ {c} : ~Builds(o)
   BY <1>10, <2>2 DEF Served, BuildsAlone
 <2>8. \A o \in Caller \ {c} : Refills(o) => call[o].dirty \cup {} \subseteq gap'
   BY <1>1, <1>10 DEF Served, CallerRight, RefillRight
 <2>9. Harmless(c, {})
   BY <1>1, <1>8, <2>2, <2>6, <2>7, <2>8 DEF Harmless, Live
 <2> QED BY <1>7, <1>10, <2>9, HarmlessServed
<1> QED BY <1>1, <1>7, <1>9, <1>10

(* ------------------------------- engine calls ------------------------------ *)

(* What an engine call that succeeds does to the documents.                    *)
CallEffect(c, d, f) ==
  LET s == Step(c) IN
  /\ EngineShape(f)
  /\ s \notin {"provision", "erase", "clear", "fill", "send", "swap"} => f["live"].docs = engine["live"].docs
  /\ s \notin {"tmpcreate", "tmpfill", "swap", "tmpdelete", "tmpclean"} => f["tmp"].docs = engine["tmp"].docs
  /\ s = "clear" => f["live"].docs = NoDocs
  /\ s = "swap" => IF Swapped THEN f["live"].docs = engine["tmp"].docs ELSE f = engine
  /\ s \in {"fill", "tmpfill", "send"} =>
       /\ FillTarget(c) \in Uid
       /\ Pending(c) = {} => f = engine
       /\ Pending(c) # {} =>
            d \in Pending(c) /\ d \in Doc /\ f[FillTarget(c)].docs = [engine[FillTarget(c)].docs EXCEPT ![d] = call[c].docs[d]]

(* Every engine call of every backend does to the documents what its step      *)
(* says.                                                                       *)
LEMMA OutcomeEffect ==
  ASSUME NEW c \in Caller, Shapes, Step(c) \in EngineSteps, NEW d \in Batches(c), Outcome(c, d).ok
  PROVE  CallEffect(c, d, Outcome(c, d).engine)
<1> DEFINE f == Outcome(c, d).engine
           s == Step(c)
           i == call[c].inst
<1> SUFFICES CallEffect(c, d, f)
  OBVIOUS
<1>1. /\ EngineShape(engine) /\ be \in Backend /\ CallShape(call[c])
      /\ "live" \in Uid /\ "tmp" \in Uid /\ "default" \in Uid
      /\ "live" # "tmp" /\ "default" # "live" /\ "default" # "tmp"
  BY DeploymentsAssumption DEF Shapes, Deployment, be
<1>2. CASE s \in {"provision", "tmpcreate"}
 <2>1. s = "provision" => f = create_index(be, engine, "live").engine
   BY DEF Outcome
 <2>2. s = "tmpcreate" => f = create_index(be, engine, "tmp").engine
   BY DEF Outcome
 <2> HIDE DEF f
 <2> QED BY <1>1, <1>2, <2>1, <2>2, CreateEffect DEF CallEffect, OnlyAt
<1>3. CASE s \in {"configure", "push", "tmpconfigure"}
 <2>1. SameDocs(engine, engine)
   BY <1>1 DEF SameDocs
 <2>2. \A u \in Uid : \A x : SameDocs(engine, update_settings(be, engine, u, x).engine)
   BY <1>1, PushEffect
 <2>3. \A u \in Uid : \A x : SameDocs(engine, Configured(u, x).engine)
   BY <2>1, <2>2 DEF Configured, Done
 <2>4. \/ f = Configured("live", i.settings).engine
       \/ f = Configured("tmp", i.settings).engine
       \/ f = update_settings(be, engine, "live", Normalized(i.settings)).engine
   BY <1>3 DEF Outcome
 <2> HIDE DEF f
 <2>5. SameDocs(engine, f)
   BY <1>1, <2>2, <2>3, <2>4
 <2> QED BY <1>1, <1>3, <2>5 DEF CallEffect, SameDocs
<1>4. CASE s \in {"erase", "tmpdelete", "tmpclean"}
 <2>1. s = "erase" => f = delete_index(be, engine, "live").engine
   BY DEF Outcome
 <2>2. s \in {"tmpdelete", "tmpclean"} => f = delete_index(be, engine, "tmp").engine
   BY DEF Outcome
 <2> HIDE DEF f
 <2>3. \A u \in Uid : OnlyAt(u, engine, delete_index(be, engine, u).engine)
   BY <1>1, DeleteEffect
 <2>4. s = "erase" => EngineShape(f) /\ f["tmp"].docs = engine["tmp"].docs
   BY <1>1, <2>1, <2>3 DEF OnlyAt
 <2>5. s \in {"tmpdelete", "tmpclean"} => EngineShape(f) /\ f["live"].docs = engine["live"].docs
   BY <1>1, <2>2, <2>3 DEF OnlyAt
 <2> QED BY <1>4, <2>4, <2>5 DEF CallEffect
<1>5. CASE s = "clear"
 <2>1. Outcome(c, d) = clear_documents(be, engine, "live")
   BY <1>5 DEF Outcome
 <2>2. OnlyAt("live", engine, f) /\ f["live"].docs = NoDocs
   BY <1>1, <2>1, ClearEffect
 <2> HIDE DEF f
 <2>3. EngineShape(f) /\ f["tmp"].docs = engine["tmp"].docs
   BY <1>1, <2>2 DEF OnlyAt
 <2> QED BY <1>5, <2>2, <2>3 DEF CallEffect
<1>6. CASE s = "swap"
 <2>1. Outcome(c, d) = swap_indexes(be, engine, "live", "tmp")
   BY <1>6 DEF Outcome
 <2>2. IF Swapped THEN EngineShape(f) /\ f["live"].docs = engine["tmp"].docs ELSE f = engine
   BY <1>1, <2>1, SwapEffect DEF Swapped
 <2> HIDE DEF f
 <2> QED BY <1>1, <1>6, <2>2 DEF CallEffect
<1>7. CASE s \in {"fill", "tmpfill", "send"}
 <2>1. Outcome(c, d) = Put(c, d)
   BY <1>7 DEF Outcome
 <2>2. FillTarget(c) \in Uid /\ (s = "tmpfill" => FillTarget(c) = "tmp") /\ (s # "tmpfill" => FillTarget(c) # "tmp")
   BY <1>1 DEF FillTarget
 <2>3. CASE Pending(c) = {}
  <3>1. f = engine
    BY <2>1, <2>3 DEF Put, Done
  <3> HIDE DEF f
  <3> QED BY <1>1, <1>7, <2>2, <2>3, <3>1 DEF CallEffect
 <2>4. CASE Pending(c) # {}
  <3>1. d \in Pending(c)
    BY <1>7, <2>4 DEF Batches
  <3>2. d \in Doc /\ call[c].docs[d] \in Nat
    BY <1>1, <3>1 DEF Pending, CallShape
  <3>3. CASE call[c].docs[d] = 0
   <4>1. Outcome(c, d) = delete_document(be, engine, FillTarget(c), d)
     BY <2>1, <2>4, <3>3 DEF Put
   <4>2. OnlyAt(FillTarget(c), engine, f) /\ f[FillTarget(c)].docs = [engine[FillTarget(c)].docs EXCEPT ![d] = 0]
    <5> DEFINE g == delete_document(be, engine, FillTarget(c), d).engine
    <5>1. f = g /\ delete_document(be, engine, FillTarget(c), d).ok
      BY <4>1
    <5>2. \A u \in Uid : delete_document(be, engine, u, d).ok =>
             LET h == delete_document(be, engine, u, d).engine
             IN OnlyAt(u, engine, h) /\ h[u].docs = [engine[u].docs EXCEPT ![d] = 0]
      BY <1>1, <3>2, RemoveEffect
    <5>3. OnlyAt(FillTarget(c), engine, g) /\ g[FillTarget(c)].docs = [engine[FillTarget(c)].docs EXCEPT ![d] = 0]
      BY <2>2, <5>1, <5>2
    <5> HIDE DEF f, g
    <5> QED BY <5>1, <5>3
   <4> HIDE DEF f
   <4> QED BY <1>1, <1>7, <2>2, <2>4, <3>1, <3>2, <3>3, <4>2 DEF CallEffect, OnlyAt
  <3>4. CASE call[c].docs[d] # 0
   <4>1. Outcome(c, d) = add_document(be, engine, FillTarget(c), d, call[c].docs[d])
     BY <2>1, <2>4, <3>4 DEF Put
   <4>2. /\ OnlyAt(FillTarget(c), engine, f)
         /\ f[FillTarget(c)].docs = [engine[FillTarget(c)].docs EXCEPT ![d] = call[c].docs[d]]
     BY <1>1, <2>2, <3>2, <4>1, AddEffect
   <4> HIDE DEF f
   <4> QED BY <1>1, <1>7, <2>2, <2>4, <3>1, <3>2, <4>2 DEF CallEffect, OnlyAt
  <3> QED BY <3>3, <3>4
 <2> QED BY <2>3, <2>4
<1> QED BY <1>2, <1>3, <1>4, <1>5, <1>6, <1>7 DEF EngineSteps

(* What the history of a step says of the documents.                           *)
LEMMA HistoryShapes ==
  ASSUME NEW c \in Caller, Shapes, NEW d
  PROVE  GapAfter(c, d) \in SUBSET Doc /\ Undone(c, d) \in SUBSET Doc
<1>1. gap \subseteq Doc /\ \A o \in Caller : call[o].dirty \subseteq Doc
  BY DEF Shapes, CallShape
<1>2. Unread(c) \subseteq Doc /\ Erased(c, d) \subseteq Doc
  BY <1>1 DEF Unread, Others, Erased
<1> QED BY <1>1, <1>2 DEF GapAfter, Undone

(* Only the last two steps of a full reindex are in its middle.                *)
LEMMA Middle ==
  ASSUME NEW c \in Caller, CallShape(call[c]), ~Idle(c)
  PROVE  /\ Refills(c) <=> Step(c) \in {"read", "fill"}
         /\ Builds(c) <=> Step(c) \in {"tmpconfigure", "tmpread", "tmpfill", "swap"}
         /\ Rebuilds(c) <=> Step(c) \in {"tmpfill", "swap"}
<1>1. Step(c) \in Plain \cup Documentary \cup {"send"}
  BY NextStep DEF StepName
<1>2. CASE Step(c) \in Plain
 <2>1. ~Refills(c) /\ ~Builds(c) /\ (Rebuilds(c) => Builds(c))
   BY <1>2, NextStep, CallerKind
 <2> QED BY <1>2, <2>1 DEF Plain
<1>3. CASE Step(c) = "send"
 <2>1. ~Refills(c) /\ ~Builds(c) /\ (Rebuilds(c) => Builds(c))
   BY <1>3, CallerKind
 <2> QED BY <1>3, <2>1
<1>4. CASE Step(c) \in Documentary
 <2>1. Ahead(c) = {Step(c)} \cup After(Step(c))
   BY <1>4, ReindexStep
 <2>2. CASE Step(c) \in {"clear", "read", "fill"}
   BY <2>1, <2>2 DEF After, Refills, Builds, Rebuilds
 <2>3. CASE Step(c) \in {"tmpcreate", "tmpconfigure", "tmpread"}
   BY <2>1, <2>3 DEF After, Refills, Builds, Rebuilds
 <2>4. CASE Step(c) \in {"tmpfill", "swap", "tmpdelete"}
   BY <2>1, <2>4 DEF After, Refills, Builds, Rebuilds
 <2> QED BY <1>4, <2>2, <2>3, <2>4 DEF Documentary
<1> QED BY <1>1, <1>2, <1>3, <1>4

(* A caller that calls the engine is not idle.                                 *)
LEMMA EngineStepBusy ==
  ASSUME NEW c \in Caller, Step(c) \in EngineSteps
  PROVE  ~Idle(c)
BY DEF Step, EngineSteps

(* A row is sent as it is.                                                     *)
LEMMA SendSends ==
  ASSUME NEW c \in Caller, Shapes, SendRight(c), Step(c) = "send", NEW d \in Batches(c), Outcome(c, d).ok
  PROVE  /\ d \in Doc
         /\ Outcome(c, d).engine["live"].docs = [engine["live"].docs EXCEPT ![d] = db[d]]
<1>1. PICK e \in Doc : call[c].dirty = {e} /\ call[c].docs[e] = db[e]
  BY DEF SendRight
<1>2. Pending(c) = {e} /\ FillTarget(c) = "live" /\ d = e
  BY <1>1 DEF Pending, FillTarget, Batches
<1>3. CallEffect(c, d, Outcome(c, d).engine)
  BY OutcomeEffect DEF EngineSteps
<1> QED BY <1>1, <1>2, <1>3 DEF CallEffect

(* Any engine call but those of a full reindex.                                *)
LEMMA ActHarmless ==
  ASSUME NEW c \in Caller, Shapes, Served, Step(c) \in EngineSteps \ {"clear", "fill"},
         NEW d \in Batches(c), Outcome(c, d).ok, engine' = Outcome(c, d).engine, gap' = GapAfter(c, d),
         BrokenAfter(c, d) = {}, OthersStay(c, Undone(c, d)), db' = db,
         ~Refills(c)', CallerRight(c)', Builds(c)' => Builds(c) \/ Step(c) = "tmpcreate"
  PROVE  Harmless(c, Undone(c, d)) /\ Undone(c, d) \subseteq gap'
<1> DEFINE s == Step(c)
           S == Undone(c, d)
<1>1. /\ CallShape(call[c]) /\ call[c].dirty \subseteq Doc
      /\ CallerRight(c) /\ ~Idle(c) /\ CallEffect(c, d, engine')
  BY EngineStepBusy, OutcomeEffect DEF Shapes, CallShape, Served
<1>2. /\ Refills(c) <=> s \in {"read", "fill"}
      /\ Builds(c) <=> s \in {"tmpconfigure", "tmpread", "tmpfill", "swap"}
      /\ Rebuilds(c) <=> s \in {"tmpfill", "swap"}
  BY <1>1, Middle
<1>3. ~Refills(c)
  BY <1>2 DEF EngineSteps
<1>4. \A o \in Caller \ {c} : Builds(o) => engine'["tmp"].docs = engine["tmp"].docs /\ ~Builds(c)'
 <2>1. CASE s \in {"tmpcreate", "tmpdelete", "tmpclean"}
  <3>1. Shared(c) = {}
    BY DEF BrokenAfter
  <3>2. \A o \in Others(c) : ~UsesTemp(o)
    BY <2>1, <3>1 DEF Shared
  <3>3. \A o \in Caller \ {c} : Builds(o) => UsesTemp(o)
    BY DEF Builds, UsesTemp
  <3> QED BY <3>2, <3>3 DEF Others
 <2>2. CASE s \in {"tmpconfigure", "tmpfill", "swap"}
   BY <1>2, <2>2 DEF Served, BuildsAlone
 <2>3. CASE s \notin {"tmpcreate", "tmpdelete", "tmpclean", "tmpconfigure", "tmpfill", "swap"}
  <3>1. engine'["tmp"].docs = engine["tmp"].docs
    BY <1>1, <2>3 DEF CallEffect
  <3>2. ~Builds(c)'
    BY <1>2, <2>3 DEF EngineSteps
  <3> QED BY <3>1, <3>2
 <2> QED BY <2>1, <2>2, <2>3
<1>5. \A o \in Caller : Refills(o) => call[o].dirty \subseteq gap
  BY DEF Served, CallerRight, RefillRight
<1>6. /\ \A e \in Doc \ S : Live(e)' \in {Live(e), db[e]}
      /\ \A e \in Doc \ gap' : e \notin gap \cup S \/ Live(e)' = db[e]
      /\ \A o \in Caller \ {c} : Refills(o) => call[o].dirty \cup S \subseteq gap'
      /\ S \subseteq gap'
 <2>1. CASE s \in {"provision", "erase"}
  <3>1. S = Erased(c, d) /\ gap' = gap \cup Erased(c, d)
    BY <2>1 DEF Undone, GapAfter
  <3>2. \A e \in Doc \ Erased(c, d) : engine'["live"].docs[e] = engine["live"].docs[e]
    BY <2>1 DEF Erased
  <3> QED BY <1>5, <3>1, <3>2 DEF Live
 <2>2. CASE s = "send"
  <3>1. S = {} /\ gap' = IF \E o \in Caller : Refills(o) THEN gap ELSE gap \ {d}
    BY <2>2 DEF Undone, GapAfter, Erased
  <3>2. d \in Doc /\ engine'["live"].docs = [engine["live"].docs EXCEPT ![d] = db[d]]
    BY <1>1, <2>2, SendSends DEF CallerRight
  <3>3. engine["live"].docs \in [Doc -> Nat]
    BY DeploymentsAssumption DEF Shapes, EngineShape
  <3>4. Live(d)' = db[d] /\ \A e \in Doc \ {d} : Live(e)' = Live(e)
    BY <3>2, <3>3 DEF Live
  <3> QED BY <1>5, <3>1, <3>2, <3>4
 <2>3. CASE s = "swap" /\ Swapped
  <3>1. S = call[c].dirty /\ gap' = call[c].dirty \cup Unread(c)
    BY <2>3 DEF Undone, GapAfter
  <3>2. engine'["live"].docs = engine["tmp"].docs
    BY <1>1, <2>3 DEF CallEffect
  <3>3. Rebuilds(c) /\ "tmpfill" \notin Ahead(c)
   <4>1. Ahead(c) = {"swap", "tmpdelete"}
     BY <1>1, <2>3, ReindexStep DEF Documentary, After
   <4> QED BY <1>2, <2>3, <4>1
  <3>4. \A e \in Doc \ S : Live(e)' = db[e]
    BY <1>1, <3>1, <3>2, <3>3 DEF CallerRight, BuildRight, Live, NoDocs
  <3>5. \A o \in Caller \ {c} : Refills(o) => call[o].dirty \subseteq Unread(c)
    BY DEF Unread, Others, HoldsRows
  <3> QED BY <3>1, <3>4, <3>5
 <2>4. CASE s \notin {"provision", "erase", "send"} /\ ~(s = "swap" /\ Swapped)
  <3>1. S = {} /\ gap' = gap
    BY <2>4 DEF Undone, GapAfter, Erased
  <3>2. \A e \in Doc : Live(e)' = Live(e)
    BY <1>1, <2>4 DEF CallEffect, Live, EngineSteps
  <3> QED BY <1>5, <3>1, <3>2
 <2> QED BY <2>1, <2>2, <2>3, <2>4
<1> HIDE DEF s, S
<1> QED BY <1>3, <1>4, <1>6 DEF Harmless, S

(* No right document is taken away by the step of c, but for the gap and the   *)
(* clear of a full reindex.                                                    *)
Keeps(c) ==
  \A d \in Doc : Live(d) = db[d] /\ db'[d] = db[d] /\ Live(d)' # db[d]
    => d \in gap' \/ (Step(c) = "clear" /\ call'[c] # call[c])

(* A harmless step takes no right document away.                               *)
LEMMA HarmlessKeeps ==
  ASSUME NEW c \in Caller, NEW S, Harmless(c, S), S \subseteq gap'
  PROVE  Keeps(c)
BY DEF Harmless, Keeps

(* The variables after an engine call.                                         *)
Acts(c, d) ==
  /\ Step(c) \in EngineSteps /\ Outcome(c, d).ok
  /\ engine' = Outcome(c, d).engine /\ gap' = GapAfter(c, d) /\ UNCHANGED <<dep, db>>

(* An engine call that succeeds keeps the types, and notes in the calls of     *)
(* the others the documents it has undone.                                     *)
LEMMA ActShapes ==
  ASSUME NEW c \in Caller, Shapes, NEW d \in Batches(c), Acts(c, d), NEW r, CallShape(r), GoesOn(c, r, Undone(c, d))
  PROVE  /\ Shapes' /\ OthersStay(c, Undone(c, d)) /\ call'[c] = Rest(r)
         /\ CallShape(Rest(r)) /\ Rest(r).todo = r.todo /\ (r.todo # <<>> => Rest(r) = r)
<1>1. CallEffect(c, d, engine')
  BY OutcomeEffect DEF Acts
<1>2. /\ DOMAIN call' = Caller /\ \A o \in Caller : CallShape(call'[o])
      /\ call'[c] = Rest(r) /\ OthersStay(c, Undone(c, d))
  BY HistoryShapes, GoesOnEffect DEF Shapes, OthersStay
<1>3. Shapes'
  BY <1>1, <1>2, HistoryShapes DEF Shapes, CallEffect, Acts
<1> QED BY <1>2, <1>3, RestEffect

(* After a call of a zero-downtime reindex the new index is as it should be.   *)
LEMMA BuildStep ==
  ASSUME NEW c \in Caller, Shapes, Served, NEW d \in Batches(c), Acts(c, d), BrokenAfter(c, d) = {},
         Step(c) \in {"tmpcreate", "tmpconfigure"}, call'[c].todo = Pop(c), CallShape(call'[c])
  PROVE  CallerRight(c)' /\ ~Refills(c)'
<1>1. CallShape(call[c]) /\ ~Idle(c) /\ CallEffect(c, d, engine') /\ Step(c) \in Documentary /\ CallerRight(c)
  BY EngineStepBusy, OutcomeEffect DEF Shapes, Served, Acts, Documentary
<1>2. Ahead(c)' = After(Step(c))
 <2>1. Ahead(c)' = Among(Pop(c))
   BY DEF Ahead, Among
 <2> QED BY <1>1, <2>1, ReindexStep
<1>3. {"tmpread", "swap"} \subseteq Ahead(c)' /\ Ahead(c)' \cap {"tmpcreate", "clear", "fill", "send"} = {}
  BY <1>2 DEF After
<1>4. Builds(c)' /\ ~Rebuilds(c)' /\ ~Refills(c)'
  BY <1>3 DEF Builds, Rebuilds, Refills
<1>5. engine'["tmp"].docs = NoDocs
 <2>1. CASE Step(c) = "tmpcreate"
   BY <2>1 DEF BrokenAfter, Acts
 <2>2. CASE Step(c) = "tmpconfigure"
  <3>1. Builds(c) /\ ~Rebuilds(c)
    BY <1>1, <2>2, Middle
  <3>2. engine'["tmp"].docs = engine["tmp"].docs
    BY <1>1, <2>2 DEF CallEffect
  <3> QED BY <1>1, <3>1, <3>2 DEF CallerRight, BuildRight
 <2> QED BY <2>1, <2>2
<1>6. SendRight(c)'
  BY <1>3, CallerKindNext, <1>4 DEF SendRight
<1> QED BY <1>3, <1>4, <1>5, <1>6 DEF CallerRight, RefillRight, ClearRight, BuildRight

(* A batch that goes into the temporary index keeps the rebuild right.         *)
LEMMA BuildFill ==
  ASSUME NEW c \in Caller, Shapes, Served, NEW d \in Batches(c), Acts(c, d), Step(c) = "tmpfill",
         CallShape(call'[c]), call'[c].dirty = call[c].dirty,
         IF Pending(c) \subseteq {d}
         THEN call'[c].todo = Pop(c) /\ call'[c].docs = NoDocs
         ELSE call'[c].todo = call[c].todo /\ call'[c].docs = [call[c].docs EXCEPT ![d] = 0]
  PROVE  CallerRight(c)' /\ ~Refills(c)' /\ Builds(c)
<1>1. /\ CallShape(call[c]) /\ ~Idle(c) /\ CallEffect(c, d, engine') /\ CallerRight(c)
      /\ engine["tmp"].docs \in [Doc -> Nat] /\ call[c].docs \in [Doc -> Nat] /\ UNCHANGED db
  BY EngineStepBusy, OutcomeEffect, DeploymentsAssumption DEF Shapes, Served, Acts, EngineShape, CallShape
<1>2. Builds(c) /\ Rebuilds(c)
  BY <1>1, Middle
<1>3. /\ \A e \in Doc \ call[c].dirty : call[c].docs[e] \in {0, db[e]}
      /\ \A e \in Doc \ call[c].dirty : call[c].docs[e] = 0 => engine["tmp"].docs[e] = db[e]
  BY <1>1, <1>2 DEF CallerRight, BuildRight, ReadsRight
<1>4. Ahead(c) = {"tmpfill", "swap", "tmpdelete"} /\ Among(Pop(c)) = {"swap", "tmpdelete"}
  BY <1>1, ReindexStep DEF Documentary, After
<1>5. Ahead(c)' = IF Pending(c) \subseteq {d} THEN {"swap", "tmpdelete"} ELSE {"tmpfill", "swap", "tmpdelete"}
 <2>1. Ahead(c)' = Among(call'[c].todo) /\ Ahead(c) = Among(call[c].todo)
   BY DEF Ahead, Among
 <2> QED BY <1>4, <2>1
<1>6. Builds(c)' /\ Rebuilds(c)' /\ ~Refills(c)' /\ "clear" \notin Ahead(c)' /\ "send" \notin Ahead(c)'
  BY <1>5 DEF Builds, Rebuilds, Refills
<1>7. Pending(c) = {e \in Doc : call[c].docs[e] # 0} /\ FillTarget(c) = "tmp"
  BY DEF Pending, FillTarget
<1>8. /\ \A e \in Doc : e # d \/ Pending(c) = {} => engine'["tmp"].docs[e] = engine["tmp"].docs[e]
      /\ Pending(c) # {} => d \in Doc /\ call[c].docs[d] # 0 /\ engine'["tmp"].docs[d] = call[c].docs[d]
  BY <1>1, <1>7 DEF CallEffect
<1>9. BuildRight(c)'
 <2>1. CASE Pending(c) \subseteq {d}
  <3>1. call'[c].docs = NoDocs /\ \A e \in Doc : call'[c].docs[e] = 0
    BY <2>1 DEF NoDocs
  <3>2. \A e \in Doc \ call[c].dirty : engine'["tmp"].docs[e] = db[e]
    BY <1>3, <1>7, <1>8, <2>1
  <3> QED BY <1>1, <1>6, <3>1, <3>2 DEF BuildRight, ReadsRight
 <2>2. CASE ~(Pending(c) \subseteq {d})
  <3>1. Pending(c) # {} /\ call'[c].docs = [call[c].docs EXCEPT ![d] = 0] /\ "tmpfill" \in Ahead(c)'
    BY <1>5, <2>2
  <3>2. d \in Doc /\ call'[c].docs[d] = 0 /\ \A e \in Doc \ {d} : call'[c].docs[e] = call[c].docs[e]
    BY <1>1, <1>8, <3>1
  <3>3. \A e \in Doc \ call[c].dirty : call'[c].docs[e] \in {0, db[e]}
    BY <1>3, <3>2
  <3>4. \A e \in Doc \ call[c].dirty : call'[c].docs[e] = 0 => engine'["tmp"].docs[e] = db[e]
   <4>1. d \notin call[c].dirty => engine'["tmp"].docs[d] = db[d]
     BY <1>3, <1>8, <3>1
   <4> QED BY <1>3, <1>8, <3>2, <4>1
  <3> QED BY <1>1, <1>6, <3>1, <3>3, <3>4 DEF BuildRight, ReadsRight
 <2> QED BY <2>1, <2>2
<1>10. SendRight(c)'
  BY <1>6, CallerKindNext DEF SendRight
<1> QED BY <1>2, <1>6, <1>9, <1>10 DEF CallerRight, RefillRight, ClearRight

(* An engine call that succeeds.                                               *)
LEMMA SucceedKeeps ==
  ASSUME NEW c \in Caller, Shapes, Succeed(c)
  PROVE  Shapes' /\ (Served /\ broken' = {} => Served' /\ Keeps(c))
<1> DEFINE filling == Step(c) \in {"fill", "tmpfill"}
<1>1. PICK d \in Batches(c) :
        /\ Acts(c, d) /\ broken' = BrokenAfter(c, d)
        /\ GoesOn(c, IF filling /\ ~(Pending(c) \subseteq {d})
                     THEN [call[c] EXCEPT !.docs[d] = 0]
                     ELSE [call[c] EXCEPT !.todo = Pop(c), !.docs = IF filling THEN NoDocs ELSE @],
                  Undone(c, d))
  BY DEF Succeed, Acts
<1> DEFINE more == filling /\ ~(Pending(c) \subseteq {d})
           r == IF more THEN [call[c] EXCEPT !.docs[d] = 0]
                ELSE [call[c] EXCEPT !.todo = Pop(c), !.docs = IF filling THEN NoDocs ELSE @]
<1>2. /\ CallShape(call[c]) /\ ~Idle(c) /\ call[c].docs \in [Doc -> Nat] /\ call[c].dirty \in SUBSET Doc
      /\ Step(c) \in EngineSteps /\ CallEffect(c, d, engine') /\ UNCHANGED db
      /\ engine["live"].docs \in [Doc -> Nat]
  BY <1>1, EngineStepBusy, OutcomeEffect, DeploymentsAssumption DEF Shapes, Acts, CallShape, EngineShape
<1>3. GoesOn(c, r, Undone(c, d))
  BY <1>1
<1>4. /\ DOMAIN r = DOMAIN NoCall /\ r.dirty = call[c].dirty
      /\ more => r.todo = call[c].todo /\ r.docs = [call[c].docs EXCEPT ![d] = 0]
      /\ ~more => r.todo = Pop(c) /\ r.docs = IF filling THEN NoDocs ELSE call[c].docs
  BY <1>2 DEF CallShape, NoCall
<1> HIDE DEF r
<1>5. CallShape(r)
 <2>1. Shaped(r.todo)
   BY <1>2, <1>4, NextStep DEF CallShape
 <2>2. r.docs \in [Doc -> Nat]
   BY <1>2, <1>4, EmptyIndexes
 <2> QED BY <1>2, <1>4, <2>1, <2>2 DEF CallShape
<1>6. /\ Shapes' /\ OthersStay(c, Undone(c, d)) /\ call'[c] = Rest(r)
      /\ CallShape(call'[c]) /\ call'[c].todo = r.todo /\ (r.todo # <<>> => call'[c] = r)
  BY <1>1, <1>3, <1>5, ActShapes
<1>7. SUFFICES ASSUME Served, broken' = {} PROVE Served' /\ Keeps(c)
  BY <1>6
<1>8. BrokenAfter(c, d) = {} /\ CallerRight(c) /\ Outcome(c, d).ok
      /\ engine' = Outcome(c, d).engine /\ gap' = GapAfter(c, d)
  BY <1>1, <1>7 DEF Served, Acts
<1>9. CASE Step(c) = "clear"
 <2>1. Undone(c, d) = {} /\ gap' = gap
   BY <1>8, <1>9 DEF Undone, GapAfter, Erased
 <2>2. ~more /\ Among(Pop(c)) = {"read", "fill"}
   BY <1>2, <1>9, ReindexStep DEF Documentary, After
 <2>3. Pop(c) # <<>> /\ call'[c].todo = Pop(c) /\ call'[c].dirty = call[c].dirty
   BY <1>4, <1>6, <2>2, Lists
 <2>4. engine'["live"].docs = NoDocs /\ engine'["tmp"].docs = engine["tmp"].docs
   BY <1>2, <1>9 DEF CallEffect
 <2>5. Served'
   BY <1>2, <1>6, <1>7, <1>9, <2>1, <2>3, <2>4, ClearServed
 <2>6. call'[c] # call[c]
  <3>1. "clear" \in Among(call[c].todo) /\ "clear" \notin Among(Pop(c))
    BY <1>2, <1>9, <2>2, NextStep DEF Ahead, Among
  <3> QED BY <2>3, <3>1
 <2> QED BY <1>9, <2>5, <2>6 DEF Keeps
<1>10. CASE Step(c) = "fill"
 <2>1. ~dep.tenant
   BY <1>8, <1>10 DEF BrokenAfter
 <2>2. Undone(c, d) = call[c].dirty \cap {d} /\ FillTarget(c) = "live" /\ Pending(c) = {e \in Doc : call[c].docs[e] # 0}
   BY <1>10, <2>1 DEF Undone, FillTarget, Pending
 <2>3. engine'["tmp"].docs = engine["tmp"].docs
   BY <1>2, <1>10 DEF CallEffect
 <2>4. Refills(c) /\ call[c].dirty \subseteq gap /\ ReadsRight(c)
  <3>1. Ahead(c) = {"fill"}
    BY <1>2, <1>10, ReindexStep DEF Documentary, After
  <3>2. Refills(c)
    BY <3>1 DEF Refills
  <3> QED BY <1>8, <3>1, <3>2 DEF CallerRight, RefillRight
 <2>5. Pending(c) # {} => /\ d \in Doc /\ call[c].docs[d] # 0
                          /\ engine'["live"].docs = [engine["live"].docs EXCEPT ![d] = call[c].docs[d]]
   BY <1>2, <1>10, <2>2 DEF CallEffect
 <2>6. Pending(c) = {} => engine' = engine
   BY <1>2, <1>10 DEF CallEffect
 <2>7. CASE more
  <3>1. Pending(c) # {} /\ gap' = gap
    BY <1>8, <1>10, <2>7 DEF GapAfter, Erased
  <3>2. call'[c] = r
    BY <1>2, <1>4, <1>6, <2>7 DEF Idle
  <3>3. Served'
    BY <1>2, <1>4, <1>6, <1>7, <1>10, <2>2, <2>3, <2>5, <2>7, <3>1, <3>2, FillServed
  <3>4. Keeps(c)
    BY <1>2, <2>4, <2>5, <3>1 DEF Keeps, ReadsRight, Live
  <3> QED BY <3>3, <3>4
 <2>8. CASE ~more
  <3>1. Pending(c) \subseteq {d} /\ gap' = call[c].dirty \cup Unread(c)
    BY <1>8, <1>10, <2>1, <2>8 DEF GapAfter
  <3>2. \A e \in Doc : engine'["live"].docs[e] = IF call[c].docs[e] # 0 THEN call[c].docs[e]
                                                 ELSE engine["live"].docs[e]
    BY <1>2, <2>2, <2>5, <2>6, <3>1
  <3>3. \A e \in call[c].dirty \ Undone(c, d) : call[c].docs[e] = 0
    BY <1>2, <2>2, <3>1
  <3>4. Served'
    BY <1>2, <1>4, <1>6, <1>7, <1>10, <2>2, <2>3, <2>8, <3>1, <3>2, <3>3, FilledServed
  <3>5. Keeps(c)
    BY <2>4, <3>1, <3>2 DEF Keeps, ReadsRight, Live
  <3> QED BY <3>4, <3>5
 <2> QED BY <2>7, <2>8
<1>11. CASE Step(c) \notin {"clear", "fill"}
 <2>1. CallerRight(c)' /\ ~Refills(c)' /\ (Builds(c)' => Builds(c) \/ Step(c) = "tmpcreate")
  <3>1. CASE Step(c) \in {"tmpcreate", "tmpconfigure"}
   <4>1. call'[c].todo = Pop(c)
     BY <1>4, <1>6, <3>1
   <4>2. Builds(c) \/ Step(c) = "tmpcreate"
     BY <1>2, <3>1, Middle
   <4> QED BY <1>1, <1>6, <1>7, <1>8, <3>1, <4>1, <4>2, BuildStep
  <3>2. CASE Step(c) = "tmpfill"
   <4>1. Among(Pop(c)) = {"swap", "tmpdelete"} /\ call[c].todo # <<>>
     BY <1>2, <3>2, ReindexStep DEF Documentary, After, Idle
   <4>2. call'[c] = r
     BY <1>4, <1>6, <4>1, Lists
   <4>3. more <=> ~(Pending(c) \subseteq {d})
     BY <3>2
   <4> HIDE DEF more
   <4> QED BY <1>1, <1>4, <1>6, <1>7, <3>2, <4>2, <4>3, BuildFill
  <3>3. CASE Step(c) \notin {"tmpcreate", "tmpconfigure", "tmpfill"}
   <4>1. ~more /\ call'[c].todo = Pop(c)
     BY <1>4, <1>6, <1>11, <3>3
   <4>2. NotBegun(Pop(c))
    <5>1. CASE Step(c) \in Plain
      BY <1>2, <5>1, NextStep
    <5>2. CASE Step(c) = "send"
      BY <1>2, <5>2, NextStep, Lists, WholeNotBegun
    <5>3. CASE Step(c) \in {"swap", "tmpdelete"}
     <6>1. Among(Pop(c)) \subseteq {"tmpdelete"}
       BY <1>2, <5>3, ReindexStep DEF Documentary, After
     <6> QED BY <6>1 DEF NotBegun
    <5> QED BY <1>2, <1>11, <3>3, <5>1, <5>2, <5>3 DEF EngineSteps, Plain
   <4>3. "clear" \in Among(Pop(c)) => call'[c].dirty = {}
    <5>1. SUFFICES ASSUME "clear" \in Among(Pop(c)) PROVE call'[c].dirty = {}
      OBVIOUS
    <5>2. call[c].dirty = {}
      BY <1>2, <1>8, <5>1, NextStep DEF CallerRight, ClearRight
    <5>3. r.todo # <<>>
      BY <1>4, <4>1, <5>1, Lists
    <5> QED BY <1>4, <1>6, <5>2, <5>3
   <4> QED BY <1>6, <4>1, <4>2, <4>3, QuietRight
  <3> QED BY <3>1, <3>2, <3>3
 <2>2. Harmless(c, Undone(c, d)) /\ Undone(c, d) \subseteq gap'
   BY <1>2, <1>6, <1>7, <1>8, <1>11, <2>1, ActHarmless
 <2>3. Undone(c, d) \in SUBSET Doc
   BY HistoryShapes
 <2> QED BY <1>6, <1>7, <2>2, <2>3, HarmlessServed, HarmlessKeeps
<1> QED BY <1>9, <1>10, <1>11

(* What a caller goes on with after an error.                                  *)
LEMMA ErrorList ==
  ASSUME NEW c \in Caller, CallShape(call[c]), Step(c) \in EngineSteps
  PROVE  Shaped(OnError(c)) /\ (Step(c) # "clear" => NotBegun(OnError(c)))
<1>1. ~Idle(c)
  BY EngineStepBusy
<1>2. Shaped(Pop(c))
  BY <1>1, NextStep
<1>3. /\ Step(c) = "tmpdelete" => NotBegun(Pop(c))
      /\ Step(c) = "tmpclean" => NotBegun(Pop(c))
 <2>1. Step(c) = "tmpdelete" => Among(Pop(c)) = {}
   BY <1>1, ReindexStep DEF Documentary, After
 <2> QED BY <1>1, <2>1, NextStep DEF Plain, NotBegun
<1>4. /\ Shaped(<<"tmpclean">> \o AllSteps) /\ NotBegun(<<"tmpclean">> \o AllSteps)
      /\ Shaped(<<"tmpclean">>) /\ NotBegun(<<"tmpclean">>)
      /\ Shaped(<<>>) /\ NotBegun(<<>>)
  BY BeginLists, Lists, WholeNotBegun
<1> QED BY <1>2, <1>3, <1>4 DEF OnError

(* What a call goes on with after an error.                                    *)
LEMMA FailureShape ==
  ASSUME NEW c \in Caller, CallShape(call[c]), Step(c) \in EngineSteps, NEW r,
         r = [call[c] EXCEPT !.todo = OnError(c), !.dirty = {}]
  PROVE  CallShape(r) /\ r.todo = OnError(c) /\ r.dirty = {}
<1>1. DOMAIN r = DOMAIN NoCall /\ r.todo = OnError(c) /\ r.dirty = {} /\ r.docs = call[c].docs
  BY DEF CallShape, NoCall
<1> QED BY <1>1, ErrorList DEF CallShape

(* An error without effect on the engine; of the calls of a full reindex it is *)
(* a cause.                                                                    *)
LEMMA ErrorKeeps ==
  ASSUME NEW c \in Caller, Shapes, Step(c) \in EngineSteps, Fail(c, {}), UNCHANGED <<engine, gap>>,
         broken' = broken \cup BrokenBy(c)
  PROVE  Shapes' /\ (Served /\ broken' = {} => Served')
<1> DEFINE r == [call[c] EXCEPT !.todo = OnError(c), !.dirty = {}]
<1>1. /\ \A o \in Caller : CallShape(call[o])
      /\ DOMAIN call = Caller /\ UNCHANGED <<dep, db>> /\ GoesOn(c, r, {})
  BY DEF Shapes, Fail
<1>2. CallShape(r) /\ r.todo = OnError(c) /\ r.dirty = {}
  BY <1>1, FailureShape
<1> HIDE DEF r
<1>3. /\ DOMAIN call' = Caller /\ \A o \in Caller : CallShape(call'[o])
      /\ call'[c] = Rest(r) /\ OthersStay(c, {})
  BY <1>1, <1>2, GoesOnEffect DEF OthersStay
<1>4. Shapes'
  BY <1>1, <1>3 DEF Shapes
<1>5. ASSUME Served, broken' = {} PROVE Served'
 <2>1. Step(c) \notin {"clear", "fill"}
   BY <1>5 DEF BrokenBy
 <2>2. CallerRight(c)' /\ ~Refills(c)' /\ ~Builds(c)'
  <3>1. call'[c].todo = OnError(c) /\ NotBegun(OnError(c)) /\ (OnError(c) # <<>> => call'[c].dirty = {})
    BY <1>1, <1>2, <1>3, <2>1, ErrorList, RestEffect
  <3> QED BY <1>3, <3>1, QuietRight, Lists
 <2>3. ~Refills(c)
   BY <1>1, <2>1, EngineStepBusy, Middle DEF EngineSteps
 <2>4. \A o \in Caller \ {c} : Refills(o) => call[o].dirty \cup {} \subseteq gap'
   BY <1>5 DEF Served, CallerRight, RefillRight
 <2>5. Harmless(c, {})
   BY <1>1, <1>3, <2>2, <2>3, <2>4 DEF Harmless, Live
 <2> QED BY <1>4, <1>5, <2>5, HarmlessServed
<1> QED BY <1>4, <1>5

(* An error after the engine has acted.                                        *)
LEMMA LateErrorKeeps ==
  ASSUME NEW c \in Caller, Shapes, NEW d \in Batches(c), Acts(c, d), Fail(c, Undone(c, d)),
         broken' = BrokenAfter(c, d) \cup BrokenBy(c)
  PROVE  Shapes' /\ (Served /\ broken' = {} => Served' /\ Keeps(c))
<1> DEFINE r == [call[c] EXCEPT !.todo = OnError(c), !.dirty = {}]
<1>1. /\ CallShape(call[c]) /\ GoesOn(c, r, Undone(c, d)) /\ Step(c) \in EngineSteps /\ UNCHANGED db
      /\ Outcome(c, d).ok /\ engine' = Outcome(c, d).engine /\ gap' = GapAfter(c, d)
  BY DEF Shapes, Fail, Acts
<1>2. CallShape(r) /\ r.todo = OnError(c) /\ r.dirty = {}
  BY <1>1, FailureShape
<1> HIDE DEF r
<1>3. /\ Shapes' /\ OthersStay(c, Undone(c, d)) /\ call'[c] = Rest(r)
      /\ CallShape(call'[c]) /\ call'[c].todo = r.todo /\ (r.todo # <<>> => call'[c] = r)
  BY <1>1, <1>2, ActShapes
<1>4. ASSUME Served, broken' = {} PROVE Served' /\ Keeps(c)
 <2>1. Step(c) \notin {"clear", "fill"} /\ BrokenAfter(c, d) = {}
   BY <1>4 DEF BrokenBy
 <2>2. CallerRight(c)' /\ ~Refills(c)' /\ ~Builds(c)'
  <3>1. call'[c].todo = OnError(c) /\ NotBegun(OnError(c)) /\ (OnError(c) # <<>> => call'[c].dirty = {})
    BY <1>1, <1>2, <1>3, <2>1, ErrorList
  <3> QED BY <1>3, <3>1, QuietRight, Lists
 <2>3. Harmless(c, Undone(c, d)) /\ Undone(c, d) \subseteq gap'
   BY <1>1, <1>3, <1>4, <2>1, <2>2, ActHarmless
 <2>4. Undone(c, d) \in SUBSET Doc
   BY HistoryShapes
 <2> QED BY <1>3, <1>4, <2>3, <2>4, HarmlessServed, HarmlessKeeps
<1> QED BY <1>3, <1>4

(* --------------------------------- theorems -------------------------------- *)

(* In the beginning nothing is under way, and every row that is there is a     *)
(* gap.                                                                        *)
LEMMA InitInv == Init => DocsInv
<1> SUFFICES ASSUME Init PROVE DocsInv
  OBVIOUS
<1>1. DOMAIN call = Caller /\ \A c \in Caller : call[c] = NoCall
  BY DEF Init
<1>2. CallShape(NoCall) /\ NoCall.todo = <<>>
  BY Lists, WholeNotBegun, EmptyIndexes DEF CallShape, NoCall
<1>3. EngineShape(engine) /\ engine["live"].docs = NoDocs
 <2>1. CASE engine = [u \in Uid |-> NoIndex]
   BY <2>1, EmptyIndexes, DeploymentsAssumption DEF EngineShape
 <2>2. ASSUME NEW s, engine = [u \in Uid |-> IF u # "live" THEN NoIndex
                                ELSE [FreshIndex EXCEPT !.settings = Merge(@, s, Filled(s, Carried(be)))]]
       PROVE  EngineShape(engine) /\ engine["live"].docs = NoDocs
  <3> DEFINE x == [FreshIndex EXCEPT !.settings = Merge(@, s, Filled(s, Carried(be)))]
  <3>1. DOMAIN x = DOMAIN NoIndex /\ x.docs = NoDocs
    BY DEF FreshIndex, NoIndex
  <3>2. engine = [u \in Uid |-> IF u # "live" THEN NoIndex ELSE x]
    BY <2>2
  <3> HIDE DEF x
  <3> QED BY <3>1, <3>2, EmptyIndexes, DeploymentsAssumption DEF EngineShape
 <2> QED BY <2>1, <2>2 DEF Init
<1>4. db \in [Doc -> Nat] /\ gap = {d \in Doc : db[d] # 0} /\ dep \in Deployments
  BY DEF Init
<1>5. Shapes
  BY <1>1, <1>2, <1>3, <1>4 DEF Shapes
<1>6. \A c \in Caller : Ahead(c) = {} /\ Step(c) = "none"
  BY <1>1, <1>2, IdleQuiet DEF Idle
<1>7. \A c \in Caller : CallerRight(c) /\ ~Builds(c)
  BY <1>6 DEF CallerRight, RefillRight, ClearRight, SendRight, BuildRight, Refills, Builds, Rebuilds
<1>8. GapRight
  BY <1>3, <1>4 DEF GapRight, Sound, NoDocs
<1> QED BY <1>5, <1>7, <1>8 DEF DocsInv, Served, BuildsAlone

(* A clear that returns early is a cause: the deletion may go on.              *)
LEMMA ReturnKeeps ==
  ASSUME NEW c \in Caller, Shapes, ReturnEarly(c)
  PROVE  Shapes' /\ broken' # {}
<1> DEFINE r == [call[c] EXCEPT !.todo = Pop(c)]
<1>1. /\ DOMAIN call = Caller /\ \A o \in Caller : CallShape(call[o])
      /\ GoesOn(c, r, {}) /\ UNCHANGED <<dep, engine, db, gap>> /\ Step(c) = "clear" /\ broken' # {}
  BY DEF Shapes, ReturnEarly
<1>2. ~Idle(c)
  BY <1>1 DEF Step
<1>3. Shaped(Pop(c))
  BY <1>1, <1>2, NextStep
<1>4. DOMAIN r = DOMAIN NoCall /\ r.todo = Pop(c) /\ r.docs = call[c].docs /\ r.dirty = call[c].dirty
  BY <1>1 DEF CallShape, NoCall
<1> HIDE DEF r
<1>5. CallShape(r)
  BY <1>1, <1>3, <1>4 DEF CallShape
<1>6. DOMAIN call' = Caller /\ \A o \in Caller : CallShape(call'[o])
  BY <1>1, <1>5, GoesOnEffect
<1> QED BY <1>1, <1>6 DEF Shapes

(* What the engine deletes later it deletes under that cause.                  *)
LEMMA DeletionKeeps ==
  ASSUME DocsInv, Waited, DeleteByQuery
  PROVE  DocsInv' /\ broken' # {}
<1>1. UNCHANGED <<dep, db, call, gap, broken>> /\ broken # {} /\ Shapes
  BY DEF DeleteByQuery, Waited, DocsInv
<1>2. EngineShape(engine) /\ "live" \in Uid /\ 0 \in Nat
  BY <1>1, DeploymentsAssumption DEF Shapes
<1>3. \A d \in Doc : EngineShape(Store(engine, "live", d, 0))
  BY <1>2, StoreEffect DEF OnlyAt
<1>4. engine' = engine \/ \E d \in Doc : engine' = Store(engine, "live", d, 0)
  BY DEF DeleteByQuery
<1>5. EngineShape(engine')
  BY <1>2, <1>3, <1>4
<1> QED BY <1>1, <1>5 DEF DocsInv, Shapes

(* Whatever is still to be deleted has a cause.                                *)
LEMMA StepWaits ==
  ASSUME Waited, [Next]_vars
  PROVE  Waited'
<1>1. CASE UNCHANGED vars
  BY <1>1 DEF Waited, vars
<1>2. ASSUME broken \subseteq broken', clearing' \subseteq clearing PROVE Waited'
  BY <1>2 DEF Waited
<1>3. CASE Next
 <2>1. PICK c \in Caller :
         \/ CreateIndex(c) \/ UpdateSettings(c) \/ DeleteIndex(c) \/ Reindex(c) \/ WriteRow(c)
         \/ SyncTask(c) \/ SyncAll(c)
         \/ Act(c) \/ ReturnEarly(c) \/ Fault(c) \/ Kill(c) \/ DeleteByQuery
   BY <1>3 DEF Next
 <2>2. CASE CreateIndex(c) \/ UpdateSettings(c) \/ DeleteIndex(c) \/ Reindex(c) \/ WriteRow(c)
            \/ SyncTask(c) \/ SyncAll(c)
   BY <1>2, <2>2 DEF CreateIndex, UpdateSettings, DeleteIndex, Reindex, WriteRow, SyncTask, SyncAll
 <2>3. CASE Save(c) \/ Notify(c) \/ Mark(c) \/ Drop(c) \/ Read(c) \/ Refused(c) \/ Kill(c)
   BY <1>2, <2>3 DEF Save, Notify, Mark, Drop, Read, Refused, Kill
 <2>4. CASE Succeed(c)
   BY <1>2, <2>4 DEF Succeed, BrokenAfter, ClearingAfter
 <2>5. CASE Fault(c)
   BY <1>2, <2>5 DEF Fault, BrokenAfter, ClearingAfter
 <2>6. CASE ReturnEarly(c)
   BY <2>6 DEF ReturnEarly, Waited
 <2>7. CASE DeleteByQuery
   BY <1>2, <2>7 DEF DeleteByQuery
 <2> QED BY <2>1, <2>2, <2>3, <2>4, <2>5, <2>6, <2>7 DEF Act
<1> QED BY <1>1, <1>3

(* One step: the invariant, and that no right document is taken away.          *)
LEMMA StepKeeps ==
  ASSUME DocsInv, Waited, [Next]_vars
  PROVE  /\ DocsInv'
         /\ broken' = {} => UNCHANGED vars \/ \E c \in Caller : Keeps(c)
<1>1. Shapes /\ (broken = {} => Served)
  BY DEF DocsInv
<1>2. CASE UNCHANGED vars
  BY <1>1, <1>2, StutterKeeps DEF DocsInv, vars
<1>3. CASE Next
 <2>1. PICK c \in Caller :
         \/ CreateIndex(c) \/ UpdateSettings(c) \/ DeleteIndex(c) \/ Reindex(c) \/ WriteRow(c)
         \/ SyncTask(c) \/ SyncAll(c)
         \/ Act(c) \/ ReturnEarly(c) \/ Fault(c) \/ Kill(c) \/ DeleteByQuery
   BY <1>3 DEF Next
 <2>2. ASSUME engine' = engine PROVE Keeps(c)
   BY <2>2 DEF Keeps, Live
 <2>3. CASE CreateIndex(c) \/ UpdateSettings(c) \/ DeleteIndex(c) \/ Reindex(c)
  <3>1. engine' = engine /\ broken' = broken
    BY <2>3 DEF CreateIndex, UpdateSettings, DeleteIndex, Reindex
  <3> QED BY <1>1, <2>2, <2>3, <3>1, BeginningsKeep DEF DocsInv
 <2>4. CASE WriteRow(c)
  <3>1. engine' = engine /\ broken' = broken
    BY <2>4 DEF WriteRow
  <3> QED BY <1>1, <2>2, <2>4, <3>1, WriteShapes, WriteServed DEF DocsInv
 <2>5. CASE SyncTask(c) \/ SyncAll(c)
  <3>1. engine' = engine /\ broken' = broken
    BY <2>5 DEF SyncTask, SyncAll
  <3> QED BY <1>1, <2>2, <2>5, <3>1, TasksKeep DEF DocsInv
 <2>6. CASE Save(c) \/ Notify(c) \/ Mark(c) \/ Drop(c) \/ Read(c)
  <3>1. engine' = engine /\ broken' = broken
    BY <2>6 DEF Save, Notify, Mark, Drop, Read
  <3> QED BY <1>1, <2>2, <2>6, <3>1, SaveKeeps, NotifyKeeps, MarkKeeps, DropKeeps, ReadKeeps DEF DocsInv
 <2>7. CASE Succeed(c)
  <3>1. broken' = {} => broken = {}
    BY <2>7 DEF Succeed, BrokenAfter
  <3> QED BY <1>1, <2>7, <3>1, SucceedKeeps DEF DocsInv
 <2>8. CASE Refused(c)
  <3>1. /\ Step(c) \in EngineSteps /\ Fail(c, {}) /\ UNCHANGED <<engine, gap>>
        /\ broken' = broken \cup BrokenBy(c)
    BY <2>8 DEF Refused
  <3> QED BY <1>1, <2>2, <3>1, ErrorKeeps DEF DocsInv
 <2>9. CASE Fault(c)
  <3>1. CASE /\ Step(c) \in EngineSteps /\ Fail(c, {}) /\ UNCHANGED <<engine, gap>>
             /\ broken' = broken \cup BrokenBy(c)
    BY <1>1, <2>2, <3>1, ErrorKeeps DEF DocsInv
  <3>2. ASSUME NEW d \in Batches(c), Acts(c, d), Fail(c, Undone(c, d)),
               broken' = BrokenAfter(c, d) \cup BrokenBy(c)
        PROVE  DocsInv' /\ (broken' = {} => Keeps(c))
   <4>1. broken' = {} => broken = {}
     BY <3>2 DEF BrokenAfter
   <4> QED BY <1>1, <3>2, <4>1, LateErrorKeeps DEF DocsInv
  <3> QED BY <2>9, <3>1, <3>2 DEF Fault, Acts, Fail
 <2>10. CASE Kill(c)
  <3>1. engine' = engine /\ (broken' = {} => broken = {})
    BY <2>10 DEF Kill
  <3> QED BY <1>1, <2>2, <2>10, <3>1, KillKeeps DEF DocsInv
 <2>11. CASE ReturnEarly(c)
   BY <1>1, <2>11, ReturnKeeps DEF DocsInv
 <2>12. CASE DeleteByQuery
   BY <2>12, DeletionKeeps DEF DocsInv
 <2> QED BY <2>1, <2>3, <2>4, <2>5, <2>6, <2>7, <2>8, <2>9, <2>10, <2>11, <2>12 DEF Act
<1> QED BY <1>2, <1>3

(* The invariant holds in every state.                                         *)
THEOREM IndexInvariant == Spec => []IndexInv
<1>1. Init => IndexInv
  BY InitInv DEF IndexInv, Waited, Init
<1>2. IndexInv /\ [Next]_vars => IndexInv'
  BY StepKeeps, StepWaits DEF IndexInv
<1> QED BY <1>1, <1>2, PTL DEF Spec

(* At rest the live index has exactly the documents of the rows, but for the   *)
(* gaps and the causes that are named: AllSteps and ZeroSteps of any number of *)
(* callers, with writes, errors and kills between any two of their steps.      *)
THEOREM LiveIndexIsExact == Spec => []LiveExactUnlessGap
<1>1. IndexInv => LiveExactUnlessGap
 <2>1. SUFFICES ASSUME IndexInv, AtRest, broken = {}, NEW d \in Doc \ gap PROVE engine["live"].docs[d] = db[d]
   BY DEF LiveExactUnlessGap
 <2>2. Sound(d)
   BY <2>1 DEF IndexInv, DocsInv, Served, GapRight
 <2>3. \A c \in Caller : ~Pledges(c, d)
   BY <2>1, IdleQuiet DEF AtRest, Pledges
 <2> QED BY <2>2, <2>3 DEF Sound
<1> QED BY <1>1, IndexInvariant, PTL

(* No step takes a right document out of the live index, but for the clear of  *)
(* a full reindex: the swap of a zero-downtime reindex brings a complete one.  *)
THEOREM RightDocumentsStay == Spec => ServedStaysServed
<1> DEFINE A == \A d \in Doc :
                  /\ engine["live"].docs[d] = db[d] /\ db'[d] = db[d]
                  /\ engine'["live"].docs[d] # db[d]
                  => d \in gap' \/ broken' # {} \/ \E c \in Caller : Step(c) = "clear" /\ call'[c] # call[c]
<1>1. IndexInv /\ [Next]_vars => [A]_vars
 <2>1. SUFFICES ASSUME IndexInv, [Next]_vars PROVE [A]_vars
   OBVIOUS
 <2>2. CASE UNCHANGED vars
   BY <2>2
 <2>3. CASE broken' # {}
   BY <2>3
 <2>4. ASSUME NEW c \in Caller, Keeps(c) PROVE A
   BY <2>4 DEF Keeps, Live
 <2> HIDE DEF A
 <2> QED BY <2>1, <2>2, <2>3, <2>4, StepKeeps DEF IndexInv
<1>2. Spec => []IndexInv
  BY IndexInvariant
<1> QED BY <1>1, <1>2, PTL DEF Spec, ServedStaysServed

(* ------------------------- what the engine has been sent ------------------- *)

RowShape(r) == DOMAIN r = DOMAIN NoRow /\ r.settings \in [Key -> Value]
SettingsShape ==
  /\ RowShape(row) /\ \A c \in Caller : RowShape(call[c].inst)
  /\ \A u \in Uid : engine[u].settings \in [Key -> Value]

(* A row is written by the first step of a call only, and marked as synced     *)
(* right after a push.                                                         *)
Following(t) ==
  \A i \in DOMAIN t :
    /\ t[i] \in {"insert", "save"} => i = 1
    /\ t[i] = "mark" /\ i # 1 => t[i - 1] \in {"push", "configure"}
First(k) == IF k.todo = <<>> THEN "none" ELSE Head(k.todo)
ListRight(k) ==
  /\ Following(k.todo)
  /\ "insert" \in Among(k.todo) => ~k.inst.synced
  /\ "save" \in Among(k.todo) => k.op = "update" /\ k.todo = <<"save", "notify">> \o SyncSteps

(* A call that has the row as it is, and may still push it or mark it.         *)
Current(k) ==
  /\ Among(k.todo) \cap {"insert", "save"} = {}
  /\ Among(k.todo) \cap {"notify", "provision", "configure", "push", "mark"} # {}

(* A call that has saved a row with is_synced set, and will push it or be the  *)
(* cause of a drift.                                                           *)
Owed(k) ==
  /\ Current(k) /\ "push" \in Among(k.todo) /\ k.op = "update"
  /\ k.inst.synced /\ k.inst.pk = row.pk
  /\ First(k) = "notify" \/ ~dep.autosync

(* The temporary index of a caller that will swap it in has its settings.      *)
Configures(c) ==
  /\ Builds(c) /\ "tmpconfigure" \notin Ahead(c) /\ be \notin AliasOnly \cup Unswappable
  /\ call[c].inst.settings["ranking_rules"] = "missing"
HasSettings(e, u, s) == \A k \in Key : s[k] # "missing" => e[u].settings[k] = s[k]
TempRight(c) == Configures(c) => HasSettings(engine, "tmp", call[c].inst.settings)

Copies == \A c \in Caller : Current(call[c]) => call[c].inst.settings = row.settings
Marks == \A c \in Caller : First(call[c]) = "mark" => Holds(engine, row.settings)
Debts == row.synced => Holds(engine, row.settings) \/ \E c \in Caller : Owed(call[c])
Agreed == Exists => Copies /\ Marks /\ Debts
TempsRight == BuildsAlone /\ \A c \in Caller : TempRight(c)

SyncInv ==
  /\ SettingsShape
  /\ \A c \in Caller : ListRight(call[c])
  /\ drift = {} => Agreed /\ TempsRight

(* ------------------------ lemmas about lists of steps ---------------------- *)

(* What is left of a list after its first step: it saves nothing, and begins   *)
(* with a mark only behind a push.                                             *)
LEMMA FollowingTail ==
  ASSUME NEW t \in Seq(StepName), t # <<>>, Following(t)
  PROVE  /\ Following(Tail(t)) /\ "insert" \notin Among(Tail(t)) /\ "save" \notin Among(Tail(t))
         /\ Tail(t) # <<>> /\ Head(Tail(t)) = "mark" => Head(t) \in {"push", "configure"}
<1>1. /\ Len(t) \in Nat /\ Len(t) >= 1 /\ DOMAIN t = 1 .. Len(t) /\ Tail(t) \in Seq(StepName)
      /\ Len(Tail(t)) = Len(t) - 1 /\ DOMAIN Tail(t) = 1 .. Len(t) - 1
      /\ \A i \in 1 .. Len(t) - 1 : Tail(t)[i] = t[i + 1]
      /\ Head(t) = t[1]
  OBVIOUS
<1>2. ASSUME NEW i \in DOMAIN Tail(t)
      PROVE  /\ Tail(t)[i] \notin {"insert", "save"}
             /\ Tail(t)[i] = "mark" => t[i] \in {"push", "configure"}
 <2>1. i + 1 \in DOMAIN t /\ i + 1 # 1 /\ (i + 1) - 1 = i /\ Tail(t)[i] = t[i + 1]
   BY <1>1
 <2>2. /\ t[i + 1] \in {"insert", "save"} => i + 1 = 1
       /\ t[i + 1] = "mark" /\ i + 1 # 1 => t[(i + 1) - 1] \in {"push", "configure"}
   BY <2>1 DEF Following
 <2> QED BY <2>1, <2>2
<1>3. "insert" \notin Among(Tail(t)) /\ "save" \notin Among(Tail(t))
  BY <1>2 DEF Among
<1>4. Following(Tail(t))
 <2>1. ASSUME NEW i \in DOMAIN Tail(t), Tail(t)[i] = "mark", i # 1
       PROVE  Tail(t)[i - 1] \in {"push", "configure"}
  <3>1. i - 1 \in 1 .. Len(t) - 1 /\ (i - 1) + 1 = i
    BY <1>1, <2>1
  <3>2. Tail(t)[i - 1] = t[i]
    BY <1>1, <3>1
  <3> QED BY <1>2, <2>1, <3>2
 <2> QED BY <1>2, <2>1 DEF Following
<1>5. ASSUME Tail(t) # <<>>, Head(Tail(t)) = "mark" PROVE Head(t) \in {"push", "configure"}
 <2>1. 1 \in DOMAIN Tail(t) /\ Head(Tail(t)) = Tail(t)[1]
   BY <1>1, <1>5
 <2> QED BY <1>1, <1>2, <1>5, <2>1
<1> QED BY <1>3, <1>4, <1>5

(* A list that saves nothing may come behind another.                          *)
LEMMA FollowingBehind ==
  ASSUME NEW p \in Seq(StepName), p # <<>>, Following(p), NEW t \in Seq(StepName), Following(t),
         "insert" \notin Among(t), "save" \notin Among(t), t # <<>> => Head(t) # "mark"
  PROVE  /\ Following(p \o t) /\ p \o t \in Seq(StepName) /\ p \o t # <<>>
         /\ Head(p \o t) = Head(p)
         /\ Among(p \o t) = Among(p) \cup Among(t)
         /\ Len(p) >= 2 => Tail(p \o t) # <<>> /\ Head(Tail(p \o t)) = p[2]
<1> DEFINE q == p \o t
           n == Len(p)
<1>1. /\ n \in Nat /\ n >= 1 /\ Len(t) \in Nat
      /\ DOMAIN p = 1 .. n /\ DOMAIN t = 1 .. Len(t) /\ Head(p) = p[1]
      /\ t # <<>> => Head(t) = t[1]
  OBVIOUS
<1>2. /\ q \in Seq(StepName) /\ Len(q) = n + Len(t)
      /\ \A i \in 1 .. n + Len(t) : q[i] = IF i <= n THEN p[i] ELSE t[i - n]
  BY ConcatProperties
<1> HIDE DEF q, n
<1>3. DOMAIN q = 1 .. n + Len(t) /\ q # <<>> /\ Head(q) = p[1]
  BY <1>1, <1>2
<1>4. /\ \A i \in DOMAIN p : i \in DOMAIN q /\ q[i] = p[i]
      /\ \A j \in DOMAIN t : j + n \in DOMAIN q /\ q[j + n] = t[j]
      /\ \A i \in DOMAIN q : (i \in DOMAIN p /\ q[i] = p[i]) \/ (i - n \in DOMAIN t /\ q[i] = t[i - n] /\ i > n)
 <2>1. \A i \in DOMAIN p : i \in DOMAIN q /\ q[i] = p[i]
   BY <1>1, <1>2, <1>3
 <2>2. \A j \in DOMAIN t : j + n \in DOMAIN q /\ q[j + n] = t[j]
  <3>1. ASSUME NEW j \in DOMAIN t PROVE j + n \in 1 .. n + Len(t) /\ ~(j + n <= n) /\ (j + n) - n = j
    BY <1>1
  <3> QED BY <1>2, <1>3, <3>1
 <2>3. \A i \in DOMAIN q : (i \in DOMAIN p /\ q[i] = p[i]) \/ (i - n \in DOMAIN t /\ q[i] = t[i - n] /\ i > n)
   BY <1>1, <1>2, <1>3
 <2> QED BY <2>1, <2>2, <2>3
<1>5. Following(q)
 <2>1. ASSUME NEW i \in DOMAIN q, i \in DOMAIN p
       PROVE  /\ q[i] \in {"insert", "save"} => i = 1
              /\ q[i] = "mark" /\ i # 1 => q[i - 1] \in {"push", "configure"}
  <3>1. i # 1 => i - 1 \in DOMAIN p
    BY <1>1, <2>1
  <3> QED BY <1>4, <2>1, <3>1 DEF Following
 <2>2. ASSUME NEW i \in DOMAIN q, i - n \in DOMAIN t, q[i] = t[i - n], i > n
       PROVE  q[i] \notin {"insert", "save"} /\ (q[i] = "mark" => q[i - 1] \in {"push", "configure"})
  <3>1. q[i] \notin {"insert", "save"}
    BY <2>2 DEF Among
  <3>2. ASSUME q[i] = "mark" PROVE q[i - 1] \in {"push", "configure"}
   <4>1. i - n # 1
    <5>1. i - n = 1 => t # <<>> /\ t[1] = "mark"
     <6>1. ASSUME i - n = 1 PROVE Len(t) >= 1 /\ t[1] = "mark"
      <7>1. 1 \in DOMAIN t /\ t[1] = "mark"
        BY <2>2, <3>2, <6>1, Zenon
      <7> QED BY <1>1, <7>1
     <6>2. t = <<>> => Len(t) = 0
       OBVIOUS
     <6> QED BY <6>1, <6>2
    <5> QED BY <1>1, <5>1
   <4>2. i \in Nat /\ (i - n) - 1 \in DOMAIN t /\ ((i - n) - 1) + n = i - 1
     BY <1>1, <1>3, <2>2, <4>1
   <4>3. q[i - 1] = t[(i - n) - 1]
     BY <1>4, <4>2
   <4>4. t[(i - n) - 1] \in {"push", "configure"}
     BY <2>2, <3>2, <4>1 DEF Following
   <4> QED BY <4>3, <4>4
  <3> QED BY <3>1, <3>2
 <2> QED BY <1>4, <2>1, <2>2 DEF Following
<1>6. Among(q) = Among(p) \cup Among(t)
 <2>1. \A x \in Among(q) : x \in Among(p) \cup Among(t)
   BY <1>4 DEF Among
 <2>2. \A x \in Among(p) : x \in Among(q)
   BY <1>4 DEF Among
 <2>3. \A x \in Among(t) : x \in Among(q)
   BY <1>4 DEF Among
 <2> QED BY <2>1, <2>2, <2>3
<1>7. ASSUME n >= 2 PROVE Tail(q) # <<>> /\ Head(Tail(q)) = p[2]
 <2>1. Tail(q) \in Seq(StepName) /\ Len(Tail(q)) = Len(q) - 1 /\ \A i \in 1 .. Len(q) - 1 : Tail(q)[i] = q[i + 1]
   BY <1>2, <1>3
 <2>2. Len(q) - 1 >= 1 /\ 1 \in 1 .. Len(q) - 1 /\ 2 \in DOMAIN p
   BY <1>1, <1>2, <1>7
 <2>3. Tail(q) # <<>> /\ Head(Tail(q)) = Tail(q)[1] /\ Tail(q)[1] = q[2]
  <3>1. Tail(q)[1] = q[1 + 1] /\ Len(Tail(q)) >= 1
    BY <2>1, <2>2
  <3>2. Tail(q) = <<>> => Len(Tail(q)) = 0
   <4>1. Len(<<>>) = 0
     OBVIOUS
   <4> QED BY <4>1, Zenon
  <3>3. Tail(q) # <<>> /\ Head(Tail(q)) = Tail(q)[1]
    BY <2>1, <3>1, <3>2
  <3> QED BY <3>1, <3>3
 <2> QED BY <1>4, <2>2, <2>3
<1> QED BY <1>1, <1>2, <1>3, <1>5, <1>6, <1>7 DEF q, n

(* The lists the others are made of.                                           *)
LEMMA ShortLists ==
  /\ \A t \in {<<>>, AllSteps, ZeroSteps, <<"erase", "drop">>, <<"send">>, <<"tmpclean">>} :
       /\ Following(t) /\ t \in Seq(StepName) /\ (t # <<>> => Head(t) # "mark")
       /\ Among(t) \cap {"insert", "save", "notify", "provision", "configure", "push", "mark"} = {}
  /\ /\ Following(InsertSteps) /\ InsertSteps \in Seq(StepName) /\ InsertSteps # <<>>
     /\ Head(InsertSteps) = "insert" /\ "insert" \in Among(InsertSteps) /\ "save" \notin Among(InsertSteps)
  /\ /\ Following(SyncSteps) /\ SyncSteps \in Seq(StepName) /\ SyncSteps # <<>>
     /\ Head(SyncSteps) = "push" /\ Among(SyncSteps) = {"push", "mark"}
  /\ LET t == <<"save", "notify">>
     IN /\ Following(t) /\ t \in Seq(StepName) /\ t # <<>> /\ Len(t) = 2
        /\ Head(t) = "save" /\ Among(t) = {"save", "notify"} /\ t[2] = "notify"
<1>1. /\ <<"send">> \in Seq(StepName) /\ <<"erase", "drop">> \in Seq(StepName) /\ <<"tmpclean">> \in Seq(StepName)
      /\ <<"save", "notify">> \in Seq(StepName) /\ <<>> \in Seq(StepName)
      /\ SyncSteps \in Seq(StepName) /\ InsertSteps \in Seq(StepName)
      /\ AllSteps \in Seq(StepName) /\ ZeroSteps \in Seq(StepName)
  BY DEF StepName, Plain, Documentary, SyncSteps, InsertSteps, AllSteps, ZeroSteps
<1>2. ASSUME NEW t \in {<<>>, AllSteps, ZeroSteps, <<"erase", "drop">>, <<"send">>, <<"tmpclean">>}
      PROVE  /\ Following(t) /\ t \in Seq(StepName) /\ (t # <<>> => Head(t) # "mark")
             /\ Among(t) \cap {"insert", "save", "notify", "provision", "configure", "push", "mark"} = {}
 <2>1. CASE t = <<>>
   BY <1>1, <2>1 DEF Following, Among
 <2>4. CASE t = <<"send">>
   BY <1>1, <2>4 DEF Following, Among
 <2>5. CASE t = <<"tmpclean">>
   BY <1>1, <2>5 DEF Following, Among
 <2>6. CASE t = <<"erase", "drop">>
   BY <1>1, <2>6 DEF Following, Among
 <2>2. CASE t = AllSteps
   BY <1>1, <2>2 DEF Following, Among, AllSteps
 <2>3. CASE t = ZeroSteps
   BY <1>1, <2>3 DEF Following, Among, ZeroSteps
 <2> QED BY <2>1, <2>2, <2>3, <2>4, <2>5, <2>6
<1>3. /\ Following(InsertSteps) /\ InsertSteps # <<>>
      /\ Head(InsertSteps) = "insert" /\ "insert" \in Among(InsertSteps) /\ "save" \notin Among(InsertSteps)
  BY DEF InsertSteps, Following, Among
<1>4. /\ Following(SyncSteps) /\ SyncSteps # <<>>
      /\ Head(SyncSteps) = "push" /\ Among(SyncSteps) = {"push", "mark"}
  BY DEF SyncSteps, Following, Among
<1> DEFINE u == <<"save", "notify">>
<1>5. Following(u) /\ u # <<>> /\ Len(u) = 2 /\ Head(u) = "save" /\ Among(u) = {"save", "notify"} /\ u[2] = "notify"
  BY DEF Following, Among
<1> QED BY <1>1, <1>2, <1>3, <1>4, <1>5

(* The lists a call begins with, and those it goes on with after an error.     *)
InsertLists == {InsertSteps, InsertSteps \o AllSteps, InsertSteps \o ZeroSteps}
PlainReindexes == {<<>>, AllSteps, ZeroSteps, <<"erase", "drop">>, <<"send">>, <<"tmpclean">>, <<"tmpclean">> \o AllSteps}

(* A call that creates the row begins with its insertion.                     *)
LEMMA InsertListsRight ==
  ASSUME NEW t \in InsertLists
  PROVE  /\ Following(t) /\ t # <<>> /\ Head(t) = "insert" /\ "insert" \in Among(t) /\ "save" \notin Among(t)
<1>1. CASE t = InsertSteps
  BY <1>1, ShortLists
<1>2. ASSUME NEW w \in {AllSteps, ZeroSteps}, t = InsertSteps \o w
      PROVE  /\ Following(t) /\ t # <<>> /\ Head(t) = "insert" /\ "insert" \in Among(t) /\ "save" \notin Among(t)
 <2>1. /\ Following(w) /\ w \in Seq(StepName) /\ (w # <<>> => Head(w) # "mark")
       /\ "insert" \notin Among(w) /\ "save" \notin Among(w)
   BY ShortLists
 <2>2. /\ Following(InsertSteps) /\ InsertSteps \in Seq(StepName) /\ InsertSteps # <<>>
       /\ Head(InsertSteps) = "insert" /\ "insert" \in Among(InsertSteps) /\ "save" \notin Among(InsertSteps)
   BY ShortLists
 <2> QED BY <1>2, <2>1, <2>2, FollowingBehind
<1> QED BY <1>1, <1>2 DEF InsertLists

(* The other lists have nothing to do with the row.                           *)
LEMMA PlainListsRight ==
  ASSUME NEW t \in PlainReindexes
  PROVE  /\ Following(t) /\ (t # <<>> => Head(t) # "mark")
         /\ Among(t) \cap {"insert", "save", "notify", "provision", "configure", "push", "mark"} = {}
<1>1. CASE t # <<"tmpclean">> \o AllSteps
  BY <1>1, ShortLists DEF PlainReindexes
<1>2. CASE t = <<"tmpclean">> \o AllSteps
 <2> DEFINE p == <<"tmpclean">>
            Out == {"insert", "save", "notify", "provision", "configure", "push", "mark"}
 <2>1. /\ Following(p) /\ p \in Seq(StepName) /\ p # <<>> /\ Head(p) # "mark" /\ Among(p) \cap Out = {}
       /\ Following(AllSteps) /\ AllSteps \in Seq(StepName) /\ (AllSteps # <<>> => Head(AllSteps) # "mark")
       /\ Among(AllSteps) \cap Out = {}
  <3>1. p # <<>>
    OBVIOUS
  <3> HIDE DEF Out
  <3> QED BY <3>1, ShortLists DEF Out
 <2>2. "insert" \notin Among(AllSteps) /\ "save" \notin Among(AllSteps)
   BY <2>1
 <2> HIDE DEF p
 <2>3. Following(p \o AllSteps) /\ Head(p \o AllSteps) = Head(p) /\ Among(p \o AllSteps) = Among(p) \cup Among(AllSteps)
   BY <2>1, <2>2, FollowingBehind
 <2> QED BY <1>2, <2>1, <2>3 DEF p
<1> QED BY <1>1, <1>2

(* An update saves the row, tells the handler, and pushes.                    *)
LEMMA PushListsRight ==
  LET t == <<"save", "notify">> \o SyncSteps
  IN /\ Following(t) /\ t # <<>> /\ Head(t) = "save" /\ Among(t) = {"save", "notify", "push", "mark"}
     /\ Head(Tail(t)) = "notify" /\ Tail(t) # <<>>
<1> DEFINE p == <<"save", "notify">>
<1>1. /\ Following(p) /\ p \in Seq(StepName) /\ p # <<>> /\ Len(p) = 2
      /\ Head(p) = "save" /\ Among(p) = {"save", "notify"} /\ p[2] = "notify"
  BY ShortLists
<1>2. /\ Following(SyncSteps) /\ SyncSteps \in Seq(StepName) /\ Head(SyncSteps) = "push" /\ Among(SyncSteps) = {"push", "mark"}
      /\ "insert" \notin Among(SyncSteps) /\ "save" \notin Among(SyncSteps)
  BY ShortLists
<1> DEFINE t == p \o SyncSteps
<1>3. SUFFICES /\ Following(t) /\ t # <<>> /\ Head(t) = "save" /\ Among(t) = {"save", "notify", "push", "mark"}
               /\ Head(Tail(t)) = "notify" /\ Tail(t) # <<>>
  OBVIOUS
<1> HIDE DEF p
<1>4. /\ Following(t) /\ t # <<>> /\ Head(t) = Head(p) /\ Among(t) = Among(p) \cup Among(SyncSteps)
      /\ (Len(p) >= 2 => Tail(t) # <<>> /\ Head(Tail(t)) = p[2])
 <2>1. SyncSteps # <<>> => Head(SyncSteps) # "mark"
   BY <1>2
 <2> HIDE DEF t
 <2> QED BY <1>1, <1>2, <2>1, FollowingBehind DEF t
<1> HIDE DEF t
<1>5. 2 >= 2
  OBVIOUS
<1> QED BY <1>1, <1>2, <1>4, <1>5

(* ------------------------- lemmas about the settings ----------------------- *)

(* Settings without the legacy name are sent as they are.                      *)
LEMMA NormalizedPlain ==
  ASSUME NEW s \in [Key -> Value], s["ranking_rules"] = "missing"
  PROVE  Normalized(s) = s
<1>1. \A k \in Key : Normalized(s)[k] = s[k]
  BY DEF Normalized, Key
<1>2. Normalized(s) \in [Key -> Value] /\ s \in [Key -> Value]
  BY DEF Normalized, Key, Value
<1> QED BY <1>1, <1>2

(* Normalised settings do without the legacy name.                            *)
LEMMA NormalizedShape ==
  ASSUME NEW s \in [Key -> Value]
  PROVE  /\ Normalized(s) \in [Key -> Value] /\ Normalized(s)["ranking_rules"] = "missing"
         /\ \A k \in {"searchableAttributes", "stopWords"} : Normalized(s)[k] = s[k]
BY DEF Normalized, Key, Value

(* What the engine holds depends on the settings of the live index alone.      *)
LEMMA SameHolds ==
  ASSUME NEW e, NEW f, NEW s, f["live"].settings = e["live"].settings
  PROVE  Holds(f, s) <=> Holds(e, s)
<1>1. get_settings(be, f, "live") = get_settings(be, e, "live")
  BY DEF get_settings, opensearch_reports, typesense_reports, solr_reports
<1> QED BY <1>1 DEF Holds

(* A push that succeeds, and whose empty values the backend sends, is held.    *)
LEMMA PushHolds ==
  ASSUME NEW e, EngineShape(e), e["live"].settings \in [Key -> Value], NEW s \in [Key -> Value],
         be \in Backend, "live" \in Uid, update_settings(be, e, "live", Normalized(s)).ok,
         \A k \in Carried(be) \ Resettable(be) : s[k] # "empty"
  PROVE  Holds(update_settings(be, e, "live", Normalized(s)).engine, s)
<1> DEFINE n == Normalized(s)
           f == update_settings(be, e, "live", n).engine
<1>1. n \in [Key -> Value] /\ n["ranking_rules"] = "missing" /\ \A k \in {"searchableAttributes", "stopWords"} : n[k] = s[k]
  BY NormalizedShape
<1>2. /\ DOMAIN e = Uid /\ DOMAIN e["live"] = DOMAIN NoIndex /\ {"there", "settings"} \subseteq DOMAIN NoIndex
  BY DEF EngineShape, NoIndex
<1>3. SUFFICES Holds(f, s)
  OBVIOUS
<1> HIDE DEF n
<1>4. SUFFICES ASSUME NEW k \in Carried(be), n[k] # "missing" PROVE get_settings(be, f, "live")[k] = n[k]
  BY DEF Holds, n
<1>5. \A keys : [e EXCEPT !["live"].settings = Merge(@, n, keys)]["live"].settings = Merge(e["live"].settings, n, keys)
  BY <1>2
<1>6. CASE be \in {"dummy", "postgres"}
 <2>1. f["live"].settings = n
   BY <1>2, <1>6, <1>4 DEF update_settings, dummy_settings, postgres_settings, Done, If
 <2> QED BY <1>6, <2>1 DEF get_settings
<1>7. CASE be = "meilisearch"
 <2>1. f = [Touch(e, "live") EXCEPT !["live"].settings = Merge(@, n, Given(n, Key))]
   BY <1>1, <1>7 DEF update_settings, meilisearch_settings, If
 <2>2. DOMAIN Touch(e, "live") = Uid /\ DOMAIN Touch(e, "live")["live"] = DOMAIN NoIndex
   BY <1>2 DEF Touch
 <2>3. f["live"].settings = Merge(Touch(e, "live")["live"].settings, n, Given(n, Key))
   BY <1>2, <2>1, <2>2
 <2>4. k \in Given(n, Key) /\ k \in Key
   BY <1>4, <1>7 DEF Carried, Given
 <2> HIDE DEF f
 <2>5. f["live"].settings[k] = n[k]
   BY <2>3, <2>4 DEF Merge
 <2> QED BY <1>7, <2>5 DEF get_settings
<1>8. CASE be \in {"opensearch", "typesense", "solr"}
 <2> DEFINE keys == Filled(n, Carried(be))
 <2>1. Carried(be) \subseteq {"searchableAttributes", "stopWords"} /\ Resettable(be) = {}
   BY <1>8 DEF Carried, Resettable, Strict, opensearch_carried
 <2>2. n[k] = "custom" /\ k \in Key /\ k \in keys
   BY <1>1, <1>4, <2>1 DEF Value, Key, Filled
 <2>3. update_settings(be, e, "live", n) =
         If(keys = {} \/ e["live"].there, e, [e EXCEPT !["live"].settings = Merge(@, n, keys)])
   BY <1>8 DEF update_settings, opensearch_settings, typesense_settings, solr_settings, Carried
 <2> DEFINE g == [e EXCEPT !["live"].settings = Merge(@, n, keys)]
 <2>4. f = g
  <3>1. update_settings(be, e, "live", n) = If(keys = {} \/ e["live"].there, e, g)
    BY <2>3
  <3>2. update_settings(be, e, "live", n).ok
    BY DEF n
  <3> HIDE DEF g, keys
  <3>3. f = If(keys = {} \/ e["live"].there, e, g).engine
    BY <3>1
  <3>4. If(keys = {} \/ e["live"].there, e, g).ok
    BY <3>1, <3>2
  <3> QED BY <3>3, <3>4 DEF If
 <2>5. f["live"].settings[k] = "custom"
  <3>1. g["live"].settings = Merge(e["live"].settings, n, keys)
    BY <1>5
  <3> HIDE DEF g, f, keys
  <3>2. Merge(e["live"].settings, n, keys)[k] = n[k]
    BY <2>2 DEF Merge
  <3> QED BY <2>2, <2>4, <3>1, <3>2
 <2> HIDE DEF f
 <2>6. be = "opensearch" => get_settings(be, f, "live")[k] = "custom"
   BY <2>1, <2>2, <2>5, <1>4 DEF get_settings, opensearch_reports, Listed, Key
 <2>7. be \in {"typesense", "solr"} => get_settings(be, f, "live")[k] = "custom"
   BY <2>1, <2>2, <2>5, <1>4 DEF get_settings, typesense_reports, solr_reports, Listed, Key, Carried
 <2> QED BY <1>8, <2>2, <2>6, <2>7
<1>9. CASE be = "vespa"
  BY <1>4, <1>9 DEF Carried
<1> QED BY <1>6, <1>7, <1>8, <1>9 DEF Backend

(* The index u is the only one whose settings f may have changed.              *)
Typed(e) == EngineShape(e) /\ \A u \in Uid : e[u].settings \in [Key -> Value]
SetAt(u, e, f) == Typed(f) /\ \A v \in Uid : v # u => f[v].settings = e[v].settings
SetNowhere(e, f) == Typed(f) /\ \A v \in Uid : f[v].settings = e[v].settings

(* What the steps that backends are made of do to the settings.               *)
LEMMA NewSettings ==
  ASSUME NEW e, Typed(e), NEW u \in Uid
  PROVE  /\ SetNowhere(e, e) /\ SetNowhere(e, Touch(e, u))
         /\ SetAt(u, e, Replace(e, u, NoIndex)) /\ SetAt(u, e, Replace(e, u, FreshIndex))
         /\ \A x \in [Key -> Value] : SetAt(u, e, [e EXCEPT ![u].settings = x])
<1>1. EngineShape(e)
  BY DEF Typed
<1>2. /\ NoIndex.settings \in [Key -> Value] /\ FreshIndex.settings \in [Key -> Value]
      /\ DOMAIN FreshIndex = DOMAIN NoIndex /\ "settings" \in DOMAIN NoIndex /\ "there" # "settings"
  BY DEF NoIndex, FreshIndex, NoSettings, Value
<1>3. /\ EngineShape(Touch(e, u)) /\ EngineShape(Replace(e, u, NoIndex)) /\ EngineShape(Replace(e, u, FreshIndex))
  BY <1>1, TouchEffect, ReplaceEffect, EmptyIndexes DEF SameDocs, OnlyAt
<1>4. SetNowhere(e, e) /\ SetNowhere(e, Touch(e, u))
  BY <1>1, <1>3 DEF SetNowhere, Typed, Touch, EngineShape
<1>5. SetAt(u, e, Replace(e, u, NoIndex)) /\ SetAt(u, e, Replace(e, u, FreshIndex))
  BY <1>1, <1>2, <1>3 DEF SetAt, Typed, Replace, EngineShape
<1>6. ASSUME NEW x \in [Key -> Value] PROVE SetAt(u, e, [e EXCEPT ![u].settings = x])
 <2> DEFINE f == [e EXCEPT ![u].settings = x]
 <2>1. EngineShape(f)
   BY <1>1, SettingsEffect DEF SameDocs
 <2>2. DOMAIN e = Uid /\ DOMAIN e[u] = DOMAIN NoIndex
   BY <1>1 DEF EngineShape
 <2>3. f[u].settings = x /\ \A v \in Uid : v # u => f[v] = e[v]
   BY <1>2, <2>2
 <2> HIDE DEF f
 <2>4. SetAt(u, e, f)
   BY <2>1, <2>3 DEF SetAt, Typed
 <2> QED BY <2>4 DEF f
<1> QED BY <1>4, <1>5, <1>6

(* What each call does to the settings, on any backend.                        *)
LEMMA CreateSettings ==
  ASSUME NEW b \in Backend, NEW e, Typed(e), NEW u \in Uid
  PROVE  SetAt(u, e, create_index(b, e, u).engine)
<1>1. create_index(b, e, u).engine \in {e, Replace(e, u, FreshIndex), Touch(e, u)}
  BY DEF create_index, Backend, dummy_create, meilisearch_create, opensearch_create, typesense_create,
         solr_create, postgres_create, vespa_create, Done, If
<1>2. SetNowhere(e, e) /\ SetNowhere(e, Touch(e, u)) /\ SetAt(u, e, Replace(e, u, FreshIndex))
  BY NewSettings
<1>3. SetAt(u, e, e) /\ SetAt(u, e, Touch(e, u))
  BY <1>2 DEF SetAt, SetNowhere
<1> QED BY <1>1, <1>2, <1>3

(* The deletion of an index takes its settings away, and no others.           *)
LEMMA DeleteSettings ==
  ASSUME NEW b \in Backend, NEW e, Typed(e), NEW u \in Uid
  PROVE  SetAt(u, e, delete_index(b, e, u).engine)
<1>1. delete_index(b, e, u).engine \in {e, Replace(e, u, NoIndex)}
  BY DEF delete_index, postgres_delete, vespa_delete, Done, If
<1>2. SetNowhere(e, e) /\ SetAt(u, e, Replace(e, u, NoIndex))
  BY NewSettings
<1>3. SetAt(u, e, e)
  BY <1>2 DEF SetAt, SetNowhere
<1> QED BY <1>1, <1>2, <1>3

(* A push changes the settings of one index.                                  *)
LEMMA UpdateSettingsSettings ==
  ASSUME NEW b \in Backend, NEW e, Typed(e), NEW u \in Uid, NEW s \in [Key -> Value]
  PROVE  SetAt(u, e, update_settings(b, e, u, s).engine)
<1>1. SetAt(u, e, e) /\ SetNowhere(e, Touch(e, u)) /\ \A x \in [Key -> Value] : SetAt(u, e, [e EXCEPT ![u].settings = x])
  BY NewSettings DEF SetAt, SetNowhere
<1>2. \A old \in [Key -> Value] : \A keys : Merge(old, s, keys) \in [Key -> Value]
  BY DEF Merge
<1>3. \A keys : SetAt(u, e, [e EXCEPT ![u].settings = Merge(@, s, keys)])
 <2>1. ASSUME NEW keys PROVE SetAt(u, e, [e EXCEPT ![u].settings = Merge(@, s, keys)])
  <3> DEFINE x == Merge(e[u].settings, s, keys)
  <3>1. x \in [Key -> Value]
    BY <1>2 DEF Typed
  <3>2. [e EXCEPT ![u].settings = Merge(@, s, keys)] = [e EXCEPT ![u].settings = x]
    OBVIOUS
  <3> HIDE DEF x
  <3> QED BY <1>1, <3>1, <3>2
 <2> QED BY <2>1
<1>4. SetAt(u, e, [Touch(e, u) EXCEPT ![u].settings = Merge(@, s, Given(s, Key))])
 <2> DEFINE g == Touch(e, u)
            x == Merge(g[u].settings, s, Given(s, Key))
 <2>1. Typed(g) /\ \A v \in Uid : g[v].settings = e[v].settings
   BY <1>1 DEF SetNowhere
 <2>2. x \in [Key -> Value]
   BY <1>2, <2>1 DEF Typed
 <2>3. [Touch(e, u) EXCEPT ![u].settings = Merge(@, s, Given(s, Key))] = [g EXCEPT ![u].settings = x]
   OBVIOUS
 <2> HIDE DEF g, x
 <2>4. SetAt(u, g, [g EXCEPT ![u].settings = x])
   BY <2>1, <2>2, NewSettings
 <2> QED BY <2>1, <2>3, <2>4 DEF SetAt
<1>5. CASE b = "meilisearch"
  BY <1>1, <1>4, <1>5 DEF update_settings, meilisearch_settings, If
<1>6. CASE b \in {"dummy", "postgres", "vespa"}
  BY <1>1, <1>6 DEF update_settings, dummy_settings, postgres_settings, vespa_settings, Done, If
<1>7. CASE b \in {"opensearch", "typesense", "solr"}
  BY <1>1, <1>3, <1>7 DEF update_settings, opensearch_settings, typesense_settings, solr_settings, If
<1> QED BY <1>5, <1>6, <1>7 DEF Backend

(* Documents come and go without a change of the settings.                    *)
LEMMA DocumentsSettings ==
  ASSUME NEW b \in Backend, NEW e, Typed(e), NEW u \in Uid, NEW d \in Doc, NEW n \in Nat
  PROVE  /\ SetNowhere(e, add_document(b, e, u, d, n).engine)
         /\ SetNowhere(e, delete_document(b, e, u, d).engine)
<1>1. EngineShape(e) /\ SetNowhere(e, e)
  BY NewSettings DEF Typed
<1>2. \A m \in Nat : SetNowhere(e, Store(e, u, d, m))
 <2>1. ASSUME NEW m \in Nat PROVE SetNowhere(e, Store(e, u, d, m))
  <3>1. EngineShape(Store(e, u, d, m))
    BY <1>1, StoreEffect DEF OnlyAt
  <3>2. \A v \in Uid : Store(e, u, d, m)[v].settings = e[v].settings
    BY <1>1 DEF Store, EngineShape, NoIndex
  <3> QED BY <3>1, <3>2 DEF SetNowhere, Typed
 <2> QED BY <2>1
<1>3. SetNowhere(e, Touch(Store(e, u, d, n), u))
  BY <1>2, NewSettings DEF SetNowhere
<1>5. add_document(b, e, u, d, n).engine \in {e, Store(e, u, d, n), Touch(Store(e, u, d, n), u)}
  BY DEF add_document, Backend, meilisearch_add, opensearch_add, postgres_add, vespa_add, typesense_add,
         solr_add, Done, If
<1>6. delete_document(b, e, u, d).engine \in {e, Store(e, u, d, 0)}
  BY DEF delete_document, If
<1>9. SetNowhere(e, add_document(b, e, u, d, n).engine)
  BY <1>1, <1>2, <1>3, <1>5
<1>10. SetNowhere(e, delete_document(b, e, u, d).engine)
  BY <1>1, <1>2, <1>6
<1> QED BY <1>9, <1>10

(* So they do when an index is cleared.                                       *)
LEMMA ClearSettings ==
  ASSUME NEW b \in Backend, NEW e, Typed(e), NEW u \in Uid
  PROVE  SetNowhere(e, clear_documents(b, e, u).engine)
<1>1. EngineShape(e) /\ SetNowhere(e, e)
  BY NewSettings DEF Typed
<1>2. SetNowhere(e, [e EXCEPT ![u].docs = NoDocs])
 <2>1. EngineShape([e EXCEPT ![u].docs = NoDocs])
   BY <1>1, EmptyIndexes DEF EngineShape, NoIndex
 <2>2. \A v \in Uid : [e EXCEPT ![u].docs = NoDocs][v].settings = e[v].settings
   BY <1>1 DEF EngineShape, NoIndex
 <2> QED BY <2>1, <2>2 DEF SetNowhere, Typed
<1>3. clear_documents(b, e, u).engine \in {e, [e EXCEPT ![u].docs = NoDocs]}
  BY DEF clear_documents, If
<1> QED BY <1>1, <1>2, <1>3

(* What an engine call that succeeds does to the settings.                     *)
CallSets(c, f) ==
  LET s == Step(c) IN
  /\ Typed(f)
  /\ s \notin {"provision", "erase", "push", "configure", "swap"} => f["live"].settings = engine["live"].settings
  /\ s \notin {"tmpcreate", "tmpconfigure", "tmpdelete", "tmpclean", "swap"} => f["tmp"].settings = engine["tmp"].settings
  /\ s = "swap" => /\ be \notin Unswappable
                   /\ IF Swapped THEN be \notin AliasOnly /\ f["live"].settings = engine["tmp"].settings ELSE f = engine

(* The same of the engine call a caller makes.                                *)
LEMMA OutcomeSettings ==
  ASSUME NEW c \in Caller, Shapes, SettingsShape, Step(c) \in EngineSteps, NEW d \in Batches(c), Outcome(c, d).ok
  PROVE  CallSets(c, Outcome(c, d).engine)
<1> DEFINE f == Outcome(c, d).engine
           s == Step(c)
           i == call[c].inst
<1> SUFFICES CallSets(c, f)
  OBVIOUS
<1>1. /\ Typed(engine) /\ be \in Backend /\ CallShape(call[c]) /\ i.settings \in [Key -> Value]
      /\ "live" \in Uid /\ "tmp" \in Uid /\ "default" \in Uid
      /\ "live" # "tmp" /\ "default" # "live" /\ "default" # "tmp"
  BY DeploymentsAssumption DEF Shapes, SettingsShape, RowShape, Typed, Deployment, be
<1>2. CASE s \in {"provision", "tmpcreate"}
 <2>1. s = "provision" => f = create_index(be, engine, "live").engine
   BY DEF Outcome
 <2>2. s = "tmpcreate" => f = create_index(be, engine, "tmp").engine
   BY DEF Outcome
 <2> HIDE DEF f
 <2> QED BY <1>1, <1>2, <2>1, <2>2, CreateSettings DEF CallSets, SetAt
<1>3. CASE s \in {"configure", "push", "tmpconfigure"}
 <2>1. Normalized(i.settings) \in [Key -> Value]
   BY <1>1, NormalizedShape
 <2>2. \A u \in Uid : \A x \in [Key -> Value] : SetAt(u, engine, update_settings(be, engine, u, x).engine)
   BY <1>1, UpdateSettingsSettings
 <2>3. \A u \in Uid : SetAt(u, engine, engine)
   BY <1>1 DEF SetAt
 <2>4. \A u \in Uid : SetAt(u, engine, Configured(u, i.settings).engine)
   BY <1>1, <2>2, <2>3 DEF Configured, Done
 <2>5. /\ s = "configure" => f = Configured("live", i.settings).engine
       /\ s = "tmpconfigure" => f = Configured("tmp", i.settings).engine
       /\ s = "push" => f = update_settings(be, engine, "live", Normalized(i.settings)).engine
   BY DEF Outcome
 <2> HIDE DEF f
 <2>6. s \in {"configure", "push"} => SetAt("live", engine, f)
   BY <1>1, <2>1, <2>2, <2>4, <2>5
 <2>7. s = "tmpconfigure" => SetAt("tmp", engine, f)
   BY <1>1, <2>4, <2>5
 <2> QED BY <1>1, <1>3, <2>6, <2>7 DEF CallSets, SetAt
<1>4. CASE s \in {"erase", "tmpdelete", "tmpclean"}
 <2>1. s = "erase" => f = delete_index(be, engine, "live").engine
   BY DEF Outcome
 <2>2. s \in {"tmpdelete", "tmpclean"} => f = delete_index(be, engine, "tmp").engine
   BY DEF Outcome
 <2> HIDE DEF f
 <2> QED BY <1>1, <1>4, <2>1, <2>2, DeleteSettings DEF CallSets, SetAt
<1>5. CASE s \in {"clear", "fill", "tmpfill", "send"}
 <2>1. SetNowhere(engine, f)
  <3>1. SetNowhere(engine, engine)
    BY <1>1, NewSettings
  <3>2. CASE s = "clear"
   <4>1. Outcome(c, d) = clear_documents(be, engine, "live")
     BY <3>2 DEF Outcome
   <4> QED BY <1>1, <4>1, ClearSettings
  <3>3. CASE s # "clear" /\ Pending(c) = {}
   <4>1. Outcome(c, d) = Done(engine)
     BY <1>5, <3>3 DEF Outcome, Put
   <4> QED BY <3>1, <4>1 DEF Done
  <3>4. CASE s # "clear" /\ Pending(c) # {}
   <4>1. d \in Pending(c)
     BY <1>5, <3>4 DEF Batches
   <4>2. d \in Doc /\ call[c].docs[d] \in Nat /\ FillTarget(c) \in Uid
     BY <1>1, <4>1 DEF Pending, CallShape, FillTarget
   <4>3. Outcome(c, d) \in {delete_document(be, engine, FillTarget(c), d),
                            add_document(be, engine, FillTarget(c), d, call[c].docs[d])}
     BY <1>5, <3>4 DEF Outcome, Put
   <4>4. /\ SetNowhere(engine, delete_document(be, engine, FillTarget(c), d).engine)
         /\ SetNowhere(engine, add_document(be, engine, FillTarget(c), d, call[c].docs[d]).engine)
     BY <1>1, <4>2, DocumentsSettings
   <4> QED BY <4>3, <4>4
  <3> QED BY <1>5, <3>2, <3>3, <3>4
 <2> HIDE DEF f
 <2> QED BY <1>1, <1>5, <2>1 DEF CallSets, SetNowhere
<1>6. CASE s = "swap"
 <2>1. Outcome(c, d) = swap_indexes(be, engine, "live", "tmp")
   BY <1>6 DEF Outcome
 <2>2. /\ be \notin Unswappable /\ (Swapped => be \notin AliasOnly)
       /\ f = IF Swapped THEN Exchange(engine, "live", "tmp") ELSE engine
   BY <1>1, <2>1, SwapExchanges DEF Swapped
 <2> HIDE DEF f
 <2>3. Swapped => Typed(f) /\ f["live"].settings = engine["tmp"].settings
   BY <1>1, <2>2 DEF Typed, EngineShape, Exchange
 <2> QED BY <1>1, <1>6, <2>2, <2>3 DEF CallSets
<1> QED BY <1>2, <1>3, <1>4, <1>5, <1>6 DEF EngineSteps

(* -------------------- what a call does to the agreement -------------------- *)

(* A call whose first step is not the save of its row has saved it.            *)
LEMMA PastSave ==
  ASSUME NEW k, CallShape(k), ListRight(k), k.todo # <<>>
  PROVE  /\ Head(k.todo) \notin {"insert", "save"} => "insert" \notin Among(k.todo) /\ "save" \notin Among(k.todo)
         /\ "insert" \notin Among(Tail(k.todo)) /\ "save" \notin Among(Tail(k.todo))
         /\ Following(Tail(k.todo)) /\ Tail(k.todo) \in Seq(StepName)
         /\ Tail(k.todo) # <<>> /\ Head(Tail(k.todo)) = "mark" => Head(k.todo) \in {"push", "configure"}
         /\ Among(k.todo) = {Head(k.todo)} \cup Among(Tail(k.todo))
<1>1. k.todo \in Seq(StepName)
  BY DEF CallShape, Shaped, Ordered, StepName
<1>2. Following(k.todo)
  BY DEF ListRight
<1>3. Among(k.todo) = {Head(k.todo)} \cup Among(Tail(k.todo))
  BY FirstStep DEF CallShape
<1>4. Tail(k.todo) \in Seq(StepName)
  BY <1>1
<1> QED BY <1>1, <1>2, <1>3, <1>4, FollowingTail

(* Settings without a value are held by every engine, and a temporary index    *)
(* that has the settings of a call holds them once it is live.                 *)
LEMMA NothingHolds ==
  ASSUME be \in Backend, NEW e
  PROVE  Holds(e, NoSettings)
<1>1. NoSettings \in [Key -> Value] /\ NoSettings["ranking_rules"] = "missing"
  BY DEF NoSettings, Key, Value
<1>2. Normalized(NoSettings) = NoSettings
  BY <1>1, NormalizedPlain
<1>3. Carried(be) \subseteq Key => \A k \in Carried(be) : NoSettings[k] = "missing"
  BY DEF NoSettings
<1>4. Carried(be) \subseteq Key
  BY DEF Backend, Carried, Key, opensearch_carried
<1> QED BY <1>2, <1>3, <1>4 DEF Holds

(* A temporary index with the settings of a call holds them when it is live.  *)
LEMMA SwapHolds ==
  ASSUME NEW e, NEW f, NEW s \in [Key -> Value], s["ranking_rules"] = "missing", HasSettings(e, "tmp", s),
         f["live"].settings = e["tmp"].settings, be \in Backend \ (AliasOnly \cup Unswappable)
  PROVE  Holds(f, s)
<1>1. Normalized(s) = s
  BY NormalizedPlain
<1>2. be \in {"dummy", "meilisearch"} /\ Carried(be) \subseteq Key
  BY DEF Backend, AliasOnly, Unswappable, Carried
<1>3. get_settings(be, f, "live") = f["live"].settings
  BY <1>2 DEF get_settings
<1> QED BY <1>1, <1>2, <1>3 DEF Holds, HasSettings

(* No engine call takes away what the engine holds of the row, unless it is a  *)
(* cause of a drift; a push and a configuration bring it there.                *)
LEMMA CallHolds ==
  ASSUME NEW c \in Caller, Shapes, SettingsShape, ListRight(call[c]), Step(c) \in EngineSteps, NEW d \in Batches(c),
         Outcome(c, d).ok, engine' = Outcome(c, d).engine, DriftAfter(c) = {}, Copies, TempRight(c)
  PROVE  /\ Holds(engine, row.settings) => Holds(engine', row.settings)
         /\ Step(c) \in {"push", "configure"} => Holds(engine', row.settings)
<1> DEFINE s == Step(c)
           i == call[c].inst.settings
<1>1. /\ CallSets(c, engine') /\ be \in Backend /\ "live" \in Uid /\ EngineShape(engine) /\ i \in [Key -> Value]
      /\ engine["live"].settings \in [Key -> Value] /\ CallShape(call[c])
  BY OutcomeSettings, DeploymentsAssumption DEF Shapes, SettingsShape, RowShape, Deployment, be
<1>2. /\ s \in {"push", "configure"} => \A k \in Carried(be) \ Resettable(be) : i[k] # "empty"
      /\ s \in {"configure", "swap"} => i["ranking_rules"] = "missing"
      /\ s = "swap" /\ Swapped => i = row.settings
      /\ s \in {"erase", "provision"} => engine'["live"].settings = engine["live"].settings
  BY DEF DriftAfter
<1>3. call[c].todo # <<>> /\ s = Head(call[c].todo) /\ Ahead(c) = Among(call[c].todo)
  BY EngineStepBusy DEF Step, Idle, Ahead, Among
<1>4. ASSUME s \in {"push", "configure"} PROVE Holds(engine', row.settings)
 <2>1. Current(call[c])
  <3>1. s \in Among(call[c].todo) /\ "insert" \notin Among(call[c].todo) /\ "save" \notin Among(call[c].todo)
    BY <1>1, <1>3, <1>4, PastSave
  <3> QED BY <1>4, <3>1 DEF Current
 <2>2. i = row.settings
   BY <2>1 DEF Copies
 <2>3. CASE s = "push"
  <3>1. Outcome(c, d) = update_settings(be, engine, "live", Normalized(i))
    BY <2>3 DEF Outcome
  <3> QED BY <1>1, <1>2, <2>2, <2>3, <3>1, PushHolds
 <2>4. CASE s = "configure" /\ i = NoSettings
   BY <1>1, <2>2, <2>4, NothingHolds
 <2>5. CASE s = "configure" /\ i # NoSettings
  <3>1. Outcome(c, d) = update_settings(be, engine, "live", i)
    BY <2>5 DEF Outcome, Configured
  <3>2. Normalized(i) = i
    BY <1>1, <1>2, <2>5, NormalizedPlain
  <3>3. Outcome(c, d) = update_settings(be, engine, "live", Normalized(i))
    BY <3>1, <3>2
  <3> QED BY <1>1, <1>2, <2>2, <2>5, <3>3, PushHolds
 <2> QED BY <1>4, <2>3, <2>4, <2>5
<1>5. ASSUME s = "swap", Swapped PROVE Holds(engine', row.settings)
 <2>1. be \notin AliasOnly \cup Unswappable /\ engine'["live"].settings = engine["tmp"].settings
   BY <1>1, <1>5 DEF CallSets
 <2>2. Ahead(c) = {"swap", "tmpdelete"}
   BY <1>1, <1>5, ReindexStep DEF Documentary, After
 <2>3. HasSettings(engine, "tmp", i)
   BY <1>2, <1>5, <2>1, <2>2 DEF TempRight, Configures, Builds
 <2>4. Holds(engine', i)
   BY <1>1, <1>2, <1>5, <2>1, <2>3, SwapHolds
 <2> QED BY <1>2, <1>5, <2>4
<1>6. ASSUME s \notin {"push", "configure"}, ~(s = "swap" /\ Swapped)
      PROVE  engine'["live"].settings = engine["live"].settings
  BY <1>1, <1>2, <1>6 DEF CallSets
<1>7. ASSUME s \notin {"push", "configure"}, ~(s = "swap" /\ Swapped), Holds(engine, row.settings)
      PROVE  Holds(engine', row.settings)
  BY <1>6, <1>7, SameHolds
<1> QED BY <1>4, <1>5, <1>7

(* The configuration of the temporary index is there afterwards.               *)
LEMMA TempConfigured ==
  ASSUME NEW c \in Caller, Shapes, SettingsShape, Step(c) = "tmpconfigure", NEW d, Outcome(c, d).ok,
         be \notin AliasOnly \cup Unswappable, call[c].inst.settings["ranking_rules"] = "missing"
  PROVE  HasSettings(Outcome(c, d).engine, "tmp", call[c].inst.settings)
<1> DEFINE i == call[c].inst.settings
           f == Outcome(c, d).engine
<1>1. /\ be \in {"dummy", "meilisearch"} /\ EngineShape(engine) /\ "tmp" \in Uid /\ i \in [Key -> Value]
      /\ DOMAIN engine = Uid /\ DOMAIN engine["tmp"] = DOMAIN NoIndex /\ {"there", "settings"} \subseteq DOMAIN NoIndex
  BY DeploymentsAssumption DEF Shapes, SettingsShape, RowShape, Deployment, be, Backend, AliasOnly, Unswappable, EngineShape, NoIndex
<1>2. Outcome(c, d) = Configured("tmp", i)
  BY DEF Outcome
<1> HIDE DEF i
<1>3. CASE i = NoSettings
  BY <1>3 DEF HasSettings, NoSettings, i
<1>4. CASE i # NoSettings /\ be = "dummy"
 <2>1. f["tmp"].settings = i
   BY <1>1, <1>2, <1>4 DEF Configured, update_settings, dummy_settings, Done
 <2> QED BY <2>1 DEF HasSettings, i
<1>5. CASE i # NoSettings /\ be = "meilisearch"
 <2> DEFINE g == Touch(engine, "tmp")
            x == Merge(g["tmp"].settings, i, Given(i, Key))
 <2>1. f = [g EXCEPT !["tmp"].settings = x]
   BY <1>2, <1>5 DEF Configured, update_settings, meilisearch_settings, If, i
 <2>2. DOMAIN g = Uid /\ DOMAIN g["tmp"] = DOMAIN NoIndex
   BY <1>1 DEF Touch
 <2>3. \A k \in Key : i[k] # "missing" => x[k] = i[k]
   BY DEF Merge, Given
 <2> HIDE DEF g, x, f
 <2>4. f["tmp"].settings = x
   BY <1>1, <2>1, <2>2
 <2> QED BY <2>3, <2>4 DEF HasSettings, i, f
<1> QED BY <1>1, <1>3, <1>4, <1>5

(* The other callers keep what the settings depend on.                         *)
OthersKeep(c) ==
  \A o \in Caller \ {c} :
    call'[o].todo = call[o].todo /\ call'[o].op = call[o].op /\ call'[o].inst = call[o].inst

(* A step that changes neither the settings of the row nor, for the worse,     *)
(* what the engine holds of them.                                              *)
AgreedStep(c) ==
  /\ Exists /\ row'.settings = row.settings /\ row'.pk = row.pk
  /\ Current(call'[c]) => call'[c].inst.settings = row.settings
  /\ First(call'[c]) = "mark" => Holds(engine', row.settings)
  /\ Holds(engine, row.settings) => Holds(engine', row.settings)
  /\ row'.synced => Holds(engine', row.settings) \/ (row.synced /\ ~Owed(call[c])) \/ Owed(call[c])'
TempStep(c) ==
  /\ Builds(c)' => Builds(c) \/ \A o \in Caller \ {c} : ~Builds(o)
  /\ TempRight(c)'
  /\ \A o \in Caller \ {c} : Builds(o) => engine'["tmp"].settings = engine["tmp"].settings
StepShape(c) ==
  /\ dep' = dep /\ OthersKeep(c) /\ RowShape(row')
  /\ RowShape(call'[c].inst) /\ ListRight(call'[c])
  /\ \A u \in Uid : engine'[u].settings \in [Key -> Value]

(* The deployment does not change what it means to hold settings.             *)
LEMMA HoldsNext ==
  ASSUME dep' = dep
  PROVE  Holds(engine, row.settings)' <=> Holds(engine', row'.settings)
BY DEF Holds, be

(* Such a step keeps what is agreed about the row.                            *)
LEMMA AgreedStays ==
  ASSUME NEW c \in Caller, StepShape(c), Agreed, AgreedStep(c)
  PROVE  Agreed'
<1>1. /\ Exists /\ Copies /\ Marks /\ Debts /\ row'.settings = row.settings /\ row'.pk = row.pk
      /\ dep' = dep /\ OthersKeep(c)
  BY DEF Agreed, AgreedStep, StepShape
<1>2. ASSUME NEW o \in Caller \ {c}
      PROVE  /\ Current(call'[o]) <=> Current(call[o])
             /\ First(call'[o]) = First(call[o]) /\ call'[o].inst = call[o].inst
             /\ Owed(call[o])' <=> Owed(call[o])
 <2>1. call'[o].todo = call[o].todo /\ call'[o].op = call[o].op /\ call'[o].inst = call[o].inst
   BY <1>1 DEF OthersKeep
 <2> QED BY <1>1, <2>1 DEF Current, First, Owed
<1>3. Copies'
  BY <1>1, <1>2 DEF Copies, AgreedStep
<1>4. Holds(engine, row.settings)' <=> Holds(engine', row.settings)
  BY <1>1, HoldsNext
<1>5. Marks'
  BY <1>1, <1>2, <1>4 DEF Marks, AgreedStep
<1>6. Debts'
 <2>1. SUFFICES ASSUME row'.synced, ~Holds(engine', row.settings) PROVE \E o \in Caller : Owed(call[o])'
   BY <1>4 DEF Debts
 <2>2. (row.synced /\ ~Owed(call[c])) \/ Owed(call[c])'
   BY <2>1 DEF AgreedStep
 <2>3. ~Holds(engine, row.settings)
   BY <2>1 DEF AgreedStep
 <2> QED BY <1>1, <1>2, <2>2, <2>3 DEF Debts
<1> QED BY <1>3, <1>5, <1>6 DEF Agreed

(* Such a step keeps the temporary index right.                               *)
LEMMA TempsStay ==
  ASSUME NEW c \in Caller, StepShape(c), TempsRight, TempStep(c)
  PROVE  TempsRight'
<1>1. dep' = dep /\ OthersKeep(c) /\ BuildsAlone /\ \A o \in Caller : TempRight(o)
  BY DEF TempsRight, StepShape
<1>2. ASSUME NEW o \in Caller \ {c}
      PROVE  /\ Ahead(o)' = Ahead(o) /\ (Builds(o)' <=> Builds(o))
             /\ call'[o].inst = call[o].inst
 <2>1. call'[o].todo = call[o].todo /\ call'[o].inst = call[o].inst
   BY <1>1 DEF OthersKeep
 <2> QED BY <2>1, SameList
<1>3. BuildsAlone'
  BY <1>1, <1>2 DEF BuildsAlone, TempStep
<1>4. ASSUME NEW o \in Caller \ {c} PROVE TempRight(o)'
 <2>1. SUFFICES ASSUME Configures(o)' PROVE HasSettings(engine', "tmp", call'[o].inst.settings)
   BY DEF TempRight
 <2>2. Configures(o) /\ Builds(o)
   BY <1>1, <1>2, <2>1 DEF Configures, be
 <2>3. engine'["tmp"].settings = engine["tmp"].settings
   BY <2>2 DEF TempStep
 <2>4. HasSettings(engine, "tmp", call[o].inst.settings)
   BY <1>1, <2>2 DEF TempRight
 <2> QED BY <1>2, <2>3, <2>4 DEF HasSettings
<1>5. TempRight(c)'
  BY DEF TempStep
<1> QED BY <1>3, <1>4, <1>5 DEF TempsRight

(* One step keeps the invariant, if it is such a step unless it is a cause.    *)
LEMMA SyncStays ==
  ASSUME NEW c \in Caller, SyncInv, StepShape(c),
         drift' = {} => drift = {} /\ TempStep(c) /\ (Exists' => AgreedStep(c))
  PROVE  SyncInv'
<1>1. SettingsShape'
 <2>1. \A o \in Caller \ {c} : call'[o].inst = call[o].inst
   BY DEF StepShape, OthersKeep
 <2> QED BY <2>1 DEF SyncInv, SettingsShape, StepShape
<1>2. \A o \in Caller : ListRight(call'[o])
 <2>1. \A o \in Caller \ {c} : call'[o].todo = call[o].todo /\ call'[o].op = call[o].op /\ call'[o].inst = call[o].inst
   BY DEF StepShape, OthersKeep
 <2> QED BY <2>1 DEF SyncInv, ListRight, StepShape
<1>3. ASSUME drift' = {} PROVE Agreed' /\ TempsRight'
 <2>1. Agreed /\ TempsRight
   BY <1>3 DEF SyncInv
 <2>2. Exists' => Agreed'
   BY <1>3, <2>1, AgreedStays
 <2>3. ~Exists' => Agreed'
   BY DEF Agreed
 <2> QED BY <1>3, <2>1, <2>2, <2>3, TempsStay
<1> QED BY <1>1, <1>2, <1>3 DEF SyncInv

(* A call that has nothing left to do agrees with every row.                   *)
LEMMA NothingLeft ==
  ASSUME NEW k, k.todo = <<>>
  PROVE  ListRight(k) /\ ~Current(k) /\ ~Owed(k) /\ First(k) = "none"
<1>1. Among(<<>>) = {} /\ Following(<<>>)
  BY Lists DEF Following
<1> QED BY <1>1 DEF ListRight, Current, Owed, First

(* What is left of a call has a row.                                          *)
LEMMA RestRow ==
  ASSUME NEW r, CallShape(r), RowShape(r.inst)
  PROVE  /\ CallShape(Rest(r)) /\ RowShape(Rest(r).inst) /\ Rest(r).todo = r.todo
         /\ r.todo # <<>> => Rest(r) = r
<1>1. RowShape(NoRow)
  BY DEF RowShape, NoRow, NoSettings, Value
<1>2. [NoCall EXCEPT !.inst = IF r.op \in {"create", "update"} THEN r.inst ELSE NoRow].inst \in {r.inst, NoRow}
  BY DEF NoCall
<1>3. RowShape(Rest(r).inst)
  BY <1>1, <1>2 DEF Rest
<1> QED BY <1>3, RestEffect

(* What a caller goes on with after one step of its list.                      *)
LEMMA Popped ==
  ASSUME NEW c \in Caller, CallShape(call[c]), RowShape(call[c].inst), ListRight(call[c]), ~Idle(c),
         NEW r, CallShape(r), r.todo = Pop(c), r.op = call[c].op, RowShape(r.inst),
         r.inst.settings = call[c].inst.settings, r.inst.pk = call[c].inst.pk,
         r.inst.synced = call[c].inst.synced \/ r.inst.synced,
         call'[c] = Rest(r)
  PROVE  /\ RowShape(call'[c].inst) /\ ListRight(call'[c]) /\ CallShape(call'[c])
         /\ Current(call'[c]) => /\ Current(call[c]) \/ Step(c) \in {"insert", "save"}
                                /\ call'[c].inst.settings = call[c].inst.settings
         /\ First(call'[c]) = "mark" => Step(c) \in {"push", "configure"}
         /\ Owed(call[c]) /\ Step(c) # "push" /\ (Step(c) = "notify" => ~dep.autosync) => Owed(call'[c])
         /\ Builds(c)' => Builds(c) \/ Step(c) = "tmpcreate"
         /\ Configures(c)' /\ dep' = dep =>
              /\ call'[c].inst.settings = call[c].inst.settings
              /\ Configures(c) \/ Step(c) \in {"tmpcreate", "tmpconfigure"}
<1>1. /\ RowShape(call'[c].inst) /\ CallShape(call'[c]) /\ call'[c].todo = Pop(c) /\ (Pop(c) # <<>> => call'[c] = r)
  BY RestRow
<1>2. /\ call[c].todo # <<>> /\ Pop(c) = Tail(call[c].todo) /\ Step(c) = Head(call[c].todo)
      /\ Ahead(c) = Among(call[c].todo) /\ Ahead(c)' = Among(Pop(c))
  BY <1>1 DEF Idle, Pop, Step, Ahead, Among
<1>3. /\ Step(c) \notin {"insert", "save"} => "insert" \notin Ahead(c) /\ "save" \notin Ahead(c)
      /\ "insert" \notin Among(Pop(c)) /\ "save" \notin Among(Pop(c)) /\ Following(Pop(c))
      /\ Pop(c) # <<>> /\ Head(Pop(c)) = "mark" => Step(c) \in {"push", "configure"}
      /\ Ahead(c) = {Step(c)} \cup Among(Pop(c))
  BY <1>2, PastSave
<1>4. Among(<<>>) = {}
  BY Lists
<1>5. ListRight(call'[c])
  BY <1>1, <1>3 DEF ListRight
<1>6. ASSUME Current(call'[c])
      PROVE  /\ Current(call[c]) \/ Step(c) \in {"insert", "save"}
             /\ call'[c].inst.settings = call[c].inst.settings
 <2>1. Pop(c) # <<>>
   BY <1>1, <1>4, <1>6 DEF Current
 <2> QED BY <1>1, <1>2, <1>3, <1>6, <2>1 DEF Current
<1>7. First(call'[c]) = "mark" => Step(c) \in {"push", "configure"}
  BY <1>1, <1>3 DEF First
<1>8. ASSUME Owed(call[c]), Step(c) # "push", Step(c) = "notify" => ~dep.autosync
      PROVE  Owed(call'[c])
 <2>1. "push" \in Among(Pop(c)) /\ ~dep.autosync
   BY <1>2, <1>3, <1>8 DEF Owed, First
 <2>2. call'[c] = r
   BY <1>1, <1>4, <2>1
 <2>3. Current(r)
   BY <1>3, <2>1 DEF Current
 <2> QED BY <1>8, <2>1, <2>2, <2>3 DEF Owed
<1>9. Builds(c)' => Builds(c) \/ Step(c) = "tmpcreate"
  BY <1>2, <1>3 DEF Builds
<1>10. ASSUME Configures(c)', dep' = dep
       PROVE  /\ call'[c].inst.settings = call[c].inst.settings
              /\ Configures(c) \/ Step(c) \in {"tmpcreate", "tmpconfigure"}
 <2>1. Builds(c)' /\ "tmpconfigure" \notin Among(Pop(c)) /\ "swap" \in Among(Pop(c))
   BY <1>2, <1>10 DEF Configures, Builds
 <2>2. call'[c] = r
   BY <1>1, <1>4, <2>1
 <2> QED BY <1>2, <1>3, <1>9, <1>10, <2>1, <2>2 DEF Configures, be
<1> QED BY <1>1, <1>5, <1>6, <1>7, <1>8, <1>9, <1>10

(* A call that begins has the row as it is, or has nothing to do with it.      *)
LEMMA BeginSync ==
  ASSUME NEW c \in Caller, SyncInv, Idle(c), UNCHANGED <<dep, row, engine, drift>>, OthersKeep(c),
         CallShape(call'[c]), RowShape(call'[c].inst), ListRight(call'[c]), ~Builds(c)',
         Current(call'[c]) => call'[c].inst = row, First(call'[c]) # "mark"
  PROVE  SyncInv'
<1>1. StepShape(c)
  BY DEF StepShape, SyncInv, SettingsShape
<1>2. TempStep(c)
  BY DEF TempStep, TempRight, Configures
<1>3. ~Owed(call[c])
  BY NothingLeft DEF Idle
<1>4. Exists' => AgreedStep(c)
  BY <1>3 DEF AgreedStep, Exists
<1> QED BY <1>1, <1>2, <1>4, SyncStays

(* The service functions begin.                                                *)
LEMMA BeginList ==
  ASSUME NEW c \in Caller, SyncInv, Shapes, NEW op, NEW inst, NEW todo, Begin(c, op, inst, todo), RowShape(inst),
         UNCHANGED <<dep, row, engine, drift>>, Whole(todo),
         \/ todo \in InsertLists /\ ~inst.synced
         \/ todo \in PlainReindexes
         \/ op = "update" /\ todo = <<"save", "notify">> \o SyncSteps
  PROVE  SyncInv'
<1> DEFINE k == [NoCall EXCEPT !.op = op, !.todo = todo, !.inst = inst]
<1>1. CallShape(k) /\ QuietCall(k) /\ k.op = op /\ k.todo = todo /\ k.inst = inst
 <2>1. k.op = op /\ k.todo = todo /\ k.inst = inst
   BY DEF NoCall
 <2>2. CallShape(k) /\ QuietCall(k)
   BY NewCall
 <2> HIDE DEF k
 <2> QED BY <2>1, <2>2
<1>2. call' = [call EXCEPT ![c] = k] /\ Idle(c) /\ DOMAIN call = Caller
  BY DEF Begin, Shapes
<1> HIDE DEF k
<1>3. call'[c] = k /\ OthersKeep(c)
  BY <1>2 DEF OthersKeep
<1>4. ~Builds(c)'
  BY <1>1, <1>3, CallerKindNext DEF QuietCall
<1>5. ListRight(k) /\ ~Current(k) /\ First(k) # "mark"
 <2>1. CASE todo \in InsertLists /\ ~inst.synced
  <3>1. /\ Following(todo) /\ todo # <<>> /\ Head(todo) = "insert" /\ "insert" \in Among(todo)
        /\ "save" \notin Among(todo)
    BY <2>1, InsertListsRight
  <3> QED BY <1>1, <2>1, <3>1 DEF ListRight, Current, First
 <2>2. CASE todo \in PlainReindexes
  <3>1. /\ Following(todo) /\ (todo # <<>> => Head(todo) # "mark")
        /\ Among(todo) \cap {"insert", "save", "notify", "provision", "configure", "push", "mark"} = {}
    BY <2>2, PlainListsRight
  <3> QED BY <1>1, <3>1 DEF ListRight, Current, First
 <2>3. CASE op = "update" /\ todo = <<"save", "notify">> \o SyncSteps
  <3>1. Following(todo) /\ todo # <<>> /\ Head(todo) = "save" /\ Among(todo) = {"save", "notify", "push", "mark"}
    BY <2>3, PushListsRight
  <3> QED BY <1>1, <2>3, <3>1 DEF ListRight, Current, First
 <2> QED BY <2>1, <2>2, <2>3
<1> QED BY <1>1, <1>2, <1>3, <1>4, <1>5, BeginSync

(* An instance a call may begin with is a row.                                *)
LEMMA InstanceRows ==
  ASSUME NEW c \in Caller, SettingsShape, NEW inst \in Instances(c)
  PROVE  RowShape(inst)
<1>1. RowShape([NoRow EXCEPT !.pk = FreshKey])
  BY DEF RowShape, NoRow, NoSettings, Value
<1> QED BY <1>1 DEF Instances, SettingsShape

(* Creations, updates, deletions and reindexes begin.                         *)
LEMMA BeginningsSync ==
  ASSUME NEW c \in Caller, SyncInv, Shapes,
         CreateIndex(c) \/ UpdateSettings(c) \/ DeleteIndex(c) \/ Reindex(c)
  PROVE  SyncInv'
<1>1. UNCHANGED <<dep, row, engine, drift>> /\ SettingsShape
  BY DEF CreateIndex, UpdateSettings, DeleteIndex, Reindex, SyncInv
<1>2. CASE CreateIndex(c)
 <2>1. PICK k \in Key \cap {"stopWords", "ranking_rules"} :
         Begin(c, "create", [NoRow EXCEPT !.pk = FreshKey, !.settings[k] = "custom"], InsertSteps)
   BY <1>2 DEF CreateIndex
 <2> DEFINE inst == [NoRow EXCEPT !.pk = FreshKey, !.settings[k] = "custom"]
 <2>2. RowShape(inst) /\ ~inst.synced
   BY DEF RowShape, NoRow, NoSettings, Value
 <2>3. InsertSteps \in InsertLists /\ Whole(InsertSteps)
   BY BeginLists DEF InsertLists
 <2> HIDE DEF inst
 <2>4. Begin(c, "create", inst, InsertSteps)
   BY <2>1 DEF inst
 <2> QED BY <1>1, <2>2, <2>3, <2>4, BeginList
<1>3. CASE UpdateSettings(c)
 <2>1. PICK inst \in Instances(c), k \in {"stopWords", "rankingRules"} :
         \/ Begin(c, "update", update_setting(inst, k), <<"save", "notify">> \o SyncSteps)
         \/ Begin(c, "update", reset_setting(inst, k), <<"save", "notify">> \o SyncSteps)
   BY <1>3 DEF UpdateSettings
 <2>2. RowShape(inst)
   BY <1>1, InstanceRows
 <2>3. RowShape(update_setting(inst, k)) /\ RowShape(reset_setting(inst, k))
   BY <2>2 DEF RowShape, update_setting, reset_setting, Key, Value, NoRow
 <2>4. Whole(<<"save", "notify">> \o SyncSteps)
   BY BeginLists
 <2> QED BY <1>1, <2>1, <2>3, <2>4, BeginList
<1>4. CASE DeleteIndex(c)
 <2>1. PICK inst \in Instances(c) : Begin(c, "delete", inst, <<"erase", "drop">>)
   BY <1>4 DEF DeleteIndex
 <2>2. RowShape(inst) /\ Whole(<<"erase", "drop">>) /\ <<"erase", "drop">> \in PlainReindexes
   BY <1>1, InstanceRows, BeginLists DEF PlainReindexes
 <2> QED BY <1>1, <2>1, <2>2, BeginList
<1>5. CASE Reindex(c)
 <2>1. PICK inst \in Instances(c), first \in {<<>>, InsertSteps} :
         /\ Resolved(c, inst, first)
         /\ Begin(c, "all", inst, first \o AllSteps) \/ Begin(c, "zero", inst, first \o ZeroSteps)
   BY <1>5 DEF Reindex
 <2>2. RowShape(inst) /\ Whole(first \o AllSteps) /\ Whole(first \o ZeroSteps)
   BY <1>1, InstanceRows, BeginLists
 <2>3. CASE first = <<>>
  <3>1. first \o AllSteps = AllSteps /\ first \o ZeroSteps = ZeroSteps
    BY <2>3 DEF AllSteps, ZeroSteps
  <3>2. first \o AllSteps \in PlainReindexes /\ first \o ZeroSteps \in PlainReindexes
    BY <3>1 DEF PlainReindexes
  <3> QED BY <1>1, <2>1, <2>2, <3>2, BeginList
 <2>4. CASE first = InsertSteps
  <3>1. InsertSteps # <<>>
    BY ShortLists
  <3>2. inst = [NoRow EXCEPT !.pk = FreshKey]
    BY <2>1, <2>4, <3>1 DEF Resolved
  <3>3. ~inst.synced
    BY <3>2 DEF NoRow
  <3>4. first \o AllSteps \in InsertLists /\ first \o ZeroSteps \in InsertLists
    BY <2>4 DEF InsertLists
  <3> QED BY <1>1, <2>1, <2>2, <3>3, <3>4, BeginList
 <2> QED BY <2>3, <2>4
<1> QED BY <1>2, <1>3, <1>4, <1>5

(* A row of the indexed model is written.                                      *)
LEMMA WriteSync ==
  ASSUME NEW c \in Caller, SyncInv, Shapes, WriteRow(c)
  PROVE  SyncInv'
<1>1. PICK d \in Doc, version \in 0 .. 2 :
        /\ Idle(c) /\ UNCHANGED <<dep, row, engine, drift>>
        /\ call' = [o \in Caller |->
                  IF o = c
                  THEN [NoCall EXCEPT !.op = "write", !.todo = <<"send">>, !.inst = row,
                                      !.docs[d] = version, !.dirty = {d}]
                  ELSE IF HoldsRows(o) THEN [call[o] EXCEPT !.dirty = @ \cup {d}]
                  ELSE call[o]]
  BY DEF WriteRow
<1> DEFINE k == [NoCall EXCEPT !.op = "write", !.todo = <<"send">>, !.inst = row, !.docs[d] = version, !.dirty = {d}]
<1>2. call'[c] = k
  BY <1>1
<1>3. k.todo = <<"send">> /\ k.inst = row
  BY DEF NoCall
<1>4. OthersKeep(c)
 <2>1. ASSUME NEW o \in Caller \ {c}
       PROVE  call'[o].todo = call[o].todo /\ call'[o].op = call[o].op /\ call'[o].inst = call[o].inst
  <3>1. call'[o] = IF HoldsRows(o) THEN [call[o] EXCEPT !.dirty = @ \cup {d}] ELSE call[o]
    BY <1>1
  <3>2. {"todo", "op", "inst", "dirty"} \subseteq DOMAIN call[o]
    BY DEF Shapes, CallShape, NoCall
  <3> QED BY <3>1, <3>2
 <2> QED BY <2>1 DEF OthersKeep
<1> HIDE DEF k
<1>5. CallShape(call'[c]) /\ RowShape(call'[c].inst)
  BY <1>2, <1>3, WriteShapes DEF Shapes, SyncInv, SettingsShape
<1>6. Following(k.todo) /\ First(k) = "send" /\ Among(k.todo) = {"send"}
 <2>1. <<"send">> \in PlainReindexes /\ <<"send">> # <<>> /\ Head(<<"send">>) = "send"
   BY DEF PlainReindexes
 <2> QED BY <1>3, <2>1, Lists, PlainListsRight DEF First
<1>7. ListRight(call'[c]) /\ ~Current(call'[c]) /\ First(call'[c]) # "mark"
  BY <1>2, <1>6 DEF ListRight, Current
<1>8. ~Builds(c)'
  BY <1>2, <1>6 DEF Builds, Ahead, Among
<1> QED BY <1>1, <1>4, <1>5, <1>7, <1>8, BeginSync

(* Nothing the invariant speaks of changes.                                    *)
LEMMA StutterSync ==
  ASSUME UNCHANGED <<dep, row, engine, drift, call>>, SyncInv
  PROVE  SyncInv'
<1>1. SettingsShape' /\ \A c \in Caller : ListRight(call'[c])
  BY DEF SyncInv, SettingsShape
<1>2. Agreed => Agreed'
  BY DEF Agreed, Exists, Copies, Marks, Debts, Holds, be, Owed
<1>3. TempsRight => TempsRight'
  BY DEF TempsRight, BuildsAlone, TempRight, Configures, Builds, Ahead, be
<1> QED BY <1>1, <1>2, <1>3 DEF SyncInv

(* The tasks begin with the row as it is.                                      *)
LEMMA TasksSync ==
  ASSUME NEW c \in Caller, SyncInv, Shapes, SyncTask(c) \/ SyncAll(c)
  PROVE  SyncInv'
<1>1. UNCHANGED <<dep, row, engine, drift>> /\ Idle(c) /\ DOMAIN call = Caller
  BY DEF SyncTask, SyncAll, Shapes
<1>2. ASSUME NEW k, DOMAIN k = DOMAIN NoCall, k.todo = SyncSteps, k.docs = NoDocs, k.dirty = {}, k.inst = row,
             call' = [call EXCEPT ![c] = k]
      PROVE  SyncInv'
 <2>1. CallShape(k) /\ NotBegun(k.todo)
   BY <1>2, BeginLists, WholeNotBegun, EmptyIndexes DEF CallShape
 <2>2. call'[c] = k /\ OthersKeep(c)
   BY <1>1, <1>2 DEF OthersKeep
 <2>3. Following(SyncSteps) /\ SyncSteps # <<>> /\ Head(SyncSteps) = "push" /\ Among(SyncSteps) = {"push", "mark"}
   BY ShortLists
 <2>4. ListRight(k) /\ First(k) # "mark"
   BY <1>2, <2>3 DEF ListRight, First
 <2>5. ~Builds(c)'
   BY <2>1, <2>2, CallerKindNext
 <2>6. RowShape(k.inst)
   BY <1>2 DEF SyncInv, SettingsShape
 <2> QED BY <1>1, <1>2, <2>1, <2>2, <2>4, <2>5, <2>6, BeginSync
<1>3. CASE SyncAll(c)
 <2> DEFINE k == [NoCall EXCEPT !.op = "sweep", !.todo = SyncSteps, !.inst = row]
 <2>1. DOMAIN k = DOMAIN NoCall /\ k.todo = SyncSteps /\ k.docs = NoDocs /\ k.dirty = {} /\ k.inst = row
   BY DEF NoCall
 <2>2. call' = [call EXCEPT ![c] = k]
   BY <1>3 DEF SyncAll
 <2> HIDE DEF k
 <2> QED BY <1>2, <2>1, <2>2
<1>4. CASE SyncTask(c) /\ call' = call
  BY <1>1, <1>4, StutterSync
<1>5. CASE SyncTask(c) /\ call' # call
 <2>1. PICK n \in DOMAIN queue :
         call' = [call EXCEPT ![c] = [NoCall EXCEPT !.op = "task", !.todo = SyncSteps, !.inst = row, !.tries = n]]
   BY <1>5 DEF SyncTask
 <2> DEFINE k == [NoCall EXCEPT !.op = "task", !.todo = SyncSteps, !.inst = row, !.tries = n]
 <2>2. DOMAIN k = DOMAIN NoCall /\ k.todo = SyncSteps /\ k.docs = NoDocs /\ k.dirty = {} /\ k.inst = row
   BY DEF NoCall
 <2>3. call' = [call EXCEPT ![c] = k]
   BY <2>1
 <2> HIDE DEF k
 <2> QED BY <1>2, <2>2, <2>3
<1> QED BY <1>3, <1>4, <1>5

(* The debt of a call, after a step that leaves the key of the row alone.      *)
LEMMA OwedNext ==
  ASSUME dep' = dep, row'.pk = row.pk, NEW c \in Caller
  PROVE  Owed(call[c])' <=> Owed(call'[c])
BY DEF Owed

(* A caller does one step of its list that leaves the engine alone.            *)
LEMMA PopSync ==
  ASSUME NEW c \in Caller, SyncInv, Shapes, ~Idle(c),
         Step(c) \notin {"insert", "save", "push", "configure", "tmpcreate", "tmpconfigure"},
         NEW r, CallShape(r), r.todo = Pop(c), r.op = call[c].op, RowShape(r.inst),
         r.inst.settings = call[c].inst.settings, r.inst.pk = call[c].inst.pk,
         r.inst.synced = call[c].inst.synced \/ r.inst.synced,
         call'[c] = Rest(r), OthersKeep(c), UNCHANGED <<dep, engine, drift>>, RowShape(row'),
         Exists' => /\ row'.settings = row.settings /\ row'.pk = row.pk
                    /\ row'.synced => \/ Step(c) = "mark"
                                      \/ row.synced /\ (Step(c) = "notify" => ~dep.autosync \/ ~Owed(call[c]))
  PROVE  SyncInv'
<1>1. /\ CallShape(call[c]) /\ RowShape(call[c].inst) /\ ListRight(call[c])
      /\ \A u \in Uid : engine[u].settings \in [Key -> Value]
  BY DEF Shapes, SyncInv, SettingsShape
<1>2. /\ RowShape(call'[c].inst) /\ ListRight(call'[c])
      /\ Current(call'[c]) => /\ Current(call[c]) \/ Step(c) \in {"insert", "save"}
                             /\ call'[c].inst.settings = call[c].inst.settings
      /\ First(call'[c]) = "mark" => Step(c) \in {"push", "configure"}
      /\ Owed(call[c]) /\ Step(c) # "push" /\ (Step(c) = "notify" => ~dep.autosync) => Owed(call'[c])
      /\ Builds(c)' => Builds(c) \/ Step(c) = "tmpcreate"
      /\ Configures(c)' /\ dep' = dep =>
           /\ call'[c].inst.settings = call[c].inst.settings
           /\ Configures(c) \/ Step(c) \in {"tmpcreate", "tmpconfigure"}
  BY <1>1, Popped
<1>3. StepShape(c)
  BY <1>1, <1>2 DEF StepShape
<1>4. ASSUME drift = {} PROVE TempStep(c)
 <2>1. TempRight(c)
   BY <1>4 DEF SyncInv, TempsRight
 <2>2. TempRight(c)'
   BY <1>2, <2>1 DEF TempRight
 <2> QED BY <1>2, <2>2 DEF TempStep
<1>5. ASSUME drift = {}, Exists' PROVE AgreedStep(c)
 <2>1. Exists /\ Copies /\ Marks
   BY <1>5 DEF Exists, SyncInv, Agreed
 <2>2. Step(c) = "mark" => Holds(engine, row.settings)
   BY <2>1 DEF Marks, First, Step, Idle
 <2>3. Current(call'[c]) => call'[c].inst.settings = row.settings
   BY <1>2, <2>1 DEF Copies
 <2>4. row'.synced => Holds(engine', row.settings) \/ (row.synced /\ ~Owed(call[c])) \/ Owed(call[c])'
   BY <1>2, <1>5, <2>2, OwedNext
 <2> QED BY <1>2, <1>5, <2>1, <2>3, <2>4 DEF AgreedStep
<1> QED BY <1>3, <1>4, <1>5, SyncStays

(* The database steps of a call, but for its save.                             *)
LEMMA DatabaseSync ==
  ASSUME NEW c \in Caller, SyncInv, Shapes, Mark(c) \/ Drop(c) \/ Read(c)
  PROVE  SyncInv'
<1>1. /\ CallShape(call[c]) /\ RowShape(call[c].inst) /\ RowShape(row) /\ DOMAIN call = Caller /\ db \in [Doc -> Nat]
      /\ Step(c) \in {"mark", "drop", "read", "tmpread"} /\ UNCHANGED <<dep, engine, drift>>
  BY DEF Shapes, SyncInv, SettingsShape, Mark, Drop, Read
<1>2. ~Idle(c) /\ Shaped(Pop(c))
 <2>1. ~Idle(c)
   BY <1>1 DEF Step
 <2> QED BY <1>1, <2>1, NextStep
<1>3. CASE Mark(c)
 <2> DEFINE r == [call[c] EXCEPT !.todo = Pop(c), !.inst.synced = TRUE]
 <2>1. /\ DOMAIN r = DOMAIN NoCall /\ r.todo = Pop(c) /\ r.docs = call[c].docs /\ r.dirty = call[c].dirty /\ r.op = call[c].op
       /\ r.inst = [call[c].inst EXCEPT !.synced = TRUE]
   BY <1>1 DEF CallShape, NoCall
 <2>2. call' = [call EXCEPT ![c] = Rest(r)]
   BY <1>3 DEF Mark
 <2> HIDE DEF r
 <2>3. CallShape(r)
   BY <1>1, <1>2, <2>1 DEF CallShape
 <2>4. /\ RowShape(r.inst) /\ r.inst.settings = call[c].inst.settings /\ r.inst.pk = call[c].inst.pk /\ r.inst.synced
   BY <1>1, <2>1 DEF RowShape, NoRow
 <2>5. call'[c] = Rest(r) /\ OthersKeep(c)
   BY <1>1, <2>2 DEF OthersKeep
 <2>6. RowShape(row') /\ row'.settings = row.settings /\ row'.pk = row.pk /\ Step(c) = "mark"
   BY <1>1, <1>3 DEF Mark, RowShape, NoRow
 <2> QED BY <1>1, <1>2, <2>1, <2>3, <2>4, <2>5, <2>6, PopSync
<1>4. CASE Drop(c)
 <2> DEFINE r == [call[c] EXCEPT !.todo = Pop(c)]
 <2>1. /\ DOMAIN r = DOMAIN NoCall /\ r.todo = Pop(c) /\ r.docs = call[c].docs /\ r.dirty = call[c].dirty /\ r.op = call[c].op
       /\ r.inst = call[c].inst
   BY <1>1 DEF CallShape, NoCall
 <2>2. call' = [call EXCEPT ![c] = Rest(r)]
   BY <1>4 DEF Drop, Continue
 <2> HIDE DEF r
 <2>3. CallShape(r)
   BY <1>1, <1>2, <2>1 DEF CallShape
 <2>5. call'[c] = Rest(r) /\ OthersKeep(c)
   BY <1>1, <2>2 DEF OthersKeep
 <2>6. RowShape(row') /\ (Exists' => row' = row) /\ Step(c) = "drop"
  <3>1. RowShape(NoRow) /\ NoRow.pk = 0
    BY DEF RowShape, NoRow, NoSettings, Value
  <3> QED BY <1>1, <1>4, <3>1 DEF Drop, Exists
 <2> QED BY <1>1, <1>2, <2>1, <2>3, <2>5, <2>6, PopSync
<1>5. CASE Read(c)
 <2> DEFINE r == [call[c] EXCEPT !.todo = Pop(c), !.docs = db]
 <2>1. /\ DOMAIN r = DOMAIN NoCall /\ r.todo = Pop(c) /\ r.docs = db /\ r.dirty = call[c].dirty /\ r.op = call[c].op
       /\ r.inst = call[c].inst
   BY <1>1 DEF CallShape, NoCall
 <2>2. call' = [call EXCEPT ![c] = r]
   BY <1>5 DEF Read
 <2> HIDE DEF r
 <2>3. CallShape(r)
   BY <1>1, <1>2, <2>1 DEF CallShape
 <2>4. Step(c) \in {"read", "tmpread"} /\ row' = row
   BY <1>5 DEF Read
 <2>5. Pop(c) # <<>>
  <3>1. Among(Pop(c)) = After(Step(c)) /\ After(Step(c)) # {}
    BY <1>1, <2>4, ReindexStep DEF Documentary, After
  <3> QED BY <3>1, Lists
 <2>6. call'[c] = Rest(r) /\ OthersKeep(c)
   BY <1>1, <2>1, <2>2, <2>5 DEF OthersKeep, Rest
 <2> QED BY <1>1, <1>2, <2>1, <2>3, <2>4, <2>6, PopSync
<1> QED BY <1>3, <1>4, <1>5

(* A call ends: what it still owed is a cause, if it is not the save itself    *)
(* that failed.                                                                *)
LEMMA AbortSync ==
  ASSUME NEW c \in Caller, SyncInv, Shapes, UNCHANGED <<dep, row, engine>>, Abort(c),
         drift' = {} => drift = {} /\ ~Owed(call[c])
  PROVE  SyncInv'
<1> DEFINE r == [call[c] EXCEPT !.todo = <<>>]
<1>1. CallShape(call[c]) /\ RowShape(call[c].inst) /\ RowShape(row) /\ DOMAIN call = Caller
  BY DEF Shapes, SyncInv, SettingsShape
<1>2. call' = [call EXCEPT ![c] = Rest(r)] /\ CallShape(r) /\ r.todo = <<>> /\ r.inst = call[c].inst
  BY <1>1, Lists, WholeNotBegun DEF Abort, CallShape, NoCall
<1> HIDE DEF r
<1>3. call'[c] = Rest(r) /\ OthersKeep(c)
  BY <1>1, <1>2 DEF OthersKeep
<1>4. RowShape(call'[c].inst) /\ call'[c].todo = <<>>
  BY <1>1, <1>2, <1>3, RestRow
<1>5. ListRight(call'[c]) /\ ~Current(call'[c]) /\ First(call'[c]) = "none"
  BY <1>4, NothingLeft
<1>6. ~Builds(c)'
  BY <1>4, Lists DEF Builds, Ahead, Among
<1>7. StepShape(c)
  BY <1>1, <1>3, <1>4, <1>5 DEF StepShape, SyncInv, SettingsShape
<1>8. TempStep(c)
  BY <1>6 DEF TempStep, TempRight, Configures
<1>9. Exists' /\ ~Owed(call[c]) => AgreedStep(c)
  BY <1>5 DEF AgreedStep, Exists
<1> QED BY <1>7, <1>8, <1>9, SyncStays

(* The process is killed.                                                     *)
LEMMA KillSync ==
  ASSUME NEW c \in Caller, SyncInv, Shapes, Kill(c)
  PROVE  SyncInv'
<1>1. UNCHANGED <<dep, row, engine>> /\ Abort(c) /\ ~Idle(c)
  BY DEF Kill
<1>2. drift' = {} => drift = {} /\ Step(c) # "notify" /\ dep.autosync
  BY DEF Kill
<1>3. Owed(call[c]) => Step(c) = "notify" \/ ~dep.autosync
  BY <1>1 DEF Owed, First, Step, Idle
<1> QED BY <1>1, <1>2, <1>3, AbortSync

(* The row is saved. No other call has a copy of the old one, or the calls     *)
(* overlap, which is a cause. A row that comes with is_synced set is owed a    *)
(* push.                                                                       *)
LEMMA SaveSync ==
  ASSUME NEW c \in Caller, SyncInv, Shapes, Save(c)
  PROVE  SyncInv'
<1>1. /\ CallShape(call[c]) /\ RowShape(call[c].inst) /\ ListRight(call[c]) /\ RowShape(row) /\ DOMAIN call = Caller
      /\ \A o \in Caller : CallShape(call[o]) /\ RowShape(call[o].inst) /\ ListRight(call[o])
      /\ \A u \in Uid : engine[u].settings \in [Key -> Value]
      /\ Step(c) \in {"insert", "save"} /\ UNCHANGED <<dep, engine>>
  BY DEF Shapes, SyncInv, SettingsShape, Save
<1>2. /\ ~Idle(c) /\ call[c].todo # <<>> /\ Step(c) = Head(call[c].todo) /\ Pop(c) = Tail(call[c].todo)
      /\ Shaped(Pop(c)) /\ Ahead(c) = {Step(c)} \cup Among(Pop(c)) /\ Ahead(c) = Among(call[c].todo)
 <2>1. ~Idle(c)
   BY <1>1 DEF Step
 <2> QED BY <1>1, <2>1, NextStep DEF Pop, Ahead, Among
<1>3. CASE Abort(c) /\ UNCHANGED <<row, drift>>
 <2>1. ~Owed(call[c])
   BY <1>1, <1>2 DEF Owed, Current
 <2> QED BY <1>1, <1>3, <2>1, AbortSync
<1>4. CASE row' = call[c].inst /\ drift' = (IF Exists THEN drift ELSE {}) \cup Overtakes(c) /\ Continue(c)
 <2> DEFINE r == [call[c] EXCEPT !.todo = Pop(c)]
 <2>1. /\ DOMAIN r = DOMAIN NoCall /\ r.todo = Pop(c) /\ r.docs = call[c].docs /\ r.dirty = call[c].dirty /\ r.op = call[c].op
       /\ r.inst = call[c].inst
   BY <1>1 DEF CallShape, NoCall
 <2>2. call' = [call EXCEPT ![c] = Rest(r)]
   BY <1>4 DEF Continue
 <2> HIDE DEF r
 <2>3. CallShape(r) /\ call'[c] = Rest(r) /\ \A o \in Caller \ {c} : call'[o] = call[o]
   BY <1>1, <1>2, <2>1, <2>2 DEF CallShape
 <2>4. /\ RowShape(call'[c].inst) /\ ListRight(call'[c])
       /\ Current(call'[c]) => call'[c].inst.settings = call[c].inst.settings
       /\ First(call'[c]) # "mark"
       /\ Builds(c)' => Builds(c)
   BY <1>1, <1>2, <2>1, <2>3, Popped
 <2>5. ~Builds(c)
   BY <1>1, <1>2, Middle
 <2>6. SettingsShape' /\ \A o \in Caller : ListRight(call'[o])
   BY <1>1, <1>4, <2>3, <2>4 DEF SettingsShape
 <2>7. ASSUME drift' = {} PROVE Agreed' /\ TempsRight'
  <3>1. \A o \in Caller \ {c} : ~Syncing(o)
    BY <1>4, <2>7 DEF Overtakes, Others
  <3>2. ASSUME NEW o \in Caller \ {c}
        PROVE  ~Current(call'[o]) /\ First(call'[o]) # "mark" /\ ~Builds(o)'
   <4>1. /\ Among(call[o].todo) \cap {"notify", "provision", "configure", "push", "mark"} = {}
         /\ "swap" \notin Among(call[o].todo)
     BY <3>1 DEF Syncing, Ahead, Among
   <4>2. call[o].todo # <<>> => Head(call[o].todo) \in Among(call[o].todo)
     BY <1>1, PastSave
   <4> QED BY <2>3, <4>1, <4>2 DEF Current, First, Builds, Ahead, Among
  <3>3. TempsRight'
    BY <2>4, <2>5, <3>2 DEF TempsRight, BuildsAlone, TempRight, Configures
  <3>4. Copies' /\ Marks'
    BY <1>4, <2>4, <3>2 DEF Copies, Marks
  <3>5. ASSUME row'.synced PROVE Owed(call[c])'
   <4>1. Step(c) = "save"
     BY <1>1, <1>2, <1>4, <3>5 DEF ListRight
   <4>2. call[c].op = "update" /\ call[c].todo = <<"save", "notify">> \o SyncSteps
     BY <1>1, <1>2, <4>1 DEF ListRight
   <4>3. /\ Pop(c) # <<>> /\ Head(Pop(c)) = "notify" /\ Ahead(c) = {"save", "notify", "push", "mark"}
     BY <1>2, <4>2, PushListsRight
   <4>4. "push" \in Among(Pop(c)) /\ "insert" \notin Among(Pop(c)) /\ "save" \notin Among(Pop(c))
     BY <1>1, <1>2, <4>1, <4>3, PastSave
   <4>5. call'[c] = r
     BY <2>1, <2>3, <4>3, RestRow, <1>1
   <4>6. Current(r) /\ First(r) = "notify"
     BY <2>1, <4>3, <4>4 DEF Current, First
   <4> QED BY <1>4, <2>1, <3>5, <4>2, <4>4, <4>5, <4>6 DEF Owed
  <3> QED BY <3>3, <3>4, <3>5 DEF Agreed, Debts
 <2> QED BY <2>6, <2>7 DEF SyncInv
<1> QED BY <1>3, <1>4 DEF Save

(* The signal handler. Where it pushes, it withdraws is_synced before.         *)
LEMMA NotifySync ==
  ASSUME NEW c \in Caller, SyncInv, Shapes, Notify(c)
  PROVE  SyncInv'
<1>1. /\ CallShape(call[c]) /\ RowShape(call[c].inst) /\ ListRight(call[c]) /\ RowShape(row) /\ DOMAIN call = Caller
      /\ \A u \in Uid : engine[u].settings \in [Key -> Value]
      /\ Step(c) = "notify" /\ UNCHANGED <<dep, engine, drift>>
  BY DEF Shapes, SyncInv, SettingsShape, Notify
<1>2. /\ ~Idle(c) /\ call[c].todo # <<>> /\ Step(c) = Head(call[c].todo) /\ Pop(c) = Tail(call[c].todo)
      /\ Shaped(Pop(c)) /\ Whole(Pop(c)) /\ Ahead(c) = {Step(c)} \cup Among(Pop(c)) /\ Ahead(c) = Among(call[c].todo)
 <2>1. ~Idle(c)
   BY <1>1 DEF Step
 <2> QED BY <1>1, <2>1, NextStep DEF Pop, Ahead, Among, Plain
<1>3. /\ RowShape(row') /\ row'.settings = row.settings /\ row'.pk = row.pk
      /\ row'.synced => row.synced /\ (dep.autosync => ~Owed(call[c]))
 <2>1. row' = IF dep.autosync /\ call[c].inst.synced /\ row.pk = call[c].inst.pk
              THEN [row EXCEPT !.synced = FALSE] ELSE row
   BY DEF Notify
 <2>2. Owed(call[c]) => call[c].inst.synced /\ row.pk = call[c].inst.pk
   BY DEF Owed
 <2> QED BY <1>1, <2>1, <2>2 DEF RowShape, NoRow
<1> DEFINE r(t) == [call[c] EXCEPT !.todo = t]
<1>4. \A t : /\ DOMAIN r(t) = DOMAIN NoCall /\ r(t).todo = t /\ r(t).docs = call[c].docs /\ r(t).dirty = call[c].dirty
             /\ r(t).op = call[c].op /\ r(t).inst = call[c].inst
  BY <1>1 DEF CallShape, NoCall
<1>5. CASE Continue(c)
 <2>1. call' = [call EXCEPT ![c] = Rest(r(Pop(c)))]
   BY <1>5 DEF Continue
 <2> HIDE DEF r
 <2>2. CallShape(r(Pop(c)))
   BY <1>1, <1>2, <1>4 DEF CallShape
 <2>3. call'[c] = Rest(r(Pop(c))) /\ OthersKeep(c)
   BY <1>1, <2>1 DEF OthersKeep
 <2> QED BY <1>1, <1>2, <1>3, <1>4, <2>2, <2>3, PopSync
<1>6. CASE dep.autosync /\ call' = [call EXCEPT ![c].todo = SyncSteps \o Pop(c)]
 <2> DEFINE q == SyncSteps \o Pop(c)
 <2>1. call' = [call EXCEPT ![c] = r(q)]
   BY <1>6
 <2>2. call'[c] = r(q) /\ OthersKeep(c)
   BY <1>1, <2>1 DEF OthersKeep
 <2> HIDE DEF r, q
 <2>3. /\ Following(Pop(c)) /\ "insert" \notin Among(Pop(c)) /\ "save" \notin Among(Pop(c)) /\ Pop(c) \in Seq(StepName)
       /\ Pop(c) # <<>> => Head(Pop(c)) # "mark"
       /\ "insert" \notin Ahead(c) /\ "save" \notin Ahead(c)
   BY <1>1, <1>2, PastSave
 <2>4. /\ Following(SyncSteps) /\ SyncSteps \in Seq(StepName) /\ SyncSteps # <<>> /\ Head(SyncSteps) = "push"
       /\ Among(SyncSteps) = {"push", "mark"}
   BY ShortLists
 <2>5. Following(q) /\ q # <<>> /\ Head(q) = "push" /\ Among(q) = {"push", "mark"} \cup Among(Pop(c))
   BY <2>3, <2>4, FollowingBehind DEF q
 <2>6. Whole(q)
   BY <1>2, PlainLists, PlainFirst DEF q
 <2>7. CallShape(call'[c]) /\ NotBegun(call'[c].todo)
   BY <1>1, <1>4, <2>2, <2>6, WholeNotBegun DEF CallShape
 <2>8. ~Builds(c)'
   BY <2>7, CallerKindNext
 <2>9. ListRight(call'[c]) /\ First(call'[c]) # "mark"
   BY <1>4, <2>2, <2>3, <2>5 DEF ListRight, First
 <2>10. StepShape(c)
   BY <1>1, <1>3, <1>4, <2>2, <2>9 DEF StepShape
 <2>11. TempStep(c)
   BY <1>1, <2>8 DEF TempStep, TempRight, Configures
 <2>12. ASSUME drift = {}, Exists' PROVE AgreedStep(c)
  <3>1. Exists /\ Copies
    BY <1>3, <2>12 DEF Exists, SyncInv, Agreed
  <3>2. Current(call[c])
    BY <1>1, <1>2, <2>3 DEF Current
  <3>3. call'[c].inst.settings = row.settings
    BY <1>4, <2>2, <3>1, <3>2 DEF Copies
  <3> QED BY <1>1, <1>3, <1>6, <2>9, <3>1, <3>3 DEF AgreedStep
 <2> QED BY <1>1, <2>10, <2>11, <2>12, SyncStays
<1> QED BY <1>5, <1>6 DEF Notify

(* A caller that builds in the temporary index is alone with it.               *)
LEMMA EngineTemps ==
  ASSUME NEW c \in Caller, Shapes, SettingsShape, Step(c) \in EngineSteps, NEW d \in Batches(c), Outcome(c, d).ok,
         engine' = Outcome(c, d).engine, Shared(c) = {}, BuildsAlone, NEW o \in Caller \ {c}, Builds(o)
  PROVE  Step(c) # "tmpcreate" /\ engine'["tmp"].settings = engine["tmp"].settings
<1>1. CallSets(c, engine') /\ CallShape(call[c]) /\ ~Idle(c)
  BY OutcomeSettings, EngineStepBusy DEF Shapes
<1>2. Step(c) \notin {"tmpcreate", "tmpdelete", "tmpclean"}
 <2>1. UsesTemp(o) /\ o \in Others(c)
   BY DEF Builds, UsesTemp, Others
 <2> QED BY <2>1 DEF Shared
<1>3. Step(c) \notin {"tmpconfigure", "tmpfill", "swap"}
  BY <1>1, Middle DEF BuildsAlone
<1> QED BY <1>1, <1>2, <1>3 DEF CallSets

(* While a caller goes on, the others do not move.                            *)
LEMMA GoesOnKeeps ==
  ASSUME NEW c \in Caller, Shapes, NEW r, NEW S, GoesOn(c, r, S)
  PROVE  call'[c] = Rest(r) /\ OthersKeep(c)
<1>1. call'[c] = Rest(r)
  BY DEF GoesOn
<1>2. ASSUME NEW o \in Caller \ {c}
      PROVE  call'[o].todo = call[o].todo /\ call'[o].op = call[o].op /\ call'[o].inst = call[o].inst
 <2>1. call'[o] = IF Refills(o) THEN [call[o] EXCEPT !.dirty = @ \cup S] ELSE call[o]
   BY DEF GoesOn
 <2>2. {"todo", "op", "inst", "dirty"} \subseteq DOMAIN call[o]
   BY DEF Shapes, CallShape, NoCall
 <2> QED BY <2>1, <2>2
<1> QED BY <1>1, <1>2 DEF OthersKeep

(* A call of the engine that returns.                                          *)
LEMMA SucceedSync ==
  ASSUME NEW c \in Caller, SyncInv, Shapes, Succeed(c)
  PROVE  SyncInv'
<1>1. PICK d \in Batches(c) :
        /\ Step(c) \in EngineSteps /\ Outcome(c, d).ok /\ engine' = Outcome(c, d).engine
        /\ GoesOn(c, IF Step(c) \in {"fill", "tmpfill"} /\ ~(Pending(c) \subseteq {d})
                     THEN [call[c] EXCEPT !.docs[d] = 0]
                     ELSE [call[c] EXCEPT !.todo = Pop(c),
                             !.docs = IF Step(c) \in {"fill", "tmpfill"} THEN NoDocs ELSE @],
                  Undone(c, d))
        /\ drift' = DriftAfter(c) /\ UNCHANGED <<dep, row>>
  BY DEF Succeed
<1>2. /\ CallShape(call[c]) /\ RowShape(call[c].inst) /\ ListRight(call[c]) /\ RowShape(row) /\ SettingsShape
      /\ CallSets(c, engine') /\ \A u \in Uid : engine'[u].settings \in [Key -> Value]
  BY <1>1, OutcomeSettings DEF Shapes, SyncInv, SettingsShape, CallSets, Typed
<1>3. /\ ~Idle(c) /\ call[c].todo # <<>> /\ Step(c) = Head(call[c].todo) /\ First(call[c]) = Step(c)
      /\ Shaped(Pop(c)) /\ Ahead(c) = Among(call[c].todo)
  BY <1>1, <1>2, EngineStepBusy, NextStep DEF Idle, Ahead, Among, First
<1>4. ASSUME drift' = {} PROVE drift = {} /\ Shared(c) = {} /\ DriftAfter(c) = {}
  BY <1>1, <1>4 DEF DriftAfter
<1>5. ASSUME drift' = {}, NEW o \in Caller \ {c}, Builds(o)
      PROVE  Step(c) # "tmpcreate" /\ engine'["tmp"].settings = engine["tmp"].settings
 <2>1. BuildsAlone
   BY <1>4, <1>5 DEF SyncInv, TempsRight
 <2> QED BY <1>1, <1>2, <1>4, <1>5, <2>1, EngineTemps
<1>6. ASSUME drift' = {}, Exists
      PROVE  /\ Copies
             /\ Holds(engine, row.settings) => Holds(engine', row.settings)
             /\ Step(c) \in {"push", "configure"} => Holds(engine', row.settings)
 <2>1. Copies /\ TempRight(c)
   BY <1>4, <1>6 DEF SyncInv, Agreed, TempsRight
 <2> QED BY <1>1, <1>2, <1>4, <1>6, <2>1, CallHolds
<1>7. CASE Step(c) \in {"fill", "tmpfill"} /\ ~(Pending(c) \subseteq {d})
 <2> DEFINE r == [call[c] EXCEPT !.docs[d] = 0]
 <2>1. call'[c] = Rest(r) /\ OthersKeep(c)
  <3>1. GoesOn(c, r, Undone(c, d))
    BY <1>1, <1>7
  <3> HIDE DEF r
  <3> QED BY <3>1, GoesOnKeeps
 <2>2. r.todo = call[c].todo /\ r.op = call[c].op /\ r.inst = call[c].inst
   BY <1>2 DEF CallShape, NoCall
 <2> HIDE DEF r
 <2>3. call'[c].todo = call[c].todo /\ call'[c].op = call[c].op /\ call'[c].inst = call[c].inst
   BY <1>3, <2>1, <2>2 DEF Rest
 <2>4. Ahead(c)' = Ahead(c) /\ (Builds(c)' <=> Builds(c))
   BY <2>3, SameList
 <2>5. StepShape(c)
   BY <1>1, <1>2, <2>1, <2>3 DEF StepShape, ListRight
 <2>6. ASSUME drift' = {} PROVE TempStep(c)
  <3>1. TempRight(c)
    BY <1>4, <2>6 DEF SyncInv, TempsRight
  <3>2. engine'["tmp"].settings = engine["tmp"].settings
    BY <1>2, <1>7 DEF CallSets
  <3>3. Configures(c)' => Configures(c)
    BY <1>1, <2>3, <2>4 DEF Configures, be
  <3>4. TempRight(c)'
    BY <2>3, <3>1, <3>2, <3>3 DEF TempRight, HasSettings
  <3> QED BY <2>4, <1>5, <2>6, <3>4 DEF TempStep
 <2>7. ASSUME drift' = {}, Exists' PROVE AgreedStep(c)
  <3>1. Exists
    BY <1>1, <2>7 DEF Exists
  <3>2. Owed(call[c])' <=> Owed(call[c])
    BY <1>1, <2>3 DEF Owed, Current, First
  <3>3. Current(call'[c]) => call'[c].inst.settings = row.settings
    BY <1>6, <2>3, <2>7, <3>1 DEF Copies, Current
  <3>4. First(call'[c]) # "mark"
    BY <1>3, <1>7, <2>3 DEF First
  <3> QED BY <1>1, <1>6, <2>7, <3>1, <3>2, <3>3, <3>4 DEF AgreedStep
 <2> QED BY <1>4, <2>5, <2>6, <2>7, SyncStays
<1>8. CASE ~(Step(c) \in {"fill", "tmpfill"} /\ ~(Pending(c) \subseteq {d}))
 <2> DEFINE docs == IF Step(c) \in {"fill", "tmpfill"} THEN NoDocs ELSE call[c].docs
            r == [call[c] EXCEPT !.todo = Pop(c), !.docs = docs]
 <2>1. call'[c] = Rest(r) /\ OthersKeep(c)
  <3>1. GoesOn(c, r, Undone(c, d))
    BY <1>1, <1>8
  <3> HIDE DEF r
  <3> QED BY <3>1, GoesOnKeeps
 <2>2. /\ r.todo = Pop(c) /\ r.op = call[c].op /\ r.inst = call[c].inst
       /\ DOMAIN r = DOMAIN NoCall /\ r.docs = docs /\ r.dirty = call[c].dirty
   BY <1>2 DEF CallShape, NoCall
 <2>3. docs \in [Doc -> Nat]
   BY <1>2, EmptyIndexes DEF CallShape
 <2> HIDE DEF r, docs
 <2>4. CallShape(r)
   BY <1>2, <1>3, <2>2, <2>3 DEF CallShape
 <2>5. /\ RowShape(call'[c].inst) /\ ListRight(call'[c])
       /\ Current(call'[c]) => /\ Current(call[c]) \/ Step(c) \in {"insert", "save"}
                              /\ call'[c].inst.settings = call[c].inst.settings
       /\ First(call'[c]) = "mark" => Step(c) \in {"push", "configure"}
       /\ Owed(call[c]) /\ Step(c) # "push" /\ (Step(c) = "notify" => ~dep.autosync) => Owed(call'[c])
       /\ Builds(c)' => Builds(c) \/ Step(c) = "tmpcreate"
       /\ Configures(c)' =>
            /\ call'[c].inst.settings = call[c].inst.settings
            /\ Configures(c) \/ Step(c) \in {"tmpcreate", "tmpconfigure"}
   BY <1>1, <1>2, <1>3, <2>1, <2>2, <2>4, Popped
 <2>6. StepShape(c)
   BY <1>1, <1>2, <2>1, <2>5 DEF StepShape
 <2>7. call'[c].todo = Pop(c) /\ Ahead(c)' = Among(Pop(c))
   BY <2>1, <2>2, <2>4, RestEffect DEF Ahead, Among
 <2>8. ASSUME drift' = {} PROVE TempStep(c)
  <3>1. TempRight(c)
    BY <1>4, <2>8 DEF SyncInv, TempsRight
  <3>2. Builds(c)' => Builds(c) \/ \A o \in Caller \ {c} : ~Builds(o)
    BY <1>5, <2>5, <2>8
  <3>3. ASSUME Configures(c)' PROVE HasSettings(engine', "tmp", call'[c].inst.settings)
   <4>1. Builds(c)' /\ "tmpconfigure" \notin Among(Pop(c)) /\ "swap" \in Among(Pop(c))
     BY <2>7, <3>3 DEF Configures, Builds
   <4>2. Step(c) # "tmpcreate"
     BY <1>2, <4>1, ReindexStep DEF Documentary, After
   <4>3. CASE Step(c) = "tmpconfigure"
    <5>1. be \notin AliasOnly \cup Unswappable /\ call[c].inst.settings["ranking_rules"] = "missing"
      BY <1>1, <2>5, <3>3 DEF Configures, be
    <5> QED BY <1>1, <1>2, <2>5, <3>3, <4>3, <5>1, TempConfigured
   <4>4. CASE Step(c) # "tmpconfigure"
    <5>1. Configures(c) /\ Builds(c)
      BY <2>5, <3>3, <4>2, <4>4 DEF Configures
    <5>2. Step(c) \in {"tmpread", "tmpfill", "swap"}
      BY <1>2, <1>3, <4>4, <5>1, Middle
    <5>3. Step(c) = "tmpfill"
     <6>1. Step(c) # "swap"
       BY <1>2, <4>1, ReindexStep DEF Documentary, After
     <6> QED BY <1>1, <5>2, <6>1 DEF EngineSteps
    <5>4. engine'["tmp"].settings = engine["tmp"].settings
      BY <1>2, <5>3 DEF CallSets
    <5> QED BY <2>5, <3>1, <3>3, <5>1, <5>4 DEF TempRight, HasSettings
   <4> QED BY <4>3, <4>4
  <3> QED BY <1>5, <2>8, <3>2, <3>3 DEF TempStep, TempRight
 <2>9. ASSUME drift' = {}, Exists' PROVE AgreedStep(c)
  <3>1. Exists
    BY <1>1, <2>9 DEF Exists
  <3>2. Step(c) \notin {"insert", "save", "notify"}
    BY <1>1 DEF EngineSteps
  <3>3. Current(call'[c]) => call'[c].inst.settings = row.settings
    BY <1>6, <2>5, <2>9, <3>1, <3>2 DEF Copies
  <3>4. First(call'[c]) = "mark" => Holds(engine', row.settings)
    BY <1>6, <2>5, <2>9, <3>1
  <3>5. Owed(call[c]) => Holds(engine', row.settings) \/ Owed(call[c])'
    BY <1>1, <1>6, <2>5, <2>9, <3>1, <3>2, OwedNext
  <3> QED BY <1>1, <1>6, <2>9, <3>1, <3>3, <3>4, <3>5 DEF AgreedStep
 <2> QED BY <1>4, <2>6, <2>8, <2>9, SyncStays
<1> QED BY <1>7, <1>8

(* What a call goes on with after an error: nothing that writes, builds, or    *)
(* marks the row.                                                              *)
LEMMA ErrorRight ==
  ASSUME NEW c \in Caller, Shapes, SettingsShape, ListRight(call[c]), Step(c) \in EngineSteps, NEW S,
         GoesOn(c, [call[c] EXCEPT !.todo = OnError(c), !.dirty = {}], S)
  PROVE  /\ OthersKeep(c) /\ RowShape(call'[c].inst) /\ ListRight(call'[c])
         /\ Current(call'[c]) => Current(call[c]) /\ call'[c].inst.settings = call[c].inst.settings
         /\ First(call'[c]) # "mark" /\ ~Builds(c)'
<1> DEFINE r == [call[c] EXCEPT !.todo = OnError(c), !.dirty = {}]
<1>1. CallShape(call[c]) /\ RowShape(call[c].inst) /\ ~Idle(c)
  BY EngineStepBusy DEF Shapes, SettingsShape
<1>2. CallShape(r) /\ r.todo = OnError(c) /\ r.op = call[c].op /\ r.inst = call[c].inst
 <2>1. r.op = call[c].op /\ r.inst = call[c].inst
   BY <1>1 DEF CallShape, NoCall
 <2> QED BY <1>1, <2>1, FailureShape
<1>3. call'[c] = Rest(r) /\ OthersKeep(c)
  BY GoesOnKeeps
<1> HIDE DEF r
<1>4. RowShape(call'[c].inst) /\ CallShape(call'[c]) /\ call'[c].todo = OnError(c)
  BY <1>1, <1>2, <1>3, RestRow
<1>5. Step(c) \notin {"insert", "save", "mark"}
  BY DEF EngineSteps
<1>6. CASE Step(c) \in {"clear", "tmpdelete", "tmpclean"}
 <2>1. r.todo = Pop(c)
   BY <1>2, <1>6 DEF OnError
 <2>2. /\ ListRight(call'[c])
       /\ Current(call'[c]) => /\ Current(call[c]) \/ Step(c) \in {"insert", "save"}
                              /\ call'[c].inst.settings = call[c].inst.settings
       /\ First(call'[c]) = "mark" => Step(c) \in {"push", "configure"}
       /\ Builds(c)' => Builds(c) \/ Step(c) = "tmpcreate"
   BY <1>1, <1>2, <1>3, <2>1, Popped
 <2>3. ~Builds(c)
   BY <1>1, <1>6, Middle
 <2> QED BY <1>3, <1>4, <1>5, <1>6, <2>2, <2>3
<1>7. CASE Step(c) \notin {"clear", "tmpdelete", "tmpclean"}
 <2>1. OnError(c) \in PlainReindexes
   BY <1>7 DEF OnError, PlainReindexes
 <2>2. /\ Following(OnError(c)) /\ (OnError(c) # <<>> => Head(OnError(c)) # "mark")
       /\ Among(OnError(c)) \cap {"insert", "save", "notify", "provision", "configure", "push", "mark"} = {}
   BY <2>1, PlainListsRight
 <2>3. ListRight(call'[c]) /\ ~Current(call'[c]) /\ First(call'[c]) # "mark"
   BY <1>4, <2>2 DEF ListRight, Current, First
 <2>4. NotBegun(call'[c].todo)
   BY <1>1, <1>4, <1>7, ErrorList
 <2> QED BY <1>3, <1>4, <2>3, <2>4, CallerKindNext
<1> QED BY <1>6, <1>7

(* An error of the engine, with or without effect. A push that was owed is a   *)
(* cause when it fails.                                                        *)
LEMMA FailSync ==
  ASSUME NEW c \in Caller, SyncInv, Shapes, Step(c) \in EngineSteps, NEW S, Fail(c, S), dep' = dep,
         \/ engine' = engine /\ drift' = drift \cup DriftBy(c)
         \/ \E d \in Batches(c) : /\ Outcome(c, d).ok /\ engine' = Outcome(c, d).engine
                                  /\ drift' = DriftAfter(c) \cup DriftBy(c)
  PROVE  SyncInv'
<1>1. /\ SettingsShape /\ ListRight(call[c]) /\ CallShape(call[c]) /\ RowShape(row) /\ row' = row
      /\ \A u \in Uid : engine[u].settings \in [Key -> Value]
  BY DEF Fail, SyncInv, SettingsShape, Shapes
<1>2. /\ OthersKeep(c) /\ RowShape(call'[c].inst) /\ ListRight(call'[c])
      /\ Current(call'[c]) => Current(call[c]) /\ call'[c].inst.settings = call[c].inst.settings
      /\ First(call'[c]) # "mark" /\ ~Builds(c)'
  BY <1>1, ErrorRight DEF Fail
<1>3. First(call[c]) \in EngineSteps
  BY <1>1, EngineStepBusy DEF First, Step, Idle
<1>4. ASSUME drift' = {} PROVE drift = {} /\ ~Owed(call[c])
 <2>1. drift = {} /\ DriftBy(c) = {}
   BY <1>4 DEF DriftAfter
 <2> QED BY <1>3, <2>1 DEF DriftBy, Owed, EngineSteps
<1>5. \A u \in Uid : engine'[u].settings \in [Key -> Value]
 <2>1. ASSUME NEW d \in Batches(c), Outcome(c, d).ok, engine' = Outcome(c, d).engine
       PROVE  \A u \in Uid : engine'[u].settings \in [Key -> Value]
   BY <1>1, <2>1, OutcomeSettings DEF CallSets, Typed
 <2> QED BY <1>1, <2>1
<1>6. ASSUME drift' = {}, NEW o \in Caller \ {c}, Builds(o) PROVE engine'["tmp"].settings = engine["tmp"].settings
 <2>1. ASSUME NEW d \in Batches(c), Outcome(c, d).ok, engine' = Outcome(c, d).engine,
              drift' = DriftAfter(c) \cup DriftBy(c)
       PROVE  engine'["tmp"].settings = engine["tmp"].settings
  <3>1. Shared(c) = {} /\ BuildsAlone
    BY <1>4, <1>6, <2>1 DEF DriftAfter, SyncInv, TempsRight
  <3> QED BY <1>1, <1>6, <2>1, <3>1, EngineTemps
 <2> QED BY <2>1
<1>7. ASSUME drift' = {}, Exists PROVE Copies /\ (Holds(engine, row.settings) => Holds(engine', row.settings))
 <2>1. Copies /\ TempRight(c)
   BY <1>4, <1>7 DEF SyncInv, Agreed, TempsRight
 <2>2. ASSUME NEW d \in Batches(c), Outcome(c, d).ok, engine' = Outcome(c, d).engine,
              drift' = DriftAfter(c) \cup DriftBy(c)
       PROVE  Holds(engine, row.settings) => Holds(engine', row.settings)
  <3>1. DriftAfter(c) = {}
    BY <1>7, <2>2
  <3> QED BY <1>1, <2>1, <2>2, <3>1, CallHolds
 <2> QED BY <2>1, <2>2
<1>8. StepShape(c)
  BY <1>1, <1>2, <1>5 DEF StepShape
<1>9. ASSUME drift' = {} PROVE TempStep(c)
  BY <1>2, <1>6, <1>9 DEF TempStep, TempRight, Configures
<1>10. ASSUME drift' = {}, Exists' PROVE AgreedStep(c)
 <2>1. Exists
   BY <1>1, <1>10 DEF Exists
 <2>2. Current(call'[c]) => call'[c].inst.settings = row.settings
   BY <1>2, <1>7, <1>10, <2>1 DEF Copies
 <2> QED BY <1>1, <1>2, <1>4, <1>7, <1>10, <2>1, <2>2 DEF AgreedStep
<1> QED BY <1>4, <1>8, <1>9, <1>10, SyncStays

(* In the beginning the engine holds the settings of the row.                  *)
LEMMA InitSync == Init => SyncInv
<1> SUFFICES ASSUME Init PROVE SyncInv
  OBVIOUS
<1>1. \A c \in Caller : call[c] = NoCall
  BY DEF Init
<1>2. NoCall.todo = <<>> /\ NoCall.inst = NoRow /\ RowShape(NoRow) /\ NoRow.pk = 0
  BY DEF NoCall, NoRow, RowShape, NoSettings, Value
<1>3. \A c \in Caller : ListRight(call[c]) /\ ~Current(call[c]) /\ First(call[c]) # "mark"
  BY <1>1, <1>2, NothingLeft
<1>4. \A c \in Caller : ~Builds(c)
  BY <1>1, <1>2, Lists DEF Builds, Ahead, Among
<1>5. Copies /\ Marks /\ TempsRight
  BY <1>3, <1>4 DEF Copies, Marks, TempsRight, BuildsAlone, TempRight, Configures
<1>6. /\ RowShape(row) /\ \A u \in Uid : engine[u].settings \in [Key -> Value]
      /\ Exists => Holds(engine, row.settings)
 <2>1. CASE row = NoRow /\ engine = [u \in Uid |-> NoIndex]
   BY <1>2, <2>1 DEF Exists, NoIndex, NoSettings, Value
 <2>2. ASSUME NEW s \in {NoSettings, [NoSettings EXCEPT !["stopWords"] = "custom"]},
              row = [pk |-> 1, settings |-> s, synced |-> TRUE],
              engine = [u \in Uid |-> IF u # "live" THEN NoIndex
                          ELSE [FreshIndex EXCEPT !.settings = Merge(@, s, Filled(s, Carried(be)))]]
       PROVE  /\ RowShape(row) /\ \A u \in Uid : engine[u].settings \in [Key -> Value]
              /\ Holds(engine, row.settings)
  <3> DEFINE m == Merge(NoSettings, s, Filled(s, Carried(be)))
             x == [FreshIndex EXCEPT !.settings = m]
  <3>1. s \in [Key -> Value] /\ s["ranking_rules"] = "missing" /\ \A k \in Key : s[k] \in {"missing", "custom"}
    BY DEF NoSettings, Key, Value
  <3>2. FreshIndex.settings = NoSettings /\ NoIndex.settings = NoSettings /\ NoSettings \in [Key -> Value]
        /\ x.settings = m /\ x.there
    BY DEF FreshIndex, NoIndex, NoSettings, Value
  <3>3. engine = [u \in Uid |-> IF u # "live" THEN NoIndex ELSE x]
    BY <2>2, <3>2
  <3>4. m \in [Key -> Value] /\ \A k \in Key : m[k] = IF k \in Filled(s, Carried(be)) THEN s[k] ELSE "missing"
    BY <3>1, <3>2 DEF Merge, NoSettings
  <3> HIDE DEF m, x
  <3>5. "live" \in Uid /\ engine["live"].settings = m /\ engine["live"].there
    BY <3>2, <3>3, DeploymentsAssumption
  <3>6. \A u \in Uid : engine[u].settings \in [Key -> Value]
    BY <3>2, <3>3, <3>4
  <3>7. row.settings = s /\ RowShape(row)
    BY <2>2, <3>1 DEF RowShape, NoRow
  <3>8. be \in Backend /\ Carried(be) \subseteq Key
    BY DeploymentsAssumption DEF Init, Deployment, be, Backend, Carried, Key, opensearch_carried
  <3>9. ASSUME NEW k \in Carried(be), s[k] # "missing" PROVE get_settings(be, engine, "live")[k] = s[k]
   <4>1. s[k] = "custom" /\ m[k] = "custom"
     BY <3>1, <3>4, <3>8, <3>9 DEF Filled
   <4>2. CASE be \in {"dummy", "postgres", "meilisearch"}
     BY <3>5, <4>1, <4>2 DEF get_settings
   <4>3. CASE be = "opensearch"
     BY <3>4, <3>5, <3>8, <3>9, <4>1, <4>3 DEF get_settings, opensearch_reports, Listed, Carried, opensearch_carried, Key
   <4>4. CASE be \in {"typesense", "solr"}
     BY <3>4, <3>5, <3>8, <3>9, <4>1, <4>4 DEF get_settings, typesense_reports, solr_reports, Listed, Carried, Key
   <4>5. CASE be = "vespa"
     BY <3>9, <4>5 DEF Carried
   <4> QED BY <3>8, <4>2, <4>3, <4>4, <4>5 DEF Backend
  <3>10. Normalized(s) = s
    BY <3>1, NormalizedPlain
  <3> QED BY <3>6, <3>7, <3>9, <3>10 DEF Holds
 <2> QED BY <2>1, <2>2 DEF Init
<1>7. SettingsShape
  BY <1>1, <1>2, <1>6 DEF SettingsShape
<1> QED BY <1>3, <1>5, <1>6, <1>7 DEF SyncInv, Agreed, Debts

(* A clear that returns early is a step like any other of a reindex.           *)
LEMMA ReturnSync ==
  ASSUME NEW c \in Caller, SyncInv, Shapes, ReturnEarly(c)
  PROVE  SyncInv'
<1> DEFINE r == [call[c] EXCEPT !.todo = Pop(c)]
<1>1. /\ CallShape(call[c]) /\ RowShape(call[c].inst) /\ RowShape(row) /\ Step(c) = "clear"
      /\ GoesOn(c, r, {}) /\ UNCHANGED <<dep, row, engine, drift>>
  BY DEF Shapes, SyncInv, SettingsShape, ReturnEarly
<1>2. ~Idle(c)
  BY <1>1 DEF Step
<1>3. Shaped(Pop(c))
  BY <1>1, <1>2, NextStep
<1>4. /\ DOMAIN r = DOMAIN NoCall /\ r.todo = Pop(c) /\ r.docs = call[c].docs /\ r.dirty = call[c].dirty
      /\ r.op = call[c].op /\ r.inst = call[c].inst
  BY <1>1 DEF CallShape, NoCall
<1> HIDE DEF r
<1>5. CallShape(r)
  BY <1>1, <1>3, <1>4 DEF CallShape
<1>6. call'[c] = Rest(r) /\ OthersKeep(c)
  BY <1>1, GoesOnKeeps
<1> QED BY <1>1, <1>2, <1>4, <1>5, <1>6, PopSync

(* What the engine deletes later leaves the settings alone.                    *)
LEMMA DeletionSync ==
  ASSUME SyncInv, Shapes, DeleteByQuery
  PROVE  SyncInv'
<1>1. UNCHANGED <<dep, row, drift, call>> /\ SettingsShape /\ EngineShape(engine) /\ "live" \in Uid /\ "tmp" \in Uid
  BY DeploymentsAssumption DEF DeleteByQuery, SyncInv, Shapes
<1>2. \A u \in Uid : engine'[u].settings = engine[u].settings
  BY <1>1 DEF DeleteByQuery, Store, EngineShape, NoIndex
<1>3. SettingsShape' /\ \A c \in Caller : ListRight(call'[c])
  BY <1>1, <1>2 DEF SyncInv, SettingsShape
<1>4. Holds(engine', row.settings) <=> Holds(engine, row.settings)
  BY <1>1, <1>2, SameHolds
<1>5. Holds(engine, row.settings)' <=> Holds(engine, row.settings)
  BY <1>1, <1>4, HoldsNext
<1>6. Agreed => Agreed'
  BY <1>1, <1>5 DEF Agreed, Exists, Copies, Marks, Debts, Owed
<1>7. TempsRight => TempsRight'
  BY <1>1, <1>2 DEF TempsRight, BuildsAlone, TempRight, Configures, HasSettings, Builds, Ahead, be
<1> QED BY <1>1, <1>3, <1>6, <1>7 DEF SyncInv

(* One step keeps the invariant.                                               *)
LEMMA StepSyncs ==
  ASSUME SyncInv, Shapes, [Next]_vars
  PROVE  SyncInv'
<1>1. CASE UNCHANGED vars
  BY <1>1, StutterSync DEF vars
<1>2. CASE Next
 <2>1. PICK c \in Caller :
         \/ CreateIndex(c) \/ UpdateSettings(c) \/ DeleteIndex(c) \/ Reindex(c) \/ WriteRow(c)
         \/ SyncTask(c) \/ SyncAll(c)
         \/ Act(c) \/ ReturnEarly(c) \/ Fault(c) \/ Kill(c) \/ DeleteByQuery
   BY <1>2 DEF Next
 <2>2. CASE CreateIndex(c) \/ UpdateSettings(c) \/ DeleteIndex(c) \/ Reindex(c)
   BY <2>2, BeginningsSync
 <2>3. CASE WriteRow(c) \/ SyncTask(c) \/ SyncAll(c)
   BY <2>3, WriteSync, TasksSync
 <2>4. CASE Save(c) \/ Notify(c) \/ Mark(c) \/ Drop(c) \/ Read(c)
   BY <2>4, SaveSync, NotifySync, DatabaseSync
 <2>5. CASE Succeed(c)
   BY <2>5, SucceedSync
 <2>6. CASE Refused(c)
  <3>1. Step(c) \in EngineSteps /\ Fail(c, {}) /\ dep' = dep /\ engine' = engine /\ drift' = drift \cup DriftBy(c)
    BY <2>6 DEF Refused, Fail
  <3> QED BY <3>1, FailSync
 <2>7. CASE Fault(c)
  <3>1. Step(c) \in EngineSteps
    BY <2>7 DEF Fault
  <3>2. CASE Fail(c, {}) /\ dep' = dep /\ engine' = engine /\ drift' = drift \cup DriftBy(c)
    BY <3>1, <3>2, FailSync
  <3>3. ASSUME NEW d \in Batches(c), Fail(c, Undone(c, d)), dep' = dep, Outcome(c, d).ok,
               engine' = Outcome(c, d).engine, drift' = DriftAfter(c) \cup DriftBy(c)
        PROVE  SyncInv'
    BY <3>1, <3>3, FailSync
  <3> QED BY <2>7, <3>2, <3>3 DEF Fault, Fail
 <2>8. CASE Kill(c)
   BY <2>8, KillSync
 <2>9. CASE ReturnEarly(c) \/ DeleteByQuery
   BY <2>9, ReturnSync, DeletionSync
 <2> QED BY <2>1, <2>2, <2>3, <2>4, <2>5, <2>6, <2>7, <2>8, <2>9 DEF Act
<1> QED BY <1>1, <1>2

(* The invariant of the settings holds in every state.                         *)
THEOREM SyncInvariant == Spec => []SyncInv
<1>1. Init => SyncInv
  BY InitSync
<1>2. SyncInv /\ IndexInv /\ [Next]_vars => SyncInv'
  BY StepSyncs DEF IndexInv, DocsInv
<1>3. Spec => []IndexInv
  BY IndexInvariant
<1> QED BY <1>1, <1>2, <1>3, PTL DEF Spec

(* A row that says is_synced is one whose settings the engine holds, whatever  *)
(* creations, updates, deletes, reindexes, tasks, errors, retries and kills    *)
(* went before, but for the causes that are named: on_search_index_save        *)
(* withdraws the flag before it pushes, and mark_synced comes after a push.    *)
THEOREM SyncedRowsAreHeld == Spec => []SyncedUnlessDrift
<1>1. SyncInv => SyncedUnlessDrift
 <2>1. SUFFICES ASSUME SyncInv, AtRest, Exists, row.synced, drift = {} PROVE Holds(engine, row.settings)
   BY DEF SyncedUnlessDrift
 <2>2. Holds(engine, row.settings) \/ \E c \in Caller : Owed(call[c])
   BY <2>1 DEF SyncInv, Agreed, Debts
 <2>3. \A c \in Caller : ~Owed(call[c])
   BY <2>1, NothingLeft DEF AtRest, Idle
 <2> QED BY <2>2, <2>3
<1> QED BY <1>1, SyncInvariant, PTL
=============================================================================
