-------------------------- MODULE AutoIndexProofs --------------------------
(***************************************************************************)
(* Proofs about AutoIndex, for every number of rows, clients and workers   *)
(* and any number of retries and failures: the engine agrees with the      *)
(* database on every row at rest that is not one of the named gaps, and a  *)
(* buffer is left to nobody only by the marker, a lost flush or a kill.    *)
(***************************************************************************)
EXTENDS AutoIndex, TLAPS

Number == {0} \cup Change

Locks(c, d) == client[c].at # "idle" /\ client[c].atomic /\ client[c].item.doc = d
Holds(c, d) == client[c].at \in InHand /\ client[c].item.doc = d
Writes(c, d) == client[c].at \in {"append", "write"} /\ client[c].item.doc = d
Owes(c, d) ==
  client[c].at \in {"engine", "delay", "append", "write"} /\ client[c].item.doc = d
Copies(c, d) == client[c].at = "write" /\ d \in DocsOf(client[c].seen)

\* v is the value of the last copy of d in q.
EndsWith(q, d, v) == \E n \in DOMAIN q :
  /\ q[n].doc = d /\ Value(q[n]) = v
  /\ \A k \in DOMAIN q : q[k].doc = d => k <= n

\* Every document in q has a last copy.
HasLast(q) == \A d \in DocsOf(q) : \E n \in DOMAIN q :
  q[n].doc = d /\ \A k \in DOMAIN q : q[k].doc = d => k <= n

LastCopies ==
  /\ HasLast(buffer)
  /\ \A c \in Client : client[c].at = "write" => HasLast(client[c].seen)
  /\ \A w \in Worker : HasLast(flusher[w].docs)

OneLock ==
  /\ \A d \in Doc : \A b, c \in Client : Locks(b, d) /\ Locks(c, d) => b = c
  /\ \A c \in Client : client[c].at = "commit" => client[c].atomic

(***************************************************************************)
(* The heart of the invariant.  v is what the engine should hold of d in   *)
(* the end: the row, or what an open transaction will make of it.  Then    *)
(* whatever is on its way to the engine and last in its place is v, unless *)
(* a client has a newer document that is not yet in the buffer; that       *)
(* client is then the only one that has anything of d.                     *)
(***************************************************************************)
Target(d, v) ==
  /\ \A c \in Client : Locks(c, d) => Value(client[c].item) = v
  /\ (\A c \in Client : ~Locks(c, d)) => rows[d] = v

\* Nothing of d is still to reach the engine.  A client that has written its
\* document to the buffer leaves it to the flush, a flush that has not cleared
\* the buffer may yet leave it to the next.
Delivered(d) ==
  /\ \A c \in Client : ~Owes(c, d)
  /\ \A t \in tasks : t.item.doc # d
  /\ \A w \in Worker : flusher[w].at = "send" => d \notin DocsOf(flusher[w].docs)
  /\ d \notin DocsOf(buffer)

Agreed(d, v) ==
  /\ \A c \in Client : Holds(c, d) => Value(client[c].item) = v
  /\ \A t \in tasks : t.item.doc = d => Value(t.item) = v
  /\ \A w \in Worker : d \in DocsOf(flusher[w].docs) => EndsWith(flusher[w].docs, d, v)
  /\ (\A c \in Client : ~Writes(c, d)) /\ d \in DocsOf(buffer) => EndsWith(buffer, d, v)
  /\ \A c \in Client : Copies(c, d) /\ ~Writes(c, d) => EndsWith(client[c].seen, d, v)
  /\ Delivered(d) => live[d] = v

Alone(d) == \A c \in Client : Writes(c, d) =>
  /\ \A b \in Client \ {c} : ~Holds(b, d) /\ ~Copies(b, d)
  /\ \A t \in tasks : t.item.doc # d
  /\ \A w \in Worker : d \notin DocsOf(flusher[w].docs)

Coherent(d) == Alone(d) /\ \E v \in Number : Target(d, v) /\ Agreed(d, v)

IInv == TypeOK /\ LastCopies /\ OneLock /\ \A d \in Doc \ gap : Coherent(d)

-----------------------------------------------------------------------------
\* What a call of the engine with the documents of q makes of each row.
LEMMA IndexedFacts ==
  ASSUME NEW q \in Seq(Item), HasLast(q), live \in [Doc -> Number]
  PROVE  /\ Indexed(q) \in [Doc -> Number]
         /\ \A d \in Doc : d \notin DocsOf(q) => Indexed(q)[d] = live[d]
         /\ \A d \in Doc, v \in Number : EndsWith(q, d, v) => Indexed(q)[d] = v
<1>1. \A i \in Item : Value(i) \in Number
  BY DEF Item, Value, Number
<1>2. \A n \in DOMAIN q : q[n] \in Item /\ n \in Int
  OBVIOUS
<1>3. ASSUME NEW d \in DocsOf(q)
      PROVE  /\ LastOf(q, d) \in DOMAIN q
             /\ q[LastOf(q, d)].doc = d
             /\ \A k \in DOMAIN q : q[k].doc = d => k <= LastOf(q, d)
  BY <1>3 DEF HasLast, LastOf
<1>4. ASSUME NEW d \in Doc, NEW v \in Number, EndsWith(q, d, v)
      PROVE  Indexed(q)[d] = v
 <2>1. PICK n \in DOMAIN q : q[n].doc = d /\ Value(q[n]) = v
                             /\ \A k \in DOMAIN q : q[k].doc = d => k <= n
   BY <1>4 DEF EndsWith
 <2>2. d \in DocsOf(q)
   BY <2>1 DEF DocsOf
 <2>3. LastOf(q, d) = n
   BY <1>2, <1>3, <2>1, <2>2
 <2> QED
   BY <2>1, <2>2, <2>3 DEF Indexed
<1>5. Indexed(q) \in [Doc -> Number]
 <2>1. ASSUME NEW d \in Doc PROVE Indexed(q)[d] \in Number
   BY <1>1, <1>2, <1>3 DEF Indexed
 <2> QED
   BY <2>1 DEF Indexed
<1>6. \A d \in Doc : d \notin DocsOf(q) => Indexed(q)[d] = live[d]
  BY DEF Indexed
<1> QED
  BY <1>4, <1>5, <1>6

\* A document alone, and one behind others.
LEMMA SingleFacts ==
  ASSUME NEW i \in Item
  PROVE  /\ <<i>> \in Seq(Item) /\ DocsOf(<<i>>) = {i.doc} /\ HasLast(<<i>>)
         /\ EndsWith(<<i>>, i.doc, Value(i))
<1>1. DOMAIN <<i>> = {1} /\ <<i>>[1] = i
  OBVIOUS
<1>2. DocsOf(<<i>>) = {i.doc}
  BY <1>1 DEF DocsOf
<1> QED
  BY <1>1, <1>2 DEF HasLast, EndsWith

LEMMA AppendFacts ==
  ASSUME NEW q \in Seq(Item), NEW i \in Item, HasLast(q)
  PROVE  /\ Append(q, i) \in Seq(Item)
         /\ DocsOf(Append(q, i)) = DocsOf(q) \cup {i.doc}
         /\ HasLast(Append(q, i))
         /\ EndsWith(Append(q, i), i.doc, Value(i))
         /\ \A d, v : d # i.doc /\ EndsWith(q, d, v) => EndsWith(Append(q, i), d, v)
<1> DEFINE a == Append(q, i)
           n == Len(q) + 1
<1>1. /\ a \in Seq(Item) /\ n \in Nat /\ DOMAIN a = 1..n /\ DOMAIN q = 1..Len(q)
      /\ a[n] = i /\ \A k \in DOMAIN q : a[k] = q[k] /\ k \in DOMAIN a /\ k < n
      /\ \A k \in DOMAIN a : k = n \/ k \in DOMAIN q
  OBVIOUS
<1>2. n \in DOMAIN a /\ \A k \in DOMAIN a : k <= n
  BY <1>1
<1> HIDE DEF a, n
<1>3. DocsOf(a) = DocsOf(q) \cup {i.doc}
  BY <1>1, <1>2 DEF DocsOf
<1>4. EndsWith(a, i.doc, Value(i))
  BY <1>1, <1>2 DEF EndsWith
<1>5. ASSUME NEW d, d # i.doc, NEW m \in DOMAIN q, q[m].doc = d,
             \A k \in DOMAIN q : q[k].doc = d => k <= m
      PROVE  a[m].doc = d /\ m \in DOMAIN a /\ a[m] = q[m]
             /\ \A k \in DOMAIN a : a[k].doc = d => k <= m
  BY <1>1, <1>5
<1>6. \A d, v : d # i.doc /\ EndsWith(q, d, v) => EndsWith(a, d, v)
  BY <1>5 DEF EndsWith
<1>7. HasLast(a)
 <2> SUFFICES ASSUME NEW d \in DocsOf(a)
              PROVE  \E m \in DOMAIN a :
                       a[m].doc = d /\ \A k \in DOMAIN a : a[k].doc = d => k <= m
   BY DEF HasLast
 <2>1. CASE d = i.doc
   BY <1>1, <1>2, <2>1
 <2>2. CASE d # i.doc
  <3>1. PICK m \in DOMAIN q : q[m].doc = d /\ \A k \in DOMAIN q : q[k].doc = d => k <= m
    BY <1>3, <2>2 DEF HasLast
  <3> QED
    BY <1>5, <2>2, <3>1
 <2> QED
   BY <2>1, <2>2
<1> QED
  BY <1>1, <1>3, <1>4, <1>6, <1>7 DEF a

LEMMA EmptyFacts == HasLast(<<>>) /\ DocsOf(<<>>) = {} /\ <<>> \in Seq(Item)
BY DEF HasLast, DocsOf

\* Types of what a client holds, and of its record after a move.
LEMMA BusyFacts ==
  ASSUME TypeOK, NEW c \in Client, client[c].at # "idle"
  PROVE  /\ client[c] \in Busy /\ client[c].item \in Item /\ client[c].item.doc \in Doc
         /\ client[c].at \in Places \ {"idle"} /\ client[c].atomic \in BOOLEAN
         /\ client[c].seen \in Seq(Item)
<1>1. client[c] \in Busy
  BY DEF TypeOK, Idle
<1> QED
  BY <1>1 DEF Busy, Item

LEMMA ValueType == \A i \in Item : Value(i) \in Number
BY DEF Item, Value, Number

\* A client goes to another place, keeping what it holds, or ends.
Moved(r, s) ==
  \/ s = Idle
  \/ /\ s \in Busy /\ s.item = r.item /\ s.atomic = r.atomic
     /\ s.at = "commit" => r.atomic
     /\ s.at = "write" => s.seen = r.seen /\ r.at = "write"

LEMMA LeavesFacts ==
  ASSUME TypeOK, NEW c \in Client, client[c].at # "idle", Leaves(c)
  PROVE  \E s \in {Idle} \cup Busy :
           /\ client' = [client EXCEPT ![c] = s] /\ Moved(client[c], s)
           /\ IF client[c].atomic THEN s.at = "commit" ELSE s = Idle
<1>1. CASE client[c].atomic
 <2> DEFINE s == [client[c] EXCEPT !.at = "commit", !.seen = <<>>]
 <2>0. client[c] \in Busy /\ <<>> \in Seq(Item) /\ "commit" \in Places \ {"idle"}
   BY BusyFacts, EmptyFacts DEF Places
 <2>1. s \in Busy /\ s.at = "commit" /\ s.item = client[c].item /\ s.atomic = client[c].atomic
   BY <2>0 DEF Busy
 <2>2. client' = [client EXCEPT ![c] = s]
   BY <1>1 DEF Leaves
 <2> HIDE DEF s
 <2>3. Moved(client[c], s)
   BY <1>1, <2>1 DEF Moved
 <2> QED
   BY <1>1, <2>1, <2>2, <2>3
<1>2. CASE ~client[c].atomic
  BY <1>2 DEF Leaves, Moved
<1> QED
  BY <1>1, <1>2

LEMMA GoesFacts ==
  ASSUME TypeOK, NEW c \in Client, client[c].at # "idle",
         NEW p \in Places \ {"idle", "write", "commit"}, Goes(c, p)
  PROVE  \E s \in {Idle} \cup Busy :
           /\ client' = [client EXCEPT ![c] = s] /\ Moved(client[c], s) /\ s.at = p
<1> DEFINE s == [client[c] EXCEPT !.at = p]
<1>1. s \in Busy /\ s.at = p /\ s.item = client[c].item /\ s.atomic = client[c].atomic
  BY BusyFacts DEF Busy
<1>2. client' = [client EXCEPT ![c] = s]
  BY DEF Goes
<1> HIDE DEF s
<1>3. Moved(client[c], s)
  BY <1>1 DEF Moved
<1> QED
  BY <1>1, <1>2, <1>3

\* The lock of d and its row stay.
LEMMA TargetKeeps ==
  ASSUME NEW d \in Doc, NEW v \in Number, Target(d, v), rows'[d] = rows[d],
         \A b \in Client : Locks(b, d)' <=> Locks(b, d),
         \A b \in Client : Locks(b, d)' => client'[b].item = client[b].item
  PROVE  Target(d, v)'
BY DEF Target

\* A step leaves d coherent when nothing of d comes anew but what a client
\* held, and what it leaves in the buffer or in the engine is v.
LEMMA FrameKeeps ==
  ASSUME NEW d \in Doc, NEW v \in Number, Alone(d), Agreed(d, v), Target(d, v)',
         Delivered(d)' => live'[d] = v,
         (\A b \in Client : ~Writes(b, d)') /\ d \in DocsOf(buffer') => EndsWith(buffer', d, v),
         \A b \in Client : Holds(b, d)' => Holds(b, d) /\ client'[b].item = client[b].item,
         \A b \in Client : Writes(b, d)' => Writes(b, d),
         \A b \in Client : Copies(b, d)' => Copies(b, d) /\ client'[b].seen = client[b].seen
                                            /\ (Writes(b, d) => Writes(b, d)'),
         \A t \in tasks' : t.item.doc = d =>
           \/ \E u \in tasks : u.item = t.item
           \/ \E b \in Client : Holds(b, d) /\ ~Writes(b, d) /\ client[b].item = t.item,
         \A w \in Worker : d \in DocsOf(flusher'[w].docs) => flusher'[w].docs = flusher[w].docs
  PROVE  Coherent(d)'
<1>1. Alone(d)'
  BY DEF Alone
<1>2. Agreed(d, v)'
 <2>1. \A b \in Client : Holds(b, d)' => Value(client'[b].item) = v
   BY DEF Agreed
 <2>2. \A t \in tasks' : t.item.doc = d => Value(t.item) = v
   BY DEF Agreed
 <2>3. \A w \in Worker :
         d \in DocsOf(flusher'[w].docs) => EndsWith(flusher'[w].docs, d, v)
   BY DEF Agreed
 <2>4. \A b \in Client : Copies(b, d)' /\ ~Writes(b, d)' => EndsWith(client'[b].seen, d, v)
   BY DEF Agreed
 <2> QED
   BY <2>1, <2>2, <2>3, <2>4 DEF Agreed
<1> QED
  BY <1>1, <1>2 DEF Coherent

\* A client moves on, and neither the data nor the places of data change.
LEMMA MoveKeeps ==
  ASSUME IInv, NEW c \in Client,
         client[c].at # "idle", NEW s \in {Idle} \cup Busy,
         client[c].at \in {"append", "write"} => client[c].item.doc \in gap',
         client' = [client EXCEPT ![c] = s], Moved(client[c], s), s.at \notin {"append", "write"},
         UNCHANGED <<rows, live, buffer, tasks, flusher>>, gap \subseteq gap',
         \/ client[c].item.doc \in gap'
         \/ /\ client[c].atomic => s # Idle
            /\ s.at \in InHand => client[c].at \in InHand
            /\ client[c].at \in {"engine", "delay"} => s.at \in {"engine", "delay"}
  PROVE  LastCopies' /\ OneLock' /\ \A d \in Doc \ gap' : Coherent(d)'
<1>1. client'[c] = s /\ \A b \in Client \ {c} : client'[b] = client[b]
  BY DEF IInv, TypeOK
<1>2. s.at # "idle" => s.item = client[c].item /\ s.atomic = client[c].atomic
  BY DEF Moved, Idle
<1>3. s.at = "idle" <=> s = Idle
  BY DEF Idle, Busy
<1>4. LastCopies'
  BY <1>1 DEF IInv, LastCopies
<1>5. \A b \in Client : \A d : Locks(b, d)' => Locks(b, d)
  BY <1>1, <1>2 DEF Locks
<1>6. OneLock'
 <2>1. s.at = "commit" => s.atomic
   BY DEF Moved, Idle
 <2> QED
   BY <1>1, <1>5, <2>1 DEF IInv, OneLock
<1>7. ASSUME NEW d \in Doc \ gap' PROVE Coherent(d)'
 <2>1. PICK v \in Number : Alone(d) /\ Target(d, v) /\ Agreed(d, v)
   BY DEF IInv, Coherent
 <2>2. \A b \in Client : Locks(b, d)' <=> Locks(b, d)
   BY <1>1, <1>2, <1>3, <1>7 DEF Locks
 <2>3. \A b \in Client : Locks(b, d)' \/ Holds(b, d)' => client'[b].item = client[b].item
   BY <1>1, <1>2 DEF Locks, Holds, InHand
 <2>4. \A b \in Client : Holds(b, d)' => Holds(b, d)
   BY <1>1, <1>2, <1>7 DEF Holds, InHand
 <2>5. \A b \in Client : Writes(b, d)' <=> Writes(b, d)
   BY <1>1, <1>7 DEF Writes
 <2>6. \A b \in Client : Copies(b, d)' => Copies(b, d) /\ client'[b].seen = client[b].seen
   BY <1>1 DEF Copies
 <2>7. Delivered(d)' => Delivered(d)
  <3>1. \A b \in Client : Owes(b, d) => Owes(b, d)'
    BY <1>1, <1>2, <1>7 DEF Owes
  <3> QED
    BY <3>1 DEF Delivered
 <2>8. Target(d, v)'
   BY <2>1, <2>2, <2>3, TargetKeeps
 <2>9. Delivered(d)' => live'[d] = v
   BY <2>1, <2>7 DEF Agreed
 <2>10. (\A b \in Client : ~Writes(b, d)') /\ d \in DocsOf(buffer') => EndsWith(buffer', d, v)
   BY <2>1, <2>5 DEF Agreed
 <2> QED
   BY <2>1, <2>3, <2>4, <2>5, <2>6, <2>8, <2>9, <2>10, FrameKeeps
<1> QED
  BY <1>4, <1>6, <1>7

LEMMA MoveTypes ==
  ASSUME TypeOK, NEW c \in Client, NEW s \in {Idle} \cup Busy,
         client' = [client EXCEPT ![c] = s]
  PROVE  client' \in [Client -> {Idle} \cup Busy]
BY DEF TypeOK

LEMMA CountsTypes ==
  ASSUME TypeOK
  PROVE  /\ Fails => failures' \in 0..MaxFailures
         /\ changes < MaxChanges => changes + 1 \in 0..MaxChanges /\ changes + 1 \in Change
BY BoundAssumption DEF TypeOK, Fails, Change

LEMMA CheckMarkerKeeps ==
  ASSUME IInv, NEW c \in Client, CheckMarker(c) PROVE IInv'
<1>1. client[c].at = "check" /\ TypeOK
  BY DEF CheckMarker, IInv
<1>2. \E s \in {Idle} \cup Busy :
        /\ client' = [client EXCEPT ![c] = s] /\ Moved(client[c], s)
        /\ s.at \in {"commit", "schedule", "idle"} /\ (client[c].atomic => s # Idle)
 <2>1. CASE marker
   BY <1>1, <2>1, LeavesFacts DEF CheckMarker, Idle
 <2>2. CASE ~marker
   BY <1>1, <2>2, GoesFacts DEF CheckMarker, Idle, Places
 <2> QED
   BY <2>1, <2>2
<1>3. PICK s \in {Idle} \cup Busy :
        /\ client' = [client EXCEPT ![c] = s] /\ Moved(client[c], s)
        /\ s.at \in {"commit", "schedule", "idle"} /\ (client[c].atomic => s # Idle)
  BY <1>2
<1>4. TypeOK'
  BY <1>1, <1>3, MoveTypes DEF CheckMarker, TypeOK, cache, queue
<1>5. LastCopies' /\ OneLock' /\ \A d \in Doc \ gap' : Coherent(d)'
  BY <1>1, <1>3, MoveKeeps DEF CheckMarker, cache, queue, InHand
<1> QED
  BY <1>4, <1>5 DEF IInv

LEMMA ScheduleFlushKeeps ==
  ASSUME IInv, NEW c \in Client, ScheduleFlush(c) PROVE IInv'
<1>1. client[c].at = "schedule" /\ TypeOK
  BY DEF ScheduleFlush, IInv
<1>2. PICK s \in {Idle} \cup Busy :
        /\ client' = [client EXCEPT ![c] = s] /\ Moved(client[c], s) /\ s.at = "mark"
  BY <1>1, GoesFacts DEF ScheduleFlush, Places
<1>3. TypeOK'
  BY <1>1, <1>2, MoveTypes DEF ScheduleFlush, TypeOK, cache
<1>4. s # Idle
  BY <1>2 DEF Idle
<1>5. LastCopies' /\ OneLock' /\ \A d \in Doc \ gap' : Coherent(d)'
  BY <1>1, <1>2, <1>4, MoveKeeps DEF ScheduleFlush, cache, InHand
<1> QED
  BY <1>3, <1>5 DEF IInv

LEMMA SetMarkerKeeps ==
  ASSUME IInv, NEW c \in Client, SetMarker(c) PROVE IInv'
<1>1. client[c].at = "mark" /\ TypeOK
  BY DEF SetMarker, IInv
<1>2. PICK s \in {Idle} \cup Busy :
        /\ client' = [client EXCEPT ![c] = s] /\ Moved(client[c], s)
        /\ IF client[c].atomic THEN s.at = "commit" ELSE s = Idle
  BY <1>1, LeavesFacts DEF SetMarker
<1>3. TypeOK'
  BY <1>1, <1>2, MoveTypes DEF SetMarker, TypeOK, queue
<1>4. s.at \in {"commit", "idle"} /\ (client[c].atomic => s # Idle)
  BY <1>2 DEF Idle
<1>5. LastCopies' /\ OneLock' /\ \A d \in Doc \ gap' : Coherent(d)'
  BY <1>1, <1>2, <1>4, MoveKeeps DEF SetMarker, queue, InHand
<1> QED
  BY <1>3, <1>5 DEF IInv

LEMMA ScheduleErrorKeeps ==
  ASSUME IInv, NEW c \in Client, ScheduleError(c) PROVE IInv'
<1>1. client[c].at = "schedule" /\ TypeOK
  BY DEF ScheduleError, IInv
<1>2. PICK s \in {Idle} \cup Busy :
        /\ client' = [client EXCEPT ![c] = s] /\ Moved(client[c], s) /\ s.at = "drop"
  BY <1>1, GoesFacts DEF ScheduleError, Places
<1>3. TypeOK'
  BY <1>1, <1>2, MoveTypes, CountsTypes DEF ScheduleError, TypeOK, cache, queue
<1>4. s # Idle
  BY <1>2 DEF Idle
<1>5. LastCopies' /\ OneLock' /\ \A d \in Doc \ gap' : Coherent(d)'
  BY <1>1, <1>2, <1>4, MoveKeeps DEF ScheduleError, cache, queue, InHand
<1> QED
  BY <1>3, <1>5 DEF IInv

\* An error or a roll-back: the row becomes a gap.
LEMMA EngineErrorKeeps ==
  ASSUME IInv, NEW c \in Client, EngineError(c) PROVE IInv'
<1>1. client[c].at = "engine" /\ TypeOK /\ client[c].item.doc \in Doc
  BY BusyFacts DEF EngineError, IInv
<1>2. PICK s \in {Idle} \cup Busy :
        /\ client' = [client EXCEPT ![c] = s] /\ Moved(client[c], s)
        /\ IF client[c].atomic THEN s.at = "commit" ELSE s = Idle
  BY <1>1, LeavesFacts DEF EngineError
<1>3. TypeOK'
  BY <1>1, <1>2, MoveTypes, CountsTypes DEF EngineError, TypeOK, cache, queue
<1>4. s.at \in {"commit", "idle"}
  BY <1>2 DEF Idle
<1>5. LastCopies' /\ OneLock' /\ \A d \in Doc \ gap' : Coherent(d)'
  BY <1>1, <1>2, <1>4, MoveKeeps DEF EngineError, cache, queue
<1> QED
  BY <1>3, <1>5 DEF IInv

LEMMA BrokerErrorKeeps ==
  ASSUME IInv, NEW c \in Client, BrokerError(c) \/ Rollback(c) PROVE IInv'
<1>1. client[c].at \in {"delay", "commit"} /\ TypeOK /\ client[c].item.doc \in Doc
  BY BusyFacts DEF BrokerError, Rollback, IInv
<1>2. client' = [client EXCEPT ![c] = Idle] /\ Moved(client[c], Idle) /\ Idle.at = "idle"
  BY DEF BrokerError, Rollback, Moved, Idle
<1>3. TypeOK'
  BY <1>1, <1>2, MoveTypes, CountsTypes DEF BrokerError, Rollback, TypeOK, cache, queue
<1>4. /\ UNCHANGED <<rows, live, buffer, tasks, flusher>>
      /\ gap \subseteq gap' /\ client[c].item.doc \in gap'
  BY DEF BrokerError, Rollback, cache, queue
<1>5. LastCopies' /\ OneLock' /\ \A d \in Doc \ gap' : Coherent(d)'
  BY <1>1, <1>2, <1>4, MoveKeeps
<1> QED
  BY <1>3, <1>5 DEF IInv

LEMMA ClientKilledKeeps ==
  ASSUME IInv, NEW c \in Client, ClientKilled(c) PROVE IInv'
<1>1. client[c].at # "idle" /\ TypeOK /\ client[c].item.doc \in Doc
  BY BusyFacts DEF ClientKilled, IInv
<1>2. client' = [client EXCEPT ![c] = Idle] /\ Moved(client[c], Idle) /\ Idle.at = "idle"
  BY DEF ClientKilled, Moved, Idle
<1>3. TypeOK'
  BY <1>1, <1>2, MoveTypes, CountsTypes DEF ClientKilled, TypeOK, cache, queue
<1>4. /\ UNCHANGED <<rows, live, buffer, tasks, flusher>> /\ gap \subseteq gap'
      /\ client[c].atomic \/ client[c].at \in {"engine", "delay", "append", "write"}
           => client[c].item.doc \in gap'
  BY DEF ClientKilled, cache, queue
<1>5. LastCopies' /\ OneLock' /\ \A d \in Doc \ gap' : Coherent(d)'
  BY <1>1, <1>2, <1>4, MoveKeeps DEF InHand
<1> QED
  BY <1>3, <1>5 DEF IInv

-----------------------------------------------------------------------------
(***************************************************************************)
(* Steps of workers and of the cache: no client moves.                     *)
(***************************************************************************)
LEMMA StillKeeps ==
  ASSUME IInv, UNCHANGED <<rows, client>>, gap \subseteq gap',
         \A w \in Worker : flusher'[w].docs = flusher[w].docs \/ flusher'[w].docs = <<>>,
         \A t \in tasks' : \E u \in tasks : u.item = t.item,
         HasLast(buffer'),
         \A d \in Doc \ gap' : d \in DocsOf(buffer') => buffer' = buffer,
         \A d \in Doc \ gap' : \A v \in Number : Agreed(d, v) /\ Delivered(d)' => live'[d] = v
  PROVE  LastCopies' /\ OneLock' /\ \A d \in Doc \ gap' : Coherent(d)'
<1>1. LastCopies'
  BY EmptyFacts DEF IInv, LastCopies
<1>2. OneLock'
  BY DEF IInv, OneLock, Locks
<1>3. ASSUME NEW d \in Doc \ gap' PROVE Coherent(d)'
 <2>1. PICK v \in Number : Alone(d) /\ Target(d, v) /\ Agreed(d, v)
   BY DEF IInv, Coherent
 <2>2. \A b \in Client : /\ Locks(b, d)' <=> Locks(b, d)
                         /\ Holds(b, d)' <=> Holds(b, d)
                         /\ Writes(b, d)' <=> Writes(b, d)
                         /\ Copies(b, d)' <=> Copies(b, d)
   BY DEF Locks, Holds, Writes, Copies
 <2>3. Target(d, v)'
   BY <2>1, <2>2, TargetKeeps
 <2>4. (\A b \in Client : ~Writes(b, d)') /\ d \in DocsOf(buffer') => EndsWith(buffer', d, v)
   BY <2>1, <2>2 DEF Agreed
 <2>5. \A w \in Worker : d \in DocsOf(flusher'[w].docs) => flusher'[w].docs = flusher[w].docs
   BY EmptyFacts
 <2>6. Delivered(d)' => live'[d] = v
   BY <2>1
 <2> QED
   BY <2>1, <2>2, <2>3, <2>4, <2>5, <2>6, FrameKeeps
<1> QED
  BY <1>1, <1>2, <1>3

\* Nothing is delivered either.
LEMMA DeliveredBefore ==
  ASSUME NEW d \in Doc, NEW v \in Number, Agreed(d, v), UNCHANGED <<client, live>>,
         d \in DocsOf(buffer) => \/ d \in DocsOf(buffer')
                                 \/ \E w \in Worker : /\ flusher'[w].at = "send"
                                                      /\ d \in DocsOf(flusher'[w].docs),
         \A t \in tasks : t.item.doc = d => \E u \in tasks' : u.item = t.item,
         \A w \in Worker : flusher[w].at = "send" /\ d \in DocsOf(flusher[w].docs) =>
           flusher'[w] = flusher[w],
         Delivered(d)'
  PROVE  live'[d] = v
<1>1. \A c \in Client : ~Owes(c, d)
  BY DEF Delivered, Owes
<1>2. Delivered(d)
  BY <1>1 DEF Delivered
<1> QED
  BY <1>2 DEF Agreed

LEMMA ExpireMarkerKeeps == ASSUME IInv, ExpireMarker \/ LoseFlush PROVE IInv'
<1>1. UNCHANGED <<rows, live, client, buffer, flusher, tasks, gap>>
  BY DEF ExpireMarker, LoseFlush, cache, queue
<1>2. TypeOK'
 <2>1. CASE ExpireMarker
   BY <1>1, <2>1 DEF IInv, TypeOK, ExpireMarker, queue
 <2>2. CASE LoseFlush
  <3>1. flushes' \in Nat /\ relied' \in BOOLEAN /\ failures' \in 0..MaxFailures
    BY <2>2, CountsTypes DEF IInv, TypeOK, LoseFlush
  <3> QED
    BY <1>1, <2>2, <3>1 DEF IInv, TypeOK, LoseFlush, cache
 <2> QED
   BY <2>1, <2>2
<1>3. \A d \in Doc \ gap' : \A v \in Number : Agreed(d, v) /\ Delivered(d)' => live'[d] = v
  BY <1>1, DeliveredBefore
<1>4. HasLast(buffer')
  BY <1>1 DEF IInv, LastCopies
<1>5. LastCopies' /\ OneLock' /\ \A d \in Doc \ gap' : Coherent(d)'
  BY <1>1, <1>3, <1>4, StillKeeps
<1> QED
  BY <1>2, <1>5 DEF IInv

LEMMA DocsType ==
  ASSUME NEW q \in Seq(Item)
  PROVE  DocsOf(q) \subseteq Doc /\ \A i \in ItemsOf(q) : i.doc \in Doc
<1>1. \A n \in DOMAIN q : q[n] \in Item
  OBVIOUS
<1>2. \A i \in Item : i.doc \in Doc
  BY DEF Item
<1> QED
  BY <1>1, <1>2 DEF DocsOf, ItemsOf

LEMMA ExpireBufferKeeps == ASSUME IInv, ExpireBuffer PROVE IInv'
<1>1. /\ UNCHANGED <<rows, live, client, flusher, tasks>> /\ buffer' = <<>>
      /\ gap' = gap \cup DocsOf(buffer) /\ TypeOK
  BY DEF ExpireBuffer, queue, IInv
<1>2. TypeOK'
  BY <1>1, CountsTypes, DocsType, EmptyFacts DEF TypeOK, ExpireBuffer, queue
<1>3. \A d \in Doc \ gap' : \A v \in Number : Agreed(d, v) /\ Delivered(d)' => live'[d] = v
  BY <1>1, DeliveredBefore
<1>4. LastCopies' /\ OneLock' /\ \A d \in Doc \ gap' : Coherent(d)'
  BY <1>1, <1>3, EmptyFacts, StillKeeps
<1> QED
  BY <1>2, <1>4 DEF IInv

LEMMA FlusherTypes ==
  ASSUME TypeOK, NEW w \in Worker
  PROVE  /\ flusher[w].docs \in Seq(Item) /\ flusher[w].at \in {"idle", "clear", "send"}
         /\ NoFlush \in [at : {"idle", "clear", "send"}, docs : Seq(Item)]
         /\ NoFlush.docs = <<>> /\ NoFlush.at = "idle"
<1>1. flusher[w] \in [at : {"idle", "clear", "send"}, docs : Seq(Item)]
  BY DEF TypeOK
<1> QED
  BY <1>1, EmptyFacts DEF NoFlush

LEMMA FlushClearsKeeps ==
  ASSUME IInv, NEW w \in Worker, FlushClears(w) PROVE IInv'
<1>1. /\ UNCHANGED <<rows, live, client, tasks>> /\ buffer' = <<>> /\ TypeOK
      /\ gap' = gap \cup {i.doc : i \in ItemsOf(buffer) \ ItemsOf(flusher[w].docs)}
      /\ flusher' = [flusher EXCEPT ![w].at = "send"]
  BY DEF FlushClears, IInv
<1>2. /\ flusher'[w].at = "send" /\ flusher'[w].docs = flusher[w].docs
      /\ \A x \in Worker \ {w} : flusher'[x] = flusher[x]
      /\ flusher[w].at = "clear"
      /\ flusher' \in [Worker -> [at : {"idle", "clear", "send"}, docs : Seq(Item)]]
  BY <1>1 DEF TypeOK, FlushClears
<1>3. \A i \in ItemsOf(buffer) : i.doc \in Doc
  BY <1>1, DocsType DEF TypeOK
<1>4. TypeOK'
  BY <1>1, <1>2, <1>3, EmptyFacts DEF TypeOK, FlushClears
<1>5. \A d \in Doc \ gap' : d \in DocsOf(buffer) => d \in DocsOf(flusher[w].docs)
  BY <1>1 DEF DocsOf, ItemsOf
<1>6. \A d \in Doc \ gap' : \A v \in Number : Agreed(d, v) /\ Delivered(d)' => live'[d] = v
  BY <1>1, <1>2, <1>5, DeliveredBefore
<1>7. LastCopies' /\ OneLock' /\ \A d \in Doc \ gap' : Coherent(d)'
  BY <1>1, <1>2, <1>6, EmptyFacts, StillKeeps
<1> QED
  BY <1>4, <1>7 DEF IInv

\* A flush that ends without having sent.
LEMMA FlushLostKeeps ==
  ASSUME IInv, NEW w \in Worker, FlushKilled(w) \/ FlushFails(w) PROVE IInv'
<1>1. /\ UNCHANGED <<rows, live, client, tasks, buffer>> /\ TypeOK
      /\ flusher' = [flusher EXCEPT ![w] = NoFlush]
      /\ gap' = gap \/ gap' = gap \cup DocsOf(flusher[w].docs)
  BY DEF FlushKilled, FlushFails, IInv, cache
<1>2. /\ flusher'[w] = NoFlush /\ \A x \in Worker \ {w} : flusher'[x] = flusher[x]
      /\ flusher' \in [Worker -> [at : {"idle", "clear", "send"}, docs : Seq(Item)]]
  BY <1>1, FlusherTypes DEF TypeOK
<1>3. TypeOK'
  BY <1>1, <1>2, CountsTypes, FlusherTypes, DocsType
     DEF TypeOK, FlushKilled, FlushFails, cache
<1>4. \A d \in Doc \ gap' : flusher[w].at # "send" \/ d \notin DocsOf(flusher[w].docs)
  BY DEF FlushKilled, FlushFails
<1>5. \A d \in Doc \ gap' : \A v \in Number : Agreed(d, v) /\ Delivered(d)' => live'[d] = v
  BY <1>1, <1>2, <1>4, DeliveredBefore
<1>6. HasLast(buffer') /\ \A x \in Worker : flusher'[x].docs \in {flusher[x].docs, <<>>}
  BY <1>1, <1>2, FlusherTypes DEF IInv, LastCopies
<1>7. LastCopies' /\ OneLock' /\ \A d \in Doc \ gap' : Coherent(d)'
  BY <1>1, <1>5, <1>6, StillKeeps
<1> QED
  BY <1>3, <1>7 DEF IInv

LEMMA FlushSendsKeeps ==
  ASSUME IInv, NEW w \in Worker, FlushSends(w) PROVE IInv'
<1> DEFINE q == flusher[w].docs
<1>1. /\ UNCHANGED <<rows, client, tasks, buffer, gap>> /\ TypeOK
      /\ flusher' = [flusher EXCEPT ![w] = NoFlush] /\ live' = Indexed(q)
  BY DEF FlushSends, IInv, cache
<1>2. /\ flusher'[w] = NoFlush /\ \A x \in Worker \ {w} : flusher'[x] = flusher[x]
      /\ flusher' \in [Worker -> [at : {"idle", "clear", "send"}, docs : Seq(Item)]]
  BY <1>1, FlusherTypes DEF TypeOK
<1>3. q \in Seq(Item) /\ HasLast(q) /\ live \in [Doc -> Number]
  BY <1>1, FlusherTypes DEF IInv, LastCopies, TypeOK, Number
<1> HIDE DEF q
<1>4. live' \in [Doc -> Number]
  BY <1>1, <1>3, IndexedFacts
<1>5. TypeOK'
  BY <1>1, <1>2, <1>4 DEF TypeOK, FlushSends, cache, Number
<1>6. ASSUME NEW d \in Doc \ gap', NEW v \in Number, Agreed(d, v), Delivered(d)'
      PROVE  live'[d] = v
 <2>1. CASE d \in DocsOf(q)
  <3>1. EndsWith(q, d, v)
    BY <1>6, <2>1 DEF Agreed, q
  <3> QED
    BY <1>1, <1>3, <3>1, IndexedFacts
 <2>2. CASE d \notin DocsOf(q)
  <3>1. live'[d] = live[d]
    BY <1>1, <1>3, <2>2, IndexedFacts
  <3>2. \A c \in Client : ~Owes(c, d)
    BY <1>1, <1>6 DEF Delivered, Owes
  <3>3. \A x \in Worker : flusher[x].at = "send" => d \notin DocsOf(flusher[x].docs)
    BY <1>2, <1>6, <2>2 DEF Delivered, q
  <3>4. Delivered(d)
    BY <1>1, <1>6, <3>2, <3>3 DEF Delivered
  <3> QED
    BY <1>6, <3>1, <3>4 DEF Agreed
 <2> QED
   BY <2>1, <2>2
<1>7. HasLast(buffer') /\ \A x \in Worker : flusher'[x].docs \in {flusher[x].docs, <<>>}
  BY <1>1, <1>2, FlusherTypes DEF IInv, LastCopies
<1>8. LastCopies' /\ OneLock' /\ \A d \in Doc \ gap' : Coherent(d)'
  BY <1>1, <1>6, <1>7, StillKeeps
<1> QED
  BY <1>5, <1>8 DEF IInv

LEMMA FlushReadsKeeps ==
  ASSUME IInv, NEW w \in Worker, FlushReads(w) PROVE IInv'
<1>1. /\ UNCHANGED <<rows, live, client, tasks, buffer>> /\ TypeOK
      /\ gap' = gap \cup Outdated({}) /\ flusher[w] = NoFlush /\ gap \subseteq gap'
  BY DEF FlushReads, IInv, cache
<1> DEFINE f == [at |-> "clear", docs |-> buffer]
<1>2. /\ f \in [at : {"idle", "clear", "send"}, docs : Seq(Item)]
      /\ f.at = "clear" /\ f.docs = buffer /\ HasLast(buffer)
  BY <1>1 DEF TypeOK, IInv, LastCopies
<1>3. flusher' = flusher \/ flusher' = [flusher EXCEPT ![w] = f]
  BY DEF FlushReads
<1> HIDE DEF f
<1>4. /\ \A x \in Worker \ {w} : flusher'[x] = flusher[x]
      /\ flusher'[w] = flusher[w] \/ flusher'[w] = f
      /\ flusher' \in [Worker -> [at : {"idle", "clear", "send"}, docs : Seq(Item)]]
  BY <1>1, <1>2, <1>3 DEF TypeOK
<1>5. Outdated({}) \subseteq Doc
  BY <1>1, DocsType DEF TypeOK, Outdated
<1>6. TypeOK'
 <2>1. flushes > 0 /\ flushes' = flushes - 1 /\ relied' = FALSE
   BY DEF FlushReads
 <2>2. flushes \in Nat
   BY <1>1 DEF TypeOK
 <2>3. flushes' \in Nat
   BY <2>1, <2>2
 <2>4. relied' \in BOOLEAN
   BY <2>1, Zenon
 <2> QED
   BY <1>1, <1>4, <1>5, <2>3, <2>4 DEF FlushReads, TypeOK, cache
<1>7. LastCopies'
  BY <1>1, <1>2, <1>4 DEF IInv, LastCopies
<1>8. OneLock'
  BY <1>1 DEF IInv, OneLock, Locks
<1>9. ASSUME NEW d \in Doc \ gap' PROVE Coherent(d)'
 <2>1. PICK v \in Number : Alone(d) /\ Target(d, v) /\ Agreed(d, v)
   BY <1>1 DEF IInv, Coherent
 <2>2. \A b \in Client : /\ Locks(b, d)' <=> Locks(b, d)
                         /\ Holds(b, d)' <=> Holds(b, d)
                         /\ Writes(b, d)' <=> Writes(b, d)
                         /\ Owes(b, d)' <=> Owes(b, d)
                         /\ Copies(b, d)' <=> Copies(b, d)
   BY <1>1 DEF Locks, Holds, Writes, Owes, Copies
 <2>3. Target(d, v)'
   BY <1>1, <2>1, <2>2, TargetKeeps
 <2>4. d \in DocsOf(buffer) => \A b \in Client : ~Writes(b, d)
   BY <1>1, <1>9 DEF Outdated, Unwritten, Writes
 <2>5. \A x \in Worker : d \in DocsOf(flusher'[x].docs) =>
         flusher'[x] = flusher[x] \/ (d \in DocsOf(buffer) /\ flusher'[x].docs = buffer)
   BY <1>2, <1>4
 <2>6. Alone(d)'
   BY <1>1, <2>1, <2>2, <2>4, <2>5 DEF Alone
 <2>7. \A x \in Worker :
         d \in DocsOf(flusher'[x].docs) => EndsWith(flusher'[x].docs, d, v)
   BY <2>1, <2>4, <2>5 DEF Agreed
 <2>8. Delivered(d)' => Delivered(d)
  <3>1. \A x \in Worker : flusher[x].at = "send" => flusher'[x] = flusher[x]
    BY <1>1, <1>4 DEF NoFlush
  <3> QED
    BY <1>1, <2>2, <3>1 DEF Delivered
 <2>9. Delivered(d)' => live'[d] = v
   BY <1>1, <2>1, <2>8 DEF Agreed
 <2>10. Agreed(d, v)'
  <3>1. \A b \in Client : Holds(b, d)' => Value(client'[b].item) = v
    BY <1>1, <2>1, <2>2 DEF Agreed
  <3>2. \A t \in tasks' : t.item.doc = d => Value(t.item) = v
    BY <1>1, <2>1 DEF Agreed
  <3>3. (\A b \in Client : ~Writes(b, d)') /\ d \in DocsOf(buffer') => EndsWith(buffer', d, v)
    BY <1>1, <2>1, <2>2 DEF Agreed
  <3>4. \A b \in Client : Copies(b, d)' /\ ~Writes(b, d)' => EndsWith(client'[b].seen, d, v)
    BY <1>1, <2>1, <2>2 DEF Agreed
  <3> QED
    BY <2>7, <2>9, <3>1, <3>2, <3>3, <3>4 DEF Agreed
 <2> QED
   BY <2>3, <2>6, <2>10 DEF Coherent
<1> QED
  BY <1>6, <1>7, <1>8, <1>9 DEF IInv

LEMMA TaskTypes ==
  ASSUME TypeOK, NEW t \in tasks
  PROVE  t.item \in Item /\ t.item.doc \in Doc /\ t.tries \in 0..MaxRetries
<1>1. t \in [item : Item, tries : 0..MaxRetries]
  BY DEF TypeOK
<1> QED
  BY <1>1 DEF Item

LEMMA RunTaskKeeps ==
  ASSUME IInv, NEW t \in tasks, RunTask(t) PROVE IInv'
<1> DEFINE q == <<t.item>>
<1>1. /\ UNCHANGED <<rows, client, flusher, buffer, gap>> /\ TypeOK
      /\ tasks' = tasks \ {t} /\ live' = Indexed(q)
  BY DEF RunTask, IInv, cache
<1>2. /\ q \in Seq(Item) /\ HasLast(q) /\ DocsOf(q) = {t.item.doc}
      /\ EndsWith(q, t.item.doc, Value(t.item)) /\ Value(t.item) \in Number
      /\ live \in [Doc -> Number]
  BY <1>1, TaskTypes, SingleFacts, ValueType DEF TypeOK, Number
<1> HIDE DEF q
<1>3. live' \in [Doc -> Number]
  BY <1>1, <1>2, IndexedFacts
<1>4. TypeOK'
  BY <1>1, <1>3 DEF TypeOK, RunTask, cache, Number
<1>5. ASSUME NEW d \in Doc \ gap', NEW v \in Number, Agreed(d, v), Delivered(d)'
      PROVE  live'[d] = v
 <2>1. CASE d = t.item.doc
  <3>1. Value(t.item) = v
    BY <1>5, <2>1 DEF Agreed
  <3> QED
    BY <1>1, <1>2, <2>1, <3>1, IndexedFacts
 <2>2. CASE d # t.item.doc
  <3>1. live'[d] = live[d]
    BY <1>1, <1>2, <2>2, IndexedFacts
  <3>2. \A c \in Client : ~Owes(c, d)
    BY <1>1, <1>5 DEF Delivered, Owes
  <3>3. Delivered(d)
    BY <1>1, <1>5, <2>2, <3>2 DEF Delivered
  <3> QED
    BY <1>5, <3>1, <3>3 DEF Agreed
 <2> QED
   BY <2>1, <2>2
<1>6. HasLast(buffer')
  BY <1>1 DEF IInv, LastCopies
<1>7. LastCopies' /\ OneLock' /\ \A d \in Doc \ gap' : Coherent(d)'
  BY <1>1, <1>5, <1>6, StillKeeps
<1> QED
  BY <1>4, <1>7 DEF IInv

\* A task that has failed is put back, or given up and its row a gap.
LEMMA RetryTaskKeeps ==
  ASSUME IInv, NEW t \in tasks, RetryTask(t) \/ LoseTask(t) PROVE IInv'
<1> DEFINE u == [t EXCEPT !.tries = @ + 1]
<1>1. /\ UNCHANGED <<rows, live, client, flusher, buffer>> /\ TypeOK /\ gap \subseteq gap'
      /\ gap' \subseteq gap \cup {t.item.doc}
  BY DEF RetryTask, LoseTask, IInv, cache
<1>2. t.tries < MaxRetries =>
        u \in [item : Item, tries : 0..MaxRetries] /\ u.item = t.item
 <2>1. t \in [item : Item, tries : 0..MaxRetries]
   BY <1>1 DEF TypeOK
 <2> QED
   BY <2>1, RetryAssumption
<1>3. \/ t.tries < MaxRetries /\ tasks' = (tasks \ {t}) \cup {u}
      \/ tasks' = tasks \ {t} /\ t.item.doc \in gap'
  BY DEF RetryTask, LoseTask
<1> HIDE DEF u
<1>4. /\ \A x \in tasks' : \E y \in tasks : y.item = x.item
      /\ \A x \in tasks : x.item.doc \in gap' \/ \E y \in tasks' : y.item = x.item
      /\ tasks' \subseteq [item : Item, tries : 0..MaxRetries]
  BY <1>1, <1>2, <1>3 DEF TypeOK
<1>5. TypeOK'
  BY <1>1, <1>4, CountsTypes, TaskTypes DEF TypeOK, RetryTask, LoseTask, cache
<1>6. \A d \in Doc \ gap' : \A v \in Number : Agreed(d, v) /\ Delivered(d)' => live'[d] = v
  BY <1>1, <1>4, DeliveredBefore
<1>7. HasLast(buffer')
  BY <1>1 DEF IInv, LastCopies
<1>8. LastCopies' /\ OneLock' /\ \A d \in Doc \ gap' : Coherent(d)'
  BY <1>1, <1>4, <1>6, <1>7, StillKeeps
<1> QED
  BY <1>5, <1>8 DEF IInv

-----------------------------------------------------------------------------
(***************************************************************************)
(* Steps of clients that change data                                       *)
(***************************************************************************)
\* A client that has e moves on; nobody has anything that it did not have.
OnlyMoves(e) ==
  /\ \A b \in Client : client'[b].at = "write" => client'[b] = client[b]
  /\ \A b \in Client, d \in Doc :
       /\ Locks(b, d)' <=> Locks(b, d)
       /\ Locks(b, d)' \/ Holds(b, d)' => client'[b].item = client[b].item
       /\ Holds(b, d)' => Holds(b, d)
       /\ Writes(b, d)' <=> Writes(b, d)
       /\ Copies(b, d)' <=> Copies(b, d)
       /\ Copies(b, d)' => client'[b].seen = client[b].seen
       /\ d # e => (Owes(b, d)' <=> Owes(b, d))

LEMMA MoveFacts ==
  ASSUME IInv, NEW c \in Client,
         client[c].at \notin {"idle", "append", "write"},
         NEW s \in {Idle} \cup Busy,
         client' = [client EXCEPT ![c] = s], Moved(client[c], s), s.at \notin {"append", "write"},
         client[c].atomic => s # Idle,
         s.at \in InHand => client[c].at \in InHand
  PROVE  OneLock' /\ OnlyMoves(client[c].item.doc)
<1>1. client'[c] = s /\ \A b \in Client \ {c} : client'[b] = client[b]
  BY DEF IInv, TypeOK
<1>2. s.at # "idle" => s.item = client[c].item /\ s.atomic = client[c].atomic
  BY DEF Moved, Idle
<1>3. (s.at = "idle" <=> s = Idle) /\ (s.at = "commit" => s.atomic)
  BY DEF Idle, Busy, Moved
<1>4. \A b \in Client, d \in Doc : Locks(b, d)' <=> Locks(b, d)
  BY <1>1, <1>2, <1>3 DEF Locks
<1>5. OneLock'
  BY <1>1, <1>3, <1>4 DEF IInv, OneLock
<1>6. \A b \in Client, d \in Doc :
        /\ Locks(b, d)' \/ Holds(b, d)' => client'[b].item = client[b].item
        /\ Holds(b, d)' => Holds(b, d)
  BY <1>1, <1>2 DEF Locks, Holds, InHand
<1>7. \A b \in Client, d \in Doc :
        /\ Writes(b, d)' <=> Writes(b, d)
        /\ Copies(b, d)' <=> Copies(b, d)
        /\ Copies(b, d)' => client'[b].seen = client[b].seen
  BY <1>1 DEF Writes, Copies
<1>8. \A b \in Client, d \in Doc : d # client[c].item.doc => (Owes(b, d)' <=> Owes(b, d))
  BY <1>1, <1>2 DEF Owes
<1>9. \A b \in Client : client'[b].at = "write" => client'[b] = client[b]
  BY <1>1
<1> QED
  BY <1>4, <1>5, <1>6, <1>7, <1>8, <1>9 DEF OnlyMoves

LEMMA CallEngineKeeps ==
  ASSUME IInv, NEW c \in Client, CallEngine(c) PROVE IInv'
<1> DEFINE e == client[c].item.doc
           q == <<client[c].item>>
<1>1. /\ client[c].at = "engine" /\ TypeOK /\ client[c].item \in Item /\ e \in Doc
      /\ live' = Indexed(q) /\ UNCHANGED <<rows, buffer, tasks, flusher, gap>>
  BY BusyFacts DEF CallEngine, IInv, cache, queue
<1>2. PICK s \in {Idle} \cup Busy :
        /\ client' = [client EXCEPT ![c] = s] /\ Moved(client[c], s)
        /\ IF client[c].atomic THEN s.at = "commit" ELSE s = Idle
  BY <1>1, LeavesFacts DEF CallEngine
<1>3. s.at \in {"commit", "idle"} /\ (client[c].atomic => s # Idle)
  BY <1>2 DEF Idle
<1>4. /\ q \in Seq(Item) /\ HasLast(q) /\ DocsOf(q) = {e}
      /\ EndsWith(q, e, Value(client[c].item)) /\ Value(client[c].item) \in Number
      /\ live \in [Doc -> Number]
  BY <1>1, SingleFacts, ValueType DEF TypeOK, Number
<1> HIDE DEF q
<1>5. live' \in [Doc -> Number]
  BY <1>1, <1>4, IndexedFacts
<1>6. TypeOK'
  BY <1>1, <1>2, <1>5, MoveTypes DEF TypeOK, CallEngine, cache, queue, Number
<1>7. OneLock' /\ OnlyMoves(e)
  BY <1>1, <1>2, <1>3, MoveFacts DEF InHand
<1>8. LastCopies'
  BY <1>1, <1>7 DEF IInv, LastCopies, OnlyMoves
<1>9. ASSUME NEW d \in Doc \ gap' PROVE Coherent(d)'
 <2>1. PICK v \in Number : Alone(d) /\ Target(d, v) /\ Agreed(d, v)
   BY <1>1 DEF IInv, Coherent
 <2>2. Target(d, v)'
   BY <1>1, <1>7, <2>1, TargetKeeps DEF OnlyMoves
 <2>3. Delivered(d)' => live'[d] = v
  <3>1. CASE d = e
   <4>1. Holds(c, d)
     BY <1>1, <3>1 DEF Holds, InHand
   <4>2. Value(client[c].item) = v
     BY <2>1, <4>1 DEF Agreed
   <4> QED
     BY <1>1, <1>4, <3>1, <4>2, IndexedFacts
  <3>2. CASE d # e
   <4>1. live'[d] = live[d]
     BY <1>1, <1>4, <3>2, IndexedFacts
   <4>2. Delivered(d)' => Delivered(d)
     BY <1>1, <1>7, <3>2 DEF Delivered, OnlyMoves
   <4> QED
     BY <2>1, <4>1, <4>2 DEF Agreed
  <3> QED
    BY <3>1, <3>2
 <2>4. (\A b \in Client : ~Writes(b, d)') /\ d \in DocsOf(buffer') => EndsWith(buffer', d, v)
   BY <1>1, <1>7, <2>1 DEF Agreed, OnlyMoves
 <2> QED
   BY <1>1, <1>7, <2>1, <2>2, <2>3, <2>4, FrameKeeps DEF OnlyMoves
<1> QED
  BY <1>6, <1>7, <1>8, <1>9 DEF IInv

LEMMA DelayKeeps ==
  ASSUME IInv, NEW c \in Client, Delay(c) PROVE IInv'
<1> DEFINE e == client[c].item.doc
           t == [item |-> client[c].item, tries |-> 0]
<1>1. /\ client[c].at = "delay" /\ TypeOK /\ client[c].item \in Item /\ e \in Doc
      /\ tasks' = tasks \cup {t} /\ UNCHANGED <<rows, live, buffer, flusher, gap>>
  BY BusyFacts DEF Delay, IInv, cache
<1>2. PICK s \in {Idle} \cup Busy :
        /\ client' = [client EXCEPT ![c] = s] /\ Moved(client[c], s)
        /\ IF client[c].atomic THEN s.at = "commit" ELSE s = Idle
  BY <1>1, LeavesFacts DEF Delay
<1>3. s.at \in {"commit", "idle"} /\ (client[c].atomic => s # Idle)
  BY <1>2 DEF Idle
<1>4. t.item = client[c].item /\ t \in [item : Item, tries : 0..MaxRetries]
  BY <1>1, RetryAssumption
<1> HIDE DEF t
<1>5. TypeOK'
  BY <1>1, <1>2, <1>4, MoveTypes DEF TypeOK, Delay, cache
<1>6. OneLock' /\ OnlyMoves(e)
  BY <1>1, <1>2, <1>3, MoveFacts DEF InHand
<1>7. LastCopies'
  BY <1>1, <1>6 DEF IInv, LastCopies, OnlyMoves
<1>8. ASSUME NEW d \in Doc \ gap' PROVE Coherent(d)'
 <2>1. PICK v \in Number : Alone(d) /\ Target(d, v) /\ Agreed(d, v)
   BY <1>1 DEF IInv, Coherent
 <2>2. Target(d, v)'
   BY <1>1, <1>6, <2>1, TargetKeeps DEF OnlyMoves
 <2>3. Delivered(d)' => d # e /\ Delivered(d)
   BY <1>1, <1>4, <1>6 DEF Delivered, OnlyMoves
 <2>4. Delivered(d)' => live'[d] = v
   BY <1>1, <2>1, <2>3 DEF Agreed
 <2>5. (\A b \in Client : ~Writes(b, d)') /\ d \in DocsOf(buffer') => EndsWith(buffer', d, v)
   BY <1>1, <1>6, <2>1 DEF Agreed, OnlyMoves
 <2>6. d = e => Holds(c, d) /\ ~Writes(c, d)
   BY <1>1 DEF Holds, Writes, InHand
 <2>7. \A x \in tasks' : x.item.doc = d =>
          \/ \E u \in tasks : u.item = x.item
          \/ \E b \in Client : Holds(b, d) /\ ~Writes(b, d) /\ client[b].item = x.item
   BY <1>1, <1>4, <2>6
 <2> QED
   BY <1>1, <1>6, <2>1, <2>2, <2>4, <2>5, <2>7, FrameKeeps DEF OnlyMoves
<1> QED
  BY <1>5, <1>6, <1>7, <1>8 DEF IInv

LEMMA DropBufferKeeps ==
  ASSUME IInv, NEW c \in Client, DropBuffer(c) PROVE IInv'
<1> DEFINE e == client[c].item.doc
<1>1. /\ client[c].at = "drop" /\ TypeOK /\ client[c].item \in Item /\ e \in Doc
      /\ buffer' = <<>> /\ gap' = gap \cup (DocsOf(buffer) \ {e})
      /\ UNCHANGED <<rows, live, tasks, flusher>>
  BY BusyFacts DEF DropBuffer, IInv, queue
<1>2. PICK s \in {Idle} \cup Busy :
        client' = [client EXCEPT ![c] = s] /\ Moved(client[c], s) /\ s.at = "engine"
  BY <1>1, GoesFacts DEF DropBuffer, Places
<1>3. s # Idle
  BY <1>2 DEF Idle
<1>4. DocsOf(buffer) \subseteq Doc
  BY <1>1, DocsType DEF TypeOK
<1>5. TypeOK'
  BY <1>1, <1>2, <1>4, MoveTypes, EmptyFacts DEF TypeOK, DropBuffer, queue
<1>6. OneLock' /\ OnlyMoves(e)
  BY <1>1, <1>2, <1>3, MoveFacts DEF InHand
<1>7. LastCopies'
  BY <1>1, <1>6, EmptyFacts DEF IInv, LastCopies, OnlyMoves
<1>8. ASSUME NEW d \in Doc \ gap' PROVE Coherent(d)'
 <2>1. PICK v \in Number : Alone(d) /\ Target(d, v) /\ Agreed(d, v)
   BY <1>1 DEF IInv, Coherent
 <2>2. Target(d, v)'
   BY <1>1, <1>6, <2>1, TargetKeeps DEF OnlyMoves
 <2>3. d = e => Owes(c, d)'
  <3>1. client'[c] = s /\ s.item = client[c].item
    BY <1>1, <1>2, <1>3 DEF TypeOK, Moved
  <3> QED
    BY <1>2, <3>1 DEF Owes
 <2>4. Delivered(d)' => Delivered(d)
  <3>1. Delivered(d)' => d # e
    BY <2>3 DEF Delivered
  <3>2. d # e => d \notin DocsOf(buffer)
    BY <1>1, <1>8
  <3> QED
    BY <1>1, <1>6, <3>1, <3>2 DEF Delivered, OnlyMoves
 <2>5. Delivered(d)' => live'[d] = v
   BY <1>1, <2>1, <2>4 DEF Agreed
 <2>6. d \notin DocsOf(buffer')
   BY <1>1, EmptyFacts
 <2> QED
   BY <1>1, <1>6, <2>1, <2>2, <2>5, <2>6, FrameKeeps DEF OnlyMoves
<1> QED
  BY <1>5, <1>6, <1>7, <1>8 DEF IInv

LEMMA CommitKeeps ==
  ASSUME IInv, NEW c \in Client, Commit(c) PROVE IInv'
<1> DEFINE e == client[c].item.doc
<1>1. /\ client[c].at = "commit" /\ TypeOK /\ client[c].item \in Item /\ e \in Doc
      /\ client' = [client EXCEPT ![c] = Idle]
      /\ rows' = [rows EXCEPT ![e] = Value(client[c].item)]
      /\ UNCHANGED <<live, buffer, tasks, flusher, gap>>
  BY BusyFacts DEF Commit, IInv, cache, queue
<1>2. /\ client'[c] = Idle /\ Idle.at = "idle"
      /\ \A b \in Client \ {c} : client'[b] = client[b]
  BY <1>1 DEF TypeOK, Idle
<1>3. /\ rows'[e] = Value(client[c].item) /\ Value(client[c].item) \in Number
      /\ \A d \in Doc \ {e} : rows'[d] = rows[d]
      /\ rows' \in [Doc -> Number]
  BY <1>1, ValueType DEF TypeOK, Number
<1>4. TypeOK'
  BY <1>1, <1>3, MoveTypes DEF TypeOK, Commit, cache, queue, Number
<1>5. LastCopies'
  BY <1>1, <1>2 DEF IInv, LastCopies
<1>6. \A b \in Client, d \in Doc : Locks(b, d)' <=> b # c /\ Locks(b, d)
  BY <1>2 DEF Locks
<1>7. OneLock'
  BY <1>2, <1>6 DEF IInv, OneLock
<1>8. Locks(c, e) /\ \A b \in Client : Locks(b, e) => b = c
  BY <1>1 DEF IInv, OneLock, Locks
<1>9. \A b \in Client, d \in Doc :
         /\ Holds(b, d)' <=> Holds(b, d)
         /\ Writes(b, d)' <=> Writes(b, d)
         /\ Owes(b, d)' <=> Owes(b, d)
         /\ Copies(b, d)' <=> Copies(b, d)
         /\ Holds(b, d) \/ Copies(b, d) =>
              client'[b].item = client[b].item /\ client'[b].seen = client[b].seen
  BY <1>1, <1>2 DEF Holds, Writes, Owes, Copies, InHand
<1>10. ASSUME NEW d \in Doc \ gap' PROVE Coherent(d)'
 <2>1. PICK v \in Number : Alone(d) /\ Target(d, v) /\ Agreed(d, v)
   BY <1>1 DEF IInv, Coherent
 <2>2. Target(d, v)'
  <3>1. CASE d = e
   <4>1. Value(client[c].item) = v
     BY <1>8, <2>1, <3>1 DEF Target
   <4> QED
     BY <1>3, <1>6, <1>8, <3>1, <4>1 DEF Target
  <3>2. CASE d # e
   <4>1. ~Locks(c, d)
     BY <3>2 DEF Locks
   <4>2. \A b \in Client : Locks(b, d)' <=> Locks(b, d)
     BY <1>6, <4>1
   <4>3. \A b \in Client : Locks(b, d)' => client'[b].item = client[b].item
     BY <1>2, <1>6
   <4> QED
     BY <1>3, <2>1, <3>2, <4>2, <4>3, TargetKeeps
  <3> QED
    BY <3>1, <3>2
 <2>3. Delivered(d)' => Delivered(d)
   BY <1>1, <1>9 DEF Delivered
 <2>4. Delivered(d)' => live'[d] = v
   BY <1>1, <2>1, <2>3 DEF Agreed
 <2>5. (\A b \in Client : ~Writes(b, d)') /\ d \in DocsOf(buffer') => EndsWith(buffer', d, v)
   BY <1>1, <1>9, <2>1 DEF Agreed
 <2> QED
   BY <1>1, <1>9, <2>1, <2>2, <2>4, <2>5, FrameKeeps
<1> QED
  BY <1>4, <1>5, <1>7, <1>10 DEF IInv

LEMMA ReadBufferKeeps ==
  ASSUME IInv, NEW c \in Client, ReadBuffer(c) PROVE IInv'
<1> DEFINE e == client[c].item.doc
           s == [client[c] EXCEPT !.at = "write", !.seen = buffer]
<1>1. /\ client[c].at = "append" /\ TypeOK /\ client[c] \in Busy /\ e \in Doc
      /\ client' = [client EXCEPT ![c] = s]
      /\ gap' = gap \cup Outdated({c}) /\ gap \subseteq gap'
      /\ UNCHANGED <<rows, live, buffer, tasks, flusher>>
  BY BusyFacts DEF ReadBuffer, IInv, cache, queue
<1>2. /\ s \in Busy /\ s.at = "write" /\ s.seen = buffer
      /\ s.item = client[c].item /\ s.atomic = client[c].atomic
  BY <1>1 DEF Busy, Places, TypeOK
<1> HIDE DEF s
<1>3. client'[c] = s /\ \A b \in Client \ {c} : client'[b] = client[b]
  BY <1>1 DEF TypeOK
<1>4. TypeOK'
 <2>1. Outdated({c}) \subseteq Doc
   BY <1>1, DocsType DEF TypeOK, Outdated
 <2> QED
   BY <1>1, <1>2, <2>1, MoveTypes DEF TypeOK, ReadBuffer, cache, queue
<1>5. LastCopies'
  BY <1>1, <1>2, <1>3 DEF IInv, LastCopies
<1>6. \A b \in Client, d \in Doc : Locks(b, d)' <=> Locks(b, d)
  BY <1>1, <1>2, <1>3 DEF Locks
<1>7. OneLock'
  BY <1>2, <1>3, <1>6 DEF IInv, OneLock
<1>8. \A b \in Client, d \in Doc :
         /\ client'[b].item = client[b].item
         /\ Holds(b, d)' <=> Holds(b, d)
         /\ Writes(b, d)' <=> Writes(b, d)
         /\ Owes(b, d)' <=> Owes(b, d)
         /\ ~Copies(c, d)
         /\ Copies(b, d) => Copies(b, d)'
         /\ Copies(b, d)' => \/ Copies(b, d) /\ client'[b].seen = client[b].seen
                             \/ b = c /\ d \in DocsOf(buffer) /\ client'[b].seen = buffer
  BY <1>1, <1>2, <1>3 DEF Holds, Writes, Owes, Copies, InHand
<1>9. ASSUME NEW d \in Doc \ gap' PROVE Coherent(d)'
 <2>1. PICK v \in Number : Alone(d) /\ Target(d, v) /\ Agreed(d, v)
   BY <1>1 DEF IInv, Coherent
 <2>2. Target(d, v)'
   BY <1>1, <1>6, <1>8, <2>1, TargetKeeps
 <2>3. d \in DocsOf(buffer) => \A b \in Client \ {c} : ~Writes(b, d)
   BY <1>1, <1>9 DEF Outdated, Unwritten, Writes
 <2>4. Alone(d)'
  <3> SUFFICES ASSUME NEW a \in Client, Writes(a, d)'
               PROVE  /\ \A b \in Client \ {a} : ~Holds(b, d)' /\ ~Copies(b, d)'
                      /\ \A t \in tasks' : t.item.doc # d
                      /\ \A w \in Worker : d \notin DocsOf(flusher'[w].docs)
    BY DEF Alone
  <3>1. Writes(a, d)
    BY <1>8
  <3>2. a = c \/ d \notin DocsOf(buffer)
    BY <2>3, <3>1
  <3>3. \A b \in Client \ {a} : ~Holds(b, d)' /\ ~Copies(b, d)'
    BY <1>8, <2>1, <3>1, <3>2 DEF Alone
  <3> QED
    BY <1>1, <2>1, <3>1, <3>3 DEF Alone
 <2>5. Agreed(d, v)'
  <3>1. \A b \in Client : Holds(b, d)' => Value(client'[b].item) = v
    BY <1>8, <2>1 DEF Agreed
  <3>2. \A t \in tasks' : t.item.doc = d => Value(t.item) = v
    BY <1>1, <2>1 DEF Agreed
  <3>3. \A w \in Worker :
          d \in DocsOf(flusher'[w].docs) => EndsWith(flusher'[w].docs, d, v)
    BY <1>1, <2>1 DEF Agreed
  <3>4. (\A b \in Client : ~Writes(b, d)') /\ d \in DocsOf(buffer') => EndsWith(buffer', d, v)
    BY <1>1, <1>8, <2>1 DEF Agreed
  <3>5. \A b \in Client : Copies(b, d)' /\ ~Writes(b, d)' => EndsWith(client'[b].seen, d, v)
   <4> SUFFICES ASSUME NEW b \in Client, Copies(b, d)', ~Writes(b, d)'
                PROVE  EndsWith(client'[b].seen, d, v)
     OBVIOUS
   <4>1. CASE Copies(b, d) /\ client'[b].seen = client[b].seen
     BY <1>8, <2>1, <4>1 DEF Agreed
   <4>2. CASE b = c /\ d \in DocsOf(buffer) /\ client'[b].seen = buffer
    <5>1. \A a \in Client : ~Writes(a, d)
      BY <1>8, <2>3, <4>2
    <5> QED
      BY <2>1, <4>2, <5>1 DEF Agreed
   <4> QED
     BY <1>8, <4>1, <4>2
  <3>6. Delivered(d)' => Delivered(d)
    BY <1>1, <1>8 DEF Delivered
  <3>7. Delivered(d)' => live'[d] = v
    BY <1>1, <2>1, <3>6 DEF Agreed
  <3> QED
    BY <3>1, <3>2, <3>3, <3>4, <3>5, <3>7 DEF Agreed
 <2> QED
   BY <2>2, <2>4, <2>5 DEF Coherent
<1> QED
  BY <1>4, <1>5, <1>7, <1>9 DEF IInv

LEMMA WriteBufferKeeps ==
  ASSUME IInv, NEW c \in Client, WriteBuffer(c) PROVE IInv'
<1> DEFINE e == client[c].item.doc
           q == client[c].seen
           s == [client[c] EXCEPT !.at = "check", !.seen = <<>>]
<1>1. /\ client[c].at = "write" /\ TypeOK /\ client[c] \in Busy /\ e \in Doc
      /\ client[c].item \in Item /\ q \in Seq(Item)
      /\ client' = [client EXCEPT ![c] = s]
      /\ gap' = gap \cup {i.doc : i \in ItemsOf(buffer) \ ItemsOf(q)} /\ gap \subseteq gap'
      /\ buffer' = Append(q, client[c].item)
      /\ UNCHANGED <<rows, live, tasks, flusher>>
  BY BusyFacts DEF WriteBuffer, IInv, queue
<1>2. /\ s \in Busy /\ s.at = "check" /\ s.item = client[c].item /\ s.atomic = client[c].atomic
 <2>1. "check" \in Places \ {"idle"}
   BY DEF Places
 <2> QED
   BY <1>1, <2>1, EmptyFacts DEF Busy
<1> HIDE DEF s
<1>3. client'[c] = s /\ \A b \in Client \ {c} : client'[b] = client[b]
  BY <1>1 DEF TypeOK
<1>4. HasLast(q)
  BY <1>1 DEF IInv, LastCopies
<1>5. /\ buffer' \in Seq(Item) /\ HasLast(buffer')
      /\ DocsOf(buffer') = DocsOf(q) \cup {e}
      /\ EndsWith(buffer', e, Value(client[c].item))
      /\ \A d, v : d # e /\ EndsWith(q, d, v) => EndsWith(buffer', d, v)
  BY <1>1, <1>4, AppendFacts
<1> HIDE DEF q
<1>6. TypeOK'
 <2>1. {i.doc : i \in ItemsOf(buffer) \ ItemsOf(q)} \subseteq Doc
   BY <1>1, DocsType DEF TypeOK
 <2> QED
   BY <1>1, <1>2, <1>5, <2>1, MoveTypes DEF TypeOK, WriteBuffer, queue
<1>7. LastCopies'
  BY <1>1, <1>2, <1>3, <1>5 DEF IInv, LastCopies
<1>8. \A b \in Client, d \in Doc : Locks(b, d)' <=> Locks(b, d)
  BY <1>1, <1>2, <1>3 DEF Locks
<1>9. OneLock'
  BY <1>2, <1>3, <1>8 DEF IInv, OneLock
<1>10. \A b \in Client, d \in Doc :
         /\ client'[b].item = client[b].item
         /\ Holds(b, d)' <=> Holds(b, d)
         /\ Writes(b, d)' <=> b # c /\ Writes(b, d)
         /\ d # e => ~Writes(c, d) /\ (Owes(b, d)' <=> Owes(b, d))
         /\ Copies(b, d)' <=> b # c /\ Copies(b, d)
         /\ b # c => client'[b].seen = client[b].seen
  BY <1>1, <1>2, <1>3 DEF Holds, Writes, Owes, Copies, InHand
<1>11. ASSUME NEW d \in Doc \ gap' PROVE Coherent(d)'
 <2>1. PICK v \in Number : Alone(d) /\ Target(d, v) /\ Agreed(d, v)
   BY <1>1 DEF IInv, Coherent
 <2>2. Target(d, v)'
   BY <1>1, <1>8, <1>10, <2>1, TargetKeeps
 <2>3. d \in DocsOf(buffer) => d \in DocsOf(q)
   BY <1>1, <1>11 DEF DocsOf, ItemsOf
 <2>4. Copies(c, d) <=> d \in DocsOf(q)
   BY <1>1 DEF Copies, q
 <2>5. Delivered(d)' => live'[d] = v
  <3>1. Delivered(d)' => d # e /\ d \notin DocsOf(q)
    BY <1>5 DEF Delivered
  <3>2. Delivered(d)' => Delivered(d)
    BY <1>1, <1>10, <2>3, <2>4, <3>1 DEF Delivered
  <3> QED
    BY <1>1, <2>1, <3>2 DEF Agreed
 <2>6. d \in DocsOf(buffer') => EndsWith(buffer', d, v)
  <3>1. CASE d = e
   <4>1. Holds(c, d)
     BY <1>1, <3>1 DEF Holds, InHand
   <4>2. Value(client[c].item) = v
     BY <2>1, <4>1 DEF Agreed
   <4> QED
     BY <1>5, <3>1, <4>2
  <3>2. CASE d # e /\ d \in DocsOf(q)
   <4>1. EndsWith(q, d, v)
     BY <1>10, <2>1, <2>4, <3>2 DEF Agreed, q
   <4> QED
     BY <1>5, <3>2, <4>1
  <3> QED
    BY <1>5, <3>1, <3>2
 <2>7. \A b \in Client : Copies(b, d)' =>
         /\ Copies(b, d) /\ client'[b].seen = client[b].seen
         /\ Writes(b, d) => Writes(b, d)'
   BY <1>10
 <2> QED
   BY <1>1, <1>10, <2>1, <2>2, <2>5, <2>6, <2>7, FrameKeeps
<1> QED
  BY <1>6, <1>7, <1>9, <1>11 DEF IInv

-----------------------------------------------------------------------------
(***************************************************************************)
(* Changes of rows                                                         *)
(***************************************************************************)
LEMMA SkippedChangeKeeps ==
  ASSUME IInv, NEW e \in Doc, NEW removes \in BOOLEAN, SkippedChange(e, removes) PROVE IInv'
<1> DEFINE n == IF removes THEN 0 ELSE changes + 1
<1>1. /\ TypeOK /\ gap' = gap \cup {e} /\ changes' = changes + 1 /\ changes < MaxChanges
      /\ rows' = [rows EXCEPT ![e] = n]
      /\ UNCHANGED <<live, client, buffer, flusher, tasks>>
  BY DEF SkippedChange, IInv, cache, queue
<1>2. changes + 1 \in 0..MaxChanges /\ n \in Number
  BY <1>1, CountsTypes DEF Number
<1> HIDE DEF n
<1>3. rows' \in [Doc -> Number] /\ \A d \in Doc \ {e} : rows'[d] = rows[d]
  BY <1>1, <1>2 DEF TypeOK, Number
<1>4. TypeOK'
  BY <1>1, <1>2, <1>3 DEF TypeOK, SkippedChange, cache, queue, Number
<1>5. LastCopies' /\ OneLock'
  BY <1>1 DEF IInv, LastCopies, OneLock, Locks
<1>6. ASSUME NEW d \in Doc \ gap' PROVE Coherent(d)'
 <2>1. PICK v \in Number : Alone(d) /\ Target(d, v) /\ Agreed(d, v)
   BY <1>1 DEF IInv, Coherent
 <2>2. d \in Doc \ {e}
   BY <1>1
 <2>3. \A b \in Client : /\ Locks(b, d)' <=> Locks(b, d)
                         /\ Holds(b, d)' <=> Holds(b, d)
                         /\ Writes(b, d)' <=> Writes(b, d)
                         /\ Copies(b, d)' <=> Copies(b, d)
                         /\ Owes(b, d)' <=> Owes(b, d)
   BY <1>1 DEF Locks, Holds, Writes, Copies, Owes
 <2>4. Target(d, v)'
   BY <1>1, <1>3, <2>1, <2>2, <2>3, TargetKeeps
 <2>5. Delivered(d)' => live'[d] = v
   BY <1>1, <2>1, <2>3 DEF Agreed, Delivered
 <2>6. (\A b \in Client : ~Writes(b, d)') /\ d \in DocsOf(buffer') => EndsWith(buffer', d, v)
   BY <1>1, <2>1, <2>3 DEF Agreed
 <2> QED
   BY <1>1, <2>1, <2>3, <2>4, <2>5, <2>6, FrameKeeps
<1> QED
  BY <1>4, <1>5, <1>6 DEF IInv

LEMMA HandleChangeKeeps ==
  ASSUME IInv, NEW c \in Client, NEW e \in Doc, NEW removes \in BOOLEAN,
         NEW atomic \in BOOLEAN, HandleChange(c, e, removes, atomic)
  PROVE  IInv'
<1> DEFINE item == [doc |-> e, change |-> changes + 1, removes |-> removes]
           s == [at |-> Dispatch(removes), item |-> item, atomic |-> atomic, seen |-> <<>>]
<1>1. /\ TypeOK /\ changes' = changes + 1 /\ changes < MaxChanges
      /\ client[c] = Idle /\ ~Locked(e)
      /\ rows' = IF atomic THEN rows ELSE [rows EXCEPT ![e] = Value(item)]
      /\ client' = [client EXCEPT ![c] = s]
      /\ gap' = gap \cup {e} \/ gap' = gap \ {e}
      /\ UNCHANGED <<live, buffer, flusher, tasks>>
  BY DEF HandleChange, IInv, cache, queue
<1>2. e \notin gap' => ~OnItsWay(e) /\ (e \in DocsOf(buffer) => Dispatch(removes) = "append")
  BY DEF HandleChange
<1>3. changes + 1 \in 0..MaxChanges /\ item \in Item /\ item.doc = e
  BY <1>1, CountsTypes DEF Item
<1>4. Dispatch(removes) \in {"engine", "delay", "append"}
  BY DEF Dispatch
<1>5. PICK z \in Number : z = Value(item)
  BY <1>3, ValueType
<1>6. /\ s \in Busy /\ s.at = Dispatch(removes) /\ s.item = item /\ s.atomic = atomic
      /\ s.at \in {"engine", "delay", "append"}
 <2>1. Dispatch(removes) \in Places \ {"idle"}
   BY <1>4 DEF Places
 <2> QED
   BY <1>3, <1>4, <2>1, EmptyFacts DEF Busy
<1> HIDE DEF item, s
<1>7. client'[c] = s /\ \A b \in Client \ {c} : client'[b] = client[b]
  BY <1>1 DEF TypeOK
<1>8. /\ rows' \in [Doc -> Number] /\ \A d \in Doc \ {e} : rows'[d] = rows[d]
      /\ ~atomic => rows'[e] = z
  BY <1>1, <1>5 DEF TypeOK, Number
<1>9. TypeOK'
 <2>1. client' \in [Client -> {Idle} \cup Busy]
   BY <1>1, <1>6, MoveTypes
 <2>2. gap' \subseteq Doc
   BY <1>1 DEF TypeOK
 <2> QED
   BY <1>1, <1>3, <1>8, <2>1, <2>2 DEF TypeOK, HandleChange, cache, queue, Number
<1>10. LastCopies'
  BY <1>1, <1>6, <1>7 DEF IInv, LastCopies
<1>11. client[c].at = "idle"
  BY <1>1 DEF Idle
<1>12. \A b \in Client, d \in Doc :
         /\ b # c \/ d # e => (Locks(b, d)' <=> Locks(b, d))
         /\ b # c \/ d # e => (Holds(b, d)' <=> Holds(b, d))
         /\ b # c \/ d # e => (Writes(b, d)' <=> Writes(b, d))
         /\ b # c \/ d # e => (Owes(b, d)' <=> Owes(b, d))
         /\ Copies(b, d)' <=> Copies(b, d)
         /\ Locks(b, d) \/ Holds(b, d) \/ Copies(b, d) =>
              client'[b].item = client[b].item /\ client'[b].seen = client[b].seen
  BY <1>3, <1>6, <1>7, <1>11 DEF Locks, Holds, Writes, Owes, Copies, InHand
<1>13. \A b \in Client : ~Locks(b, e)
  BY <1>1 DEF Locks, Locked
<1>14. OneLock'
 <2>1. \A d \in Doc : \A a, b \in Client : Locks(a, d)' /\ Locks(b, d)' => a = b
   BY <1>12, <1>13 DEF IInv, OneLock
 <2>2. \A b \in Client : client'[b].at = "commit" => client'[b].atomic
   BY <1>6, <1>7 DEF IInv, OneLock
 <2> QED
   BY <2>1, <2>2 DEF OneLock
<1>15. ASSUME NEW d \in Doc \ gap', d # e PROVE Coherent(d)'
 <2>1. PICK v \in Number : Alone(d) /\ Target(d, v) /\ Agreed(d, v)
   BY <1>1, <1>15 DEF IInv, Coherent
 <2>2. Target(d, v)'
   BY <1>8, <1>12, <1>15, <2>1, TargetKeeps
 <2>3. Delivered(d)' => live'[d] = v
   BY <1>1, <1>12, <1>15, <2>1 DEF Agreed, Delivered
 <2>4. (\A b \in Client : ~Writes(b, d)') /\ d \in DocsOf(buffer') => EndsWith(buffer', d, v)
   BY <1>1, <1>12, <1>15, <2>1 DEF Agreed
 <2> QED
   BY <1>1, <1>12, <1>15, <2>1, <2>2, <2>3, <2>4, FrameKeeps
<1>16. ASSUME e \notin gap' PROVE Coherent(e)'
 <2>1. /\ \A b \in Client : ~Holds(b, e) /\ ~Copies(b, e) /\ ~Writes(b, e)
       /\ \A t \in tasks : t.item.doc # e
       /\ \A w \in Worker : e \notin DocsOf(flusher[w].docs)
   BY <1>2, <1>16 DEF OnItsWay, Holds, Copies, Writes, InHand
 <2>2. Owes(c, e)' /\ (Writes(c, e)' <=> s.at = "append")
   BY <1>3, <1>6, <1>7 DEF Owes, Writes
 <2>3. \A b \in Client : /\ Locks(b, e)' => b = c
                         /\ Holds(b, e)' => b = c
                         /\ Writes(b, e)' => b = c
                         /\ ~Copies(b, e)'
   BY <1>12, <1>13, <2>1
 <2>4. Alone(e)'
   BY <1>1, <2>1, <2>3 DEF Alone
 <2>5. Target(e, z)'
  <3>1. Value(client'[c].item) = z
    BY <1>5, <1>6, <1>7
  <3>2. (\A b \in Client : ~Locks(b, e)') => ~atomic
    BY <1>3, <1>6, <1>7 DEF Locks
  <3>3. \A b \in Client : Locks(b, e)' => Value(client'[b].item) = z
    BY <2>3, <3>1
  <3> QED
    BY <1>8, <3>2, <3>3 DEF Target
 <2>6. Agreed(e, z)'
  <3>1. \A b \in Client : Holds(b, e)' => Value(client'[b].item) = z
    BY <1>5, <1>6, <1>7, <2>3
  <3>2. (\A b \in Client : ~Writes(b, e)') => e \notin DocsOf(buffer')
    BY <1>1, <1>2, <1>6, <1>16, <2>2
  <3>3. ~Delivered(e)'
    BY <2>2 DEF Delivered
  <3> QED
    BY <1>1, <2>1, <2>3, <3>1, <3>2, <3>3 DEF Agreed
 <2> QED
   BY <2>4, <2>5, <2>6 DEF Coherent
<1> QED
  BY <1>9, <1>10, <1>14, <1>15, <1>16 DEF IInv

-----------------------------------------------------------------------------
LEMMA InitIInv == Init => IInv
<1> SUFFICES ASSUME Init PROVE IInv
  OBVIOUS
<1>1. /\ \A c \in Client : client[c] = Idle /\ client[c].at = "idle"
      /\ \A w \in Worker : flusher[w] = NoFlush /\ flusher[w].docs = <<>>
      /\ buffer = <<>> /\ tasks = {} /\ \A d \in Doc : rows[d] = 0 /\ live[d] = 0
  BY DEF Init, Idle, NoFlush
<1>2. TypeOK
 <2>1. NoFlush \in [at : {"idle", "clear", "send"}, docs : Seq(Item)]
   BY EmptyFacts DEF NoFlush
 <2>2. /\ client \in [Client -> {Idle} \cup Busy]
       /\ rows \in [Doc -> {0} \cup Change] /\ live \in [Doc -> {0} \cup Change]
   BY DEF Init
 <2>3. flusher \in [Worker -> [at : {"idle", "clear", "send"}, docs : Seq(Item)]]
   BY <2>1 DEF Init
 <2>4. 0 \in 0..MaxChanges /\ 0 \in 0..MaxFailures
   BY BoundAssumption
 <2> QED
   BY <2>2, <2>3, <2>4, EmptyFacts DEF Init, TypeOK
<1>3. LastCopies /\ OneLock
  BY <1>1, EmptyFacts DEF LastCopies, OneLock, Locks
<1>4. ASSUME NEW d \in Doc PROVE Coherent(d)
 <2>1. \A c \in Client : ~Holds(c, d) /\ ~Copies(c, d) /\ ~Writes(c, d) /\ ~Locks(c, d)
   BY <1>1 DEF Holds, Copies, Writes, Locks, InHand
 <2>2. \A w \in Worker : d \notin DocsOf(flusher[w].docs)
   BY <1>1, EmptyFacts
 <2>3. Alone(d) /\ Target(d, 0)
   BY <1>1, <2>1 DEF Alone, Target
 <2>4. Agreed(d, 0)
   BY <1>1, <2>1, <2>2, EmptyFacts DEF Agreed
 <2>5. 0 \in Number
   BY DEF Number
 <2> QED
   BY <2>3, <2>4, <2>5 DEF Coherent
<1> QED
  BY <1>2, <1>3, <1>4 DEF IInv

LEMMA NextIInv == IInv /\ [Next]_vars => IInv'
<1> SUFFICES ASSUME IInv, [Next]_vars PROVE IInv'
  OBVIOUS
<1>1. ASSUME NEW c \in Client, NEW d \in Doc, NEW atomic \in BOOLEAN,
             Save(c, d, atomic) \/ Remove(c, d, atomic)
      PROVE  IInv'
  BY <1>1, HandleChangeKeeps DEF Save, Remove
<1>2. ASSUME NEW d \in Doc, NEW removes \in BOOLEAN, SkippedChange(d, removes) PROVE IInv'
  BY <1>2, SkippedChangeKeeps
<1>3. ASSUME NEW c \in Client, ClientStep(c) PROVE IInv'
  BY <1>3, CommitKeeps, BrokerErrorKeeps, ClientKilledKeeps, CallEngineKeeps, EngineErrorKeeps, DelayKeeps,
     ReadBufferKeeps, WriteBufferKeeps, CheckMarkerKeeps, ScheduleFlushKeeps,
     SetMarkerKeeps, ScheduleErrorKeeps, DropBufferKeeps DEF ClientStep
<1>4. ASSUME NEW w \in Worker, FlushStep(w) PROVE IInv'
  BY <1>4, FlushReadsKeeps, FlushClearsKeeps, FlushSendsKeeps, FlushLostKeeps DEF FlushStep
<1>5. ASSUME TaskStep PROVE IInv'
  BY <1>5, RunTaskKeeps, RetryTaskKeeps DEF TaskStep
<1>6. ASSUME LoseFlush \/ ExpireMarker \/ ExpireBuffer PROVE IInv'
  BY <1>6, ExpireMarkerKeeps, ExpireBufferKeeps
<1>7. CASE UNCHANGED vars
 <2>1. UNCHANGED <<mode, rows, live, client, buffer, marker, flushes, flusher, tasks,
                   gap, relied, changes, failures>>
   BY <1>7 DEF vars
 <2> QED
   BY <2>1 DEF IInv, TypeOK, LastCopies, OneLock, Coherent, Alone, Target, Agreed,
               Delivered, Locks, Holds, Writes, Owes, Copies, EndsWith, HasLast
<1> QED
  BY <1>1, <1>2, <1>3, <1>4, <1>5, <1>6, <1>7 DEF Next

-----------------------------------------------------------------------------
\* Every variable of the model of automatic indexing keeps its type.
THEOREM TypeCorrect == Spec => []TypeOK
<1>1. IInv => TypeOK
  BY DEF IInv
<1> QED
  BY <1>1, InitIInv, NextIInv, PTL DEF Spec

\* However the handlers of icv_search.auto_index, its flushes and its tasks
\* interleave, the engine agrees with the database on every row at rest that is
\* not one of the named gaps.
THEOREM AgreesCorrect == Spec => []AgreesUnlessGap
<1>1. IInv => AgreesUnlessGap
 <2> SUFFICES ASSUME IInv, NEW d \in Doc, AtRest(d), d \notin gap PROVE live[d] = rows[d]
   BY DEF AgreesUnlessGap
 <2>1. PICK v \in Number : Target(d, v) /\ Agreed(d, v)
   BY DEF IInv, Coherent
 <2>2. rows[d] = v
   BY <2>1 DEF AtRest, Locked, Locks, Target
 <2>3. Delivered(d)
   BY DEF AtRest, OnItsWay, Delivered, Owes, Copies, InHand
 <2> QED
   BY <2>1, <2>2, <2>3 DEF Agreed
<1> QED
  BY <1>1, InitIInv, NextIInv, PTL DEF Spec

\* A client that starts a flush, or has just written what a flush must read.
Attends(c) == client[c].at \in {"check", "schedule", "drop"}

\* Nothing that would attend to the buffer goes.
LEMMA AttendedStays ==
  ASSUME UnattendedOnlyByMarker, UNCHANGED <<buffer, flushes, relied>>,
         \A w \in Worker : flusher[w].at = "clear" => flusher'[w].at = "clear",
         \A c \in Client : Attends(c) => Attends(c)'
  PROVE  UnattendedOnlyByMarker'
BY DEF UnattendedOnlyByMarker, Attends

\* The same for a step of one client.
LEMMA AttendedClient ==
  ASSUME TypeOK, UnattendedOnlyByMarker, UNCHANGED <<buffer, flushes, relied, flusher>>,
         NEW c \in Client, NEW s, client' = [client EXCEPT ![c] = s],
         Attends(c) => s.at \in {"check", "schedule", "drop"}
  PROVE  UnattendedOnlyByMarker'
<1>1. client'[c] = s /\ \A b \in Client \ {c} : client'[b] = client[b]
  BY DEF TypeOK
<1>2. \A b \in Client : Attends(b) => Attends(b)'
  BY <1>1 DEF Attends
<1> QED
  BY <1>2, AttendedStays

LEMMA AttendedByClients ==
  ASSUME TypeOK, UnattendedOnlyByMarker, NEW c \in Client, ClientStep(c)
  PROVE  UnattendedOnlyByMarker'
<1>1. CASE Commit(c) \/ Rollback(c) \/ BrokerError(c)
 <2>1. /\ client' = [client EXCEPT ![c] = Idle] /\ ~Attends(c)
       /\ UNCHANGED <<buffer, flushes, relied, flusher>>
   BY <1>1 DEF Commit, Rollback, BrokerError, Attends, cache, queue
 <2> QED
   BY <2>1, AttendedClient
<1>2. CASE CallEngine(c) \/ EngineError(c) \/ Delay(c) \/ SetMarker(c)
 <2>1. /\ Leaves(c) /\ client[c].at # "idle" /\ ~Attends(c)
       /\ UNCHANGED <<buffer, flushes, relied, flusher>>
   BY <1>2 DEF CallEngine, EngineError, Delay, SetMarker, Attends, cache, queue
 <2>2. PICK s \in {Idle} \cup Busy : client' = [client EXCEPT ![c] = s]
   BY <2>1, LeavesFacts
 <2> QED
   BY <2>1, <2>2, AttendedClient
<1>3. CASE ReadBuffer(c)
 <2> DEFINE s == [client[c] EXCEPT !.at = "write", !.seen = buffer]
 <2>1. /\ client' = [client EXCEPT ![c] = s] /\ ~Attends(c)
       /\ UNCHANGED <<buffer, flushes, relied, flusher>>
   BY <1>3 DEF ReadBuffer, Attends, cache, queue
 <2> QED
   BY <2>1, AttendedClient
<1>4. CASE WriteBuffer(c)
 <2>1. client[c] \in Busy
   BY <1>4, BusyFacts DEF WriteBuffer
 <2>2. client'[c].at = "check"
   BY <1>4, <2>1 DEF WriteBuffer, TypeOK, Busy
 <2> QED
   BY <2>2 DEF UnattendedOnlyByMarker
<1>5. CASE CheckMarker(c)
 <2>1. CASE marker
   BY <1>5, <2>1 DEF CheckMarker, UnattendedOnlyByMarker
 <2>2. CASE ~marker
  <3>1. PICK s \in {Idle} \cup Busy : client' = [client EXCEPT ![c] = s] /\ s.at = "schedule"
    BY <1>5, <2>2, GoesFacts DEF CheckMarker, Places
  <3> QED
    BY <1>5, <2>2, <3>1, AttendedClient DEF CheckMarker, cache, queue
 <2> QED
   BY <2>1, <2>2
<1>6. CASE ScheduleFlush(c)
 <2>1. flushes' \in Nat /\ flushes' # 0
   BY <1>6 DEF ScheduleFlush, TypeOK
 <2> QED
   BY <2>1 DEF UnattendedOnlyByMarker
<1>7. CASE ScheduleError(c)
 <2>1. PICK s \in {Idle} \cup Busy : client' = [client EXCEPT ![c] = s] /\ s.at = "drop"
   BY <1>7, GoesFacts DEF ScheduleError, Places
 <2> QED
   BY <1>7, <2>1, AttendedClient DEF ScheduleError, cache, queue
<1>8. CASE DropBuffer(c)
  BY <1>8 DEF DropBuffer, UnattendedOnlyByMarker
<1>9. CASE ClientKilled(c)
 <2>1. client' = [client EXCEPT ![c] = Idle] /\ UNCHANGED <<buffer, flushes, flusher>>
   BY <1>9 DEF ClientKilled, cache, queue
 <2>2. CASE Attends(c)
   BY <1>9, <2>2 DEF ClientKilled, Attends, UnattendedOnlyByMarker
 <2>3. CASE ~Attends(c)
   BY <1>9, <2>1, <2>3, AttendedClient DEF ClientKilled, Attends, TypeOK
 <2> QED
   BY <2>2, <2>3
<1> QED
  BY <1>1, <1>2, <1>3, <1>4, <1>5, <1>6, <1>7, <1>8, <1>9 DEF ClientStep

LEMMA AttendedByFlushes ==
  ASSUME TypeOK, UnattendedOnlyByMarker, NEW w \in Worker, FlushStep(w)
  PROVE  UnattendedOnlyByMarker'
<1>1. CASE FlushReads(w)
 <2>1. CASE buffer = <<>>
   BY <1>1, <2>1 DEF FlushReads, UnattendedOnlyByMarker, cache
 <2>2. CASE buffer # <<>>
  <3>1. flusher'[w].at = "clear"
    BY <1>1, <2>2 DEF FlushReads, TypeOK
  <3> QED
    BY <3>1 DEF UnattendedOnlyByMarker
 <2> QED
   BY <2>1, <2>2
<1>2. CASE FlushClears(w)
  BY <1>2 DEF FlushClears, UnattendedOnlyByMarker
<1>3. CASE FlushSends(w) \/ FlushFails(w)
 <2>1. /\ flusher[w].at = "send" /\ flusher' = [flusher EXCEPT ![w] = NoFlush]
       /\ UNCHANGED <<buffer, flushes, relied, client>>
   BY <1>3 DEF FlushSends, FlushFails, cache
 <2>2. \A x \in Worker : flusher[x].at = "clear" => flusher'[x].at = "clear"
   BY <2>1 DEF TypeOK
 <2> QED
   BY <2>1, <2>2, AttendedStays DEF Attends
<1>4. CASE FlushKilled(w)
  BY <1>4 DEF FlushKilled, UnattendedOnlyByMarker
<1> QED
  BY <1>1, <1>2, <1>3, <1>4 DEF FlushStep

LEMMA NextAttended ==
  IInv /\ UnattendedOnlyByMarker /\ [Next]_vars => UnattendedOnlyByMarker'
<1> SUFFICES ASSUME IInv, UnattendedOnlyByMarker, [Next]_vars PROVE UnattendedOnlyByMarker'
  OBVIOUS
<1>1. TypeOK
  BY DEF IInv
<1>2. ASSUME NEW c \in Client, NEW d \in Doc, NEW atomic \in BOOLEAN,
             Save(c, d, atomic) \/ Remove(c, d, atomic)
      PROVE  UnattendedOnlyByMarker'
 <2>1. PICK removes \in BOOLEAN : HandleChange(c, d, removes, atomic)
   BY <1>2 DEF Save, Remove
 <2>2. ~Attends(c) /\ UNCHANGED <<buffer, flushes, relied, flusher>>
   BY <2>1 DEF HandleChange, Attends, Idle, cache, queue
 <2>3. \E s : client' = [client EXCEPT ![c] = s]
   BY <2>1 DEF HandleChange
 <2> QED
   BY <1>1, <2>2, <2>3, AttendedClient
<1>3. ASSUME NEW d \in Doc, NEW removes \in BOOLEAN, SkippedChange(d, removes)
      PROVE  UnattendedOnlyByMarker'
  BY <1>3 DEF SkippedChange, UnattendedOnlyByMarker, cache, queue
<1>4. ASSUME NEW c \in Client, ClientStep(c) PROVE UnattendedOnlyByMarker'
  BY <1>1, <1>4, AttendedByClients
<1>5. ASSUME NEW w \in Worker, FlushStep(w) PROVE UnattendedOnlyByMarker'
  BY <1>1, <1>5, AttendedByFlushes
<1>6. ASSUME TaskStep PROVE UnattendedOnlyByMarker'
  BY <1>6 DEF TaskStep, RunTask, RetryTask, LoseTask, UnattendedOnlyByMarker, cache
<1>7. CASE LoseFlush \/ ExpireBuffer
  BY <1>7 DEF LoseFlush, ExpireBuffer, UnattendedOnlyByMarker
<1>8. CASE ExpireMarker \/ UNCHANGED vars
  BY <1>8 DEF ExpireMarker, UnattendedOnlyByMarker, vars, queue
<1> QED
  BY <1>2, <1>3, <1>4, <1>5, <1>6, <1>7, <1>8 DEF Next

\* Whatever fails or is lost, documents that wait in the buffer have somebody to
\* flush them, unless a client has relied on the marker of a flush that had read
\* the buffer before or was killed before it scheduled one, or a flush was lost.
THEOREM UnattendedCorrect == Spec => []UnattendedOnlyByMarker
<1>1. Init => UnattendedOnlyByMarker
  BY DEF Init, UnattendedOnlyByMarker
<1> QED
  BY <1>1, InitIInv, NextIInv, NextAttended, PTL DEF Spec
=============================================================================
