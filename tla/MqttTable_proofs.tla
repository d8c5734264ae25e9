--------------------------- MODULE MqttTable_proofs ---------------------------
(***************************************************************************)
(* Lemmas about the operators of the request table: what a walk of a list  *)
(* threaded through an array meets, when it ends, and what linking, taking *)
(* and freeing an item do to the walks of the others.                      *)
(***************************************************************************)
EXTENDS MqttClient, TLAPS

Nodes == Slots \cup {NULL}

\* The links of a table lead to slots or to the end.
Linked(t) == t.next \in [Slots -> Nodes]

\* A walk that starts in C stays in C.
Closed(t, C) == C \in SUBSET Nodes /\ \A c \in C \ {NULL} : t.next[c] \in C

-----------------------------------------------------------------------------
(* Walks *)

\* Slots are numbers from 1, and NULL is none of them.
LEMMA NullNoSlot == NULL \notin Slots /\ Slots = Nodes \ {NULL}
    BY DEF NULL, Slots, Nodes

\* What a walk meets is in every closed set that contains its start.
LEMMA ReachLeast ==
  ASSUME NEW t, NEW x, NEW C, Closed(t, C), x \in C
  PROVE  Reach(t, x) \subseteq C
    BY DEF Reach, Closed, Regions, Nodes

\* And what is in every such set is met.
LEMMA ReachAll ==
  ASSUME NEW t, NEW x, NEW y \in Nodes, \A C : Closed(t, C) /\ x \in C => y \in C
  PROVE  y \in Reach(t, x)
    BY DEF Reach, Closed, Regions, Nodes

\* A walk meets its start, and whatever it meets it also meets the successor of.
LEMMA ReachSelf ==
  ASSUME NEW t, NEW x \in Nodes
  PROVE  x \in Reach(t, x)
    BY DEF Reach, Nodes

LEMMA ReachClosed ==
  ASSUME NEW t, Linked(t), NEW x
  PROVE  Closed(t, Reach(t, x))
<1>1. Reach(t, x) \in SUBSET Nodes
    BY DEF Reach, Nodes
<1>2. ASSUME NEW c \in Reach(t, x) \ {NULL} PROVE t.next[c] \in Reach(t, x)
  <2>1. c \in Slots /\ t.next[c] \in Nodes
      BY <1>1, <1>2, NullNoSlot DEF Linked
  <2>2. ASSUME NEW C, Closed(t, C), x \in C PROVE t.next[c] \in C
      BY <1>2, <2>2, ReachLeast DEF Closed
  <2> QED
      BY <2>1, <2>2, ReachAll
<1> QED
    BY <1>1, <1>2 DEF Closed

\* At the end there is nothing more.
LEMMA ReachNull == ASSUME NEW t PROVE Reach(t, NULL) = {NULL}
<1>1. Closed(t, {NULL})
    BY DEF Closed, Nodes
<1>2. NULL \in Nodes
    BY DEF Nodes
<1> QED
    BY <1>1, <1>2, ReachLeast, ReachSelf

\* A walk from what a walk meets meets no more.
LEMMA ReachTrans ==
  ASSUME NEW t, Linked(t), NEW x, NEW y \in Reach(t, x)
  PROVE  Reach(t, y) \subseteq Reach(t, x)
    BY ReachClosed, ReachLeast

\* A walk that meets something beyond its start meets it from the successor on.
LEMMA ReachNext ==
  ASSUME NEW t, Linked(t), NEW x \in Slots, NEW y \in Reach(t, x), y # x
  PROVE  y \in Reach(t, t.next[x])
<1> DEFINE R == Reach(t, t.next[x])
<1>1. Closed(t, R) /\ t.next[x] \in R
    BY ReachClosed, ReachSelf DEF Linked
<1>2. Closed(t, R \cup {x})
    BY <1>1 DEF Closed, Nodes
<1> QED
    BY <1>2, ReachLeast

-----------------------------------------------------------------------------
(* Walks that end *)

Ends(t, x) == NULL \in Reach(t, x)

\* A walk ends that is in no closed set of slots alone.
LEMMA EndsIf ==
  ASSUME NEW t, NEW x, \A C : Closed(t, C) /\ x \in C => NULL \in C
  PROVE  Ends(t, x)
    BY ReachAll DEF Ends, Nodes

LEMMA EndsThen ==
  ASSUME NEW t, NEW x, Ends(t, x), NEW C, Closed(t, C), x \in C
  PROVE  NULL \in C
    BY ReachLeast DEF Ends

\* If a walk ends, it ends from whatever it meets.
LEMMA EndsWithin ==
  ASSUME NEW t, Linked(t), NEW x \in Nodes, Ends(t, x), NEW y \in Reach(t, x)
  PROVE  Ends(t, y)
<1> DEFINE D == {z \in Reach(t, x) : NULL \in Reach(t, z)}
<1>1. x \in D
    BY ReachSelf DEF Ends
<1>2. Closed(t, Reach(t, x))
    BY ReachClosed
<1>3. ASSUME NEW z \in D \ {NULL} PROVE t.next[z] \in D
  <2>1. z \in Slots /\ NULL # z
      BY <1>2, <1>3, NullNoSlot DEF Closed
  <2>2. NULL \in Reach(t, t.next[z])
      BY <1>3, <2>1, ReachNext
  <2> QED
      BY <1>2, <1>3, <2>2 DEF Closed
<1>4. Closed(t, D)
    BY <1>2, <1>3 DEF Closed
<1> QED
    BY <1>1, <1>4, ReachLeast DEF Ends

\* A walk that ends does not come back to where it began.
LEMMA NoCycle ==
  ASSUME NEW t, Linked(t), NEW s \in Slots, Ends(t, s)
  PROVE  s \notin Reach(t, t.next[s])
<1> SUFFICES ASSUME s \in Reach(t, t.next[s]) PROVE FALSE
    OBVIOUS
<1> DEFINE D == {z \in Slots : s \in Reach(t, z)}
<1>1. s \in D
    BY ReachSelf DEF Nodes
<1>2. ASSUME NEW z \in D PROVE t.next[z] \in D
  <2>1. s \in Reach(t, t.next[z])
      BY <1>2, ReachNext
  <2>2. t.next[z] # NULL
      BY <2>1, ReachNull, NullNoSlot
  <2>3. t.next[z] \in Nodes
      BY <1>2 DEF Linked
  <2> QED
      BY <2>1, <2>2, <2>3, NullNoSlot
<1>3. Closed(t, D) /\ NULL \notin D
    BY <1>2, NullNoSlot DEF Closed
<1> QED
    BY <1>1, <1>3, EndsThen

\* A walk that ends meets no slot that is its own successor.
LEMMA FreeApart ==
  ASSUME NEW t, Linked(t), NEW x \in Nodes, Ends(t, x), NEW s \in Reach(t, x), s # NULL
  PROVE  t.next[s] # s
<1>1. s \in Slots
    BY ReachClosed, NullNoSlot DEF Closed
<1>2. Ends(t, s)
    BY EndsWithin
<1>3. s \in Reach(t, s)
    BY <1>1, ReachSelf DEF Nodes
<1> QED
    BY <1>1, <1>2, <1>3, NoCycle

\* Of two items that a walk meets, one comes after the other.
LEMMA InOrder ==
  ASSUME NEW t, Linked(t), NEW x \in Nodes, NEW a \in Reach(t, x), NEW b \in Reach(t, x)
  PROVE  a \in Reach(t, b) \/ b \in Reach(t, a)
<1> DEFINE D == {z \in Reach(t, x) : z \in Reach(t, b) \/ b \in Reach(t, z)}
<1>1. x \in D
    BY ReachSelf
<1>2. Closed(t, Reach(t, x)) /\ Closed(t, Reach(t, b))
    BY ReachClosed
<1>3. ASSUME NEW z \in D \ {NULL} PROVE t.next[z] \in D
  <2>1. z \in Slots /\ t.next[z] \in Reach(t, x)
      BY <1>2, <1>3, NullNoSlot DEF Closed
  <2>2. CASE z \in Reach(t, b)
      BY <1>2, <1>3, <2>1, <2>2 DEF Closed
  <2>3. CASE b \in Reach(t, z) /\ z \notin Reach(t, b)
    <3>1. b # z
        BY <2>1, <2>3, ReachSelf DEF Nodes
    <3>2. b \in Reach(t, t.next[z])
        BY <2>1, <2>3, <3>1, ReachNext
    <3> QED
        BY <2>1, <3>2
  <2> QED
      BY <1>3, <2>2, <2>3
<1>4. Closed(t, D)
    BY <1>2, <1>3 DEF Closed
<1> QED
    BY <1>1, <1>4, ReachLeast

\* In a list that ends an item has one predecessor.
LEMMA OnePredecessor ==
  ASSUME NEW t, Linked(t), NEW x \in Nodes, Ends(t, x),
         NEW a \in Reach(t, x), NEW b \in Reach(t, x), NEW s \in Slots,
         a # NULL, b # NULL, t.next[a] = s, t.next[b] = s
  PROVE  a = b
<1>1. ASSUME NEW c \in Reach(t, x), NEW d \in Reach(t, x), c # NULL, d # NULL,
             t.next[c] = s, t.next[d] = s, d \in Reach(t, c), c # d
      PROVE  FALSE
  <2>1. c \in Slots /\ d \in Slots
      BY <1>1, ReachClosed, NullNoSlot DEF Closed
  <2>2. d \in Reach(t, s)
      BY <1>1, <2>1, ReachNext
  <2>3. s \in Reach(t, x)
      BY <1>1, ReachClosed DEF Closed
  <2>4. Ends(t, s)
      BY <2>3, EndsWithin
  <2>5. d # s
      BY <1>1, FreeApart
  <2>6. d \in Reach(t, t.next[s])
      BY <2>2, <2>5, ReachNext
  <2>7. s \in Reach(t, t.next[s])
      BY <1>1, <2>6, ReachClosed DEF Closed
  <2> QED
      BY <2>4, <2>7, NoCycle
<1> QED
    BY <1>1, InOrder

-----------------------------------------------------------------------------
(* Two tables *)

\* A walk that meets no changed item meets what it met.
LEMMA ReachSame ==
  ASSUME NEW t, NEW u, Linked(t), Linked(u), NEW x \in Nodes,
         \A c \in Reach(t, x) \ {NULL} : u.next[c] = t.next[c]
  PROVE  Reach(u, x) = Reach(t, x)
<1>1. Closed(t, Reach(t, x)) /\ Closed(u, Reach(u, x)) /\ x \in Reach(t, x) /\ x \in Reach(u, x)
    BY ReachClosed, ReachSelf
<1>2. Closed(u, Reach(t, x))
    BY <1>1 DEF Closed
<1>3. Reach(u, x) \subseteq Reach(t, x)
    BY <1>1, <1>2, ReachLeast
<1>4. Closed(t, Reach(u, x))
    BY <1>1, <1>3 DEF Closed
<1> QED
    BY <1>1, <1>3, <1>4, ReachLeast

\* A table: a record with a queue and links.
Table(t) ==
  /\ t = [queue |-> t.queue, next |-> t.next, id |-> t.id, diff |-> t.diff]
  /\ Linked(t)
  /\ t.queue \in Nodes

\* A table whose queue ends.
Sound(t) == Table(t) /\ Ends(t, t.queue)

\* u is what taking items from t may leave: its walks end and meet no more than
\* those of t, and only items of the queue have changed their links.
Shrinks(t, u) ==
  /\ Sound(u)
  /\ u.queue \in Reach(t, t.queue) \cup {NULL}
  /\ \A C : Closed(t, C) => Closed(u, C)
  /\ \A s \in Slots \ Queued(t) : u.next[s] = t.next[s]

\* What a closed set that stays closed says of walks.
LEMMA ReachShrinks ==
  ASSUME NEW t, Linked(t), NEW u, \A C : Closed(t, C) => Closed(u, C), NEW x \in Nodes
  PROVE  Reach(u, x) \subseteq Reach(t, x)
    BY ReachClosed, ReachSelf, ReachLeast

\* So the queue of what is left holds nothing new.
LEMMA QueueShrinks ==
  ASSUME NEW t, NEW u, Sound(t), Shrinks(t, u)
  PROVE  Reach(u, u.queue) \subseteq Reach(t, t.queue)
<1>1. Linked(t) /\ t.queue \in Nodes /\ u.queue \in Nodes /\ NULL \in Reach(t, t.queue)
    BY DEF Sound, Shrinks, Table, Ends
<1>2. u.queue \in Reach(t, t.queue)
    BY <1>1 DEF Shrinks
<1>3. Reach(u, u.queue) \subseteq Reach(t, u.queue)
    BY <1>1, ReachShrinks DEF Shrinks
<1> QED
    BY <1>1, <1>2, <1>3, ReachTrans

\* Taking nothing, and taking twice.
LEMMA ShrinksSelf == ASSUME NEW t, Sound(t) PROVE Shrinks(t, t)
    BY ReachSelf DEF Shrinks, Sound, Table

LEMMA ShrinksTwice ==
  ASSUME NEW t, NEW u, NEW v, Sound(t), Shrinks(t, u), Shrinks(u, v)
  PROVE  Shrinks(t, v)
<1>1. Reach(u, u.queue) \subseteq Reach(t, t.queue)
    BY QueueShrinks
<1> QED
    BY <1>1 DEF Shrinks, Queued

-----------------------------------------------------------------------------
(* The operations on the table *)

\* Every item of a queue has a predecessor in it, but the first.
LEMMA HasPredecessor ==
  ASSUME NEW t, Sound(t), NEW s \in Queued(t), s # t.queue
  PROVE  \E x \in Queued(t) : t.next[x] = s
<1> SUFFICES ASSUME \A x \in Queued(t) : t.next[x] # s PROVE FALSE
    OBVIOUS
<1>1. Closed(t, Reach(t, t.queue)) /\ t.queue \in Reach(t, t.queue)
    BY ReachClosed, ReachSelf DEF Sound, Table
<1>2. Closed(t, Reach(t, t.queue) \ {s})
    BY <1>1 DEF Closed, Queued
<1> QED
    BY <1>1, <1>2, ReachLeast DEF Queued

\* mqtt_take_request finds an item with what is before it.
LEMMA PredecessorIs ==
  ASSUME NEW t, Sound(t), NEW s \in Queued(t)
  PROVE  \/ Predecessor(t, s) = NULL /\ t.queue = s
         \/ /\ Predecessor(t, s) \in Queued(t)
            /\ t.next[Predecessor(t, s)] = s
<1>1. CASE s # t.queue
    BY <1>1, HasPredecessor DEF Predecessor
<1> QED
    BY <1>1 DEF Predecessor

\* The queue has a last item, if it has one at all.
LEMMA LastIs ==
  ASSUME NEW t, Sound(t), t.queue # NULL
  PROVE  LastOf(t) \in Queued(t) /\ t.next[LastOf(t)] = NULL
<1>1. Closed(t, Reach(t, t.queue)) /\ t.queue \in Reach(t, t.queue)
    BY ReachClosed, ReachSelf DEF Sound, Table
<1>2. \E s \in Queued(t) : t.next[s] = NULL
  <2> SUFFICES ASSUME \A s \in Queued(t) : t.next[s] # NULL PROVE FALSE
      OBVIOUS
  <2>1. Closed(t, Queued(t)) /\ t.queue \in Queued(t) /\ NULL \notin Queued(t)
      BY <1>1 DEF Closed, Queued
  <2> QED
      BY <2>1, EndsThen DEF Sound
<1> QED
    BY <1>2 DEF LastOf

\* Items of the queue are slots, and none of them is free.
LEMMA QueuedBusy ==
  ASSUME NEW t, Sound(t), NEW s \in Queued(t)
  PROVE  s \in Slots /\ s # NULL /\ t.next[s] # s /\ t.next[s] \in Reach(t, t.queue)
                     /\ t.next[s] \in Nodes /\ Ends(t, s)
<1>1. Linked(t) /\ t.queue \in Nodes /\ Ends(t, t.queue)
    BY DEF Sound, Table
<1>2. s \in Reach(t, t.queue) /\ s # NULL
    BY DEF Queued
<1>3. s \in Slots /\ t.next[s] \in Reach(t, t.queue)
    BY <1>1, <1>2, ReachClosed, NullNoSlot DEF Closed
<1> QED
    BY <1>1, <1>2, <1>3, FreeApart, EndsWithin DEF Linked
\* mqtt_create_request gives a slot that is in no list.
LEMMA CreateIs ==
  ASSUME NEW t, Sound(t), NEW i, FreeSlots(t) # {}, NEW r, r = FreeSlot(t),
         NEW u, u = Create(t, i)
  PROVE  /\ r \in Slots /\ t.next[r] = r /\ u.next[r] = NULL
         /\ Sound(u) /\ u.queue = t.queue
         /\ u.next = [t.next EXCEPT ![r] = NULL]
         /\ Reach(u, t.queue) = Reach(t, t.queue) /\ r \notin Reach(t, t.queue)
<1>1. r \in Slots /\ t.next[r] = r
    BY DEF FreeSlots, FreeSlot
<1>2. u = [queue |-> t.queue, next |-> [t.next EXCEPT ![r] = NULL],
           id |-> [t.id EXCEPT ![r] = i], diff |-> t.diff]
    BY DEF Create, Sound, Table
<1>3. Table(u) /\ u.next[r] = NULL
    BY <1>1, <1>2 DEF Sound, Table, Linked, Nodes
<1>4. r \notin Reach(t, t.queue)
    BY <1>1, FreeApart, NullNoSlot DEF Sound, Table
<1>5. Reach(u, t.queue) = Reach(t, t.queue)
  <2>1. \A c \in Reach(t, t.queue) \ {NULL} : u.next[c] = t.next[c]
      BY <1>2, <1>4, ReachClosed, NullNoSlot DEF Closed, Sound, Table, Linked
  <2> QED
      BY <1>3, <2>1, ReachSame DEF Sound, Table
<1> QED
    BY <1>1, <1>2, <1>3, <1>4, <1>5 DEF Sound, Ends

\* mqtt_delete_request of a slot that is in no list.
LEMMA DeleteIs ==
  ASSUME NEW t, Sound(t), NEW s \in Slots, s \notin Reach(t, t.queue)
  PROVE  /\ Sound(Delete(t, s))
         /\ Delete(t, s).queue = t.queue
         /\ Delete(t, s).next = [t.next EXCEPT ![s] = s]
         /\ \A C : Closed(t, C) => Closed(Delete(t, s), C)
         /\ Reach(Delete(t, s), t.queue) = Reach(t, t.queue)
<1> DEFINE u == Delete(t, s)
<1>1. u = [queue |-> t.queue, next |-> [t.next EXCEPT ![s] = s], id |-> t.id, diff |-> t.diff]
    BY DEF Delete, Sound, Table
<1>2. Table(u)
    BY <1>1 DEF Sound, Table, Linked, Nodes
<1>3. \A c \in Slots \ {s} : u.next[c] = t.next[c]
    BY <1>1 DEF Sound, Table, Linked
<1>4. Reach(u, t.queue) = Reach(t, t.queue)
    BY <1>2, <1>3, ReachSame, ReachClosed, NullNoSlot DEF Closed, Sound, Table
<1>5. ASSUME NEW C, Closed(t, C) PROVE Closed(u, C)
  <2>1. u.next[s] = s
      BY <1>1 DEF Sound, Table, Linked
  <2> QED
      BY <1>3, <1>5, <2>1, NullNoSlot DEF Closed
<1> QED
    BY <1>1, <1>2, <1>4, <1>5 DEF Sound, Ends

\* mqtt_append_request hangs a new slot s on the item h that its walk left, or
\* makes it the queue.  The item may have been freed, or taken, meanwhile: then
\* the request is lost to the queue, but the queue still ends.
LEMMA LinkIs ==
  ASSUME NEW t, Sound(t), NEW s \in Slots, t.next[s] = NULL, s \notin Reach(t, t.queue),
         NEW h \in Nodes, h # s, h # NULL => t.next[h] \in {NULL, h},
         NEW sum, NEW u, u = Link(t, s, h, sum)
  PROVE  /\ Sound(u)
         /\ h = NULL => u.queue = s /\ u.next = t.next
         /\ h # NULL => u.queue = t.queue /\ u.next = [t.next EXCEPT ![h] = s]
         /\ h # NULL => Queued(t) \subseteq Queued(u)
         /\ Reach(u, u.queue) \subseteq Reach(t, t.queue) \cup {s, NULL}
<1> DEFINE d == [t.diff EXCEPT ![s] = (ReqTimeout - sum) % DiffMod]
<1>1. CASE h = NULL
  <2>1. u = [queue |-> s, next |-> t.next, id |-> t.id, diff |-> d]
      BY <1>1 DEF Link, Sound, Table
  <2>2. Table(u)
      BY <2>1 DEF Sound, Table, Linked, Nodes
  <2>3. s \in Reach(u, s) /\ NULL \in Reach(u, s)
      BY <2>1, <2>2, ReachSelf, ReachClosed, NullNoSlot DEF Closed, Table, Nodes
  <2>4. Closed(u, {s, NULL})
      BY <2>1 DEF Closed, Nodes
  <2>5. Reach(u, s) \subseteq {s, NULL}
      BY <2>4, ReachLeast
  <2> QED
      BY <1>1, <2>1, <2>2, <2>3, <2>5 DEF Sound, Ends
<1>2. CASE h # NULL
  <2>1. u = [queue |-> t.queue, next |-> [t.next EXCEPT ![h] = s], id |-> t.id, diff |-> d]
      BY <1>2 DEF Link, Sound, Table
  <2>2. h \in Slots
      BY <1>2, NullNoSlot
  <2>3. Table(u) /\ Linked(t) /\ t.queue \in Nodes
    <3>1. Linked(t) /\ t.queue \in Nodes /\ s \in Nodes
        BY DEF Sound, Table, Nodes
    <3>2. [t.next EXCEPT ![h] = s] \in [Slots -> Nodes]
        BY <3>1 DEF Linked
    <3>3. Linked(u)
        BY <2>1, <3>2 DEF Linked
    <3> QED
        BY <2>1, <3>1, <3>3 DEF Table
  <2>4. u.next[h] = s /\ \A c \in Slots \ {h} : u.next[c] = t.next[c]
      BY <2>1, <2>2, <2>3 DEF Linked
  <2>5. ASSUME NEW C, Closed(u, C) PROVE Closed(t, C \cup {NULL})
      BY <1>2, <2>4, <2>5, NullNoSlot DEF Closed, Nodes
  <2>6. ASSUME NEW C, Closed(u, C), t.queue \in C PROVE NULL \in C
    <3>1. CASE h \in C
        BY <1>2, <2>4, <2>6, <3>1, NullNoSlot DEF Closed
    <3>2. CASE h \notin C
      <4>1. Closed(t, C)
          BY <2>4, <2>6, <3>2, NullNoSlot DEF Closed
      <4> QED
          BY <2>6, <4>1, EndsThen DEF Sound
    <3> QED
        BY <3>1, <3>2
  <2>7. Ends(u, t.queue)
      BY <2>6, EndsIf
  <2>8. Reach(t, t.queue) \subseteq Reach(u, t.queue) \cup {NULL}
    <3>1. Closed(u, Reach(u, t.queue)) /\ t.queue \in Reach(u, t.queue)
        BY <2>3, ReachClosed, ReachSelf DEF Table
    <3>2. Closed(t, Reach(u, t.queue) \cup {NULL})
        BY <2>5, <3>1
    <3> QED
        BY <3>1, <3>2, ReachLeast
  <2>9. Reach(u, t.queue) \subseteq Reach(t, t.queue) \cup {s, NULL}
    <3>1. Closed(t, Reach(t, t.queue)) /\ t.queue \in Reach(t, t.queue)
        BY <2>3, ReachClosed, ReachSelf
    <3>2. u.next[s] = NULL
        BY <2>4
    <3>3. Closed(u, Reach(t, t.queue) \cup {s, NULL})
        BY <2>4, <3>1, <3>2, NullNoSlot DEF Closed, Nodes
    <3> QED
        BY <3>1, <3>3, ReachLeast
  <2> QED
      BY <1>2, <2>1, <2>3, <2>7, <2>8, <2>9 DEF Sound, Queued
<1> QED
    BY <1>1, <1>2
\* mqtt_append_request, when nothing interrupts it.
LEMMA AppendIs ==
  ASSUME NEW t, Sound(t), NEW s \in Slots, t.next[s] = NULL, s \notin Reach(t, t.queue)
  PROVE  /\ Sound(AppendRequest(t, s))
         /\ Queued(AppendRequest(t, s)) \subseteq Queued(t) \cup {s}
<1> DEFINE last == LastOf(t)
           sum == IF last = NULL THEN 0 ELSE Remaining(t, last)
<1>1. CASE t.queue = NULL
  <2>1. last = NULL
      BY <1>1 DEF LastOf
  <2> QED
    <3>1. NULL \in Nodes /\ NULL # s
        BY NullNoSlot DEF Nodes
    <3>2. /\ Sound(Link(t, s, NULL, 0))
          /\ Reach(Link(t, s, NULL, 0), Link(t, s, NULL, 0).queue)
               \subseteq Reach(t, t.queue) \cup {s, NULL}
        BY <3>1, LinkIs
    <3>3. AppendRequest(t, s) = Link(t, s, NULL, 0)
        BY <2>1 DEF AppendRequest
    <3> QED
        BY <3>2, <3>3 DEF Queued
<1>2. CASE t.queue # NULL
  <2>1. last \in Queued(t) /\ t.next[last] = NULL
      BY <1>2, LastIs
  <2>2. last \in Nodes /\ last # s
      BY <2>1, QueuedBusy DEF Queued, Nodes
  <2> HIDE DEF last, sum
  <2>3. /\ Sound(Link(t, s, last, sum))
        /\ Reach(Link(t, s, last, sum), Link(t, s, last, sum).queue)
             \subseteq Reach(t, t.queue) \cup {s, NULL}
      BY <2>1, <2>2, LinkIs
  <2>4. AppendRequest(t, s) = Link(t, s, last, sum)
      BY DEF AppendRequest, last, sum
  <2> QED
      BY <2>3, <2>4 DEF Queued
<1> QED
    BY <1>1, <1>2

\* What mqtt_take_request does with the item s it found and the link to it.
Precedes(t, prev, s) ==
  \/ prev = NULL /\ t.queue = s
  \/ prev \in Queued(t) /\ t.next[prev] = s

\* An item that is taken out is met by no walk of the queue, but keeps its link.
LEMMA UnchainIs ==
  ASSUME NEW t, Sound(t), NEW s \in Queued(t), NEW prev, Precedes(t, prev, s),
         NEW u, u = Unchain(t, s, prev)
  PROVE  /\ Shrinks(t, u)
         /\ s \notin Reach(u, u.queue)
         /\ u.next[s] = t.next[s]
<1> DEFINE n == t.next[s]
<1>1. /\ s \in Slots /\ s # NULL /\ n # s /\ n \in Reach(t, t.queue) /\ n \in Nodes
      /\ Ends(t, s)
    BY QueuedBusy
<1>2. Table(t) /\ Linked(t) /\ t.queue \in Nodes /\ Ends(t, t.queue)
    BY DEF Sound, Table
<1>3. Closed(t, Reach(t, t.queue)) /\ t.queue \in Reach(t, t.queue)
    BY <1>2, ReachClosed, ReachSelf
<1>4. Reach(t, n) \subseteq Reach(t, t.queue) /\ s \notin Reach(t, n)
    BY <1>1, <1>2, ReachTrans, NoCycle
<1>5. CASE prev = NULL /\ t.queue = s
  <2>1. u = [queue |-> n, next |-> t.next, id |-> t.id, diff |-> t.diff]
      BY <1>2, <1>5 DEF Unchain, Table
  <2>2. Table(u) /\ Ends(u, n)
    <3>1. Linked(u) /\ \A c \in Reach(t, n) \ {NULL} : u.next[c] = t.next[c]
        BY <1>2, <2>1 DEF Linked
    <3>2. Reach(u, n) = Reach(t, n)
        BY <1>1, <1>2, <3>1, ReachSame
    <3>3. Ends(t, n)
        BY <1>1, <1>2, EndsWithin
    <3> QED
        BY <1>1, <2>1, <3>1, <3>2, <3>3 DEF Table, Ends
  <2>3. \A C : Closed(t, C) => Closed(u, C)
      BY <2>1 DEF Closed
  <2>4. s \notin Reach(u, n)
      BY <1>1, <1>2, <1>4, <2>3, ReachShrinks
  <2> QED
      BY <1>1, <2>1, <2>2, <2>3, <2>4 DEF Shrinks, Sound
<1>6. CASE prev \in Queued(t) /\ t.next[prev] = s
  <2>1. /\ prev \in Slots /\ prev # NULL /\ prev # s /\ Ends(t, prev)
        /\ prev \in Reach(t, t.queue)
      BY <1>6, QueuedBusy DEF Queued
  <2>2. u = [queue |-> t.queue, next |-> [t.next EXCEPT ![prev] = n], id |-> t.id, diff |-> t.diff]
      BY <1>2, <2>1 DEF Unchain, Table
  <2>3. u.next[prev] = n /\ \A c \in Slots \ {prev} : u.next[c] = t.next[c]
      BY <1>2, <2>1, <2>2 DEF Linked
  <2>4. Table(u)
    <3>1. [t.next EXCEPT ![prev] = n] \in [Slots -> Nodes]
        BY <1>1, <1>2 DEF Linked
    <3> QED
        BY <1>2, <2>2, <3>1 DEF Table, Linked
  <2>5. ASSUME NEW C, Closed(t, C) PROVE Closed(u, C)
      BY <1>1, <1>6, <2>1, <2>3, <2>5, NullNoSlot DEF Closed
  <2>6. ASSUME NEW C, Closed(u, C), t.queue \in C PROVE NULL \in C
    <3>1. CASE prev \in C
      <4>1. n \in C /\ n \in C \cup {s} /\ C \cup {s} \in SUBSET Nodes
          BY <1>1, <2>1, <2>3, <2>6, <3>1 DEF Closed, Nodes
      <4>2. ASSUME NEW c \in (C \cup {s}) \ {NULL} PROVE t.next[c] \in C \cup {s}
          BY <1>6, <2>3, <2>6, <4>1, <4>2, NullNoSlot DEF Closed
      <4>3. Closed(t, C \cup {s})
          BY <4>1, <4>2 DEF Closed
      <4> QED
          BY <1>1, <1>2, <2>6, <4>3, EndsThen
    <3>2. CASE prev \notin C
      <4>1. Closed(t, C)
          BY <2>3, <2>6, <3>2, NullNoSlot DEF Closed
      <4> QED
          BY <1>2, <2>6, <4>1, EndsThen
    <3> QED
        BY <3>1, <3>2
  <2>7. Ends(u, t.queue)
      BY <2>6, EndsIf
  <2>8. t.queue # s
    <3> SUFFICES ASSUME t.queue = s PROVE FALSE
        OBVIOUS
    <3>1. prev \in Reach(t, n)
        BY <1>1, <1>2, <2>1, ReachNext
    <3>2. s \in Reach(t, n)
        BY <1>2, <1>6, <2>1, <3>1, ReachClosed DEF Closed
    <3> QED
        BY <1>4, <3>2
  <2>9. s \notin Reach(u, t.queue)
    <3>1. ASSUME NEW c \in (Reach(t, t.queue) \ {s}) \ {NULL}
          PROVE  u.next[c] \in Reach(t, t.queue) \ {s}
      <4>1. c \in Slots /\ t.next[c] \in Reach(t, t.queue)
          BY <1>3, <3>1, NullNoSlot DEF Closed
      <4>2. c # prev => t.next[c] # s
          BY <1>1, <1>2, <1>6, <2>1, <3>1, OnePredecessor
      <4> QED
          BY <1>1, <2>3, <4>1, <4>2
    <3>2. Closed(u, Reach(t, t.queue) \ {s})
        BY <1>3, <3>1 DEF Closed
    <3> QED
        BY <1>3, <2>8, <3>2, ReachLeast
  <2>10. u.next[s] = t.next[s]
      BY <1>1, <2>1, <2>3
  <2> QED
      BY <1>3, <1>6, <2>2, <2>3, <2>4, <2>5, <2>7, <2>9, <2>10 DEF Shrinks, Sound
<1> QED
    BY <1>5, <1>6 DEF Precedes
\* A table whose queue and links, or times, are replaced.
LEMMA Replaced ==
  ASSUME NEW t, Table(t), NEW q, NEW n
  PROVE  [t EXCEPT !.queue = q, !.next = n] =
           [queue |-> q, next |-> n, id |-> t.id, diff |-> t.diff]
<1> DEFINE u == [t EXCEPT !.queue = q]
           v == [u EXCEPT !.next = n]
<1>1. t \in [queue : {t.queue}, next : {t.next}, id : {t.id}, diff : {t.diff}]
    BY DEF Table
<1>2. u \in [queue : {q}, next : {t.next}, id : {t.id}, diff : {t.diff}]
    BY <1>1
<1>3. [t EXCEPT !.queue = q, !.next = n] = v
    OBVIOUS
<1> HIDE DEF u
<1>4. v \in [queue : {q}, next : {n}, id : {t.id}, diff : {t.diff}]
    BY <1>2
<1> HIDE DEF v
<1> QED
    BY <1>3, <1>4

\* The same for the times.
LEMMA ReplacedDiff ==
  ASSUME NEW a, NEW b, NEW c, NEW d, NEW e, NEW t,
         t = [queue |-> a, next |-> b, id |-> c, diff |-> e]
  PROVE  [t EXCEPT !.diff = d] = [queue |-> a, next |-> b, id |-> c, diff |-> d]
<1>1. t \in [queue : {a}, next : {b}, id : {c}, diff : {e}]
    OBVIOUS
<1> QED
    BY <1>1

\* mqtt_clear_requests of a table that lost items, and perhaps the link of one
\* of them, since t.
LEMMA ClearIs ==
  ASSUME NEW t, Sound(t), NEW v, Table(v), v.queue \in Reach(t, t.queue) \cup {NULL},
         \A C : Closed(t, C) /\ NULL \in C => Closed(v, C),
         \A C : Closed(t, C) => \A c \in (C \ Queued(v)) \ {NULL} : v.next[c] \in C,
         \A s \in Slots \ Queued(t) : v.next[s] = t.next[s]
  PROVE  Shrinks(t, Clear(v))
<1> DEFINE u == Clear(v)
           links == [s \in Slots |-> IF s \in Queued(v) THEN s ELSE v.next[s]]
<1>1. u = [queue |-> NULL, next |-> links, id |-> v.id, diff |-> v.diff]
  <2>1. u = [v EXCEPT !.queue = NULL, !.next = links]
      BY DEF Clear
  <2> HIDE DEF links
  <2> QED
      BY <2>1, Replaced
<1>2. Table(u)
  <2>1. links \in [Slots -> Nodes]
      BY DEF Table, Linked, Nodes
  <2>2. NULL \in Nodes
      BY DEF Nodes
  <2> HIDE DEF links
  <2> QED
      BY <1>1, <2>1, <2>2 DEF Table, Linked
<1>3. Sound(u)
    BY <1>1, <1>2, ReachNull DEF Sound, Ends
<1>4. \A s \in Slots : u.next[s] = IF s \in Queued(v) THEN s ELSE v.next[s]
    BY <1>1
<1>5. ASSUME NEW C, Closed(t, C) PROVE Closed(u, C)
    BY <1>4, <1>5, NullNoSlot DEF Closed
<1>6. Queued(v) \subseteq Queued(t)
  <2>1. Closed(t, Reach(t, t.queue)) /\ NULL \in Reach(t, t.queue)
      BY ReachClosed DEF Sound, Table, Ends
  <2>2. Reach(v, v.queue) \subseteq Reach(t, t.queue)
      BY <2>1, ReachLeast
  <2> QED
      BY <2>2 DEF Queued
<1> QED
    BY <1>1, <1>3, <1>4, <1>5, <1>6 DEF Shrinks

\* mqtt_clear_requests of a table that only lost items.
LEMMA ClearShrinks ==
  ASSUME NEW t, Sound(t), NEW v, Shrinks(t, v)
  PROVE  Shrinks(t, Clear(v))
    BY ClearIs DEF Shrinks, Sound, Closed

\* A SUBACK that is cut in two: its request is taken, and its link is cleared.
LEMMA CutShrinks ==
  ASSUME NEW t, Sound(t), NEW s \in Queued(t), NEW prev, Precedes(t, prev, s),
         NEW u, u = Unchain(t, s, prev)
  PROVE  /\ Shrinks(t, Clear([u EXCEPT !.next[s] = NULL]))
         /\ Queued([u EXCEPT !.next[s] = NULL]) \subseteq Queued(t)
<1> DEFINE v == [u EXCEPT !.next[s] = NULL]
<1>1. Shrinks(t, u)
    BY UnchainIs
<1>2. s \in Slots
    BY QueuedBusy
<1>3. Table(u) /\ u.next \in [Slots -> Nodes]
    BY <1>1 DEF Shrinks, Sound, Table, Linked
<1>4. v = [queue |-> u.queue, next |-> [u.next EXCEPT ![s] = NULL], id |-> u.id, diff |-> u.diff]
    BY <1>3 DEF Table
<1>5. Table(v)
  <2>1. [u.next EXCEPT ![s] = NULL] \in [Slots -> Nodes]
      BY <1>3 DEF Nodes
  <2> QED
      BY <1>3, <1>4, <2>1 DEF Table, Linked
<1>6. v.next[s] = NULL /\ \A c \in Slots \ {s} : v.next[c] = u.next[c]
    BY <1>2, <1>3, <1>4
<1>7. ASSUME NEW C, Closed(t, C), s \in C PROVE NULL \in C
    BY <1>7, QueuedBusy, EndsThen
<1>8. ASSUME NEW C, Closed(t, C) PROVE Closed(v, C)
  <2>1. Closed(u, C)
      BY <1>1, <1>8 DEF Shrinks
  <2> QED
      BY <1>6, <1>7, <1>8, <2>1, NullNoSlot DEF Closed
<1>9. v.queue \in Reach(t, t.queue) \cup {NULL}
    BY <1>1, <1>4 DEF Shrinks
<1>10. \A c \in Slots \ Queued(t) : v.next[c] = t.next[c]
    BY <1>1, <1>6 DEF Shrinks
<1>11. Queued(v) \subseteq Queued(t)
  <2>1. Closed(v, Reach(t, t.queue)) /\ v.queue \in Reach(t, t.queue)
      BY <1>8, <1>9, ReachClosed DEF Sound, Table, Ends
  <2> QED
      BY <2>1, ReachLeast DEF Queued
<1>12. Shrinks(t, Clear(v))
    BY <1>5, <1>8, <1>9, <1>10, ClearIs DEF Closed
<1> QED
    BY <1>11, <1>12

\* A request that expires takes with it all that are before it.
LEMMA ExpiredPrefix ==
  ASSUME NEW t, Sound(t), NEW x \in Queued(t), NEW s \in Expired(t), s \in Reach(t, x)
  PROVE  x \in Expired(t)
<1>1. ASSUME NEW y \in Queued(t), x \in Reach(t, y)
      PROVE  Remaining(t, y) <= Interval /\ Remaining(t, y) - t.diff[y] < Interval
  <2>1. s \in Reach(t, y)
      BY <1>1, ReachTrans DEF Sound, Table
  <2> QED
      BY <1>1, <2>1 DEF Expired
<1> QED
    BY <1>1 DEF Expired

\* What stays in the queue begins with an item that stays.
LEMMA FirstLeftIs ==
  ASSUME NEW t, Sound(t)
  PROVE  LET first == FirstLeft(t, Expired(t))
         IN  /\ first \in (Queued(t) \ Expired(t)) \cup {NULL}
             /\ first # NULL => first = t.queue \/ \E x \in Expired(t) : t.next[x] = first
<1> DEFINE gone == Expired(t)
<1>0. gone \subseteq Queued(t)
    BY DEF Expired
<1> HIDE DEF gone
<1>1. CASE Queued(t) # gone
  <2>1. \E s \in Queued(t) \ gone : s = t.queue \/ \E x \in gone : t.next[x] = s
    <3> SUFFICES ASSUME \A s \in Queued(t) \ gone :
                          s # t.queue /\ \A x \in gone : t.next[x] # s
                 PROVE  FALSE
        OBVIOUS
    <3>1. Closed(t, Reach(t, t.queue)) /\ t.queue \in Reach(t, t.queue)
        BY ReachClosed, ReachSelf DEF Sound, Table
    <3>2. t.queue \in gone \cup {NULL}
        BY <3>1 DEF Queued
    <3>3. Closed(t, gone \cup {NULL})
        BY <1>0, <3>1 DEF Closed, Queued, Nodes
    <3>4. Reach(t, t.queue) \subseteq gone \cup {NULL}
        BY <3>2, <3>3, ReachLeast
    <3> QED
        BY <1>0, <1>1, <3>4 DEF Queued
  <2> QED
      BY <1>1, <2>1 DEF FirstLeft, gone
<1> QED
    BY <1>1 DEF FirstLeft, gone

\* mqtt_request_time_elapsed only takes items.
LEMMA ElapsedShrinks ==
  ASSUME NEW t, Sound(t), NEW gone, gone = Expired(t), NEW first, first = FirstLeft(t, gone)
  PROVE  Shrinks(t, TimeElapsed(t, gone, first))
<1> DEFINE u == TimeElapsed(t, gone, first)
           links == [s \in Slots |-> IF s \in gone THEN s ELSE t.next[s]]
           times == [s \in Slots |-> IF s = first THEN Remaining(t, s) - Interval ELSE t.diff[s]]
<1>1. gone \subseteq Queued(t) /\ first \in (Queued(t) \ gone) \cup {NULL}
    BY FirstLeftIs DEF Expired
<1>2. u = [queue |-> first, next |-> links, id |-> t.id, diff |-> times]
  <2> DEFINE v == [t EXCEPT !.queue = first, !.next = links]
  <2>1. u = [v EXCEPT !.diff = times]
      BY DEF TimeElapsed
  <2> HIDE DEF links, times, u
  <2>2. v = [queue |-> first, next |-> links, id |-> t.id, diff |-> t.diff]
      BY Replaced DEF Sound
  <2> HIDE DEF v
  <2> QED
      BY <2>1, <2>2, ReplacedDiff
<1>3. Table(u) /\ first \in Nodes
  <2>1. links \in [Slots -> Nodes]
      BY DEF Sound, Table, Linked, Nodes
  <2>2. first \in Nodes
      BY <1>1, QueuedBusy DEF Nodes
  <2> HIDE DEF links, times, u
  <2> QED
      BY <1>2, <2>1, <2>2 DEF Table, Linked
<1>4. \A s \in Slots : u.next[s] = IF s \in gone THEN s ELSE t.next[s]
  <2> HIDE DEF times, u
  <2> QED
      BY <1>2
<1> HIDE DEF u, links, times
<1>5. Ends(u, first)
  <2>1. CASE first = NULL
      BY <2>1, ReachNull DEF Ends
  <2>2. CASE first \in Queued(t) \ gone
    <3>1. ASSUME NEW c \in Reach(t, first) \ {NULL} PROVE u.next[c] = t.next[c]
      <4>1. c \in Slots
          BY <1>3, <3>1, ReachClosed, NullNoSlot DEF Closed, Sound, Table
      <4>2. c \notin gone
          BY <2>2, <3>1, ExpiredPrefix
      <4> QED
          BY <1>4, <4>1, <4>2
    <3>2. Reach(u, first) = Reach(t, first)
        BY <1>3, <3>1, ReachSame DEF Sound, Table
    <3> QED
        BY <2>2, <3>2, QueuedBusy DEF Ends
  <2> QED
      BY <1>1, <2>1, <2>2
<1>6. ASSUME NEW C, Closed(t, C) PROVE Closed(u, C)
    BY <1>4, <1>6, NullNoSlot DEF Closed
<1>7. u.queue = first
    BY <1>2
<1> QED
    BY <1>1, <1>3, <1>4, <1>5, <1>6, <1>7 DEF Shrinks, Sound, Queued, u
\* What expired is not in the queue any more.
LEMMA ElapsedQueue ==
  ASSUME NEW t, Sound(t), NEW gone, gone = Expired(t), NEW first, first = FirstLeft(t, gone)
  PROVE  Queued(TimeElapsed(t, gone, first)) \subseteq Queued(t) \ gone
<1> DEFINE u == TimeElapsed(t, gone, first)
<1>1. Shrinks(t, u)
    BY ElapsedShrinks
<1>2. Queued(u) \subseteq Queued(t)
    BY <1>1, QueueShrinks DEF Queued
<1>3. \A s \in Queued(t) : s \in gone => u.next[s] = s
  <2>1. DOMAIN t = {"queue", "next", "id", "diff"}
      BY DEF Sound, Table
  <2>2. u.next = [s \in Slots |-> IF s \in gone THEN s ELSE t.next[s]]
      BY <2>1 DEF TimeElapsed
  <2> HIDE DEF u
  <2> QED
      BY <2>2, QueuedBusy
<1>4. Sound(u)
    BY <1>1 DEF Shrinks
<1> HIDE DEF u
<1>5. \A s \in Queued(u) : u.next[s] # s
    BY <1>4, QueuedBusy
<1> QED
    BY <1>2, <1>3, <1>5 DEF u

\* Only a new request changes the packet identifier of a slot.
LEMMA CreateIds ==
  ASSUME NEW t, Table(t), NEW i
  PROVE  Create(t, i).id = [t.id EXCEPT ![FreeSlot(t)] = i]
<1>1. DOMAIN t = {"queue", "next", "id", "diff"}
    BY DEF Table
<1> QED
    BY <1>1 DEF Create

LEMMA LinkIds ==
  ASSUME NEW t, Table(t), NEW s, NEW h, NEW sum
  PROVE  Link(t, s, h, sum).id = t.id
<1>1. DOMAIN t = {"queue", "next", "id", "diff"}
    BY DEF Table
<1> QED
    BY <1>1 DEF Link

LEMMA AppendIds ==
  ASSUME NEW t, Table(t), NEW s
  PROVE  AppendRequest(t, s).id = t.id
    BY LinkIds DEF AppendRequest

LEMMA TakeIds ==
  ASSUME NEW t, Table(t), NEW s, NEW n
  PROVE  Unchain(t, s, n).id = t.id /\ TimeElapsed(t, s, n).id = t.id
         /\ [t EXCEPT !.next[s] = n].id = t.id
<1>1. DOMAIN t = {"queue", "next", "id", "diff"}
    BY DEF Table
<1>2. Unchain(t, s, n).id = t.id
    BY <1>1 DEF Unchain
<1>3. TimeElapsed(t, s, n).id = t.id
    BY <1>1 DEF TimeElapsed
<1>4. [t EXCEPT !.next[s] = n].id = t.id
    BY <1>1
<1> QED
    BY <1>2, <1>3, <1>4

LEMMA FreeIds ==
  ASSUME NEW t, Table(t), NEW s
  PROVE  Delete(t, s).id = t.id /\ Clear(t).id = t.id /\ Clear(t).queue = NULL
<1>1. DOMAIN t = {"queue", "next", "id", "diff"}
    BY DEF Table
<1> QED
    BY <1>1 DEF Delete, Clear

-----------------------------------------------------------------------------
(* The differences *)

\* The items of the queue expire when F says: the first after its own difference,
\* each other one its difference after the one before it.
Timed(t, d, F) ==
  /\ t.queue # NULL => F[t.queue] = d[t.queue]
  /\ \A x \in Queued(t) : t.next[x] # NULL => F[t.next[x]] = F[x] + d[t.next[x]]

\* Every slot has a difference.
Dated(t) == t.diff = [s \in Slots |-> t.diff[s]]

\* No item is followed by the first.
LEMMA QueueFirst ==
  ASSUME NEW t, Sound(t), NEW x \in Queued(t)
  PROVE  t.next[x] # t.queue
<1> SUFFICES ASSUME t.next[x] = t.queue PROVE FALSE
    OBVIOUS
<1>1. /\ x \in Slots /\ t.next[x] \in Nodes /\ x \in Reach(t, t.queue) /\ Linked(t)
      /\ Ends(t, x)
    BY QueuedBusy DEF Sound, Table, Queued
<1>2. x \in Reach(t, t.next[x])
    BY <1>1
<1> QED
    BY <1>1, <1>2, NoCycle

\* Predecessors and successors in the queue undo each other.
LEMMA NextQueued ==
  ASSUME NEW t, Sound(t), NEW x \in Queued(t), t.next[x] # NULL
  PROVE  /\ t.next[x] \in Queued(t) /\ t.next[x] # t.queue /\ t.next[x] # x
         /\ Predecessor(t, t.next[x]) = x
<1> DEFINE n == t.next[x]
           p == Predecessor(t, n)
<1>1. n \in Queued(t) /\ n # t.queue /\ n # x /\ n \in Slots
    BY QueuedBusy, QueueFirst, NullNoSlot DEF Queued
<1>2. p \in Queued(t) /\ t.next[p] = n
    BY <1>1, PredecessorIs
<1>3. Linked(t) /\ t.queue \in Nodes /\ Ends(t, t.queue)
    BY DEF Sound, Table
<1> HIDE DEF p
<1>4. p = x
    BY <1>1, <1>2, <1>3, OnePredecessor DEF Queued
<1> QED
    BY <1>1, <1>4 DEF p

\* An induction along the queue: what holds of the first item, and of the next
\* one if of the one before, holds of all.
LEMMA AlongQueue ==
  ASSUME NEW t, Sound(t), NEW D, t.queue # NULL => t.queue \in D,
         \A x \in Queued(t) \cap D : t.next[x] # NULL => t.next[x] \in D
  PROVE  Queued(t) \subseteq D
<1> DEFINE C == (Queued(t) \cap D) \cup {NULL}
<1>1. Linked(t) /\ t.queue \in Reach(t, t.queue) /\ Closed(t, Reach(t, t.queue))
    BY ReachSelf, ReachClosed DEF Sound, Table
<1>2. Closed(t, C)
    BY <1>1 DEF Closed, Queued, Nodes
<1>3. t.queue \in C
    BY <1>1 DEF Queued
<1>4. Reach(t, t.queue) \subseteq C
    BY <1>2, <1>3, ReachLeast
<1> QED
    BY <1>4 DEF Queued

\* The sums that mqtt_append_request and mqtt_request_time_elapsed compute are
\* what F says.
LEMMA RemainingIs ==
  ASSUME NEW t, Sound(t), NEW F, Timed(t, t.diff, F)
  PROVE  \A s \in Queued(t) : Remaining(t, s) = F[s]
<1> DEFINE Q == Queued(t)
           IsSum(g) == g = [x \in Q |-> IF x = t.queue THEN t.diff[x]
                                        ELSE g[Predecessor(t, x)] + t.diff[x]]
           R == CHOOSE g : IsSum(g)
           G == [x \in Q |-> F[x]]
<1>1. \A s : Remaining(t, s) = R[s]
    BY DEF Remaining
<1>2. ASSUME NEW x \in Q
      PROVE  F[x] = IF x = t.queue THEN t.diff[x] ELSE F[Predecessor(t, x)] + t.diff[x]
  <2>1. CASE x = t.queue
      BY <2>1 DEF Timed, Queued
  <2>2. CASE x # t.queue
    <3>1. Predecessor(t, x) \in Q /\ t.next[Predecessor(t, x)] = x
        BY <2>2, PredecessorIs
    <3> QED
        BY <2>2, <3>1 DEF Timed, Queued
  <2> QED
      BY <2>1, <2>2
<1>3. \A x \in Q : x # t.queue => Predecessor(t, x) \in Q
    BY PredecessorIs
<1>4. IsSum(G)
    BY <1>2, <1>3
<1>5. IsSum(R)
    BY <1>4
<1> HIDE DEF R
<1>6. Q \subseteq {x \in Q : R[x] = F[x]}
  <2> DEFINE D == {x \in Q : R[x] = F[x]}
  <2>1. t.queue # NULL => t.queue \in D
    <3>1. t.queue # NULL => t.queue \in Q
        BY ReachSelf DEF Queued, Sound, Table
    <3> QED
        BY <1>5, <3>1 DEF Timed
  <2>2. ASSUME NEW x \in Q \cap D, t.next[x] # NULL PROVE t.next[x] \in D
    <3>1. /\ t.next[x] \in Q /\ t.next[x] # t.queue
          /\ Predecessor(t, t.next[x]) = x
        BY <2>2, NextQueued
    <3>2. R[t.next[x]] = R[x] + t.diff[t.next[x]]
        BY <1>5, <3>1
    <3>3. F[t.next[x]] = F[x] + t.diff[t.next[x]]
        BY <2>2 DEF Timed
    <3> QED
        BY <2>2, <3>1, <3>2, <3>3
  <2> HIDE DEF D
  <2>3. Q \subseteq D
      BY <2>1, <2>2, AlongQueue
  <2> QED
      BY <2>3 DEF D
<1> QED
    BY <1>1, <1>6

\* Linking and the expiry change a difference, the other operations do not.
LEMMA LinkDiff ==
  ASSUME NEW t, Table(t), Dated(t), NEW s, NEW h, NEW sum, NEW u, u = Link(t, s, h, sum)
  PROVE  /\ Dated(u) /\ \A x \in Slots \ {s} : u.diff[x] = t.diff[x]
         /\ s \in Slots => u.diff[s] = (ReqTimeout - sum) % DiffMod
<1>1. DOMAIN t = {"queue", "next", "id", "diff"}
    BY DEF Table
<1> DEFINE d == (ReqTimeout - sum) % DiffMod
<1>2. u.diff = [t.diff EXCEPT ![s] = d]
    BY <1>1 DEF Link
<1> HIDE DEF d
<1>3. u.diff = [x \in Slots |-> u.diff[x]]
    BY <1>2 DEF Dated
<1>4. s \in Slots => u.diff[s] = d
    BY <1>2 DEF Dated
<1> QED
    BY <1>2, <1>3, <1>4 DEF Dated, d

LEMMA UnchainDiff ==
  ASSUME NEW t, Table(t), NEW s, NEW h
  PROVE  Unchain(t, s, h).diff = t.diff
<1>1. DOMAIN t = {"queue", "next", "id", "diff"}
    BY DEF Table
<1> QED
    BY <1>1 DEF Unchain

LEMMA SameDiff ==
  ASSUME NEW t, Table(t), NEW s
  PROVE  Create(t, s).diff = t.diff /\ Delete(t, s).diff = t.diff
<1>1. DOMAIN t = {"queue", "next", "id", "diff"}
    BY DEF Table
<1>2. Create(t, s).diff = t.diff
    BY <1>1 DEF Create
<1>3. Delete(t, s).diff = t.diff
    BY <1>1 DEF Delete
<1> QED
    BY <1>2, <1>3

\* A difference that is not larger than the timeout is not cut off.
LEMMA NotCut == ASSUME NEW d \in 0..ReqTimeout PROVE d % DiffMod = d
    BY MqttAssumption

\* A request linked to the last item of the queue, or to an empty queue, is
\* queued behind the others.
LEMMA LinkQueue ==
  ASSUME NEW t, Sound(t), NEW s \in Slots, t.next[s] = NULL, s \notin Reach(t, t.queue),
         NEW h, h = NULL => t.queue = NULL, h # NULL => h \in Queued(t) /\ t.next[h] = NULL,
         NEW sum, NEW u, u = Link(t, s, h, sum)
  PROVE  /\ Queued(u) = Queued(t) \cup {s} /\ FreeSlots(u) = FreeSlots(t) /\ Sound(u)
         /\ u.next[s] = NULL
         /\ u.queue = (IF h = NULL THEN s ELSE t.queue)
         /\ \A c \in Queued(t) : u.next[c] = IF c = h THEN s ELSE t.next[c]
<1>1. h \in Nodes /\ h # s /\ (h # NULL => h \in Slots /\ t.next[h] \in {NULL, h})
    BY QueuedBusy, NullNoSlot DEF Queued, Nodes
<1>2. /\ Sound(u)
      /\ h = NULL => u.queue = s /\ u.next = t.next
      /\ h # NULL => u.queue = t.queue /\ u.next = [t.next EXCEPT ![h] = s]
      /\ h # NULL => Queued(t) \subseteq Queued(u)
      /\ Reach(u, u.queue) \subseteq Reach(t, t.queue) \cup {s, NULL}
    BY <1>1, LinkIs
<1>3. Linked(t) /\ t.queue \in Nodes /\ NULL \notin Slots
    BY NullNoSlot DEF Sound, Table
<1>4. h # NULL => u.next[h] = s /\ \A c \in Slots \ {h} : u.next[c] = t.next[c]
    BY <1>1, <1>2, <1>3 DEF Linked
<1>5. h = NULL => Queued(t) = {}
    BY ReachNull DEF Queued
<1>6. Queued(u) = Queued(t) \cup {s}
  <2>1. Queued(u) \subseteq Queued(t) \cup {s}
      BY <1>2, <1>3 DEF Queued
  <2>2. CASE h = NULL
    <3>1. s \in Queued(u)
        BY <1>2, <1>3, <2>2, ReachSelf DEF Queued, Nodes
    <3> QED
        BY <1>5, <2>1, <2>2, <3>1
  <2>3. CASE h # NULL
    <3>1. h \in Queued(u) /\ u.next[h] = s
        BY <1>2, <1>4, <2>3
    <3>2. s \in Queued(u)
        BY <1>2, <1>3, <3>1, QueuedBusy DEF Queued
    <3> QED
        BY <1>2, <2>1, <2>3, <3>2
  <2> QED
      BY <2>2, <2>3
<1>7. FreeSlots(u) = FreeSlots(t)
  <2>1. h # NULL => t.next[h] # h /\ u.next[h] # h
      BY <1>1, <1>4
  <2> QED
      BY <1>2, <1>4, <2>1 DEF FreeSlots
<1>8. \A c \in Queued(t) : u.next[c] = IF c = h THEN s ELSE t.next[c]
    BY <1>2, <1>4, <1>5, QueuedBusy
<1> QED
    BY <1>1, <1>2, <1>4, <1>6, <1>7, <1>8

\* With what the last item leaves of the timeout, it expires when that is over.
LEMMA LinkTimed ==
  ASSUME NEW t, Sound(t), Dated(t), NEW s \in Slots, t.next[s] = NULL,
         s \notin Reach(t, t.queue),
         NEW h, h = NULL => t.queue = NULL, h # NULL => h \in Queued(t) /\ t.next[h] = NULL,
         NEW F, Timed(t, t.diff, F), \A x \in Queued(t) : F[x] \in 0..ReqTimeout,
         \A x \in Queued(t) : t.diff[x] \in Nat,
         NEW sum, h = NULL => sum = 0, h # NULL => sum = F[h], NEW u, u = Link(t, s, h, sum),
         NEW G, G[s] = ReqTimeout, \A x \in Queued(t) : G[x] = F[x]
  PROVE  Timed(u, u.diff, G) /\ \A x \in Queued(u) : u.diff[x] \in Nat
<1>1. /\ Queued(u) = Queued(t) \cup {s}
      /\ u.next[s] = NULL
      /\ u.queue = (IF h = NULL THEN s ELSE t.queue)
      /\ \A c \in Queued(t) : u.next[c] = IF c = h THEN s ELSE t.next[c]
    BY LinkQueue
<1>2. /\ u.diff[s] = (ReqTimeout - sum) % DiffMod
      /\ \A x \in Slots \ {s} : u.diff[x] = t.diff[x]
    BY LinkDiff DEF Sound
<1>3. sum \in 0..ReqTimeout /\ ReqTimeout - sum \in 0..ReqTimeout
    BY MqttAssumption
<1>4. (ReqTimeout - sum) % DiffMod = ReqTimeout - sum
    BY <1>3, NotCut
<1>5. u.diff[s] = ReqTimeout - sum /\ \A x \in Slots \ {s} : u.diff[x] = t.diff[x]
    BY <1>2, <1>4
<1>6. \A x \in Queued(t) : x \in Slots /\ x # s
    BY QueuedBusy DEF Queued
<1>7. \A x \in Queued(u) : u.diff[x] \in Nat
    BY <1>1, <1>3, <1>5, <1>6
<1>8. u.queue # NULL => G[u.queue] = u.diff[u.queue]
  <2>1. CASE h = NULL
      BY <1>1, <1>5, <2>1, MqttAssumption
  <2>2. CASE h # NULL
    <3>1. u.queue = t.queue /\ t.queue \in Queued(t)
        BY <1>1, <2>2, ReachSelf, ReachNull DEF Queued, Sound, Table
    <3>2. t.queue # NULL /\ F[t.queue] = t.diff[t.queue]
        BY <3>1 DEF Queued, Timed
    <3> QED
        BY <1>5, <1>6, <3>1, <3>2
  <2> QED
      BY <2>1, <2>2
<1>9. ASSUME NEW x \in Queued(u), u.next[x] # NULL
      PROVE  G[u.next[x]] = G[x] + u.diff[u.next[x]]
  <2>1. x \in Queued(t) /\ x # NULL
      BY <1>1, <1>9 DEF Queued
  <2>2. CASE x = h
      BY <1>1, <1>3, <1>5, <2>1, <2>2, MqttAssumption
  <2>3. CASE x # h
    <3>1. u.next[x] = t.next[x] /\ t.next[x] # NULL
        BY <1>1, <1>9, <2>1, <2>3
    <3>2. t.next[x] \in Queued(t)
        BY <2>1, <3>1, NextQueued
    <3>3. F[t.next[x]] = F[x] + t.diff[t.next[x]]
        BY <2>1, <3>1 DEF Timed
    <3> QED
        BY <1>5, <1>6, <2>1, <3>1, <3>2, <3>3
  <2> QED
      BY <2>2, <2>3
<1> QED
    BY <1>7, <1>8, <1>9 DEF Timed

\* A request taken out leaves the others queued.
LEMMA UnchainQueue ==
  ASSUME NEW t, Sound(t), NEW s \in Queued(t), NEW prev, Precedes(t, prev, s),
         NEW u, u = Unchain(t, s, prev)
  PROVE  /\ Queued(u) = Queued(t) \ {s} /\ FreeSlots(u) = FreeSlots(t) /\ Sound(u)
         /\ u.queue = (IF prev = NULL THEN t.next[s] ELSE t.queue)
         /\ \A c \in Queued(u) : /\ c \in Slots /\ c # NULL
                                /\ u.next[c] = IF c = prev THEN t.next[s] ELSE t.next[c]
<1> DEFINE n == t.next[s]
<1>1. /\ s \in Slots /\ s # NULL /\ n # s /\ n \in Nodes
      /\ n # NULL => n \in Queued(t) /\ n # t.queue /\ n \in Slots
    BY QueuedBusy, NextQueued DEF Queued
<1>2. Shrinks(t, u) /\ s \notin Reach(u, u.queue) /\ u.next[s] = n
    BY UnchainIs
<1>3. Linked(t) /\ t.queue \in Nodes /\ Ends(t, t.queue) /\ Sound(u) /\ Table(t)
      /\ NULL \notin Slots
    BY <1>2, NullNoSlot DEF Sound, Table, Shrinks
<1>4. /\ prev = NULL => t.queue = s /\ u.queue = n /\ u.next = t.next
      /\ prev # NULL => /\ prev \in Queued(t) /\ prev \in Slots /\ t.next[prev] = s /\ prev # s
                        /\ u.queue = t.queue /\ u.next = [t.next EXCEPT ![prev] = n]
  <2>1. prev # NULL => prev \in Queued(t) /\ prev \in Slots /\ t.next[prev] = s /\ prev # s
      BY <1>3, QueuedBusy DEF Precedes
  <2>2. prev = NULL => t.queue = s
      BY <1>3, QueuedBusy DEF Precedes
  <2>3. DOMAIN t = {"queue", "next", "id", "diff"}
      BY <1>3 DEF Table
  <2>4. /\ prev = NULL => u.queue = t.next[s] /\ u.next = t.next
        /\ prev # NULL => u.queue = t.queue /\ u.next = [t.next EXCEPT ![prev] = t.next[s]]
      BY <2>3 DEF Unchain
  <2> QED
      BY <2>1, <2>2, <2>4
<1>5. prev # NULL => u.next[prev] = n /\ \A c \in Slots \ {prev} : u.next[c] = t.next[c]
    BY <1>3, <1>4 DEF Linked
<1>6. Queued(u) = Queued(t) \ {s}
  <2>1. Queued(u) \subseteq Queued(t) \ {s}
      BY <1>2, QueueShrinks DEF Queued
  <2> DEFINE C == Queued(u) \cup {s}
  <2>2. t.queue # NULL => t.queue \in C
      BY <1>3, <1>4, ReachSelf DEF Queued
  <2>3. ASSUME NEW x \in Queued(t) \cap C, t.next[x] # NULL PROVE t.next[x] \in C
    <3>1. CASE x = s
      <4>1. CASE prev = NULL
          BY <1>3, <1>4, <2>3, <3>1, <4>1, ReachSelf DEF Queued, Sound, Table
      <4>2. CASE prev # NULL
        <5>1. \A y \in Queued(t) : t.next[y] = s => y = prev
            BY <1>1, <1>3, <1>4, <4>2, OnePredecessor DEF Queued
        <5>2. prev \in Queued(u)
          <6> SUFFICES ASSUME prev \notin Queued(u) PROVE FALSE
              OBVIOUS
          <6>1. t.queue # s
              BY <1>4, <4>2, QueueFirst
          <6>2. Queued(t) \subseteq Queued(u)
            <7>1. t.queue # NULL => t.queue \in Queued(u)
                BY <2>2, <6>1
            <7>2. ASSUME NEW y \in Queued(t) \cap Queued(u), t.next[y] # NULL
                  PROVE  t.next[y] \in Queued(u)
              <8>1. y # prev /\ y \in Slots
                  BY <7>2, QueuedBusy
              <8>2. u.next[y] = t.next[y]
                  BY <1>5, <4>2, <8>1
              <8> QED
                  BY <1>3, <7>2, <8>2, NextQueued
            <7> QED
                BY <7>1, <7>2, AlongQueue
          <6> QED
              BY <1>2, <6>2 DEF Queued
        <5> QED
            BY <1>3, <1>5, <2>3, <3>1, <4>2, <5>2, NextQueued
      <4> QED
          BY <4>1, <4>2
    <3>2. CASE x # s
      <4>1. x \in Queued(u) /\ x \in Slots
          BY <2>3, <3>2, QueuedBusy
      <4>2. t.next[x] = s \/ u.next[x] = t.next[x]
          BY <1>4, <1>5, <4>1
      <4> QED
          BY <1>3, <2>3, <4>1, <4>2, NextQueued
    <3> QED
        BY <3>1, <3>2
  <2> HIDE DEF C
  <2>4. Queued(t) \subseteq C
      BY <2>2, <2>3, AlongQueue
  <2> QED
      BY <2>1, <2>4 DEF C
<1>7. FreeSlots(u) = FreeSlots(t)
  <2>1. prev # NULL => n # prev
    <3> SUFFICES ASSUME prev # NULL, n = prev PROVE FALSE
        OBVIOUS
    <3>1. prev \in Queued(u)
        BY <1>4, <1>6
    <3> QED
        BY <1>3, <1>5, <3>1, QueuedBusy
  <2>2. prev # NULL => t.next[prev] # prev /\ u.next[prev] # prev
      BY <1>4, <1>5, <2>1
  <2> QED
      BY <1>4, <1>5, <2>2 DEF FreeSlots
<1>8. \A c \in Queued(u) : c \in Slots /\ c # NULL
                            /\ u.next[c] = IF c = prev THEN n ELSE t.next[c]
    BY <1>3, <1>4, <1>5, QueuedBusy
<1> QED
    BY <1>3, <1>4, <1>6, <1>7, <1>8

\* It leaves its difference to the one behind it.
LEMMA UnchainTimed ==
  ASSUME NEW t, Sound(t), NEW s \in Queued(t), NEW prev, Precedes(t, prev, s),
         NEW u, u = Unchain(t, s, prev),
         NEW F, Timed(t, t.diff, F), \A x \in Queued(t) : F[x] \in Nat /\ t.diff[x] \in Nat,
         NEW G, \A x \in Queued(u) : G[x] = F[x],
         NEW D, \A x \in Slots : D[x] = IF x = t.next[s] THEN t.diff[x] + t.diff[s] ELSE t.diff[x]
  PROVE  Timed(u, D, G)
<1> DEFINE n == t.next[s]
<1>1. /\ Queued(u) = Queued(t) \ {s} /\ Sound(u)
      /\ u.queue = (IF prev = NULL THEN n ELSE t.queue)
      /\ \A c \in Queued(u) : /\ c \in Slots /\ c # NULL
                             /\ u.next[c] = IF c = prev THEN n ELSE t.next[c]
    BY UnchainQueue
<1>2. /\ s \in Slots /\ s # NULL /\ n # s
      /\ n # NULL => n \in Queued(t) /\ n # t.queue /\ n \in Slots
    BY QueuedBusy, NextQueued, NullNoSlot DEF Queued
<1>3. /\ prev = NULL => t.queue = s
      /\ prev # NULL => prev \in Queued(t) /\ t.next[prev] = s /\ prev # s
    BY QueuedBusy DEF Precedes, Queued
<1>4. Linked(t) /\ t.queue \in Nodes /\ Ends(t, t.queue)
    BY DEF Sound, Table
<1>5. n # NULL => F[n] = F[s] + t.diff[n] /\ D[n] = t.diff[n] + t.diff[s] /\ F[s] \in Nat
                    /\ t.diff[n] \in Nat /\ t.diff[s] \in Nat
    BY <1>2 DEF Timed
<1>6. ASSUME u.queue # NULL PROVE G[u.queue] = D[u.queue]
  <2>1. G[u.queue] = F[u.queue]
      BY <1>1, <1>6, ReachSelf DEF Queued, Sound, Table
  <2>2. CASE prev = NULL
    <3>1. F[s] = t.diff[s] /\ u.queue = n
        BY <1>1, <1>2, <1>3, <2>2 DEF Timed
    <3> QED
        BY <1>5, <1>6, <2>1, <3>1
  <2>3. CASE prev # NULL
    <3>1. u.queue = t.queue /\ F[t.queue] = t.diff[t.queue] /\ t.queue \in Slots
        BY <1>1, <1>4, <1>6, <2>3 DEF Timed, Nodes
    <3>2. D[t.queue] = t.diff[t.queue]
        BY <1>2, <1>6, <3>1
    <3> QED
        BY <2>1, <3>1, <3>2
  <2> QED
      BY <2>2, <2>3
<1>7. ASSUME NEW x \in Queued(u), u.next[x] # NULL
      PROVE  G[u.next[x]] = G[x] + D[u.next[x]]
  <2>1. x \in Queued(t) /\ x # s /\ x \in Slots /\ x # NULL
      BY <1>1, <1>7
  <2>2. G[x] = F[x] /\ G[u.next[x]] = F[u.next[x]]
      BY <1>1, <1>7, NextQueued
  <2>3. CASE x = prev
    <3>1. u.next[x] = n /\ F[s] = F[x] + t.diff[s] /\ F[x] \in Nat
        BY <1>1, <1>2, <1>3, <2>1, <2>3 DEF Timed
    <3> QED
        BY <1>5, <1>7, <2>2, <3>1
  <2>4. CASE x # prev
    <3>1. u.next[x] = t.next[x]
        BY <1>1, <2>4
    <3>2. F[t.next[x]] = F[x] + t.diff[t.next[x]] /\ t.next[x] \in Slots
        BY <1>7, <2>1, <3>1, NextQueued, QueuedBusy DEF Timed
    <3>3. t.next[x] # n
        BY <1>2, <1>4, <1>7, <2>1, <3>1, OnePredecessor DEF Queued
    <3>4. D[t.next[x]] = t.diff[t.next[x]]
        BY <3>2, <3>3
    <3> QED
        BY <2>2, <3>1, <3>2, <3>4
  <2> QED
      BY <2>3, <2>4
<1> QED
    BY <1>6, <1>7 DEF Timed

\* A walk that meets an item beyond its start meets what is before the item.
LEMMA PredecessorMet ==
  ASSUME NEW t, Sound(t), NEW a \in Queued(t), NEW b \in Reach(t, a), b # a,
         NEW x \in Queued(t), t.next[x] = b, b # NULL
  PROVE  x \in Reach(t, a)
<1> SUFFICES ASSUME x \notin Reach(t, a) PROVE FALSE
    OBVIOUS
<1>1. /\ Linked(t) /\ t.queue \in Nodes /\ Ends(t, t.queue) /\ a \in Slots
      /\ a \in Reach(t, t.queue)
    BY QueuedBusy DEF Sound, Table, Queued
<1>2. Closed(t, Reach(t, a)) /\ a \in Reach(t, a) /\ Reach(t, a) \subseteq Reach(t, t.queue)
    BY <1>1, ReachClosed, ReachSelf, ReachTrans DEF Nodes
<1>3. b \in Slots
    BY <1>2, NullNoSlot DEF Closed
<1>4. ASSUME NEW c \in Reach(t, a) \ {NULL} PROVE t.next[c] # b
    BY <1>1, <1>2, <1>3, <1>4, OnePredecessor DEF Queued
<1>5. Closed(t, Reach(t, a) \ {b})
    BY <1>2, <1>4 DEF Closed
<1> QED
    BY <1>2, <1>5, ReachLeast

\* What does not expire stays queued, and what expires is free.
LEMMA ElapsedLeaves ==
  ASSUME NEW t, Sound(t), NEW gone, gone = Expired(t), NEW first, first = FirstLeft(t, gone),
         NEW u, u = TimeElapsed(t, gone, first)
  PROVE  /\ Queued(u) = Queued(t) \ gone /\ FreeSlots(u) = FreeSlots(t) \cup gone
         /\ u.queue = first /\ Sound(u) /\ gone \subseteq Queued(t)
         /\ \A c \in Queued(u) : u.next[c] = t.next[c]
         /\ \A s \in Slots : u.diff[s] = IF s = first THEN Remaining(t, s) - Interval ELSE t.diff[s]
<1>1. Sound(u) /\ Queued(u) \subseteq Queued(t) \ gone
    BY ElapsedShrinks, ElapsedQueue DEF Shrinks
<1>2. /\ u.queue = first
      /\ u.next = [s \in Slots |-> IF s \in gone THEN s ELSE t.next[s]]
      /\ u.diff = [s \in Slots |-> IF s = first THEN Remaining(t, s) - Interval ELSE t.diff[s]]
  <2>1. DOMAIN t = {"queue", "next", "id", "diff"}
      BY DEF Sound, Table
  <2> QED
      BY <2>1 DEF TimeElapsed
<1>3. gone \subseteq Queued(t) /\ \A s \in Queued(t) : s \in Slots /\ s # NULL /\ t.next[s] # s
    BY QueuedBusy DEF Expired
<1>4. \A c \in Queued(u) : u.next[c] = t.next[c]
    BY <1>1, <1>2, <1>3
<1>5. \A x \in Queued(t), s \in gone : s \in Reach(t, x) => x \in gone
    BY ExpiredPrefix
<1>6. ASSUME Queued(t) # gone
      PROVE  first \in Queued(t) \ gone /\ (first = t.queue \/ \E x \in gone : t.next[x] = first)
  <2>1. ASSUME \A s \in Queued(t) \ gone : s # t.queue /\ \A x \in gone : t.next[x] # s
        PROVE  FALSE
    <3>1. t.queue # NULL => t.queue \in gone
        BY <2>1, ReachSelf DEF Sound, Table, Queued
    <3>2. \A x \in Queued(t) \cap gone : t.next[x] # NULL => t.next[x] \in gone
        BY <2>1, NextQueued
    <3>3. Queued(t) \subseteq gone
        BY <3>1, <3>2, AlongQueue
    <3> QED
        BY <1>3, <1>6, <3>3
  <2> QED
      BY <1>6, <2>1 DEF FirstLeft
<1>7. Linked(t) /\ t.queue \in Nodes /\ Ends(t, t.queue)
    BY DEF Sound, Table
<1> DEFINE D == gone \cup Queued(u)
<1>8. t.queue # NULL => t.queue \in D
  <2> SUFFICES ASSUME t.queue # NULL, t.queue \notin gone PROVE t.queue \in Queued(u)
      OBVIOUS
  <2>1. t.queue \in Queued(t)
      BY <1>7, ReachSelf DEF Queued
  <2>2. gone = {}
      BY <1>3, <1>5, <2>1 DEF Queued
  <2>3. first = t.queue
      BY <1>6, <2>1, <2>2
  <2> QED
      BY <1>1, <1>2, <2>3, ReachSelf DEF Queued, Sound, Table
<1>9. ASSUME NEW x \in Queued(t) \cap D, t.next[x] # NULL PROVE t.next[x] \in D
  <2> DEFINE n == t.next[x]
  <2>1. n \in Queued(t) /\ n # t.queue /\ n \in Reach(t, t.queue) /\ n \in Nodes
      BY <1>9, NextQueued, QueuedBusy DEF Queued
  <2>2. CASE x \in Queued(u)
      BY <1>1, <1>4, <1>9, <2>2, NextQueued
  <2>3. CASE x \in gone /\ n \notin gone
    <3>1. first \in Queued(t) \ gone /\ (first = t.queue \/ \E y \in gone : t.next[y] = first)
        BY <1>6, <2>1, <2>3
    <3>2. n = first
      <4>1. CASE n \in Reach(t, first)
          BY <1>5, <1>9, <2>3, <3>1, <4>1, PredecessorMet
      <4>2. CASE first \in Reach(t, n)
        <5>1. CASE first # n
          <6>1. first # t.queue
            <7> SUFFICES ASSUME first = t.queue PROVE FALSE
                OBVIOUS
            <7>1. PICK y \in Queued(t) : t.next[y] = n
                BY <1>9
            <7>2. first \in Slots /\ first # NULL /\ n \in Slots
                BY <1>3, <2>1, <3>1
            <7>3. n \in Reach(t, t.next[first])
                BY <1>7, <2>1, <5>1, <7>2, ReachNext
            <7>4. Ends(t, first) /\ first \in Reach(t, t.next[first])
                BY <1>7, <4>2, <7>2, <7>3, ReachTrans
            <7> QED
                BY <1>7, <7>2, <7>4, NoCycle
          <6>2. PICK y \in gone : t.next[y] = first
              BY <3>1, <6>1
          <6>3. y \in Reach(t, n)
              BY <1>3, <2>1, <3>1, <4>2, <5>1, <6>2, PredecessorMet
          <6> QED
              BY <1>5, <2>1, <2>3, <6>3
        <5> QED
            BY <5>1
      <4> QED
          BY <1>7, <2>1, <3>1, <4>1, <4>2, InOrder DEF Queued
    <3> QED
        BY <1>1, <1>2, <1>3, <3>1, <3>2, ReachSelf DEF Queued, Sound, Table
  <2> QED
      BY <1>9, <2>2, <2>3
<1> HIDE DEF D
<1>10. Queued(t) \subseteq D
    BY <1>8, <1>9, AlongQueue
<1>11. Queued(u) = Queued(t) \ gone
    BY <1>1, <1>10 DEF D
<1>12. FreeSlots(u) = FreeSlots(t) \cup gone
    BY <1>2, <1>3 DEF FreeSlots
<1> QED
    BY <1>1, <1>2, <1>3, <1>4, <1>11, <1>12

\* Later in the queue is later in time.
LEMMA LaterIs ==
  ASSUME NEW t, Sound(t), NEW F, Timed(t, t.diff, F),
         \A x \in Queued(t) : F[x] \in Nat /\ t.diff[x] \in Nat,
         NEW x \in Queued(t), NEW y \in Queued(t), y \in Reach(t, x)
  PROVE  F[x] <= F[y]
<1> DEFINE D == {z \in Reach(t, x) : z # NULL => z \in Queued(t) /\ F[x] <= F[z]}
<1>1. Linked(t) /\ x \in Nodes /\ x \in Slots
    BY QueuedBusy DEF Sound, Table, Nodes
<1>2. Closed(t, Reach(t, x)) /\ x \in Reach(t, x)
    BY <1>1, ReachClosed, ReachSelf
<1>3. ASSUME NEW z \in D \ {NULL} PROVE t.next[z] \in D
  <2>1. z \in Queued(t) /\ t.next[z] \in Reach(t, x) /\ F[x] <= F[z]
      BY <1>2, <1>3 DEF Closed
  <2>2. ASSUME t.next[z] # NULL PROVE t.next[z] \in Queued(t) /\ F[x] <= F[t.next[z]]
    <3>1. t.next[z] \in Queued(t) /\ F[t.next[z]] = F[z] + t.diff[t.next[z]]
        BY <2>1, <2>2, NextQueued DEF Timed
    <3>2. F[z] \in Nat /\ F[x] \in Nat /\ t.diff[t.next[z]] \in Nat
        BY <2>1, <3>1
    <3> QED
        BY <2>1, <3>1, <3>2
  <2> QED
      BY <2>1, <2>2
<1>4. Closed(t, D) /\ x \in D
  <2>1. F[x] \in Nat
      OBVIOUS
  <2>2. x \in D
      BY <1>2, <2>1
  <2> QED
      BY <1>2, <1>3, <2>2 DEF Closed
<1> HIDE DEF D
<1>5. y \in D
    BY <1>4, ReachLeast
<1> QED
    BY <1>5 DEF D, Queued

\* What does not expire has the interval to go.
LEMMA NotExpired ==
  ASSUME NEW t, Sound(t), NEW F, Timed(t, t.diff, F),
         \A x \in Queued(t) : F[x] \in Nat /\ t.diff[x] \in Nat,
         NEW y \in Queued(t), y \notin Expired(t)
  PROVE  F[y] >= Interval
<1>1. PICK x \in Queued(t) : /\ y \in Reach(t, x)
                             /\ ~(Remaining(t, x) <= Interval /\ Remaining(t, x) - t.diff[x] < Interval)
    BY DEF Expired
<1>2. Remaining(t, x) = F[x] /\ F[x] \in Nat /\ F[y] \in Nat /\ t.diff[x] \in Nat /\ Interval \in Nat
    BY RemainingIs, MqttAssumption
<1>3. F[x] >= Interval
    BY <1>1, <1>2
<1>4. F[x] <= F[y]
    BY <1>1, LaterIs
<1> QED
    BY <1>2, <1>3, <1>4

\* After the expiry each item has an interval less to go.
LEMMA ElapsedTimed ==
  ASSUME NEW t, Sound(t), NEW F, Timed(t, t.diff, F),
         \A x \in Queued(t) : F[x] \in Nat /\ t.diff[x] \in Nat,
         NEW gone, gone = Expired(t), NEW first, first = FirstLeft(t, gone),
         NEW u, u = TimeElapsed(t, gone, first),
         NEW G, \A x \in Queued(u) : G[x] = F[x] - Interval
  PROVE  Timed(u, u.diff, G) /\ \A x \in Queued(u) : u.diff[x] \in Nat
<1>1. /\ Queued(u) = Queued(t) \ gone
      /\ u.queue = first /\ Sound(u)
      /\ \A c \in Queued(u) : u.next[c] = t.next[c]
      /\ \A s \in Slots : u.diff[s] = IF s = first THEN Remaining(t, s) - Interval ELSE t.diff[s]
    BY ElapsedLeaves
<1>2. \A x \in Queued(u) : /\ x \in Queued(t) /\ x \in Slots /\ F[x] \in Nat /\ F[x] >= Interval
                           /\ Remaining(t, x) = F[x]
    BY <1>1, NotExpired, RemainingIs, QueuedBusy
<1>3. \A x \in Queued(u) : u.diff[x] = IF x = first THEN F[x] - Interval ELSE t.diff[x]
    BY <1>1, <1>2
<1>4. ASSUME u.queue # NULL PROVE G[u.queue] = u.diff[u.queue]
  <2>1. first \in Queued(u)
      BY <1>1, <1>4, ReachSelf DEF Queued, Sound, Table
  <2> QED
      BY <1>1, <1>3, <2>1
<1>5. ASSUME NEW x \in Queued(u), u.next[x] # NULL
      PROVE  G[u.next[x]] = G[x] + u.diff[u.next[x]]
  <2> DEFINE n == t.next[x]
  <2>1. u.next[x] = n /\ n \in Queued(u) /\ n # first /\ n # NULL /\ x \in Queued(t)
      BY <1>1, <1>5, NextQueued
  <2> HIDE DEF n
  <2>2. F[n] = F[x] + t.diff[n]
      BY <2>1 DEF Timed, n
  <2>3. G[n] = F[n] - Interval /\ G[x] = F[x] - Interval /\ u.diff[n] = t.diff[n]
      BY <1>3, <1>5, <2>1
  <2>4. F[x] \in Nat /\ t.diff[n] \in Nat /\ Interval \in Nat
      BY <1>1, <2>1, MqttAssumption
  <2> QED
      BY <2>1, <2>2, <2>3, <2>4
<1>6. \A x \in Queued(u) : u.diff[x] \in Nat
    BY <1>2, <1>3, <1>1, MqttAssumption
<1> QED
    BY <1>4, <1>5, <1>6 DEF Timed

\* Any table whose queue ends has times: those are the pairs that every set has
\* which has the first item with its difference and adds the next with its own.
LEMMA TimesExist ==
  ASSUME NEW t, Sound(t), \A x \in Queued(t) : t.diff[x] \in Nat
  PROVE  \E F : Timed(t, t.diff, F) /\ \A x \in Queued(t) : F[x] \in Nat
<1> DEFINE Q == Queued(t)
           Adds(P) ==
             /\ t.queue # NULL => <<t.queue, t.diff[t.queue]>> \in P
             /\ \A x \in Q, v \in Nat :
                  <<x, v>> \in P /\ t.next[x] # NULL => <<t.next[x], v + t.diff[t.next[x]]>> \in P
           R == {p \in Q \X Nat : \A P \in SUBSET (Q \X Nat) : Adds(P) => p \in P}
           One(x) == \E v \in Nat : /\ <<x, v>> \in R
                                    /\ \A w \in Nat : <<x, w>> \in R => w = v
<1>1. t.queue # NULL => t.queue \in Q
    BY ReachSelf DEF Queued, Sound, Table
<1>2. \A x \in Q : t.next[x] # NULL => /\ t.next[x] \in Q /\ t.next[x] # t.queue
                                       /\ Predecessor(t, t.next[x]) = x
    BY NextQueued
<1> HIDE DEF Q
<1>3. \A x \in Q : t.diff[x] \in Nat
    BY DEF Q
<1>4. ASSUME NEW P \in SUBSET (Q \X Nat), Adds(P) PROVE R \subseteq P
    BY <1>4
<1>5. R \subseteq Q \X Nat /\ Adds(R)
  <2>1. t.queue # NULL => <<t.queue, t.diff[t.queue]>> \in R
      BY <1>1, <1>3
  <2>2. ASSUME NEW x \in Q, NEW v \in Nat, <<x, v>> \in R, t.next[x] # NULL
        PROVE  <<t.next[x], v + t.diff[t.next[x]]>> \in R
    <3> DEFINE n == t.next[x]
               w == v + t.diff[n]
    <3>1. n \in Q /\ w \in Nat
        BY <1>2, <1>3, <2>2
    <3>2. ASSUME NEW P \in SUBSET (Q \X Nat), Adds(P) PROVE <<n, w>> \in P
      <4>1. <<x, v>> \in P
          BY <2>2, <3>2
      <4> QED
          BY <2>2, <3>2, <4>1
    <3> HIDE DEF n, w
    <3> HIDE DEF Adds
    <3>3. <<n, w>> \in R
        BY <3>1, <3>2
    <3> QED
        BY <3>3 DEF n, w
  <2> QED
      BY <2>1, <2>2
<1> HIDE DEF R
<1>6. ASSUME t.queue # NULL PROVE One(t.queue)
  <2> DEFINE q == t.queue
             P == {p \in R : p[1] = q => p[2] = t.diff[q]}
  <2>1. P \in SUBSET (Q \X Nat) /\ <<q, t.diff[q]>> \in R /\ t.diff[q] \in Nat
      BY <1>1, <1>3, <1>5, <1>6
  <2>2. ASSUME NEW x \in Q, NEW v \in Nat, <<x, v>> \in P, t.next[x] # NULL
        PROVE  <<t.next[x], v + t.diff[t.next[x]]>> \in P
      BY <1>2, <1>5, <2>2
  <2>3. Adds(P)
      BY <2>1, <2>2
  <2>4. R \subseteq P
      BY <1>4, <2>1, <2>3
  <2>5. \A w \in Nat : <<q, w>> \in R => w = t.diff[q]
      BY <2>4
  <2> QED
      BY <2>1, <2>5
<1>7. ASSUME NEW x \in Q, One(x), t.next[x] # NULL PROVE One(t.next[x])
  <2> DEFINE n == t.next[x]
  <2>1. PICK v \in Nat : <<x, v>> \in R /\ \A w \in Nat : <<x, w>> \in R => w = v
      BY <1>7
  <2>2. n \in Q /\ n # t.queue /\ Predecessor(t, n) = x /\ t.diff[n] \in Nat /\ n # NULL
      BY <1>2, <1>3, <1>7
  <2>3. <<n, v + t.diff[n]>> \in R
      BY <1>5, <1>7, <2>1
  <2> DEFINE P == {p \in R : p[1] = n => p[2] = v + t.diff[n]}
  <2>4. ASSUME NEW y \in Q, NEW u \in Nat, <<y, u>> \in P, t.next[y] # NULL
        PROVE  <<t.next[y], u + t.diff[t.next[y]]>> \in P
    <3>1. <<y, u>> \in R /\ <<t.next[y], u + t.diff[t.next[y]]>> \in R
        BY <1>5, <2>4
    <3>2. t.next[y] = n => y = x
        BY <1>2, <2>2, <2>4
    <3>3. t.next[y] = n => u = v
        BY <2>1, <3>1, <3>2
    <3> QED
        BY <3>1, <3>3
  <2>5. t.queue # NULL => <<t.queue, t.diff[t.queue]>> \in P
      BY <1>5, <2>2
  <2>6. P \in SUBSET (Q \X Nat) /\ Adds(P)
      BY <1>5, <2>4, <2>5
  <2>7. R \subseteq P
      BY <1>4, <2>6
  <2>8. \A w \in Nat : <<n, w>> \in R => w = v + t.diff[n]
      BY <2>7
  <2> QED
      BY <2>1, <2>2, <2>3, <2>8
<1>8. \A x \in Q : One(x)
  <2> DEFINE D == {x \in Q : One(x)}
  <2> HIDE DEF One
  <2>1. Queued(t) \subseteq D
    <3>1. t.queue # NULL => t.queue \in D
        BY <1>1, <1>6
    <3>2. \A x \in Queued(t) \cap D : t.next[x] # NULL => t.next[x] \in D
        BY <1>2, <1>7
    <3> HIDE DEF D
    <3> QED
        BY <3>1, <3>2, AlongQueue
  <2> QED
      BY <2>1 DEF Q
<1> DEFINE F == [x \in Q |-> CHOOSE v \in Nat : <<x, v>> \in R]
<1>9. ASSUME NEW x \in Q PROVE /\ F[x] \in Nat /\ <<x, F[x]>> \in R
                               /\ \A w \in Nat : <<x, w>> \in R => w = F[x]
    BY <1>8, <1>9
<1> HIDE DEF F
<1>10. t.queue # NULL => F[t.queue] = t.diff[t.queue]
    BY <1>1, <1>3, <1>5, <1>9
<1>11. ASSUME NEW x \in Q, t.next[x] # NULL PROVE F[t.next[x]] = F[x] + t.diff[t.next[x]]
  <2>1. t.next[x] \in Q /\ t.diff[t.next[x]] \in Nat /\ F[x] \in Nat /\ <<x, F[x]>> \in R
      BY <1>2, <1>3, <1>9, <1>11
  <2>2. <<t.next[x], F[x] + t.diff[t.next[x]]>> \in R
      BY <1>5, <1>11, <2>1
  <2>3. F[x] + t.diff[t.next[x]] \in Nat
      BY <2>1
  <2> DEFINE w == F[x] + t.diff[t.next[x]]
  <2> HIDE DEF w
  <2> QED
      BY <1>9, <2>1, <2>2, <2>3 DEF w
<1>12. Timed(t, t.diff, F) /\ \A x \in Queued(t) : F[x] \in Nat
    BY <1>9, <1>10, <1>11 DEF Timed, Q
<1> QED
    BY <1>12

\* The first that stays keeps at most its own difference.
LEMMA ElapsedDiff ==
  ASSUME NEW t, Sound(t), t.diff \in [Slots -> 0..(DiffMod - 1)],
         NEW gone, gone = Expired(t), NEW first, first = FirstLeft(t, gone),
         NEW u, u = TimeElapsed(t, gone, first)
  PROVE  u.diff \in [Slots -> 0..(DiffMod - 1)]
<1>1. \A x \in Queued(t) : x \in Slots /\ t.diff[x] \in Nat /\ t.diff[x] <= DiffMod - 1
    BY QueuedBusy, MqttAssumption
<1>2. PICK F : Timed(t, t.diff, F) /\ \A x \in Queued(t) : F[x] \in Nat
    BY <1>1, TimesExist
<1>3. \A x \in Queued(t) : Remaining(t, x) = F[x]
    BY <1>2, RemainingIs
<1>4. ASSUME first # NULL PROVE Remaining(t, first) - Interval \in 0..(DiffMod - 1)
  <2>1. /\ first \in Queued(t) /\ first \notin Expired(t)
        /\ first = t.queue \/ \E x \in gone : t.next[x] = first
      BY <1>4, FirstLeftIs
  <2>2. F[first] >= Interval /\ F[first] \in Nat
      BY <1>1, <1>2, <2>1, NotExpired
  <2>3. F[first] <= t.diff[first] + Interval
    <3>1. CASE first = t.queue
        BY <1>1, <1>2, <1>4, <2>1, <3>1, MqttAssumption DEF Timed
    <3>2. CASE first # t.queue
      <4>1. PICK x \in gone : t.next[x] = first
          BY <2>1, <3>2
      <4>2. x \in Queued(t) /\ Remaining(t, x) <= Interval
          BY ReachSelf, QueuedBusy DEF Expired, Nodes
      <4>3. F[first] = F[x] + t.diff[first]
          BY <1>2, <1>4, <4>1, <4>2 DEF Timed
      <4> QED
          BY <1>1, <1>2, <1>3, <2>1, <4>2, <4>3, MqttAssumption
    <3> QED
        BY <3>1, <3>2
  <2> QED
      BY <1>1, <1>3, <2>1, <2>2, <2>3, MqttAssumption
<1>5. NULL \notin Slots
    BY NullNoSlot
<1>6. u.diff = [s \in Slots |-> IF s = first THEN Remaining(t, s) - Interval ELSE t.diff[s]]
  <2>1. DOMAIN t = {"queue", "next", "id", "diff"}
      BY DEF Sound, Table
  <2> QED
      BY <2>1 DEF TimeElapsed
<1>7. ASSUME NEW s \in Slots
      PROVE  (IF s = first THEN Remaining(t, s) - Interval ELSE t.diff[s]) \in 0..(DiffMod - 1)
    BY <1>4, <1>5
<1> QED
    BY <1>6, <1>7
=============================================================================
