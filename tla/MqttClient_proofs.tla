-------------------------- MODULE MqttClient_proofs --------------------------
(***************************************************************************)
(* The telemetry client, for every size of the request table and of the    *)
(* output ring and every timeout, however srv_conn and the tcpip_thread    *)
(* interleave: walks of the queue end, the requests keep what RequestTable *)
(* promises, and, until the first race on them, the stream to the broker   *)
(* is intact and the table sound.                                          *)
(***************************************************************************)
EXTENDS MqttTable_proofs, SequenceTheorems

-----------------------------------------------------------------------------
(* The inductive invariant *)

\* The locals of the two threads.
Locals ==
  /\ DOMAIN srv = {"pc", "slot", "todo", "iter", "head", "sum", "k"}
  /\ DOMAIN tp = {"pc", "slot", "prev", "k", "release"}
  /\ srv.slot \in Nodes /\ srv.iter \in Nodes /\ srv.head \in Nodes

\* The item that the tcpip_thread takes is in the queue, where it says; once
\* taken it is out, and not yet free.
TakenInv ==
  /\ tp.pc = "unchain" => /\ tp.slot \in Queued(reqs)
                          /\ Precedes(reqs, tp.prev, tp.slot)
  /\ tp.pc = "finish" => /\ tp.slot \in Slots /\ tp.slot \notin Reach(reqs, reqs.queue)
                         /\ reqs.next[tp.slot] # tp.slot

\* The slot that srv_conn fills is in no list and ends there.  Its walk does not
\* meet that slot, and when it is over it has left the last item, unless that
\* item was freed under it.
HeldInv ==
  /\ srv.slot # NULL =>
       /\ reqs.next[srv.slot] = NULL
       /\ srv.slot \notin Reach(reqs, reqs.queue)
       /\ tp.pc = "finish" => tp.slot # srv.slot
       /\ srv.pc = "walk" => srv.slot \notin Reach(reqs, srv.iter)
       /\ srv.pc \in {"walk", "link"} => srv.head # srv.slot
  /\ srv.pc \in {"walk", "link"} =>
       /\ srv.slot # NULL
       /\ srv.iter = NULL =>
            /\ srv.head = NULL => reqs.queue = NULL
            /\ srv.head # NULL => reqs.next[srv.head] \in {NULL, srv.head}
  /\ srv.pc = "link" => srv.iter = NULL

\* Until CONNACK comes srv_conn publishes nothing: the subscription, which the
\* tcpip_thread makes then, has the table to itself.
Early == connState = "MQTT_CONNECTING" \/ tcp = "syn" \/ srv.pc \in {"start", "connect"}
Waits == {"start", "connect", "set_err", "set_state", "append", "wait", "stopped"}

EarlyInv ==
  /\ Early => ~sem /\ ~tp.release /\ srv.slot = NULL /\ srv.pc \in Waits
  /\ srv.pc \in {"start", "connect"} => tcp = "closed" /\ connState = "TCP_DISCONNECTED"

TableInv == Sound(reqs) /\ TakenInv /\ HeldInv
WalksInv == Locals /\ EarlyInv /\ TableInv

-----------------------------------------------------------------------------
(* Locals and EarlyInv *)

\* A handler that sends is inside it until the advance.
LEMMA TpWriteIs ==
  ASSUME NEW k, NEW release, TpWrite(k, release)
  PROVE  DOMAIN tp' = {"pc", "slot", "prev", "k", "release"}
         /\ tp'.pc = "advance" /\ tp'.release = release
    BY DEF TpWrite, TpIdle

\* What the steps of the tcpip_thread do to its locals, to srv_conn and to the
\* semaphore.
LEMMA LocalsStep == Locals /\ Sound(reqs) /\ [MqttNext]_mqttVars => Locals'
<1> SUFFICES ASSUME Locals, Sound(reqs), [MqttNext]_mqttVars PROVE Locals'
    OBVIOUS
<1> USE DEF Locals, Goto
<1>1. CASE UNCHANGED mqttVars
    BY <1>1 DEF mqttVars
<1>2. CASE SrvNext
  <2>1. CASE SrvStart \/ SrvConnect \/ SrvSetErr \/ SrvSetState \/ SrvWait
      BY <2>1 DEF SrvStart, SrvConnect, SrvSetErr, SrvSetState, SrvWait
  <2>2. CASE SrvAppend
    <3>1. reqs.queue \in Nodes /\ NULL \in Nodes
        BY DEF Sound, Table, Nodes
    <3> QED
        BY <2>2, <3>1 DEF SrvAppend
  <2>3. CASE SrvPublish
    <3>1. FreeSlots(reqs) # {} => FreeSlot(reqs) \in Nodes
        BY DEF FreeSlots, FreeSlot, Nodes
    <3> QED
        BY <2>3, <3>1 DEF SrvPublish
  <2>4. CASE SrvWalk
    <3>1. srv.iter # NULL => reqs.next[srv.iter] \in Nodes
        BY NullNoSlot DEF Sound, Table, Linked
    <3> QED
        BY <2>4, <3>1 DEF SrvWalk
  <2>5. CASE SrvLink
    <3>1. NULL \in Nodes
        BY DEF Nodes
    <3> QED
        BY <2>5, <3>1 DEF SrvLink
  <2>6. CASE SrvSend \/ SrvAdvance
      BY <2>6 DEF SrvSend, SrvAdvance
  <2> QED
      BY <1>2, <2>1, <2>2, <2>3, <2>4, <2>5, <2>6 DEF SrvNext
<1>3. CASE TpInside
    BY <1>3 DEF TpInside, TpAdvance, TpUnchain, TpFinish, TpIdle
<1>4. CASE TpHandles \/ TcpConnected \/ TcpAborts \/ CyclicTimer \/ Broker
  <2>1. srv' = srv
      BY <1>4 DEF TpHandles, TcpSent, TcpPoll, RecvConnack, RecvAck, RecvPublish, RecvPingresp,
                  RecvCut, RecvFin, TcpConnected, TcpAborts, CyclicTimer, Broker, BrokerReads,
                  BrokerPublishes
  <2>2. DOMAIN tp' = {"pc", "slot", "prev", "k", "release"}
    <3>1. CASE tp' = tp
        BY <3>1
    <3>2. CASE \E k, release : TpWrite(k, release)
        BY <3>2, TpWriteIs
    <3>3. CASE RecvAck
        BY <3>3 DEF RecvAck, TpIdle
    <3>4. CASE TcpSent \/ TcpPoll \/ RecvConnack \/ RecvPublish \/ TcpConnected
        BY <3>1, <3>2, <3>4 DEF TcpSent, TcpPoll, RecvConnack, Subscribe, RecvPublish, TcpConnected
    <3>5. CASE RecvPingresp \/ RecvCut \/ RecvFin \/ TcpAborts \/ CyclicTimer \/ Broker
        BY <3>1, <3>5 DEF RecvPingresp, RecvCut, RecvFin, TcpAborts, CyclicTimer, Broker,
                          BrokerReads, BrokerPublishes
    <3> QED
        BY <1>4, <3>3, <3>4, <3>5 DEF TpHandles
  <2> QED
      BY <2>1, <2>2
<1> QED
    BY <1>1, <1>2, <1>3, <1>4 DEF MqttNext

\* Before the connection is up srv_conn waits and the semaphore is not signalled.
LEMMA EarlyStep == Locals /\ EarlyInv /\ [MqttNext]_mqttVars => EarlyInv'
<1> SUFFICES ASSUME Locals, EarlyInv, [MqttNext]_mqttVars PROVE EarlyInv'
    OBVIOUS
<1> USE DEF Locals, EarlyInv, Early, Waits, Goto
<1>1. CASE UNCHANGED mqttVars
    BY <1>1 DEF mqttVars, clientVars, netVars
<1>2. CASE SrvNext
  <2>1. CASE SrvStart \/ SrvConnect
      BY <1>2, <2>1 DEF SrvStart, SrvConnect, clientVars, netVars
  <2>2. CASE SrvSetErr \/ SrvSetState
    <3>1. /\ srv.pc \in {"set_err", "set_state"} /\ srv'.pc \in {"set_state", "append"}
          /\ srv'.slot = srv.slot
        BY <2>2 DEF SrvSetErr, SrvSetState
    <3>2. tcp' = tcp /\ sem' = sem /\ tp' = tp /\ connState' \in {connState, "TCP_CONNECTING"}
        BY <2>2 DEF SrvSetErr, SrvSetState, netVars
    <3> QED
        BY <3>1, <3>2
  <2>3. CASE SrvAppend
      BY <2>3 DEF SrvAppend, clientVars, netVars
  <2>4. CASE SrvWait
      BY <2>4 DEF SrvWait, clientVars, netVars
  <2>5. CASE SrvPublish \/ SrvWalk \/ SrvLink \/ SrvSend \/ SrvAdvance
    <3>1. srv.pc \in {"publish", "walk", "link", "send", "advance"}
        BY <2>5 DEF SrvPublish, SrvWalk, SrvLink, SrvSend, SrvAdvance
    <3>2. ~Early /\ srv'.pc \notin {"start", "connect"}
        BY <2>5, <3>1 DEF SrvPublish, SrvWalk, SrvLink, SrvSend, SrvAdvance
    <3>3. connState' = connState /\ tcp' = tcp
        BY <2>5 DEF SrvPublish, SrvWalk, SrvLink, SrvSend, SrvAdvance, clientVars, netVars
    <3> QED
        BY <3>2, <3>3
  <2> QED
      BY <1>2, <2>1, <2>2, <2>3, <2>4, <2>5 DEF SrvNext
<1>3. CASE TpAdvance
  <2>1. connState' = connState /\ tcp' = tcp /\ srv' = srv
      BY <1>3 DEF TpAdvance, clientVars, netVars
  <2>2. ~tp'.release
      BY <1>3 DEF TpAdvance, TpIdle
  <2>3. (~sem /\ ~tp.release) => ~sem'
      BY <1>3, Zenon DEF TpAdvance
  <2> QED
      BY <2>1, <2>2, <2>3
<1>4. CASE TpUnchain \/ TpFinish
  <2>1. connState' = connState /\ tcp' = tcp /\ srv' = srv /\ sem' = sem
      BY <1>4 DEF TpUnchain, TpFinish, clientVars, netVars
  <2>2. CASE TpUnchain
    <3>1. tp'.release = tp.release
        BY <2>2 DEF TpUnchain
    <3> QED
        BY <2>1, <3>1
  <2>3. CASE TpFinish
    <3>1. ~tp'.release
        BY <2>3 DEF TpFinish, TpIdle
    <3> QED
        BY <2>1, <3>1
  <2> QED
      BY <1>4, <2>2, <2>3
<1>5. CASE TcpConnected
  <2>1. ~tp'.release
      BY <1>5, TpWriteIs DEF TcpConnected
  <2> QED
      BY <1>5, <2>1 DEF TcpConnected
<1>6. CASE RecvConnack
  <2>1. CASE connState # "MQTT_CONNECTING"
      BY <1>6, <2>1 DEF RecvConnack, Receives
  <2>2. CASE connState = "MQTT_CONNECTING" /\ connState' = "MQTT_CONNECTED"
    <3>1. tcp' = "open" /\ srv' = srv /\ tcp = "open"
        BY <1>6, <2>2 DEF RecvConnack, Receives, Close
    <3> QED
        BY <2>2, <3>1
  <2>3. CASE connState' = "TCP_DISCONNECTED" /\ tcp' = "closed" /\ UNCHANGED <<sem, tp, srv>>
      BY <2>3
  <2> QED
      BY <1>6, <2>1, <2>2, <2>3 DEF RecvConnack, Close
<1>7. CASE TcpSent \/ TcpPoll \/ RecvPublish \/ RecvAck
  <2>1. connState' = connState /\ tcp' = tcp /\ sem' = sem /\ srv' = srv
      BY <1>7 DEF TcpSent, TcpPoll, RecvPublish, RecvAck, clientVars, netVars
  <2>2. tp' = tp \/ ~tp'.release
      BY <1>7, TpWriteIs DEF TcpSent, TcpPoll, RecvPublish, RecvAck, TpIdle
  <2> QED
      BY <2>1, <2>2
<1>8. CASE RecvPingresp \/ RecvCut \/ RecvFin \/ TcpAborts \/ Broker
  <2>1. sem' = sem /\ srv' = srv /\ tp' = tp
      BY <1>8 DEF RecvPingresp, RecvCut, RecvFin, TcpAborts, Broker, BrokerReads, BrokerPublishes
  <2>2. \/ connState' = connState /\ tcp' \in {tcp, "closed"}
        \/ connState' = "TCP_DISCONNECTED" /\ tcp' = "closed"
      BY <1>8 DEF RecvPingresp, RecvCut, RecvFin, TcpAborts, Broker, BrokerReads,
                  BrokerPublishes, Close, clientVars
  <2> QED
      BY <2>1, <2>2
<1>9. CASE CyclicTimer
  <2>1. sem' = sem /\ srv' = srv /\ tp' = tp
      BY <1>9 DEF CyclicTimer
  <2>2. \/ connState' = connState /\ tcp' = tcp
        \/ connState' = "TCP_DISCONNECTED" /\ tcp' = "closed"
      BY <1>9 DEF CyclicTimer, ConnectTick, ConnectedTick, StrayTick, Close, netVars
  <2> QED
      BY <2>1, <2>2
<1> QED
    BY <1>1, <1>2, <1>3, <1>4, <1>5, <1>6, <1>7, <1>8, <1>9 DEF MqttNext, TpInside, TpHandles

-----------------------------------------------------------------------------
(* TableInv: the steps of srv_conn *)

\* A step of srv_conn that leaves the table and its walk alone.
LEMMA SrvElsewhere ==
  ASSUME TableInv, reqs' = reqs, tp' = tp, srv'.slot = srv.slot, srv'.pc \notin {"walk", "link"}
  PROVE  TableInv'
    BY DEF TableInv, TakenInv, HeldInv

\* The walk begins.
LEMMA AppendStep == Locals /\ TableInv /\ SrvAppend => TableInv'
<1> SUFFICES ASSUME Locals, TableInv, SrvAppend PROVE TableInv'
    OBVIOUS
<1>1. reqs' = reqs /\ tp' = tp /\ srv'.slot = srv.slot
    BY DEF SrvAppend, Locals
<1>2. CASE srv'.pc \notin {"walk", "link"}
    BY <1>1, <1>2, SrvElsewhere
<1>3. CASE srv'.pc \in {"walk", "link"}
  <2>1. /\ srv'.pc = "walk" /\ srv'.slot # NULL /\ srv'.iter = reqs.queue /\ srv'.head = NULL
      BY <1>3 DEF SrvAppend, Locals
  <2> QED
      BY <1>1, <2>1 DEF TableInv, TakenInv, HeldInv
<1> QED
    BY <1>2, <1>3

\* The walk goes on, hangs, or is over.
LEMMA WalkStep == Locals /\ TableInv /\ SrvWalk => TableInv'
<1> SUFFICES ASSUME Locals, TableInv, SrvWalk PROVE TableInv'
    OBVIOUS
<1>1. reqs' = reqs /\ tp' = tp /\ srv'.slot = srv.slot /\ srv.pc = "walk" /\ srv.slot # NULL
    BY DEF SrvWalk, Locals, TableInv, HeldInv
<1>2. Linked(reqs)
    BY DEF TableInv, Sound, Table
<1>3. CASE srv.iter = NULL
  <2>1. srv'.pc = "link" /\ srv'.iter = NULL /\ srv'.head = srv.head
      BY <1>1, <1>3 DEF SrvWalk, Locals
  <2> QED
      BY <1>1, <1>3, <2>1 DEF TableInv, TakenInv, HeldInv
<1>4. CASE srv.iter # NULL /\ reqs.next[srv.iter] = srv.iter
  <2>1. srv'.pc = "spin"
      BY <1>1, <1>4 DEF SrvWalk, Locals
  <2> QED
      BY <1>1, <2>1, SrvElsewhere
<1>5. CASE srv.iter # NULL /\ reqs.next[srv.iter] # srv.iter
  <2>1. srv'.pc = "walk" /\ srv'.iter = reqs.next[srv.iter] /\ srv'.head = srv.iter
      BY <1>1, <1>5 DEF SrvWalk, Locals
  <2>2. srv.iter \in Nodes /\ srv.iter \in Reach(reqs, srv.iter)
      BY ReachSelf DEF Locals
  <2>3. reqs.next[srv.iter] \in Reach(reqs, srv.iter)
      BY <1>2, <1>5, <2>2, ReachClosed DEF Closed
  <2>4. Reach(reqs, srv'.iter) \subseteq Reach(reqs, srv.iter)
      BY <1>2, <2>1, <2>3, ReachTrans
  <2>5. srv.slot \notin Reach(reqs, srv.iter)
      BY <1>1 DEF TableInv, HeldInv
  <2>6. srv'.head # srv.slot /\ srv.slot \notin Reach(reqs, srv'.iter) /\ srv'.head # NULL
      BY <1>5, <2>1, <2>2, <2>4, <2>5
  <2>7. srv'.iter = NULL => reqs.next[srv'.head] = NULL
      BY <2>1
  <2> QED
      BY <1>1, <2>1, <2>6, <2>7 DEF TableInv, TakenInv, HeldInv
<1> QED
    BY <1>3, <1>4, <1>5

\* mqtt_publish takes a slot, and frees it again if the ring has no room.
LEMMA PublishStep == Locals /\ TableInv /\ SrvPublish => TableInv'
<1> SUFFICES ASSUME Locals, TableInv, SrvPublish PROVE TableInv'
    OBVIOUS
<1> DEFINE r == FreeSlot(reqs)
           made == Create(reqs, pktIdSeq + 1)
<1>1. tp' = tp /\ srv'.pc \notin {"walk", "link"} /\ Sound(reqs)
    BY DEF SrvPublish, Locals, Goto, TableInv
<1>2. CASE reqs' = reqs /\ srv'.slot = srv.slot
    BY <1>1, <1>2, SrvElsewhere
<1>3. CASE FreeSlots(reqs) # {} /\ reqs' = made /\ srv'.slot = r
  <2>1. /\ r \in Slots /\ reqs.next[r] = r /\ reqs'.next[r] = NULL
        /\ Sound(reqs') /\ reqs'.queue = reqs.queue
        /\ reqs'.next = [reqs.next EXCEPT ![r] = NULL]
        /\ Reach(reqs', reqs.queue) = Reach(reqs, reqs.queue) /\ r \notin Reach(reqs, reqs.queue)
      BY <1>1, <1>3, CreateIs
  <2> HIDE DEF r, made
  <2>2. Queued(reqs') = Queued(reqs) /\ reqs.next \in [Slots -> Nodes]
      BY <1>1, <2>1 DEF Queued, Sound, Table, Linked
  <2>3. \A c \in Slots \ {r} : reqs'.next[c] = reqs.next[c]
      BY <2>1, <2>2
  <2>4. TakenInv'
    <3>1. CASE tp.pc = "unchain"
      <4>1. tp.slot \in Queued(reqs) /\ Precedes(reqs, tp.prev, tp.slot)
          BY <3>1 DEF TableInv, TakenInv
      <4>2. tp.prev \in Queued(reqs) => reqs'.next[tp.prev] = reqs.next[tp.prev]
          BY <1>1, <2>1, <2>3, QueuedBusy DEF Queued
      <4> QED
          BY <1>1, <2>1, <2>2, <3>1, <4>1, <4>2 DEF TakenInv, Precedes
    <3>2. CASE tp.pc = "finish"
      <4>1. tp.slot \in Slots /\ tp.slot # r /\ tp.slot \notin Reach(reqs, reqs.queue)
            /\ reqs.next[tp.slot] # tp.slot
          BY <2>1, <3>2 DEF TableInv, TakenInv
      <4> QED
          BY <1>1, <2>1, <2>3, <3>2, <4>1 DEF TakenInv
    <3> QED
        BY <1>1, <3>1, <3>2 DEF TakenInv
  <2>5. HeldInv'
    <3>1. tp.pc = "finish" => tp.slot # r
        BY <2>1 DEF TableInv, TakenInv
    <3> QED
        BY <1>1, <1>3, <2>1, <3>1 DEF HeldInv
  <2> QED
      BY <2>1, <2>4, <2>5 DEF TableInv
<1>4. CASE FreeSlots(reqs) # {} /\ reqs' = Delete(made, r) /\ srv'.slot = srv.slot
  <2>1. /\ r \in Slots /\ reqs.next[r] = r
        /\ Sound(made) /\ made.queue = reqs.queue
        /\ made.next = [reqs.next EXCEPT ![r] = NULL]
        /\ Reach(made, reqs.queue) = Reach(reqs, reqs.queue) /\ r \notin Reach(reqs, reqs.queue)
      BY <1>1, <1>4, CreateIs
  <2> HIDE DEF r, made
  <2>2. /\ Sound(reqs') /\ reqs'.queue = reqs.queue
        /\ reqs'.next = [made.next EXCEPT ![r] = r]
        /\ Reach(reqs', reqs'.queue) = Reach(reqs, reqs.queue)
    <3>1. r \notin Reach(made, made.queue)
        BY <2>1
    <3>2. /\ Sound(Delete(made, r)) /\ Delete(made, r).queue = made.queue
          /\ Delete(made, r).next = [made.next EXCEPT ![r] = r]
          /\ Reach(Delete(made, r), made.queue) = Reach(made, made.queue)
        BY <2>1, <3>1, DeleteIs
    <3> QED
        BY <1>4, <2>1, <3>2
  <2>3. reqs.next \in [Slots -> Nodes] /\ reqs'.next \in [Slots -> Nodes]
      BY <1>1, <2>2 DEF Sound, Table, Linked
  <2>4. \A c \in Slots : reqs'.next[c] = reqs.next[c]
      BY <2>1, <2>2, <2>3
  <2>5. reqs'.next = reqs.next
      BY <2>3, <2>4
  <2> QED
      BY <1>1, <1>4, <2>2, <2>5 DEF TableInv, TakenInv, HeldInv, Precedes, Queued
<1> QED
    BY <1>2, <1>3, <1>4 DEF SrvPublish, Locals, Goto
\* The request is queued behind the item the walk left, whatever became of it.
LEMMA LinkStep == Locals /\ TableInv /\ SrvLink => TableInv'
<1> SUFFICES ASSUME Locals, TableInv, SrvLink PROVE TableInv'
    OBVIOUS
<1> DEFINE s == srv.slot
           h == srv.head
<1>1. tp' = tp /\ srv'.pc = "send" /\ srv'.slot = NULL /\ reqs' = Link(reqs, s, h, srv.sum)
    BY DEF SrvLink, Locals
<1>2. /\ Sound(reqs) /\ s \in Slots /\ reqs.next[s] = NULL /\ s \notin Reach(reqs, reqs.queue)
      /\ h \in Nodes /\ h # s /\ (h # NULL => reqs.next[h] \in {NULL, h})
      /\ (h = NULL => reqs.queue = NULL) /\ (tp.pc = "finish" => tp.slot # s)
    BY NullNoSlot DEF SrvLink, Locals, TableInv, HeldInv
<1> HIDE DEF s, h
<1>3. /\ Sound(reqs')
      /\ h = NULL => reqs'.queue = s /\ reqs'.next = reqs.next
      /\ h # NULL => reqs'.queue = reqs.queue /\ reqs'.next = [reqs.next EXCEPT ![h] = s]
      /\ h # NULL => Queued(reqs) \subseteq Queued(reqs')
      /\ Reach(reqs', reqs'.queue) \subseteq Reach(reqs, reqs.queue) \cup {s, NULL}
    BY <1>1, <1>2, LinkIs
<1>4. h # NULL => reqs'.next[h] = s /\ \A c \in Slots \ {h} : reqs'.next[c] = reqs.next[c]
    BY <1>2, <1>3, NullNoSlot DEF Sound, Table, Linked
<1>5. TakenInv'
  <2>1. CASE tp.pc = "unchain"
    <3>1. tp.slot \in Queued(reqs) /\ Precedes(reqs, tp.prev, tp.slot)
        BY <2>1 DEF TableInv, TakenInv
    <3>2. h # NULL
        BY <1>2, <3>1, ReachNull DEF Queued
    <3>3. tp.slot \in Queued(reqs')
        BY <1>3, <3>1, <3>2
    <3>4. ASSUME tp.prev \in Queued(reqs), reqs.next[tp.prev] = tp.slot
          PROVE  reqs'.next[tp.prev] = tp.slot
      <4>1. tp.prev \in Slots /\ tp.slot # NULL /\ tp.prev # tp.slot
          BY <1>2, <3>1, <3>4, QueuedBusy
      <4>2. tp.prev # h
          BY <1>2, <3>2, <3>4, <4>1
      <4> QED
          BY <1>4, <3>2, <3>4, <4>1, <4>2
    <3>5. Precedes(reqs', tp.prev, tp.slot)
        BY <1>3, <3>1, <3>2, <3>4 DEF Precedes
    <3> QED
        BY <1>1, <2>1, <3>3, <3>5 DEF TakenInv
  <2>2. CASE tp.pc = "finish"
    <3>1. tp.slot \in Slots /\ tp.slot \notin Reach(reqs, reqs.queue)
          /\ reqs.next[tp.slot] # tp.slot /\ tp.slot # s
        BY <1>2, <2>2 DEF TableInv, TakenInv
    <3>2. tp.slot \notin Reach(reqs', reqs'.queue)
        BY <1>3, <3>1, NullNoSlot
    <3>3. reqs'.next[tp.slot] # tp.slot
        BY <1>3, <1>4, <3>1
    <3> QED
        BY <1>1, <2>2, <3>1, <3>2, <3>3 DEF TakenInv
  <2> QED
      BY <1>1, <2>1, <2>2 DEF TakenInv
<1>6. HeldInv'
    BY <1>1 DEF HeldInv
<1> QED
    BY <1>3, <1>5, <1>6 DEF TableInv

-----------------------------------------------------------------------------
(* TableInv: the steps of the tcpip_thread *)

\* What srv_conn holds is safe while items are taken from the queue.
LEMMA HeldKeeps ==
  ASSUME Locals, TableInv, Shrinks(reqs, reqs'), srv' = srv,
         tp'.pc = "finish" => tp'.slot \in Queued(reqs)
  PROVE  HeldInv'
<1>1. Sound(reqs) /\ Linked(reqs) /\ reqs.queue \in Nodes /\ HeldInv
    BY DEF TableInv, Sound, Table
<1>2. Reach(reqs', reqs'.queue) \subseteq Reach(reqs, reqs.queue)
    BY <1>1, QueueShrinks
<1>3. ASSUME NEW C, Closed(reqs, C) PROVE Closed(reqs', C)
    BY <1>3 DEF Shrinks
<1>4. ASSUME srv.slot # NULL
      PROVE  /\ reqs'.next[srv.slot] = NULL
             /\ srv.slot \notin Reach(reqs', reqs'.queue)
             /\ tp'.pc = "finish" => tp'.slot # srv.slot
             /\ srv.pc = "walk" => srv.slot \notin Reach(reqs', srv.iter)
             /\ srv.pc \in {"walk", "link"} => srv.head # srv.slot
  <2>1. srv.slot \in Slots /\ srv.slot \notin Reach(reqs, reqs.queue)
      BY <1>1, <1>4, NullNoSlot DEF Locals, HeldInv
  <2>2. reqs'.next[srv.slot] = reqs.next[srv.slot]
      BY <2>1 DEF Shrinks, Queued
  <2>3. Reach(reqs', srv.iter) \subseteq Reach(reqs, srv.iter)
      BY <1>1, <1>3, ReachShrinks DEF Locals
  <2> QED
      BY <1>1, <1>2, <1>4, <2>1, <2>2, <2>3 DEF HeldInv, Queued
<1>5. ASSUME srv.pc \in {"walk", "link"}, srv.iter = NULL
      PROVE  /\ srv.head = NULL => reqs'.queue = NULL
             /\ srv.head # NULL => reqs'.next[srv.head] \in {NULL, srv.head}
  <2>1. CASE srv.head = NULL
    <3>1. reqs.queue = NULL
        BY <1>1, <1>5, <2>1 DEF HeldInv
    <3> QED
        BY <2>1, <3>1, ReachNull DEF Shrinks
  <2>2. CASE srv.head # NULL
    <3>1. Closed(reqs, {srv.head, NULL})
        BY <1>1, <1>5, <2>2 DEF HeldInv, Closed, Locals, Nodes
    <3>2. Closed(reqs', {srv.head, NULL})
        BY <1>3, <3>1
    <3> QED
        BY <2>2, <3>2 DEF Closed
  <2> QED
      BY <2>1, <2>2
<1> QED
    BY <1>1, <1>4, <1>5 DEF HeldInv

\* A handler that takes items from the queue, if any, and is done with them.
LEMMA HandlerKeeps ==
  ASSUME Locals, TableInv, Shrinks(reqs, reqs'), srv' = srv, tp'.pc \notin {"unchain", "finish"}
  PROVE  TableInv'
<1>1. Sound(reqs')
    BY DEF Shrinks
<1>2. TakenInv'
    BY DEF TakenInv
<1>3. HeldInv'
    BY HeldKeeps
<1> QED
    BY <1>1, <1>2, <1>3 DEF TableInv
\* An answer is matched to its request.
LEMMA AckStep == Locals /\ TableInv /\ RecvAck => TableInv'
<1> SUFFICES ASSUME Locals, TableInv, RecvAck PROVE TableInv'
    OBVIOUS
<1>1. reqs' = reqs /\ srv' = srv /\ Sound(reqs) /\ tp.pc = "idle"
    BY DEF RecvAck, Receives, Idle, TableInv
<1>2. CASE tp' = tp
    BY <1>1, <1>2, ShrinksSelf, HandlerKeeps
<1>3. ASSUME NEW s \in Queued(reqs),
             tp' = [TpIdle EXCEPT !.pc = "unchain", !.slot = s, !.prev = Predecessor(reqs, s)]
      PROVE  TableInv'
  <2>1. tp'.pc = "unchain" /\ tp'.slot = s /\ tp'.prev = Predecessor(reqs, s)
      BY <1>3 DEF TpIdle
  <2>2. Precedes(reqs, Predecessor(reqs, s), s)
      BY <1>1, PredecessorIs DEF Precedes
  <2>3. HeldInv'
      BY <1>1, <2>1, ShrinksSelf, HeldKeeps
  <2>4. TakenInv'
      BY <1>1, <2>1, <2>2 DEF TakenInv
  <2> QED
      BY <1>1, <2>3, <2>4 DEF TableInv
<1> QED
    BY <1>2, <1>3 DEF RecvAck

\* It is taken out of the queue.
LEMMA UnchainStep == Locals /\ TableInv /\ TpUnchain => TableInv'
<1> SUFFICES ASSUME Locals, TableInv, TpUnchain PROVE TableInv'
    OBVIOUS
<1>1. /\ reqs' = Unchain(reqs, tp.slot, tp.prev) /\ srv' = srv
      /\ tp'.pc = "finish" /\ tp'.slot = tp.slot
    BY DEF TpUnchain, Locals
<1>2. Sound(reqs) /\ tp.slot \in Queued(reqs) /\ Precedes(reqs, tp.prev, tp.slot)
    BY DEF TpUnchain, TableInv, TakenInv
<1>3. /\ Shrinks(reqs, reqs') /\ tp.slot \notin Reach(reqs', reqs'.queue)
      /\ reqs'.next[tp.slot] = reqs.next[tp.slot]
    BY <1>1, <1>2, UnchainIs
<1>4. tp.slot \in Slots /\ reqs.next[tp.slot] # tp.slot
    BY <1>2, QueuedBusy
<1>5. HeldInv'
    BY <1>1, <1>2, <1>3, HeldKeeps
<1>6. TakenInv'
    BY <1>1, <1>3, <1>4 DEF TakenInv
<1> QED
    BY <1>3, <1>5, <1>6 DEF TableInv, Shrinks

\* And its slot is freed.
LEMMA FinishStep == Locals /\ TableInv /\ TpFinish => TableInv'
<1> SUFFICES ASSUME Locals, TableInv, TpFinish PROVE TableInv'
    OBVIOUS
<1> DEFINE s == tp.slot
           after == reqs.next[s]
           times == [reqs.diff EXCEPT ![after] = (@ + reqs.diff[s]) % DiffMod]
           timed == IF after = NULL THEN reqs
                    ELSE [reqs EXCEPT !.diff[after] = (@ + reqs.diff[s]) % DiffMod]
<1>1. /\ srv' = srv /\ tp'.pc = "idle" /\ reqs' = Delete(timed, s)
    BY DEF TpFinish, TpIdle
<1>2. Sound(reqs) /\ Linked(reqs) /\ s \in Slots /\ s \notin Reach(reqs, reqs.queue)
      /\ (srv.slot # NULL => srv.slot # s)
    BY DEF TpFinish, TableInv, TakenInv, HeldInv, Sound, Table
<1>3. timed.queue = reqs.queue /\ timed.next = reqs.next /\ Table(timed)
  <2>1. CASE after = NULL
      BY <1>2, <2>1 DEF Sound
  <2>2. CASE after # NULL
    <3>1. timed = [reqs EXCEPT !.diff = times]
        BY <2>2
    <3> HIDE DEF timed, times
    <3>2. timed = [queue |-> reqs.queue, next |-> reqs.next, id |-> reqs.id, diff |-> times]
        BY <1>2, <3>1, ReplacedDiff DEF Sound, Table
    <3> QED
        BY <1>2, <3>2 DEF Sound, Table, Linked
  <2> QED
      BY <2>1, <2>2
<1> HIDE DEF timed
<1>4. \A x : Reach(timed, x) = Reach(reqs, x)
    BY <1>3 DEF Reach
<1>5. \A C : Closed(timed, C) <=> Closed(reqs, C)
    BY <1>3 DEF Closed
<1>6. Sound(timed) /\ s \notin Reach(timed, timed.queue)
    BY <1>2, <1>3, <1>4 DEF Sound, Ends
<1>7. /\ Sound(reqs') /\ reqs'.queue = reqs.queue
      /\ reqs'.next = [reqs.next EXCEPT ![s] = s]
      /\ \A C : Closed(reqs, C) => Closed(reqs', C)
      /\ Reach(reqs', reqs.queue) = Reach(reqs, reqs.queue)
    BY <1>1, <1>2, <1>3, <1>4, <1>5, <1>6, DeleteIs
<1>8. HeldInv'
  <2> HIDE DEF s
  <2>1. \A c \in Slots \ {s} : reqs'.next[c] = reqs.next[c]
      BY <1>2, <1>7 DEF Linked
  <2>2. Reach(reqs', srv.iter) \subseteq Reach(reqs, srv.iter)
      BY <1>2, <1>7, ReachShrinks DEF Locals
  <2>3. ASSUME srv.pc \in {"walk", "link"}, srv.iter = NULL, srv.head # NULL
        PROVE  reqs'.next[srv.head] \in {NULL, srv.head}
    <3>1. Closed(reqs, {srv.head, NULL})
        BY <2>3 DEF TableInv, HeldInv, Closed, Locals, Nodes
    <3>2. Closed(reqs', {srv.head, NULL})
        BY <1>7, <3>1
    <3> QED
        BY <2>3, <3>2 DEF Closed
  <2>4. srv.slot # NULL => reqs'.next[srv.slot] = NULL
      BY <1>2, <2>1, NullNoSlot DEF Locals, TableInv, HeldInv
  <2> QED
      BY <1>1, <1>7, <2>2, <2>3, <2>4 DEF TableInv, HeldInv
<1>9. TakenInv'
    BY <1>1 DEF TakenInv
<1> QED
    BY <1>7, <1>8, <1>9 DEF TableInv

\* CONNACK: the subscription has the table to itself.
LEMMA ConnackStep == Locals /\ EarlyInv /\ TableInv /\ RecvConnack => TableInv'
<1> SUFFICES ASSUME Locals, EarlyInv, TableInv, RecvConnack PROVE TableInv'
    OBVIOUS
<1>1. srv' = srv /\ Sound(reqs) /\ tp.pc = "idle"
    BY DEF RecvConnack, Receives, Idle, TableInv
<1>2. CASE UNCHANGED <<reqs, tp>>
    BY <1>1, <1>2, ShrinksSelf, HandlerKeeps
<1>3. CASE reqs' = Clear(reqs) /\ tp' = tp
    BY <1>1, <1>3, ShrinksSelf, ClearShrinks, HandlerKeeps
<1>4. CASE connState = "MQTT_CONNECTING" /\ Subscribe
  <2> DEFINE r == FreeSlot(reqs)
             made == Create(reqs, pktIdSeq + 1)
  <2>1. srv.slot = NULL /\ srv.pc \notin {"walk", "link"}
      BY <1>4 DEF EarlyInv, Early, Waits
  <2>2. CASE UNCHANGED <<reqs, tp>>
      BY <1>2, <2>2
  <2>3. CASE /\ FreeSlots(reqs) # {} /\ reqs' = AppendRequest(made, r)
             /\ \E k : TpWrite(k, TRUE)
    <3>1. /\ r \in Slots /\ reqs.next[r] = r /\ made.next[r] = NULL
          /\ Sound(made) /\ made.queue = reqs.queue
          /\ made.next = [reqs.next EXCEPT ![r] = NULL]
          /\ Reach(made, reqs.queue) = Reach(reqs, reqs.queue) /\ r \notin Reach(reqs, reqs.queue)
      <4>1. FreeSlots(reqs) # {}
          BY <2>3
      <4> QED
          BY <1>1, <4>1, CreateIs
    <3> HIDE DEF made, r
    <3>2. Sound(reqs')
      <4>1. r \notin Reach(made, made.queue)
          BY <3>1
      <4> QED
          BY <2>3, <3>1, <4>1, AppendIs
    <3>3. tp'.pc = "advance"
        BY <2>3, TpWriteIs
    <3> QED
        BY <1>1, <2>1, <3>2, <3>3 DEF TableInv, TakenInv, HeldInv
  <2> QED
      BY <1>4, <2>2, <2>3 DEF Subscribe
<1> QED
    BY <1>2, <1>3, <1>4 DEF RecvConnack, Close
\* A message that is cut: the connection is closed, and the request of a SUBACK
\* is taken before.
LEMMA CutStep == Locals /\ TableInv /\ RecvCut => TableInv'
<1> SUFFICES ASSUME Locals, TableInv, RecvCut PROVE TableInv'
    OBVIOUS
<1>1. srv' = srv /\ tp' = tp /\ Sound(reqs) /\ tp.pc = "idle"
    BY DEF RecvCut, Receives, Idle, TableInv
<1>2. CASE Close(reqs, outcome, {})
    BY <1>1, <1>2, ShrinksSelf, ClearShrinks, HandlerKeeps DEF Close
<1>3. ASSUME NEW s \in Queued(reqs), NEW p, p = Predecessor(reqs, s),
             NEW taken, taken = Unchain(reqs, s, p), reqs' = Clear([taken EXCEPT !.next[s] = NULL])
      PROVE  TableInv'
  <2>1. Precedes(reqs, p, s)
      BY <1>1, <1>3, PredecessorIs DEF Precedes
  <2>2. Shrinks(reqs, reqs')
      BY <1>1, <1>3, <2>1, CutShrinks
  <2> QED
      BY <1>1, <2>2, HandlerKeeps
<1> QED
    BY <1>2, <1>3 DEF RecvCut, Close

\* mqtt_cyclic_timer: what expires is taken, and perhaps the rest is dropped.
LEMMA TimerStep == Locals /\ TableInv /\ CyclicTimer => TableInv'
<1> SUFFICES ASSUME Locals, TableInv, CyclicTimer PROVE TableInv'
    OBVIOUS
<1> DEFINE gone == Expired(reqs)
           left == TimeElapsed(reqs, gone, FirstLeft(reqs, gone))
<1>1. srv' = srv /\ tp' = tp /\ Sound(reqs) /\ tp.pc = "idle"
    BY DEF CyclicTimer, Idle, TableInv
<1>2. reqs' \in {reqs, Clear(reqs), left, Clear(left)}
  <2>1. ConnectTick => reqs' \in {reqs, Clear(reqs)}
      BY DEF ConnectTick, Close
  <2>2. ConnectedTick => reqs' \in {left, Clear(left)}
      BY DEF ConnectedTick, Close
  <2>3. StrayTick => reqs' = reqs
      BY DEF StrayTick
  <2> QED
      BY <2>1, <2>2, <2>3 DEF CyclicTimer
<1>3. Shrinks(reqs, left)
    BY <1>1, ElapsedShrinks
<1> HIDE DEF left, gone
<1>4. Shrinks(reqs, reqs')
    BY <1>1, <1>2, <1>3, ShrinksSelf, ClearShrinks
<1> QED
    BY <1>1, <1>4, HandlerKeeps

\* Every step keeps the table.
LEMMA TableStep == Locals /\ EarlyInv /\ TableInv /\ [MqttNext]_mqttVars => TableInv'
<1> SUFFICES ASSUME Locals, EarlyInv, TableInv, [MqttNext]_mqttVars PROVE TableInv'
    OBVIOUS
<1>1. CASE UNCHANGED mqttVars
    BY <1>1 DEF mqttVars, TableInv, TakenInv, HeldInv
<1>2. CASE SrvNext
  <2>1. CASE SrvStart \/ SrvConnect \/ SrvSetErr \/ SrvSetState \/ SrvWait \/ SrvSend \/ SrvAdvance
    <3>1. /\ reqs' = reqs /\ tp' = tp /\ srv'.slot = srv.slot
          /\ srv'.pc \notin {"walk", "link"}
        BY <2>1 DEF SrvStart, SrvConnect, SrvSetErr, SrvSetState, SrvWait, SrvSend, SrvAdvance,
                    Goto, Locals
    <3> QED
        BY <3>1, SrvElsewhere
  <2> QED
      BY <1>2, <2>1, AppendStep, PublishStep, WalkStep, LinkStep DEF SrvNext
<1>3. CASE TpInside
  <2>1. CASE TpAdvance
    <3>1. reqs' = reqs /\ srv' = srv /\ tp'.pc = "idle"
        BY <2>1 DEF TpAdvance, TpIdle
    <3> QED
        BY <3>1, ShrinksSelf, HandlerKeeps DEF TableInv
  <2> QED
      BY <1>3, <2>1, UnchainStep, FinishStep DEF TpInside
<1>4. CASE TcpSent \/ TcpPoll \/ RecvPublish \/ RecvPingresp \/ TcpConnected
  <2>1. reqs' = reqs /\ srv' = srv /\ tp.pc = "idle"
      BY <1>4 DEF TcpSent, TcpPoll, RecvPublish, RecvPingresp, TcpConnected, Receives, Idle
  <2>2. tp' = tp \/ \E k, release : TpWrite(k, release)
      BY <1>4 DEF TcpSent, TcpPoll, RecvPublish, RecvPingresp, TcpConnected
  <2>3. tp'.pc \in {"idle", "advance"}
      BY <2>1, <2>2, TpWriteIs
  <2> QED
      BY <2>1, <2>3, ShrinksSelf, HandlerKeeps DEF TableInv
<1>5. CASE RecvFin \/ TcpAborts
  <2>1. reqs' \in {reqs, Clear(reqs)} /\ srv' = srv /\ tp' = tp /\ tp.pc = "idle"
      BY <1>5 DEF RecvFin, TcpAborts, Close, Idle
  <2>2. Shrinks(reqs, reqs')
      BY <2>1, ShrinksSelf, ClearShrinks DEF TableInv
  <2> QED
      BY <2>1, <2>2, HandlerKeeps
<1>6. CASE Broker
    BY <1>6 DEF Broker, BrokerReads, BrokerPublishes, TableInv, TakenInv, HeldInv
<1> QED
    BY <1>1, <1>2, <1>3, <1>4, <1>5, <1>6, ConnackStep, AckStep, CutStep, TimerStep
       DEF MqttNext, TpHandles

-----------------------------------------------------------------------------

\* WalksInv is inductive.
LEMMA WalksInit == MqttInit => WalksInv
<1> SUFFICES ASSUME MqttInit PROVE WalksInv
    OBVIOUS
<1>1. Locals
    BY DEF MqttInit, SrvIdle, TpIdle, Locals, Nodes
<1>2. EarlyInv
    BY DEF MqttInit, SrvIdle, TpIdle, EarlyInv, Early, Waits
<1>3. Sound(reqs)
  <2>1. [s \in Slots |-> s] \in [Slots -> Nodes] /\ NULL \in Nodes
      BY DEF Nodes
  <2>2. Table(reqs) /\ reqs.queue = NULL
      BY <2>1 DEF MqttInit, EmptyTable, Table, Linked
  <2> QED
      BY <2>2, ReachNull DEF Sound, Ends
<1>4. TakenInv /\ HeldInv
    BY DEF MqttInit, SrvIdle, TpIdle, TakenInv, HeldInv
<1> QED
    BY <1>1, <1>2, <1>3, <1>4 DEF WalksInv, TableInv

LEMMA WalksStep == WalksInv /\ [MqttNext]_mqttVars => WalksInv'
    BY LocalsStep, EarlyStep, TableStep DEF WalksInv, TableInv

\* A walk of the queue ends, for any table and any interleaving of the threads,
\* even after they have raced: linking a request to an item that is being taken
\* or was freed may lose requests, but ties no knot.
THEOREM WalksEndCorrect == MqttSpec => []WalksEnd
<1>1. WalksInv => WalksEnd
    BY DEF WalksInv, TableInv, Sound, Ends, WalksEnd
<1> QED
    BY <1>1, WalksInit, WalksStep, PTL DEF MqttSpec

-----------------------------------------------------------------------------
(* The types of what goes into the ring, out of it, and to the broker *)

Ring == [buf : [0..(RingSize - 1) -> CellSet], len : 0..(RingSize - 1)]

StreamTypes ==
  /\ output \in Ring /\ wire \in Seq(CellSet)
  /\ srv.todo \in Seq(CellSet) /\ (srv.pc = "append" => srv.todo # <<>>)
  /\ srv.k \in Nat /\ tp.k \in Nat

\* The packet identifiers in use; none is before CONNACK.
SeqInv ==
  /\ pktIdSeq \in 0..(MaxPublishes + 1)
  /\ Early => pktIdSeq = 0
  /\ DOMAIN budget = {"srv", "unasked"} /\ budget.srv \in 0..MaxPublishes

\* Messages are sequences of cells, and what the ring operations return.
LEMMA CellsIn ==
  ASSUME NEW kind \in Kinds, NEW i \in Ids \cup {0}
  PROVE  /\ Cells(kind, i) \in Seq(CellSet) /\ Cells(kind, i) # <<>>
         /\ <<kind, i, 1>> \in CellSet
<1>1. Size(kind) \in {1, 2}
    BY DEF Size
<1>2. \A n \in 1..Size(kind) : <<kind, i, n>> \in CellSet
    BY <1>1 DEF CellSet
<1>3. Cells(kind, i) \in Seq(CellSet) /\ Len(Cells(kind, i)) = Size(kind)
    BY <1>1, <1>2 DEF Cells
<1> QED
    BY <1>1, <1>2, <1>3

LEMMA PutTypes ==
  ASSUME output \in Ring, NEW cell \in CellSet, Put(cell)
  PROVE  output' \in Ring
<1>1. (output.len + 1) % RingSize \in 0..(RingSize - 1)
    BY MqttAssumption DEF Ring
<1>2. [output.buf EXCEPT ![output.len] = cell] \in [0..(RingSize - 1) -> CellSet]
    BY DEF Ring
<1> QED
    BY <1>1, <1>2 DEF Put, Ring

\* mqtt_output_send sends no more than the ring holds.
LEMMA WritesIn ==
  ASSUME NEW rb \in Ring, NEW w \in Seq(CellSet), NEW k \in Writes(rb, w)
  PROVE  k \in Nat /\ k <= rb.len
<1>1. rb.len \in Nat /\ SndBuf - Len(w) \in Int
    BY MqttAssumption DEF Ring
<1>2. \A a \in Int : Max({a, 0}) \in Nat
  <2> TAKE a \in Int
  <2>1. \E m \in {a, 0} : \A y \in {a, 0} : m >= y
      BY DEF Max
  <2>2. Max({a, 0}) \in {a, 0} /\ \A y \in {a, 0} : Max({a, 0}) >= y
      BY <2>1 DEF Max
  <2> QED
      BY <2>2
<1>3. \A a, b \in Nat : Min({a, b}) \in Nat /\ Min({a, b}) <= a
  <2> TAKE a, b \in Nat
  <2>1. \E m \in {a, b} : \A y \in {a, b} : m <= y
      OBVIOUS
  <2>2. Min({a, b}) \in {a, b} /\ \A y \in {a, b} : Min({a, b}) <= y
      BY <2>1 DEF Min
  <2> QED
      BY <2>2
<1>4. Max({SndBuf - Len(w), 0}) \in Nat
    BY <1>1, <1>2
<1>5. Min({rb.len, Max({SndBuf - Len(w), 0})}) \in Nat
      /\ Min({rb.len, Max({SndBuf - Len(w), 0})}) <= rb.len
    BY <1>1, <1>3, <1>4
<1> QED
    BY <1>1, <1>5 DEF Writes

LEMMA WriteTypes ==
  ASSUME NEW rb \in Ring, wire \in Seq(CellSet), NEW k \in Writes(rb, wire)
  PROVE  k \in Nat /\ wire \o SubSeq(Content(rb), 1, k) \in Seq(CellSet)
<1>1. k \in Nat /\ k <= rb.len
    BY WritesIn
<1>2. rb.len \in Nat /\ \A n \in 1..rb.len : rb.buf[n - 1] \in CellSet
    BY MqttAssumption DEF Ring
<1>3. Content(rb) \in Seq(CellSet) /\ Len(Content(rb)) = rb.len
    BY <1>2 DEF Content
<1>4. SubSeq(Content(rb), 1, k) \in Seq(CellSet)
    BY <1>1, <1>2, <1>3
<1> QED
    BY <1>1, <1>4

LEMMA AdvanceTypes ==
  ASSUME NEW rb \in Ring, NEW k \in Nat
  PROVE  AdvanceGet(rb, k) \in Ring
<1>1. (rb.len - k) % RingSize \in 0..(RingSize - 1)
    BY MqttAssumption DEF Ring
<1>2. Blank \in CellSet
    BY DEF CellSet
<1>3. \A n \in 0..(RingSize - 1) : n + k < RingSize => rb.buf[n + k] \in CellSet
    BY MqttAssumption DEF Ring
<1>4. [n \in 0..(RingSize - 1) |-> IF n + k < RingSize THEN rb.buf[n + k] ELSE Blank]
        \in [0..(RingSize - 1) -> CellSet]
    BY <1>2, <1>3
<1> QED
    BY <1>1, <1>4 DEF AdvanceGet, Ring

\* Identifiers are given out one by one, the first with the subscription.
LEMMA SeqStep == Locals /\ EarlyInv /\ SeqInv /\ [MqttNext]_mqttVars => SeqInv'
<1> SUFFICES ASSUME Locals, EarlyInv, SeqInv, [MqttNext]_mqttVars PROVE SeqInv'
    OBVIOUS
<1>1. CASE SrvPublish
  <2>1. ~Early' /\ budget' = budget /\ pktIdSeq' \in {pktIdSeq, pktIdSeq + 1}
      BY <1>1 DEF SrvPublish, EarlyInv, Early, Waits, Locals, Goto, clientVars, netVars
  <2>2. pktIdSeq \in 1..budget.srv
      BY <1>1 DEF SrvPublish
  <2> QED
      BY <2>1, <2>2, MqttAssumption DEF SeqInv
<1>2. CASE RecvConnack /\ pktIdSeq' # pktIdSeq
  <2>1. connState = "MQTT_CONNECTING" /\ Subscribe /\ connState' = "MQTT_CONNECTED"
        /\ budget' = budget /\ tcp' = "open" /\ tcp = "open" /\ srv' = srv
      BY <1>2 DEF RecvConnack, Receives
  <2>2. pktIdSeq = 0 /\ pktIdSeq' = 1 /\ ~Early'
      BY <2>1 DEF Subscribe, SeqInv, EarlyInv, Early
  <2> QED
      BY <2>1, <2>2, MqttAssumption DEF SeqInv
<1>3. CASE pktIdSeq' = pktIdSeq /\ ~SrvPublish
  <2>1. Early' => Early
    <3>1. CASE SrvNext
        BY <1>3, <3>1 DEF SrvNext, SrvStart, SrvConnect, SrvSetErr, SrvSetState, SrvAppend, SrvWait,
             SrvWalk, SrvLink, SrvSend, SrvAdvance, clientVars, netVars, Early, EarlyInv, Locals, Goto
    <3>2. CASE TcpConnected
        BY <3>2 DEF TcpConnected, Early
    <3>3. CASE ~SrvNext /\ ~TcpConnected
      <4>1. srv' = srv
          BY <3>3 DEF MqttNext, mqttVars, TpInside, TpAdvance, TpUnchain, TpFinish, TpHandles, TcpSent,
             TcpPoll, RecvConnack, RecvAck, RecvPublish, RecvPingresp, RecvCut, RecvFin, TcpAborts,
             CyclicTimer, Broker, BrokerReads, BrokerPublishes
      <4>2. /\ connState' = connState \/ connState' \in {"MQTT_CONNECTED", "TCP_DISCONNECTED"}
            /\ tcp' = tcp \/ tcp' = "closed"
          BY <3>3 DEF MqttNext, mqttVars, TpInside, TpAdvance, TpUnchain, TpFinish, TpHandles, TcpSent,
             TcpPoll, RecvConnack, RecvAck, RecvPublish, RecvPingresp, RecvCut, RecvFin, TcpAborts,
             CyclicTimer, ConnectTick, ConnectedTick, StrayTick, Broker, BrokerReads, BrokerPublishes,
             Close, clientVars, netVars
      <4> QED
          BY <4>1, <4>2 DEF Early
    <3> QED
        BY <3>1, <3>2, <3>3
  <2>2. DOMAIN budget' = {"srv", "unasked"} /\ budget'.srv = budget.srv
    <3>1. budget' = budget \/ Unasked
        BY <1>3 DEF MqttNext, mqttVars, SrvNext, SrvStart, SrvConnect, SrvSetErr, SrvSetState,
           SrvAppend, SrvWait, SrvWalk, SrvLink, SrvSend, SrvAdvance, TpInside, TpAdvance, TpUnchain,
           TpFinish, TpHandles, TcpSent, TcpPoll, RecvConnack, RecvAck, RecvPublish, RecvPingresp,
           RecvCut, RecvFin, TcpConnected, TcpAborts, CyclicTimer, ConnectTick, ConnectedTick,
           StrayTick, Broker, BrokerReads, BrokerPublishes, netVars
    <3> QED
        BY <3>1 DEF Unasked, SeqInv
  <2> QED
      BY <1>3, <2>1, <2>2 DEF SeqInv
<1>4. pktIdSeq' = pktIdSeq \/ SrvPublish \/ RecvConnack
    BY DEF MqttNext, mqttVars, SrvNext, SrvStart, SrvConnect, SrvSetErr, SrvSetState, SrvAppend,
       SrvWait, SrvWalk, SrvLink, SrvSend, SrvAdvance, TpInside, TpAdvance, TpUnchain, TpFinish,
       TpHandles, TcpSent, TcpPoll, RecvAck, RecvPublish, RecvPingresp, RecvCut, RecvFin,
       TcpConnected, TcpAborts, CyclicTimer, Broker, BrokerReads, BrokerPublishes
<1> QED
    BY <1>1, <1>2, <1>3, <1>4

\* Only cells go into the ring and onto the wire.
LEMMA StreamStep ==
  Locals /\ EarlyInv /\ SeqInv /\ StreamTypes /\ [MqttNext]_mqttVars => StreamTypes'
<1> SUFFICES ASSUME Locals, EarlyInv, SeqInv, StreamTypes, [MqttNext]_mqttVars PROVE StreamTypes'
    OBVIOUS
<1> DEFINE Same == output' = output /\ wire' = wire /\ srv' = srv /\ tp'.k = tp.k
           Sent(rb) == /\ output' = rb /\ srv' = srv
                       /\ \E k \in Writes(rb, wire) :
                            /\ wire' = wire \o SubSeq(Content(rb), 1, k)
                            /\ tp'.k = k
<1>1. ASSUME Same PROVE StreamTypes'
    BY <1>1 DEF StreamTypes
<1>2. ASSUME NEW rb \in Ring, Sent(rb) PROVE StreamTypes'
    BY <1>2, WriteTypes DEF StreamTypes
<1>3. ASSUME output' \in Ring, srv' = srv, tp'.k = tp.k, wire' \in {wire, <<>>} PROVE StreamTypes'
  <2>1. <<>> \in Seq(CellSet)
      OBVIOUS
  <2>2. wire' \in Seq(CellSet)
      BY <1>3, <2>1 DEF StreamTypes
  <2> QED
      BY <1>3, <2>2 DEF StreamTypes
<1>4. CASE UNCHANGED mqttVars
    BY <1>1, <1>4 DEF mqttVars, netVars, outVars
<1>5. CASE SrvNext
  <2> USE DEF Locals, Goto
  <2>1. CASE SrvStart \/ SrvConnect \/ SrvSetErr \/ SrvWait \/ SrvWalk \/ SrvLink
    <3>1. /\ output' = output /\ wire' = wire /\ tp' = tp /\ srv'.todo = srv.todo
          /\ srv'.k = srv.k /\ srv'.pc # "append"
        BY <2>1 DEF SrvStart, SrvConnect, SrvSetErr, SrvWait, SrvWalk, SrvLink, netVars, outVars
    <3> QED
        BY <3>1 DEF StreamTypes
  <2>2. CASE SrvSetState
    <3>1. Cells("CONNECT", 0) \in Seq(CellSet) /\ Cells("CONNECT", 0) # <<>>
        BY CellsIn DEF Kinds
    <3>2. /\ output' = output /\ wire' = wire /\ tp' = tp /\ srv'.todo = Cells("CONNECT", 0)
          /\ srv'.k = srv.k
        BY <2>2 DEF SrvSetState, netVars, outVars
    <3> QED
        BY <3>1, <3>2 DEF StreamTypes
  <2>3. CASE SrvAppend
    <3>1. Head(srv.todo) \in CellSet /\ srv.todo \in Seq(CellSet) /\ srv.todo # <<>>
        BY <2>3 DEF SrvAppend, StreamTypes
    <3>2. output' \in Ring
        BY <2>3, <3>1, PutTypes DEF SrvAppend, StreamTypes
    <3>3. srv'.k = srv.k /\ wire' = wire /\ tp' = tp
        BY <2>3 DEF SrvAppend, netVars
    <3>4. CASE Len(srv.todo) > 1
      <4>1. srv'.todo = Tail(srv.todo)
          BY <2>3, <3>4 DEF SrvAppend
      <4>2. Tail(srv.todo) \in Seq(CellSet) /\ Tail(srv.todo) # <<>>
        <5>1. Tail(srv.todo) \in Seq(CellSet) /\ Len(Tail(srv.todo)) = Len(srv.todo) - 1
            BY <3>1
        <5>2. Len(srv.todo) \in Nat
            BY <3>1
        <5>3. \A n \in Nat : n > 1 => n - 1 # 0
            OBVIOUS
        <5>4. Len(<<>>) = 0
            OBVIOUS
        <5> QED
            BY <3>4, <5>1, <5>2, <5>3, <5>4
      <4> QED
          BY <3>2, <3>3, <4>1, <4>2 DEF StreamTypes
    <3>5. CASE ~(Len(srv.todo) > 1)
      <4>1. srv'.todo = <<>> /\ srv'.pc # "append"
          BY <2>3, <3>5 DEF SrvAppend
      <4> QED
          BY <3>2, <3>3, <4>1 DEF StreamTypes
    <3> QED
        BY <3>4, <3>5
  <2>4. CASE SrvPublish
    <3>1. /\ output' = output /\ wire' = wire /\ tp' = tp /\ srv'.k = srv.k
          /\ \/ srv'.todo = Cells("PUBLISH", pktIdSeq + 1)
             \/ srv'.todo = srv.todo /\ srv'.pc # "append"
        BY <2>4 DEF SrvPublish, netVars, outVars
    <3>2. pktIdSeq + 1 \in Ids /\ "PUBLISH" \in Kinds
        BY <2>4, MqttAssumption DEF SrvPublish, SeqInv, Ids, Kinds
    <3> QED
        BY <3>1, <3>2, CellsIn DEF StreamTypes
  <2>5. CASE SrvSend
    <3>1. /\ srv'.todo = srv.todo /\ srv'.pc = "advance" /\ output' = output /\ tp' = tp
          /\ \E k \in Writes(output, wire) :
               srv'.k = k /\ wire' = wire \o SubSeq(Content(output), 1, k)
        BY <2>5 DEF SrvSend, Write, outVars
    <3> QED
        BY <3>1, WriteTypes DEF StreamTypes
  <2>6. CASE SrvAdvance
    <3>1. /\ srv'.todo = srv.todo /\ srv'.pc = "publish" /\ srv'.k = 0 /\ wire' = wire
          /\ tp' = tp /\ output' = AdvanceGet(output, srv.k)
        BY <2>6 DEF SrvAdvance, netVars
    <3> QED
        BY <3>1, AdvanceTypes DEF StreamTypes
  <2> QED
      BY <1>5, <2>1, <2>2, <2>3, <2>4, <2>5, <2>6 DEF SrvNext
<1>6. CASE TpAdvance
  <2>1. /\ output' = AdvanceGet(output, tp.k) /\ wire' = wire /\ srv' = srv /\ tp'.k = 0
      BY <1>6 DEF TpAdvance, TpIdle, netVars
  <2> QED
      BY <2>1, AdvanceTypes DEF StreamTypes
<1>7. CASE TpUnchain \/ TpFinish
  <2>1. TpUnchain => tp'.k = tp.k
      BY DEF TpUnchain, Locals
  <2>2. TpFinish => tp'.k = 0
      BY DEF TpFinish, TpIdle
  <2>3. output' = output /\ wire' = wire /\ srv' = srv
      BY <1>7 DEF TpUnchain, TpFinish, netVars, outVars
  <2> QED
      BY <1>7, <2>1, <2>2, <2>3 DEF StreamTypes
<1>8. CASE TcpConnected \/ TcpPoll \/ TcpSent
    BY <1>1, <1>2, <1>8 DEF TcpConnected, TcpPoll, TcpSent, Write, TpWrite, TpIdle, StreamTypes,
       outVars
<1>9. CASE RecvConnack \/ RecvPublish
  <2>1. ASSUME NEW kind \in {"SUBSCRIBE", "PUBACK"}, NEW i \in Ids \cup {0}, Put(<<kind, i, 1>>),
               Sent(output')
        PROVE  StreamTypes'
    <3>1. output' \in Ring
        BY <2>1, CellsIn, PutTypes DEF StreamTypes, Kinds
    <3> QED
        BY <1>2, <2>1, <3>1
  <2>2. CASE RecvPublish
    <3>1. CASE CheckSpace(output, "PUBACK")
      <4>1. Put(<<"PUBACK", 0, 1>>) /\ Sent(output')
          BY <2>2, <3>1 DEF RecvPublish, Write, TpWrite, TpIdle
      <4> QED
          BY <2>1, <4>1
    <3>2. CASE ~CheckSpace(output, "PUBACK")
        BY <1>1, <2>2, <3>2 DEF RecvPublish, outVars
    <3> QED
        BY <3>1, <3>2
  <2>3. CASE RecvConnack
    <3>1. CASE Subscribe /\ connState = "MQTT_CONNECTING"
      <4>1. CASE Put(<<"SUBSCRIBE", pktIdSeq + 1, 1>>) /\ Sent(output')
        <5>1. pktIdSeq + 1 \in Ids
            BY <3>1, MqttAssumption DEF SeqInv, Early, Ids
        <5> QED
            BY <2>1, <4>1, <5>1
      <4>2. CASE Same
          BY <1>1, <4>2
      <4> QED
          BY <2>3, <3>1, <4>1, <4>2
             DEF RecvConnack, Subscribe, Write, TpWrite, TpIdle, outVars
    <3>2. CASE output' = output /\ tp' = tp /\ wire' \in {wire, <<>>} /\ srv' = srv
        BY <1>3, <3>2 DEF StreamTypes
    <3> QED
        BY <2>3, <3>1, <3>2 DEF RecvConnack, Close, outVars
  <2> QED
      BY <1>9, <2>2, <2>3
<1>10. CASE RecvAck \/ RecvPingresp \/ BrokerPublishes
  <2>1. output' = output /\ wire' = wire /\ srv' = srv /\ (tp' = tp \/ tp'.k = 0)
      BY <1>10 DEF RecvAck, RecvPingresp, BrokerPublishes, TpIdle, outVars
  <2> QED
      BY <2>1 DEF StreamTypes
<1>11. CASE RecvCut \/ RecvFin \/ TcpAborts
  <2>1. output' = output /\ wire' = <<>> /\ srv' = srv /\ tp' = tp
      BY <1>11 DEF RecvCut, RecvFin, TcpAborts, Close
  <2> QED
      BY <1>3, <2>1 DEF StreamTypes
<1>12. CASE CyclicTimer
  <2>1. srv' = srv /\ tp' = tp /\ wire' \in {wire, <<>>}
      BY <1>12 DEF CyclicTimer, ConnectTick, ConnectedTick, StrayTick, Close, netVars
  <2>2. output' = output \/ Put(<<"PINGREQ", 0, 1>>)
      BY <1>12 DEF CyclicTimer, ConnectTick, ConnectedTick, StrayTick, outVars
  <2>3. output' \in Ring
      BY <2>2, CellsIn, PutTypes DEF StreamTypes, Kinds
  <2> QED
      BY <1>3, <2>1, <2>3
<1>13. CASE BrokerReads
  <2>1. /\ output' = output /\ srv' = srv /\ tp' = tp
        /\ wire' = SubSeq(wire, Size(Head(wire)[1]) + 1, Len(wire))
      BY <1>13 DEF BrokerReads
  <2>2. Size(Head(wire)[1]) \in Nat
      BY DEF Size
  <2>3. wire' \in Seq(CellSet)
      BY <2>1, <2>2 DEF StreamTypes
  <2> QED
      BY <2>1, <2>3 DEF StreamTypes
<1> QED
    BY <1>4, <1>5, <1>6, <1>7, <1>8, <1>9, <1>10, <1>11, <1>12, <1>13
       DEF MqttNext, TpInside, TpHandles, Broker

-----------------------------------------------------------------------------
(* The requests: TableSpec *)

Results == {"none", "pending", "confirmed", "timed_out", "dropped"}

\* The messages on the way to the client when the broker has answered the
\* requests A: it acknowledges only those.
Messages(A) == ({"SUBACK", "PUBACK"} \X (A \cup {0}))
                 \cup ({"CONNACK", "PINGRESP", "PUBLISH"} \X (Ids \cup {0}))

\* A queued request is pending, and queued once; the one being filled is not yet
\* pending; the one being taken was answered, is pending still, and has left
\* the queue; no identifier above pktIdSeq was used.
ReqInv ==
  /\ reqs.id \in [Slots -> Ids \cup {0}]
  /\ outcome \in [Ids -> Results] /\ answered \subseteq Ids
  /\ down \in Seq(Messages(answered))
  /\ \A i \in Ids : i > pktIdSeq => outcome[i] = "none"
  /\ \A s \in Queued(reqs) : reqs.id[s] \in Ids /\ outcome[reqs.id[s]] = "pending"
  /\ \A s, x \in Queued(reqs) : reqs.id[s] = reqs.id[x] => s = x
  /\ srv.slot # NULL => /\ reqs.id[srv.slot] \in Ids /\ reqs.id[srv.slot] <= pktIdSeq
                        /\ outcome[reqs.id[srv.slot]] = "none"
  /\ tp.pc = "unchain" => reqs.id[tp.slot] \in answered
  /\ tp.pc = "finish" => /\ reqs.id[tp.slot] \in answered
                         /\ outcome[reqs.id[tp.slot]] = "pending"
                         /\ \A s \in Queued(reqs) : reqs.id[s] # reqs.id[tp.slot]

ReqStep == [Requests!ReqNext]_(Requests!reqVars)

\* What a set of requests is called, and that different ones are called
\* differently.
IdsOf(S) == {reqs.id[s] : s \in S}

\* A handler that settles requests it took from the queue: it calls back those
\* in T, and drops those in D.
LEMMA SettleStep ==
  ASSUME WalksInv, ReqInv, NEW T, NEW D, T \cup D \subseteq IdsOf(Queued(reqs)),
         outcome' = [i \in Ids |-> IF i \in T THEN "timed_out"
                                  ELSE IF i \in D THEN "dropped" ELSE outcome[i]],
         reqs'.id = reqs.id, Queued(reqs') \subseteq Queued(reqs),
         \A s \in Queued(reqs') : reqs.id[s] \notin T \cup D,
         srv' = srv, pktIdSeq' = pktIdSeq, answered' = answered,
         tp'.pc \notin {"unchain", "finish"}, down' \in Seq(Messages(answered))
  PROVE  ReqInv' /\ ReqStep
<1>1. \A i \in T \cup D : i \in Ids /\ outcome[i] = "pending"
    BY DEF ReqInv, IdsOf
<1>2. ReqStep
  <2>1. Requests!Settle(T, D)
      BY <1>1 DEF Requests!Settle
  <2>2. T \in SUBSET Ids /\ D \in SUBSET Ids
      BY <1>1
  <2> QED
      BY <2>1, <2>2 DEF ReqStep, Requests!ReqNext
<1>3. outcome' \in [Ids -> Results]
    BY DEF ReqInv, Results
<1>4. \A i \in Ids : i \notin T \cup D => outcome'[i] = outcome[i]
    OBVIOUS
<1>5. \A i \in Ids : i > pktIdSeq' => outcome'[i] = "none"
    BY <1>1, <1>4 DEF ReqInv
<1>6. \A s \in Queued(reqs') : reqs'.id[s] \in Ids /\ outcome'[reqs'.id[s]] = "pending"
    BY <1>4 DEF ReqInv
<1>7. srv'.slot # NULL => /\ reqs'.id[srv'.slot] \in Ids /\ reqs'.id[srv'.slot] <= pktIdSeq'
                          /\ outcome'[reqs'.id[srv'.slot]] = "none"
    BY <1>1, <1>4 DEF ReqInv
<1>8. \A s, x \in Queued(reqs') : reqs'.id[s] = reqs'.id[x] => s = x
    BY DEF ReqInv
<1> QED
    BY <1>2, <1>3, <1>5, <1>6, <1>7, <1>8 DEF ReqInv

\* A step that settles nothing and leaves the table's items where they are, or
\* takes some out.
LEMMA NothingSettled ==
  ASSUME WalksInv, ReqInv, reqs'.id = reqs.id, Queued(reqs') \subseteq Queued(reqs),
         outcome' = outcome, pktIdSeq' = pktIdSeq, answered' = answered,
         srv'.slot = srv.slot, down' \in Seq(Messages(answered)),
         tp'.pc = "unchain" => reqs.id[tp'.slot] \in answered,
         tp'.pc = "finish" => /\ reqs.id[tp'.slot] \in answered
                              /\ outcome[reqs.id[tp'.slot]] = "pending"
                              /\ \A s \in Queued(reqs') : reqs.id[s] # reqs.id[tp'.slot]
  PROVE  ReqInv' /\ ReqStep
<1>1. ReqInv'
    BY DEF ReqInv
<1> QED
    BY <1>1 DEF ReqStep, Requests!reqVars

\* An empty queue holds nothing.
LEMMA NoneQueued == ASSUME NEW t, t.queue = NULL PROVE Queued(t) = {}
    BY ReachNull DEF Queued

\* mqtt_close drops what is queued, and what was taken before without a callback.
LEMMA CloseStep ==
  ASSUME WalksInv, ReqInv, NEW t, Table(t), t.id = reqs.id, Queued(t) \subseteq Queued(reqs),
         NEW T, T \subseteq IdsOf(Queued(reqs)), \A s \in Queued(t) : reqs.id[s] \notin T,
         NEW D, D \subseteq IdsOf(Queued(reqs)) \ T,
         Close(t, [i \in Ids |-> IF i \in T THEN "timed_out" ELSE outcome[i]], D),
         srv' = srv, pktIdSeq' = pktIdSeq, answered' = answered, tp'.pc \notin {"unchain", "finish"}
  PROVE  ReqInv' /\ ReqStep
<1> DEFINE E == QueuedIds(t) \cup D
           o == [i \in Ids |-> IF i \in T THEN "timed_out" ELSE outcome[i]]
<1>1. reqs' = Clear(t) /\ outcome' = Dropped(o, E) /\ down' = <<>>
    BY DEF Close
<1>2. reqs'.id = reqs.id /\ Queued(reqs') = {}
    BY <1>1, FreeIds, NoneQueued
<1>3. E \subseteq IdsOf(Queued(reqs)) \ T
    BY DEF QueuedIds, IdsOf
<1>4. \A i \in E : outcome[i] = "pending"
    BY <1>3 DEF IdsOf, ReqInv
<1>5. outcome' = [i \in Ids |-> IF i \in T THEN "timed_out"
                                ELSE IF i \in E THEN "dropped" ELSE outcome[i]]
    BY <1>1, <1>3, <1>4 DEF Dropped
<1>6. down' \in Seq(Messages(answered))
    BY <1>1
<1> HIDE DEF E
<1> QED
    BY <1>2, <1>3, <1>5, <1>6, SettleStep

\* mqtt_close alone.
LEMMA CloseAll ==
  ASSUME WalksInv, ReqInv, Close(reqs, outcome, {}),
         srv' = srv, pktIdSeq' = pktIdSeq, answered' = answered, tp'.pc \notin {"unchain", "finish"}
  PROVE  ReqInv' /\ ReqStep
<1>1. outcome = [i \in Ids |-> IF i \in {} THEN "timed_out" ELSE outcome[i]]
    BY DEF ReqInv
<1>2. Table(reqs)
    BY DEF WalksInv, TableInv, Sound
<1> QED
    BY <1>1, <1>2, CloseStep

\* The message the client takes is removed from those on the way.
LEMMA DownTail ==
  ASSUME ReqInv, down # <<>>
  PROVE  Tail(down) \in Seq(Messages(answered)) /\ Head(down) \in Messages(answered)
    BY DEF ReqInv

\* The queue after srv_conn linked its request holds that and what it held.
LEMMA LinkReach ==
  ASSUME Locals, TableInv, SrvLink
  PROVE  Reach(reqs', reqs'.queue) \subseteq Reach(reqs, reqs.queue) \cup {srv.slot, NULL}
<1> DEFINE s == srv.slot
           h == srv.head
<1>1. reqs' = Link(reqs, s, h, srv.sum)
    BY DEF SrvLink
<1>2. /\ Sound(reqs) /\ s \in Slots /\ reqs.next[s] = NULL /\ s \notin Reach(reqs, reqs.queue)
      /\ h \in Nodes /\ h # s /\ (h # NULL => reqs.next[h] \in {NULL, h})
    BY NullNoSlot DEF SrvLink, Locals, TableInv, HeldInv
<1> HIDE DEF s, h
<1>3. /\ Sound(reqs')
      /\ h = NULL => reqs'.queue = s /\ reqs'.next = reqs.next
      /\ h # NULL => reqs'.queue = reqs.queue /\ reqs'.next = [reqs.next EXCEPT ![h] = s]
      /\ h # NULL => Queued(reqs) \subseteq Queued(reqs')
      /\ Reach(reqs', reqs'.queue) \subseteq Reach(reqs, reqs.queue) \cup {s, NULL}
    BY <1>1, <1>2, LinkIs
<1> QED
    BY <1>3 DEF s

\* srv_conn: only linking a request accepts it.
LEMMA SrvReqs == WalksInv /\ SeqInv /\ ReqInv /\ SrvNext => ReqInv' /\ ReqStep
<1> SUFFICES ASSUME WalksInv, SeqInv, ReqInv, SrvNext PROVE ReqInv' /\ ReqStep
    OBVIOUS
<1> USE DEF Locals, Goto
<1>1. CASE /\ SrvStart \/ SrvConnect \/ SrvSetErr \/ SrvSetState \/ SrvAppend \/ SrvWait \/ SrvWalk
              \/ SrvSend \/ SrvAdvance
  <2>1. /\ reqs' = reqs /\ outcome' = outcome /\ pktIdSeq' = pktIdSeq /\ answered' = answered
        /\ srv'.slot = srv.slot /\ tp' = tp /\ down' = down
      BY <1>1 DEF SrvStart, SrvConnect, SrvSetErr, SrvSetState, SrvAppend, SrvWait, SrvWalk, SrvSend,
         SrvAdvance, WalksInv, netVars, reqHistory
  <2> QED
      BY <2>1, NothingSettled DEF ReqInv
<1>2. CASE SrvPublish
  <2> DEFINE r == FreeSlot(reqs)
             i == pktIdSeq + 1
             made == Create(reqs, i)
  <2>1. /\ outcome' = outcome /\ answered' = answered /\ tp' = tp /\ down' = down
      BY <1>2 DEF SrvPublish, netVars, reqHistory
  <2>2. Sound(reqs) /\ Table(reqs) /\ i \in Ids /\ pktIdSeq \in Nat
      BY <1>2, MqttAssumption DEF WalksInv, TableInv, Sound, SrvPublish, SeqInv, Ids
  <2>3. CASE reqs' = reqs /\ srv'.slot = srv.slot /\ pktIdSeq' \in {pktIdSeq, i}
    <3>1. \A j \in Ids : j > pktIdSeq' => j > pktIdSeq
        BY <2>2, <2>3, MqttAssumption DEF Ids
    <3>2. \A j \in Ids : j <= pktIdSeq => j <= pktIdSeq'
        BY <2>2, <2>3, MqttAssumption DEF Ids
    <3>3. ReqInv'
        BY <2>1, <2>3, <3>1, <3>2 DEF ReqInv
    <3> QED
        BY <2>1, <3>3 DEF ReqStep, Requests!reqVars
  <2>4. CASE /\ FreeSlots(reqs) # {} /\ pktIdSeq' = i
             /\ \/ reqs' = made /\ srv'.slot = r
                \/ reqs' = Delete(made, r) /\ srv'.slot = srv.slot
    <3>1. /\ r \in Slots /\ reqs.next[r] = r /\ made.next[r] = NULL
          /\ Sound(made) /\ made.queue = reqs.queue
          /\ made.next = [reqs.next EXCEPT ![r] = NULL]
          /\ Reach(made, reqs.queue) = Reach(reqs, reqs.queue) /\ r \notin Reach(reqs, reqs.queue)
      <4>1. FreeSlots(reqs) # {}
          BY <2>4
      <4> QED
          BY <2>2, <4>1, CreateIs
    <3>2. made.id = [reqs.id EXCEPT ![r] = i]
        BY <2>2, CreateIds
    <3> HIDE DEF r, made
    <3>3. Queued(reqs') = Queued(reqs)
      <4>1. r \notin Reach(made, made.queue)
          BY <3>1
      <4>2. Delete(made, r).queue = reqs.queue
            /\ Reach(Delete(made, r), made.queue) = Reach(made, made.queue)
          BY <3>1, <4>1, DeleteIs
      <4> QED
          BY <2>4, <3>1, <4>2 DEF Queued
    <3>4. reqs'.id = [reqs.id EXCEPT ![r] = i]
        BY <2>4, <3>1, <3>2, FreeIds DEF Sound
    <3>5. reqs'.id \in [Slots -> Ids \cup {0}] /\ reqs'.id[r] = i
          /\ \A s \in Slots \ {r} : reqs'.id[s] = reqs.id[s]
        BY <2>2, <3>1, <3>4 DEF ReqInv
    <3>6. \A s \in Queued(reqs) : s \in Slots \ {r}
        BY <2>2, <3>1, QueuedBusy DEF Queued
    <3>7. tp.pc \in {"unchain", "finish"} => tp.slot \in Slots \ {r}
        BY <3>1, <3>6 DEF WalksInv, TableInv, TakenInv
    <3>8. srv.slot # NULL => srv.slot \in Slots \ {r}
        BY <3>1, NullNoSlot DEF WalksInv, TableInv, HeldInv
    <3>9. \A j \in Ids : (j > i => j > pktIdSeq) /\ (j <= pktIdSeq => j <= i) /\ i > pktIdSeq
        BY <2>2, MqttAssumption DEF Ids
    <3>10. srv'.slot # NULL =>
             /\ reqs'.id[srv'.slot] \in Ids /\ reqs'.id[srv'.slot] <= i
             /\ outcome[reqs'.id[srv'.slot]] = "none"
      <4>1. CASE srv'.slot = r
          BY <2>2, <3>5, <3>9, <4>1 DEF ReqInv
      <4>2. CASE srv'.slot = srv.slot
          BY <3>5, <3>8, <3>9, <4>2 DEF ReqInv
      <4> QED
          BY <2>4, <4>1, <4>2
    <3>11. ReqInv'
        BY <2>1, <2>4, <3>3, <3>5, <3>6, <3>7, <3>9, <3>10 DEF ReqInv
    <3> QED
        BY <2>1, <3>11 DEF ReqStep, Requests!reqVars
  <2> QED
      BY <1>2, <2>3, <2>4 DEF SrvPublish, WalksInv
<1>3. CASE SrvLink
  <2> DEFINE s == srv.slot
             h == srv.head
             sum == srv.sum
  <2>1. reqs' = Link(reqs, s, h, sum)
      BY <1>3 DEF SrvLink
  <2>2. /\ Sound(reqs) /\ s \in Slots /\ reqs.next[s] = NULL /\ s \notin Reach(reqs, reqs.queue)
        /\ h \in Nodes /\ h # s /\ (h # NULL => reqs.next[h] \in {NULL, h})
      BY <1>3, NullNoSlot DEF SrvLink, WalksInv, TableInv, HeldInv
  <2> HIDE DEF s, h, sum
  <2>3. Reach(reqs', reqs'.queue) \subseteq Reach(reqs, reqs.queue) \cup {s, NULL}
      BY <1>3, LinkReach DEF s, WalksInv
  <2>4. reqs'.id = reqs.id
    <3>1. Link(reqs, s, h, sum).id = reqs.id
        BY <2>2, LinkIds DEF Sound
    <3> QED
        BY <2>1, <3>1
  <2> DEFINE i == reqs.id[s]
  <2>5. /\ outcome' = [outcome EXCEPT ![i] = "pending"]
        /\ answered' = answered /\ tp' = tp /\ down' = down /\ pktIdSeq' = pktIdSeq
        /\ srv'.slot = NULL
      BY <1>3 DEF SrvLink, netVars, WalksInv, s
  <2>6. /\ (tp.pc = "finish" => tp.slot # s)
        /\ i \in Ids /\ i <= pktIdSeq /\ outcome[i] = "none"
      BY <1>3, NullNoSlot DEF SrvLink, WalksInv, TableInv, HeldInv, ReqInv, s
  <2> HIDE DEF i
  <2>7. outcome'[i] = "pending" /\ \A j \in Ids \ {i} : outcome'[j] = outcome[j]
      BY <2>5, <2>6 DEF ReqInv
  <2>8. outcome' \in [Ids -> Results]
      BY <2>5 DEF ReqInv, Results
  <2>9. \A x \in Queued(reqs) : reqs.id[x] \in Ids \ {i}
      BY <2>6 DEF ReqInv
  <2>10. Queued(reqs') \subseteq Queued(reqs) \cup {s} /\ reqs.id[s] = i
      BY <2>3 DEF i, Queued
  <2>11. \A x \in Queued(reqs') : reqs.id[x] \in Ids /\ outcome'[reqs.id[x]] = "pending"
      BY <2>6, <2>7, <2>9, <2>10 DEF ReqInv
  <2>12. \A x, y \in Queued(reqs') : reqs.id[x] = reqs.id[y] => x = y
      BY <2>9, <2>10 DEF ReqInv
  <2>13. \A j \in Ids : j > pktIdSeq => outcome'[j] = "none"
    <3>1. ~(i > pktIdSeq)
        BY <2>6, MqttAssumption DEF SeqInv, Ids
    <3> QED
        BY <2>7, <3>1 DEF ReqInv
  <2>14. ASSUME tp.pc = "finish"
         PROVE  /\ reqs.id[tp.slot] \in answered /\ outcome'[reqs.id[tp.slot]] = "pending"
                /\ \A x \in Queued(reqs') : reqs.id[x] # reqs.id[tp.slot]
    <3>1. /\ reqs.id[tp.slot] \in answered /\ outcome[reqs.id[tp.slot]] = "pending"
          /\ \A x \in Queued(reqs) : reqs.id[x] # reqs.id[tp.slot]
        BY <2>14 DEF ReqInv
    <3>2. reqs.id[tp.slot] \in Ids \ {i}
        BY <2>6, <3>1 DEF ReqInv
    <3> QED
        BY <2>7, <2>10, <3>1, <3>2
  <2>15. ReqInv'
      BY <2>4, <2>5, <2>8, <2>11, <2>12, <2>13, <2>14 DEF ReqInv
  <2>16. Requests!Accept(i)
      BY <2>5, <2>6 DEF Requests!Accept
  <2> QED
      BY <2>6, <2>15, <2>16 DEF ReqStep, Requests!ReqNext
<1> QED
    BY <1>1, <1>2, <1>3 DEF SrvNext
\* The tcpip_thread inside a handler.
LEMMA InsideReqs == WalksInv /\ ReqInv /\ TpInside => ReqInv' /\ ReqStep
<1> SUFFICES ASSUME WalksInv, ReqInv, TpInside PROVE ReqInv' /\ ReqStep
    OBVIOUS
<1>0. Sound(reqs) /\ Table(reqs)
    BY DEF WalksInv, TableInv, Sound
<1>1. CASE TpAdvance
  <2>1. /\ reqs' = reqs /\ outcome' = outcome /\ pktIdSeq' = pktIdSeq /\ answered' = answered
        /\ srv' = srv /\ tp'.pc = "idle" /\ down' = down
      BY <1>1 DEF TpAdvance, TpIdle, netVars, reqHistory
  <2> QED
      BY <2>1, NothingSettled DEF ReqInv
<1>2. CASE TpUnchain
  <2> DEFINE s == tp.slot
  <2>1. /\ reqs' = Unchain(reqs, s, tp.prev) /\ outcome' = outcome /\ pktIdSeq' = pktIdSeq
        /\ answered' = answered /\ srv' = srv /\ tp'.pc = "finish" /\ tp'.slot = s /\ down' = down
      BY <1>2 DEF TpUnchain, netVars, reqHistory, WalksInv, Locals
  <2>2. s \in Queued(reqs) /\ Precedes(reqs, tp.prev, s) /\ reqs.id[s] \in answered
      BY <1>2 DEF TpUnchain, WalksInv, TableInv, TakenInv, ReqInv
  <2> HIDE DEF s
  <2>3. Shrinks(reqs, reqs') /\ s \notin Reach(reqs', reqs'.queue)
    <3>1. /\ Shrinks(reqs, reqs') /\ s \notin Reach(reqs', reqs'.queue)
          /\ reqs'.next[s] = reqs.next[s]
        BY <1>0, <2>1, <2>2, UnchainIs
    <3> QED
        BY <3>1
  <2>4. Queued(reqs') \subseteq Queued(reqs) \ {s}
      BY <1>0, <2>3, QueueShrinks DEF Queued
  <2>5. reqs'.id = reqs.id
      BY <1>0, <2>1, TakeIds
  <2>6. /\ outcome[reqs.id[s]] = "pending"
        /\ \A x \in Queued(reqs') : reqs.id[x] # reqs.id[s]
      BY <2>2, <2>4 DEF ReqInv
  <2> QED
      BY <2>1, <2>2, <2>4, <2>5, <2>6, NothingSettled DEF ReqInv
<1>3. CASE TpFinish
  <2> DEFINE s == tp.slot
             i == reqs.id[s]
             after == reqs.next[s]
             times == [reqs.diff EXCEPT ![after] = (@ + reqs.diff[s]) % DiffMod]
             timed == IF after = NULL THEN reqs
                      ELSE [reqs EXCEPT !.diff[after] = (@ + reqs.diff[s]) % DiffMod]
  <2>1. /\ reqs' = Delete(timed, s) /\ outcome' = Outcome(outcome, {i}, "confirmed")
        /\ pktIdSeq' = pktIdSeq /\ answered' = answered /\ srv' = srv /\ tp'.pc = "idle"
        /\ down' = down
      BY <1>3 DEF TpFinish, TpIdle, netVars
  <2>2. s \in Slots /\ s \notin Reach(reqs, reqs.queue) /\ i \in answered /\ i \in Ids
        /\ outcome[i] = "pending" /\ \A x \in Queued(reqs) : reqs.id[x] # i
      BY <1>3 DEF TpFinish, WalksInv, TableInv, TakenInv, ReqInv
  <2>3. timed.queue = reqs.queue /\ timed.next = reqs.next /\ timed.id = reqs.id /\ Table(timed)
    <3>1. CASE after = NULL
        BY <1>0, <3>1
    <3>2. CASE after # NULL
      <4>1. timed = [reqs EXCEPT !.diff = times]
          BY <3>2
      <4> HIDE DEF timed, times
      <4>2. timed = [queue |-> reqs.queue, next |-> reqs.next, id |-> reqs.id, diff |-> times]
          BY <1>0, <4>1, ReplacedDiff DEF Table
      <4> QED
          BY <1>0, <4>2 DEF Table, Linked
    <3> QED
        BY <3>1, <3>2
  <2> HIDE DEF timed
  <2>4. \A x : Reach(timed, x) = Reach(reqs, x)
      BY <2>3 DEF Reach
  <2>5. Sound(timed) /\ s \notin Reach(timed, timed.queue)
      BY <1>0, <2>2, <2>3, <2>4 DEF Sound, Ends
  <2>6. Delete(timed, s).queue = timed.queue
        /\ Reach(Delete(timed, s), timed.queue) = Reach(timed, timed.queue)
      BY <2>2, <2>5, DeleteIs
  <2>7. Queued(reqs') = Queued(reqs)
      BY <2>1, <2>3, <2>4, <2>6 DEF Queued
  <2>8. reqs'.id = reqs.id
      BY <2>1, <2>3, FreeIds
  <2> HIDE DEF i, s
  <2>9. outcome' = [outcome EXCEPT ![i] = "confirmed"]
      BY <2>1, <2>2 DEF Outcome, ReqInv
  <2>10. outcome'[i] = "confirmed" /\ \A j \in Ids \ {i} : outcome'[j] = outcome[j]
      BY <2>2, <2>9 DEF ReqInv
  <2>11. outcome' \in [Ids -> Results]
      BY <2>9 DEF ReqInv, Results
  <2>12. \A j \in Ids : j > pktIdSeq => outcome'[j] = "none"
      BY <2>2, <2>10 DEF ReqInv
  <2>13. \A x \in Queued(reqs) : reqs.id[x] \in Ids /\ outcome'[reqs.id[x]] = "pending"
      BY <2>2, <2>10 DEF ReqInv
  <2>14. srv.slot # NULL => outcome'[reqs.id[srv.slot]] = "none"
      BY <2>2, <2>10 DEF ReqInv
  <2>15. ReqInv'
    <3>1. \A x \in Queued(reqs') : reqs'.id[x] \in Ids /\ outcome'[reqs'.id[x]] = "pending"
        BY <2>7, <2>8, <2>13
    <3>2. \A x, y \in Queued(reqs') : reqs'.id[x] = reqs'.id[y] => x = y
        BY <2>7, <2>8 DEF ReqInv
    <3>3. srv'.slot # NULL => /\ reqs'.id[srv'.slot] \in Ids /\ reqs'.id[srv'.slot] <= pktIdSeq'
                              /\ outcome'[reqs'.id[srv'.slot]] = "none"
        BY <2>1, <2>8, <2>14 DEF ReqInv
    <3>4. /\ reqs'.id \in [Slots -> Ids \cup {0}] /\ answered' \subseteq Ids
          /\ down' \in Seq(Messages(answered'))
        BY <2>1, <2>8 DEF ReqInv
    <3>5. \A j \in Ids : j > pktIdSeq' => outcome'[j] = "none"
        BY <2>1, <2>12
    <3>6. tp'.pc = "idle"
        BY <2>1
    <3> QED
        BY <2>11, <3>1, <3>2, <3>3, <3>4, <3>5, <3>6 DEF ReqInv
  <2>16. Requests!Confirm(i)
      BY <2>1, <2>2, <2>9 DEF Requests!Confirm
  <2> QED
      BY <2>2, <2>15, <2>16 DEF ReqStep, Requests!ReqNext
<1> QED
    BY <1>1, <1>2, <1>3 DEF TpInside

\* The timer's requests are called back, and if the watchdog has run out the
\* others are dropped.
LEMMA TimerReqs == WalksInv /\ ReqInv /\ CyclicTimer => ReqInv' /\ ReqStep
<1> SUFFICES ASSUME WalksInv, ReqInv, CyclicTimer PROVE ReqInv' /\ ReqStep
    OBVIOUS
<1>1. /\ Sound(reqs) /\ Table(reqs) /\ srv' = srv /\ tp' = tp /\ tp.pc = "idle"
      /\ pktIdSeq' = pktIdSeq /\ answered' = answered /\ down \in Seq(Messages(answered))
    BY DEF WalksInv, TableInv, Sound, CyclicTimer, Idle, ReqInv
<1>2. CASE ConnectTick \/ StrayTick
  <2>1. CASE Close(reqs, outcome, {})
      BY <1>1, <2>1, CloseAll
  <2>2. CASE reqs' = reqs /\ outcome' = outcome /\ down' = down
      BY <1>1, <2>2, NothingSettled
  <2> QED
      BY <1>2, <2>1, <2>2 DEF ConnectTick, StrayTick, netVars
<1>3. CASE ConnectedTick
  <2> DEFINE gone == Expired(reqs)
             first == FirstLeft(reqs, gone)
             left == TimeElapsed(reqs, gone, first)
             T == IdsOf(gone)
             notified == Outcome(outcome, T, "timed_out")
  <2>1. \/ Close(left, notified, {})
        \/ reqs' = left /\ outcome' = notified /\ down' = down
      BY <1>3 DEF ConnectedTick, IdsOf
  <2>2. /\ Table(left) /\ Queued(left) \subseteq Queued(reqs) \ gone
        /\ gone \subseteq Queued(reqs) /\ left.id = reqs.id
    <3>1. Shrinks(reqs, left)
        BY <1>1, ElapsedShrinks
    <3>2. Queued(left) \subseteq Queued(reqs) \ gone
        BY <1>1, ElapsedQueue
    <3>3. gone \subseteq Queued(reqs)
        BY DEF Expired
    <3> HIDE DEF gone, first
    <3>4. left.id = reqs.id
        BY <1>1, TakeIds
    <3> HIDE DEF left
    <3> QED
        BY <3>1, <3>2, <3>3, <3>4 DEF Shrinks, Sound
  <2> HIDE DEF left, gone
  <2>3. T \subseteq IdsOf(Queued(reqs)) /\ \A s \in Queued(left) : reqs.id[s] \notin T
      BY <2>2 DEF IdsOf, ReqInv
  <2> HIDE DEF T
  <2>4. \A i \in T : outcome[i] = "pending"
      BY <2>3 DEF IdsOf, ReqInv
  <2>5. notified = [i \in Ids |-> IF i \in T THEN "timed_out" ELSE outcome[i]]
      BY <2>4 DEF Outcome
  <2> HIDE DEF notified
  <2>6. CASE Close(left, notified, {})
      BY <1>1, <2>2, <2>3, <2>5, <2>6, CloseStep
  <2>7. CASE reqs' = left /\ outcome' = notified /\ down' = down
    <3>1. outcome' = [i \in Ids |-> IF i \in T THEN "timed_out"
                                    ELSE IF i \in {} THEN "dropped" ELSE outcome[i]]
        BY <2>5, <2>7
    <3> QED
        BY <1>1, <2>2, <2>3, <2>7, <3>1, SettleStep
  <2> QED
      BY <2>1, <2>6, <2>7
<1> QED
    BY <1>2, <1>3 DEF CyclicTimer

\* The callbacks that start no request and take none: sent, poll, connected,
\* and the broker's messages that acknowledge nothing.
LEMMA QuietReqs ==
  ASSUME WalksInv, ReqInv,
         TcpConnected \/ TcpSent \/ TcpPoll \/ RecvPublish \/ RecvPingresp \/ BrokerPublishes
  PROVE  ReqInv' /\ ReqStep
<1>1. /\ reqs' = reqs /\ outcome' = outcome /\ pktIdSeq' = pktIdSeq /\ answered' = answered
      /\ srv' = srv
    BY DEF TcpConnected, TcpSent, TcpPoll, RecvPublish, RecvPingresp, BrokerPublishes, reqHistory
<1>2. down' \in Seq(Messages(answered))
  <2>1. CASE TcpConnected \/ TcpSent \/ TcpPoll
    <3>1. down' = down
        BY <2>1 DEF TcpConnected, TcpSent, TcpPoll
    <3> QED
        BY <3>1 DEF ReqInv
  <2>2. CASE RecvPublish \/ RecvPingresp
    <3>1. down # <<>> /\ down' = Tail(down)
        BY <2>2 DEF RecvPublish, RecvPingresp, Receives
    <3> QED
        BY <3>1, DownTail
  <2>3. CASE BrokerPublishes
    <3>1. <<"PUBLISH", 0>> \in Messages(answered)
        BY DEF Messages
    <3>2. down' = Append(down, <<"PUBLISH", 0>>) /\ down \in Seq(Messages(answered))
        BY <2>3 DEF BrokerPublishes, ReqInv
    <3> QED
        BY <3>1, <3>2
  <2> QED
      BY <2>1, <2>2, <2>3
<1>3. tp' = tp \/ tp'.pc = "advance"
  <2>1. ASSUME NEW k, NEW release, TpWrite(k, release) PROVE tp'.pc = "advance"
      BY <2>1, TpWriteIs
  <2> QED
      BY <2>1 DEF TcpConnected, TcpSent, TcpPoll, RecvPublish, RecvPingresp, BrokerPublishes
<1> QED
    BY <1>1, <1>2, <1>3, NothingSettled DEF ReqInv

\* An acknowledgement is of a request that the broker has answered.
LEMMA AckReqs == ASSUME WalksInv, ReqInv, RecvAck PROVE ReqInv' /\ ReqStep
<1>1. /\ reqs' = reqs /\ outcome' = outcome /\ pktIdSeq' = pktIdSeq /\ answered' = answered
      /\ srv' = srv /\ down # <<>> /\ down' = Tail(down) /\ tp.pc = "idle"
      /\ Head(down)[1] \in {"SUBACK", "PUBACK"}
    BY DEF RecvAck, Receives, Idle, reqHistory
<1>2. /\ down' \in Seq(Messages(answered))
      /\ Head(down)[2] \in answered \cup {0}
  <2>1. Head(down) \in Messages(answered) /\ Tail(down) \in Seq(Messages(answered))
      BY <1>1, DownTail
  <2> QED
      BY <1>1, <2>1 DEF Messages
<1>3. CASE tp' = tp
    BY <1>1, <1>2, <1>3, NothingSettled
<1>4. ASSUME NEW s \in Queued(reqs), reqs.id[s] = Head(down)[2],
             tp' = [TpIdle EXCEPT !.pc = "unchain", !.slot = s, !.prev = Predecessor(reqs, s)]
      PROVE  ReqInv' /\ ReqStep
  <2>1. tp'.pc = "unchain" /\ tp'.slot = s
      BY <1>4 DEF TpIdle
  <2>2. reqs.id[s] \in answered
    <3>1. reqs.id[s] \in Ids /\ 0 \notin Ids
        BY MqttAssumption DEF ReqInv, Ids
    <3> QED
        BY <1>2, <1>4, <3>1
  <2> QED
      BY <1>1, <1>2, <2>1, <2>2, NothingSettled
<1> QED
    BY <1>3, <1>4 DEF RecvAck

\* The connection is closed or lost.
LEMMA LostReqs == ASSUME WalksInv, ReqInv, RecvFin \/ TcpAborts PROVE ReqInv' /\ ReqStep
<1>1. /\ srv' = srv /\ pktIdSeq' = pktIdSeq /\ answered' = answered /\ tp' = tp
      /\ tp.pc = "idle"
    BY DEF RecvFin, TcpAborts, Idle
<1>2. CASE Close(reqs, outcome, {})
    BY <1>1, <1>2, CloseAll
<1>3. CASE reqs' = reqs /\ outcome' = outcome /\ down' = <<>>
  <2>1. down' \in Seq(Messages(answered))
      BY <1>3
  <2> QED
      BY <1>1, <1>3, <2>1, NothingSettled
<1> QED
    BY <1>2, <1>3 DEF RecvFin, TcpAborts

\* A message that is cut in two closes the connection; a SUBACK loses its
\* request without a callback.
LEMMA CutReqs == ASSUME WalksInv, ReqInv, RecvCut PROVE ReqInv' /\ ReqStep
<1>1. /\ srv' = srv /\ pktIdSeq' = pktIdSeq /\ answered' = answered /\ tp' = tp
      /\ tp.pc = "idle" /\ Sound(reqs) /\ Table(reqs)
    BY DEF RecvCut, Receives, Idle, WalksInv, TableInv, Sound
<1>2. CASE Close(reqs, outcome, {})
    BY <1>1, <1>2, CloseAll
<1>3. ASSUME NEW s \in Queued(reqs), NEW p, p = Predecessor(reqs, s),
             NEW u, u = Unchain(reqs, s, p),
             Close([u EXCEPT !.next[s] = NULL], outcome, {reqs.id[s]})
      PROVE  ReqInv' /\ ReqStep
  <2> DEFINE v == [u EXCEPT !.next[s] = NULL]
             i == reqs.id[s]
  <2>1. Precedes(reqs, p, s)
      BY <1>1, <1>3, PredecessorIs DEF Precedes
  <2>2. Shrinks(reqs, u) /\ Queued(v) \subseteq Queued(reqs)
    <3>1. Shrinks(reqs, u) /\ s \notin Reach(u, u.queue) /\ u.next[s] = reqs.next[s]
        BY <1>1, <1>3, <2>1, UnchainIs
    <3>2. Shrinks(reqs, Clear(v)) /\ Queued(v) \subseteq Queued(reqs)
        BY <1>1, <1>3, <2>1, CutShrinks
    <3> QED
        BY <3>1, <3>2
  <2>3. Table(u) /\ u.id = reqs.id
    <3>1. Unchain(reqs, s, p).id = reqs.id
        BY <1>1, TakeIds
    <3> QED
        BY <1>3, <2>2, <3>1 DEF Shrinks, Sound
  <2>4. v.id = reqs.id
      BY <2>3, TakeIds
  <2>5. Table(v)
    <3>1. v = [queue |-> u.queue, next |-> [u.next EXCEPT ![s] = NULL],
               id |-> u.id, diff |-> u.diff]
        BY <2>3 DEF Table
    <3>2. [u.next EXCEPT ![s] = NULL] \in [Slots -> Nodes]
        BY <2>3 DEF Table, Linked, Nodes
    <3>3. u.queue \in Nodes
        BY <2>3 DEF Table
    <3> QED
        BY <3>1, <3>2, <3>3 DEF Table, Linked
  <2> DEFINE T == {}
             D == {i}
  <2>6. \A j : j \notin T
      OBVIOUS
  <2>7. T \subseteq IdsOf(Queued(reqs)) /\ D \subseteq IdsOf(Queued(reqs)) \ T
      BY DEF IdsOf
  <2> HIDE DEF T
  <2>8. outcome = [j \in Ids |-> IF j \in T THEN "timed_out" ELSE outcome[j]]
      BY <2>6 DEF ReqInv
  <2>9. Close(v, outcome, D)
      BY <1>3
  <2>10. Close(v, [j \in Ids |-> IF j \in T THEN "timed_out" ELSE outcome[j]], D)
      BY <2>8, <2>9
  <2> HIDE DEF v, i, D
  <2> QED
      BY <1>1, <2>2, <2>4, <2>5, <2>6, <2>7, <2>10, CloseStep
<1> QED
    BY <1>2, <1>3 DEF RecvCut

\* The broker answers what it reads, or does not.
LEMMA ReadsReqs ==
  ASSUME WalksInv, StreamTypes, ReqInv, BrokerReads PROVE ReqInv' /\ ReqStep
<1> DEFINE i == Head(wire)[2]
<1>1. /\ reqs' = reqs /\ outcome' = outcome /\ pktIdSeq' = pktIdSeq /\ srv' = srv /\ tp' = tp
    BY DEF BrokerReads
<1>2. i \in Ids \cup {0}
  <2>1. Head(wire) \in CellSet
      BY DEF BrokerReads, StreamTypes
  <2> QED
      BY <2>1 DEF CellSet, Blank
<1>3. PICK a : /\ a = <<>> \/ \E kind \in {"CONNACK", "SUBACK", "PUBACK", "PINGRESP"} :
                                a = <<<<kind, i>>>>
               /\ down' = down \o a
               /\ answered' = IF a # <<>> /\ i # 0 THEN answered \cup {i} ELSE answered
    BY DEF BrokerReads
<1> HIDE DEF i
<1>4. answered \subseteq answered' /\ answered' \subseteq Ids
    BY <1>2, <1>3 DEF ReqInv
<1>5. a \in Seq(Messages(answered'))
  <2>1. CASE a = <<>>
      BY <2>1
  <2>2. ASSUME NEW kind \in {"CONNACK", "SUBACK", "PUBACK", "PINGRESP"}, a = <<<<kind, i>>>>
        PROVE  a \in Seq(Messages(answered'))
    <3>1. a # <<>>
        BY <2>2
    <3>2. i \in answered' \cup {0}
        BY <1>3, <3>1
    <3>3. <<kind, i>> \in Messages(answered')
        BY <1>2, <3>2 DEF Messages
    <3> QED
        BY <2>2, <3>3
  <2> QED
      BY <1>3, <2>1, <2>2
<1>6. down' \in Seq(Messages(answered'))
  <2>1. Messages(answered) \subseteq Messages(answered')
      BY <1>4 DEF Messages
  <2>2. down \in Seq(Messages(answered'))
      BY <2>1 DEF ReqInv
  <2> QED
      BY <1>3, <1>5, <2>2
<1>7. ReqInv'
    BY <1>1, <1>4, <1>6 DEF ReqInv
<1>8. ReqStep
  <2>1. CASE answered' = answered
      BY <1>1, <2>1 DEF ReqStep, Requests!reqVars
  <2>2. CASE i \in Ids /\ answered' = answered \cup {i}
      BY <1>1, <2>2 DEF ReqStep, Requests!ReqNext, Requests!Answer
  <2> QED
      BY <1>2, <1>3, <2>1, <2>2
<1> QED
    BY <1>7, <1>8

\* CONNACK: the connection is refused, or the subscription is made, which is the
\* first request, or finds no room.
LEMMA ConnackReqs ==
  ASSUME WalksInv, SeqInv, ReqInv, RecvConnack PROVE ReqInv' /\ ReqStep
<1> DEFINE i == pktIdSeq + 1
           r == FreeSlot(reqs)
           made == Create(reqs, i)
<1>1. /\ srv' = srv /\ answered' = answered /\ tp.pc = "idle" /\ down # <<>>
      /\ Sound(reqs) /\ Table(reqs)
    BY DEF RecvConnack, Receives, Idle, WalksInv, TableInv, Sound
<1>2. Tail(down) \in Seq(Messages(answered))
    BY <1>1, DownTail
<1>3. CASE /\ reqs' = reqs /\ outcome' = outcome /\ pktIdSeq' = pktIdSeq /\ tp' = tp
           /\ down' = Tail(down)
    BY <1>1, <1>2, <1>3, NothingSettled
<1>4. CASE Close(reqs, outcome, {}) /\ pktIdSeq' = pktIdSeq /\ tp' = tp
    BY <1>1, <1>4, CloseAll
<1>5. CASE connState = "MQTT_CONNECTING" /\ down' = Tail(down) /\ Subscribe
  <2>1. srv.slot = NULL /\ i = 1 /\ pktIdSeq = 0 /\ i \in Ids /\ pktIdSeq' = i
    <3>1. Early
        BY <1>5 DEF Early
    <3> QED
        BY <1>5, <3>1, MqttAssumption DEF WalksInv, EarlyInv, SeqInv, Subscribe, Ids
  <2>2. outcome[i] = "none" /\ \A j \in Ids : j > 0 /\ (j > 1 => j # i)
      BY <2>1, MqttAssumption DEF ReqInv, Ids
  <2>3. CASE reqs' = reqs /\ outcome' = outcome /\ tp' = tp
    <3>1. \A j \in Ids : j > pktIdSeq' => outcome'[j] = "none"
        BY <2>1, <2>2, <2>3 DEF ReqInv
    <3>2. ReqInv'
        BY <1>1, <1>2, <1>5, <2>1, <2>3, <3>1 DEF ReqInv
    <3> QED
        BY <1>1, <2>3, <3>2 DEF ReqStep, Requests!reqVars
  <2>4. CASE /\ FreeSlots(reqs) # {} /\ reqs' = AppendRequest(made, r)
             /\ outcome' = [outcome EXCEPT ![i] = "pending"] /\ tp'.pc = "advance"
    <3>1. /\ r \in Slots /\ reqs.next[r] = r /\ made.next[r] = NULL
          /\ Sound(made) /\ made.queue = reqs.queue
          /\ made.next = [reqs.next EXCEPT ![r] = NULL]
          /\ Reach(made, reqs.queue) = Reach(reqs, reqs.queue) /\ r \notin Reach(reqs, reqs.queue)
        BY <1>1, <2>4, CreateIs
    <3>2. made.id = [reqs.id EXCEPT ![r] = i]
        BY <1>1, CreateIds
    <3> HIDE DEF r, made
    <3>3. /\ Sound(AppendRequest(made, r))
          /\ Queued(AppendRequest(made, r)) \subseteq Queued(made) \cup {r}
      <4>1. r \notin Reach(made, made.queue)
          BY <3>1
      <4> QED
          BY <3>1, <4>1, AppendIs
    <3>4. Queued(reqs') \subseteq Queued(reqs) \cup {r} /\ r \notin Queued(reqs)
        BY <2>4, <3>1, <3>3 DEF Queued
    <3>5. reqs'.id = [reqs.id EXCEPT ![r] = i]
      <4>1. AppendRequest(made, r).id = made.id
          BY <3>1, AppendIds DEF Sound
      <4> QED
          BY <2>4, <3>2, <4>1
    <3>6. /\ reqs'.id \in [Slots -> Ids \cup {0}] /\ reqs'.id[r] = i
          /\ \A s \in Slots \ {r} : reqs'.id[s] = reqs.id[s]
        BY <2>1, <3>1, <3>5 DEF ReqInv
    <3>7. \A s \in Queued(reqs) : /\ reqs'.id[s] = reqs.id[s]
                                  /\ reqs.id[s] \in Ids /\ outcome[reqs.id[s]] = "pending"
        BY <1>1, <3>4, <3>6, QueuedBusy DEF ReqInv
    <3>8. \A s \in Queued(reqs) : reqs.id[s] # i
        BY <2>2, <3>7
    <3>9. outcome'[i] = "pending" /\ \A j \in Ids \ {i} : outcome'[j] = outcome[j]
        BY <2>1, <2>4 DEF ReqInv
    <3>10. outcome' \in [Ids -> Results]
        BY <2>4 DEF ReqInv, Results
    <3> HIDE DEF i
    <3>11. \A s \in Queued(reqs') : reqs'.id[s] \in Ids /\ outcome'[reqs'.id[s]] = "pending"
        BY <2>1, <3>4, <3>6, <3>7, <3>8, <3>9
    <3>12. \A s, x \in Queued(reqs') : reqs'.id[s] = reqs'.id[x] => s = x
      <4>1. \A s, x \in Queued(reqs) : reqs.id[s] = reqs.id[x] => s = x
          BY DEF ReqInv
      <4> QED
          BY <3>4, <3>6, <3>7, <3>8, <4>1
    <3>13. \A j \in Ids : j > pktIdSeq' => outcome'[j] = "none"
        BY <2>1, <2>2, <3>9 DEF ReqInv
    <3>14. /\ srv'.slot = NULL /\ tp'.pc = "advance" /\ answered' \subseteq Ids
           /\ down' \in Seq(Messages(answered'))
        BY <1>1, <1>2, <1>5, <2>1, <2>4 DEF ReqInv
    <3>15. ReqInv'
        BY <3>6, <3>10, <3>11, <3>12, <3>13, <3>14 DEF ReqInv
    <3>16. Requests!Accept(i)
        BY <1>1, <2>2, <2>4 DEF Requests!Accept
    <3> QED
        BY <2>1, <3>15, <3>16 DEF ReqStep, Requests!ReqNext
  <2>5. ASSUME NEW k, TpWrite(k, TRUE) PROVE tp'.pc = "advance"
      BY <2>5, TpWriteIs
  <2> QED
      BY <1>5, <2>3, <2>4, <2>5 DEF Subscribe
<1> QED
    BY <1>3, <1>4, <1>5 DEF RecvConnack

\* Every step keeps ReqInv and is one of RequestTable, or changes nothing it sees.
LEMMA ReqStepCorrect ==
  WalksInv /\ SeqInv /\ StreamTypes /\ ReqInv /\ [MqttNext]_mqttVars => ReqInv' /\ ReqStep
<1> SUFFICES ASSUME WalksInv, SeqInv, StreamTypes, ReqInv, [MqttNext]_mqttVars
             PROVE  ReqInv' /\ ReqStep
    OBVIOUS
<1>1. CASE UNCHANGED mqttVars
  <2>1. /\ reqs' = reqs /\ outcome' = outcome /\ pktIdSeq' = pktIdSeq /\ answered' = answered
        /\ srv' = srv /\ tp' = tp /\ down' = down
      BY <1>1 DEF mqttVars, netVars, reqHistory
  <2> QED
      BY <2>1, NothingSettled DEF ReqInv
<1>2. CASE MqttNext
    BY <1>2, SrvReqs, InsideReqs, TimerReqs, QuietReqs, AckReqs, LostReqs, CutReqs, ReadsReqs,
       ConnackReqs DEF MqttNext, TpHandles, Broker
<1> QED
    BY <1>1, <1>2

\* And it holds at first.
LEMMA ReqInitCorrect == MqttInit => SeqInv /\ StreamTypes /\ ReqInv /\ Requests!ReqInit
<1> SUFFICES ASSUME MqttInit PROVE SeqInv /\ StreamTypes /\ ReqInv /\ Requests!ReqInit
    OBVIOUS
<1>1. SeqInv
    BY MqttAssumption DEF MqttInit, SeqInv
<1>2. StreamTypes
  <2>1. Blank \in CellSet
      BY DEF CellSet
  <2>2. output \in Ring
      BY <2>1, MqttAssumption DEF MqttInit, EmptyRing, Ring
  <2>3. wire \in Seq(CellSet) /\ srv.todo \in Seq(CellSet)
      BY DEF MqttInit, SrvIdle
  <2>4. srv.pc = "start" /\ srv.k = 0 /\ tp.k = 0
      BY DEF MqttInit, SrvIdle, TpIdle
  <2> QED
      BY <2>2, <2>3, <2>4 DEF StreamTypes
<1>3. ReqInv
  <2>1. Queued(reqs) = {}
      BY NoneQueued DEF MqttInit, EmptyTable
  <2>2. /\ reqs.id = [s \in Slots |-> 0] /\ outcome = [i \in Ids |-> "none"] /\ answered = {}
        /\ srv.slot = NULL /\ tp.pc = "idle"
      BY DEF MqttInit, EmptyTable, SrvIdle, TpIdle
  <2>3. down \in Seq(Messages(answered))
      BY DEF MqttInit
  <2>4. outcome \in [Ids -> Results]
      BY <2>2 DEF Results
  <2> QED
      BY <2>1, <2>2, <2>3, <2>4 DEF ReqInv
<1>4. Requests!ReqInit
    BY DEF MqttInit, Requests!ReqInit
<1> QED
    BY <1>1, <1>2, <1>3, <1>4

\* The client's table implements what RequestTable promises, for any number of
\* slots and any interleaving of the two threads, raced or not: every callback is
\* called at most once, with success only after the broker answered, and never
\* after the request was dropped or had timed out (mqtt.c:316, 381, 417).
THEOREM RequestsKept == MqttSpec => TableSpec
<1>1. MqttInit => WalksInv /\ SeqInv /\ StreamTypes /\ ReqInv /\ Requests!ReqInit
    BY WalksInit, ReqInitCorrect
<1>2. /\ WalksInv /\ SeqInv /\ StreamTypes /\ ReqInv /\ [MqttNext]_mqttVars
      => WalksInv' /\ SeqInv' /\ StreamTypes' /\ ReqInv' /\ ReqStep
    BY WalksStep, SeqStep, StreamStep, ReqStepCorrect DEF WalksInv
<1> QED
    BY <1>1, <1>2, PTL DEF MqttSpec, TableSpec, Requests!ReqSpec, ReqStep

-----------------------------------------------------------------------------
(* What TCP got and what the ring holds: StreamIntact *)

\* Cell by cell: the broker is to read w, and then what the ring holds past the
\* first k cells, which are in w already.
Holds(w, rb, k, u) ==
  /\ u \in Seq(CellSet)
  /\ Len(u) = Len(w) + rb.len - k
  /\ \A i \in 1..Len(u) :
       u[i] = IF i <= Len(w) THEN w[i] ELSE rb.buf[i - Len(w) - 1 + k]

\* What the ring holds, as a sequence.
LEMMA ContentIs ==
  ASSUME NEW rb \in Ring
  PROVE  /\ Content(rb) \in Seq(CellSet) /\ Len(Content(rb)) = rb.len /\ rb.len \in Nat
         /\ \A i \in 1..rb.len : Content(rb)[i] = rb.buf[i - 1] /\ rb.buf[i - 1] \in CellSet
<1>1. rb.len \in Nat /\ rb.len < RingSize
    BY MqttAssumption DEF Ring
<1>2. \A i \in 1..rb.len : rb.buf[i - 1] \in CellSet
    BY <1>1, MqttAssumption DEF Ring
<1> QED
    BY <1>1, <1>2 DEF Content

\* What follows the first k cells of a sequence, up to the n-th.
LEMMA PartIs ==
  ASSUME NEW S, NEW s \in Seq(S), NEW k \in Nat, NEW n \in Nat, k <= n, n <= Len(s)
  PROVE  /\ SubSeq(s, k + 1, n) \in Seq(S) /\ Len(SubSeq(s, k + 1, n)) = n - k
         /\ \A i \in 1..(n - k) : SubSeq(s, k + 1, n)[i] = s[k + i]
<1>1. k + 1 \in Int /\ n - (k + 1) + 1 = n - k /\ (\A i \in (k + 1)..n : s[i] \in S)
    OBVIOUS
<1> DEFINE v == SubSeq(s, k + 1, n)
<1>2. /\ v \in Seq(S) /\ Len(v) = IF k + 1 <= n THEN n - (k + 1) + 1 ELSE 0
      /\ \A i \in 1..(n - (k + 1) + 1) : v[i] = s[(k + 1) + i - 1]
    BY <1>1, SubSeqProperties
<1> HIDE DEF v
<1>3. Len(v) = n - k
    BY <1>2
<1>4. \A i \in 1..(n - k) : v[i] = s[k + i]
  <2> TAKE i \in 1..(n - k)
  <2>1. (k + 1) + i - 1 = k + i
      OBVIOUS
  <2>2. v[i] = s[(k + 1) + i - 1]
      BY <1>1, <1>2
  <2> QED
      BY <2>1, <2>2
<1> QED
    BY <1>2, <1>3, <1>4 DEF v

\* Read as sequences, that is what StreamIntact says.
LEMMA HoldsGives ==
  ASSUME NEW rb \in Ring, NEW w \in Seq(CellSet), NEW u, NEW k \in Nat, k <= rb.len,
         Holds(w, rb, k, u)
  PROVE  w \o SubSeq(Content(rb), k + 1, rb.len) = u
<1> DEFINE c == SubSeq(Content(rb), k + 1, rb.len)
<1>1. rb.len \in Nat
    BY ContentIs
<1>2. /\ c \in Seq(CellSet) /\ Len(c) = rb.len - k
      /\ \A i \in 1..(rb.len - k) : c[i] = rb.buf[k + i - 1]
  <2> DEFINE all == Content(rb)
  <2>1. all \in Seq(CellSet) /\ Len(all) = rb.len /\ \A i \in 1..rb.len : all[i] = rb.buf[i - 1]
      BY ContentIs
  <2> HIDE DEF all
  <2>2. /\ SubSeq(all, k + 1, rb.len) \in Seq(CellSet)
        /\ Len(SubSeq(all, k + 1, rb.len)) = rb.len - k
        /\ \A i \in 1..(rb.len - k) : SubSeq(all, k + 1, rb.len)[i] = all[k + i]
      BY <1>1, <2>1, PartIs
  <2>3. \A i \in 1..(rb.len - k) : all[k + i] = rb.buf[k + i - 1]
      BY <1>1, <2>1
  <2> QED
      BY <2>2, <2>3 DEF all
<1> HIDE DEF c
<1>3. /\ w \o c \in Seq(CellSet) /\ Len(w \o c) = Len(w) + Len(c)
      /\ \A i \in 1..(Len(w) + Len(c)) :
           (w \o c)[i] = IF i <= Len(w) THEN w[i] ELSE c[i - Len(w)]
    BY <1>2, ConcatProperties
<1>4. Len(w) \in Nat /\ Len(w \o c) = Len(u)
    BY <1>1, <1>2, <1>3 DEF Holds
<1>5. \A i \in 1..Len(w \o c) : (w \o c)[i] = u[i]
  <2> TAKE i \in 1..Len(w \o c)
  <2>1. CASE i <= Len(w)
      BY <1>2, <1>3, <1>4, <2>1 DEF Holds
  <2>2. CASE ~(i <= Len(w))
    <3>1. i - Len(w) \in 1..(rb.len - k) /\ k + (i - Len(w)) - 1 = i - Len(w) - 1 + k
        BY <1>1, <1>2, <1>3, <1>4, <2>2
    <3> QED
        BY <1>2, <1>3, <1>4, <2>2, <3>1 DEF Holds
  <2> QED
      BY <2>1, <2>2
<1>6. w \o c = u
    BY <1>3, <1>4, <1>5, SeqEqual DEF Holds
<1> QED
    BY <1>6 DEF c

\* mqtt_ringbuf_put, with room to spare.
LEMMA PutIs ==
  ASSUME NEW cell \in CellSet, output \in Ring, Put(cell), ~lost'
  PROVE  /\ output' \in Ring /\ output'.len = output.len + 1 /\ ~lost
         /\ output'.buf[output.len] = cell
         /\ \A n \in 0..(output.len - 1) : output'.buf[n] = output.buf[n]
<1>1. output.len \in 0..(RingSize - 1) /\ RingSize \in Nat /\ output.len + 1 # RingSize
    BY MqttAssumption DEF Ring, Put
<1>2. output'.len = output.len + 1
    BY <1>1 DEF Put
<1>3. output'.buf = [output.buf EXCEPT ![output.len] = cell]
    BY DEF Put
<1>4. output.buf \in [0..(RingSize - 1) -> CellSet]
    BY DEF Ring
<1>5. output'.buf[output.len] = cell /\ \A n \in 0..(output.len - 1) : output'.buf[n] = output.buf[n]
    BY <1>1, <1>3, <1>4
<1>6. ~lost
    BY DEF Put
<1> QED
    BY <1>2, <1>5, <1>6, PutTypes

\* A cell that is put is owed to the broker after the others.
LEMMA HoldsPut ==
  ASSUME NEW rb \in Ring, NEW w \in Seq(CellSet), NEW u, NEW k \in Nat, k <= rb.len,
         NEW cell \in CellSet, Holds(w, rb, k, u), NEW new, new.len = rb.len + 1,
         new.buf[rb.len] = cell, \A n \in 0..(rb.len - 1) : new.buf[n] = rb.buf[n]
  PROVE  Holds(w, new, k, Append(u, cell))
<1> DEFINE v == Append(u, cell)
<1>1. rb.len \in Nat /\ Len(w) \in Nat
    BY ContentIs
<1>3. /\ v \in Seq(CellSet) /\ Len(v) = Len(u) + 1 /\ v[Len(u) + 1] = cell
      /\ \A i \in 1..Len(u) : v[i] = u[i]
    BY AppendProperties DEF Holds
<1>4. Len(u) = Len(w) + rb.len - k
    BY DEF Holds
<1> HIDE DEF v
<1>6. \A i \in 1..Len(v) :
        v[i] = IF i <= Len(w) THEN w[i] ELSE new.buf[i - Len(w) - 1 + k]
  <2> TAKE i \in 1..Len(v)
  <2>1. CASE i = Len(u) + 1
    <3>1. ~(i <= Len(w)) /\ i - Len(w) - 1 + k = rb.len
        BY <1>1, <1>4, <2>1
    <3> QED
        BY <1>3, <2>1, <3>1
  <2>2. CASE i # Len(u) + 1
    <3>1. i \in 1..Len(u)
        BY <1>1, <1>3, <1>4, <2>2
    <3>2. ~(i <= Len(w)) => i - Len(w) - 1 + k \in 0..(rb.len - 1)
        BY <1>1, <1>4, <3>1
    <3>3. u[i] = IF i <= Len(w) THEN w[i] ELSE rb.buf[i - Len(w) - 1 + k]
        BY <3>1 DEF Holds
    <3> QED
        BY <1>3, <3>1, <3>2, <3>3
  <2> QED
      BY <2>1, <2>2
<1>7. Len(v) = Len(w) + new.len - k
    BY <1>1, <1>3, <1>4
<1>8. Holds(w, new, k, v)
    BY <1>3, <1>6, <1>7 DEF Holds
<1> QED
    BY <1>8 DEF v

\* The first j cells are written to TCP: they are in w, and still in the ring.
LEMMA HoldsSend ==
  ASSUME NEW rb \in Ring, NEW w \in Seq(CellSet), NEW u, NEW j \in Nat, j <= rb.len,
         Holds(w, rb, 0, u)
  PROVE  Holds(w \o SubSeq(Content(rb), 1, j), rb, j, u)
<1> DEFINE c == SubSeq(Content(rb), 1, j)
           x == w \o c
<1>1. rb.len \in Nat /\ Len(w) \in Nat
    BY ContentIs
<1>2. /\ c \in Seq(CellSet) /\ Len(c) = j
      /\ \A i \in 1..j : c[i] = rb.buf[i - 1]
  <2> DEFINE all == Content(rb)
  <2>1. all \in Seq(CellSet) /\ Len(all) = rb.len /\ \A i \in 1..rb.len : all[i] = rb.buf[i - 1]
      BY ContentIs
  <2> HIDE DEF all
  <2>2. /\ SubSeq(all, 0 + 1, j) \in Seq(CellSet) /\ Len(SubSeq(all, 0 + 1, j)) = j - 0
        /\ \A i \in 1..(j - 0) : SubSeq(all, 0 + 1, j)[i] = all[0 + i]
      BY <1>1, <2>1, PartIs
  <2>3. 0 + 1 = 1 /\ j - 0 = j /\ \A i \in 1..j : 0 + i = i /\ all[i] = rb.buf[i - 1]
      BY <1>1, <2>1
  <2> QED
      BY <2>2, <2>3 DEF all
<1> HIDE DEF c
<1>3. /\ Len(x) = Len(w) + j
      /\ \A i \in 1..(Len(w) + j) : x[i] = IF i <= Len(w) THEN w[i] ELSE c[i - Len(w)]
    BY <1>2, ConcatProperties
<1> HIDE DEF x
<1>4. Len(u) = Len(w) + rb.len
    BY <1>1 DEF Holds
<1>5. \A i \in 1..Len(u) : u[i] = IF i <= Len(x) THEN x[i] ELSE rb.buf[i - Len(x) - 1 + j]
  <2> TAKE i \in 1..Len(u)
  <2>1. u[i] = IF i <= Len(w) THEN w[i] ELSE rb.buf[i - Len(w) - 1]
      BY <1>1 DEF Holds
  <2>2. CASE i <= Len(x) /\ ~(i <= Len(w))
    <3>1. i - Len(w) \in 1..j /\ i \in 1..(Len(w) + j)
        BY <1>1, <1>3, <1>4, <2>2
    <3>2. x[i] = c[i - Len(w)] /\ c[i - Len(w)] = rb.buf[i - Len(w) - 1]
        BY <1>2, <1>3, <2>2, <3>1
    <3> QED
        BY <2>1, <2>2, <3>2
  <2>3. CASE ~(i <= Len(x))
    <3>1. ~(i <= Len(w)) /\ i - Len(x) - 1 + j = i - Len(w) - 1
        BY <1>1, <1>3, <1>4, <2>3
    <3> QED
        BY <2>1, <2>3, <3>1
  <2>4. CASE i <= Len(w)
    <3>1. i \in 1..(Len(w) + j) /\ i <= Len(x)
        BY <1>1, <1>3, <1>4, <2>4
    <3> QED
        BY <1>3, <2>1, <2>4, <3>1
  <2> QED
      BY <2>2, <2>3, <2>4
<1>6. Len(u) = Len(x) + rb.len - j
    BY <1>1, <1>3, <1>4
<1>7. Holds(x, rb, j, u)
    BY <1>5, <1>6 DEF Holds
<1> QED
    BY <1>7 DEF x, c

\* Nothing is written.
LEMMA SendNothing ==
  ASSUME NEW rb, NEW w \in Seq(CellSet) PROVE w \o SubSeq(Content(rb), 1, 0) = w
    BY SubSeqEmpty, ConcatEmptySeq

\* Advancing the ring by no more than it holds.
LEMMA AdvanceLen ==
  ASSUME NEW rb \in Ring, NEW j \in Nat, j <= rb.len
  PROVE  AdvanceGet(rb, j).len = rb.len - j
<1>1. rb.len \in 0..(RingSize - 1) /\ RingSize \in Nat
    BY MqttAssumption DEF Ring
<1> QED
    BY <1>1 DEF AdvanceGet

\* The j cells the ring is advanced by are among the k written ones.
LEMMA HoldsAdvance ==
  ASSUME NEW rb \in Ring, NEW w \in Seq(CellSet), NEW u, NEW k \in Nat, NEW j \in Nat,
         j <= k, k <= rb.len, Holds(w, rb, k, u)
  PROVE  Holds(w, AdvanceGet(rb, j), k - j, u)
<1> DEFINE new == AdvanceGet(rb, j)
<1>1. rb.len \in 0..(RingSize - 1) /\ Len(w) \in Nat /\ RingSize \in Nat
    BY MqttAssumption DEF Ring
<1>2. new.len = rb.len - j
    BY <1>1, AdvanceLen
<1>3. \A n \in 0..(RingSize - 1) : n + j < RingSize => new.buf[n] = rb.buf[n + j]
    BY <1>1 DEF AdvanceGet
<1> HIDE DEF new
<1>4. Len(u) = Len(w) + rb.len - k
    BY DEF Holds
<1>5. \A i \in 1..Len(u) :
        u[i] = IF i <= Len(w) THEN w[i] ELSE new.buf[i - Len(w) - 1 + (k - j)]
  <2> TAKE i \in 1..Len(u)
  <2>1. u[i] = IF i <= Len(w) THEN w[i] ELSE rb.buf[i - Len(w) - 1 + k]
      BY DEF Holds
  <2>2. CASE ~(i <= Len(w))
    <3> DEFINE n == i - Len(w) - 1 + (k - j)
    <3>1. n \in 0..(RingSize - 1) /\ n + j < RingSize /\ n + j = i - Len(w) - 1 + k
        BY <1>1, <1>4, <2>2
    <3> HIDE DEF n
    <3>2. new.buf[n] = rb.buf[i - Len(w) - 1 + k]
        BY <1>3, <3>1
    <3> QED
        BY <2>1, <2>2, <3>2 DEF n
  <2> QED
      BY <2>1, <2>2
<1>6. Len(u) = Len(w) + new.len - (k - j)
    BY <1>1, <1>2, <1>4
<1>7. Holds(w, new, k - j, u)
    BY <1>5, <1>6 DEF Holds
<1> QED
    BY <1>7 DEF new

\* The broker reads the first n cells.
LEMMA HoldsRead ==
  ASSUME NEW rb \in Ring, NEW w \in Seq(CellSet), NEW u, NEW k \in Nat, k <= rb.len,
         NEW n \in Nat, n <= Len(w), Holds(w, rb, k, u)
  PROVE  Holds(SubSeq(w, n + 1, Len(w)), rb, k, SubSeq(u, n + 1, Len(u)))
<1> DEFINE x == SubSeq(w, n + 1, Len(w))
           v == SubSeq(u, n + 1, Len(u))
<1>1. rb.len \in Nat /\ Len(w) \in Nat /\ Len(u) \in Nat /\ Len(u) = Len(w) + rb.len - k
    BY ContentIs DEF Holds
<1>2. Len(x) = Len(w) - n /\ \A i \in 1..(Len(w) - n) : x[i] = w[n + i]
    BY <1>1, PartIs
<1>3. /\ v \in Seq(CellSet) /\ Len(v) = Len(u) - n
      /\ \A i \in 1..(Len(u) - n) : v[i] = u[n + i]
  <2>1. n <= Len(u) /\ u \in Seq(CellSet)
      BY <1>1 DEF Holds
  <2>2. Len(u) \in Nat /\ Len(u) <= Len(u)
      BY <1>1
  <2> QED
      BY <2>1, <2>2, PartIs
<1> HIDE DEF x, v
<1>4. \A i \in 1..Len(v) : v[i] = IF i <= Len(x) THEN x[i] ELSE rb.buf[i - Len(x) - 1 + k]
  <2> TAKE i \in 1..Len(v)
  <2>1. n + i \in 1..Len(u)
      BY <1>1, <1>3
  <2>2. u[n + i] = IF n + i <= Len(w) THEN w[n + i] ELSE rb.buf[(n + i) - Len(w) - 1 + k]
      BY <2>1 DEF Holds
  <2> DEFINE a == Len(w)
             b == Len(x)
  <2>6. a \in Nat /\ b = a - n /\ i \in Nat
      BY <1>1, <1>2, <1>3
  <2> HIDE DEF a, b
  <2>7. (n + i <= a <=> i <= b) /\ (n + i) - a - 1 + k = i - b - 1 + k
      BY <2>6
  <2>3. (n + i <= Len(w) <=> i <= Len(x)) /\ (n + i) - Len(w) - 1 + k = i - Len(x) - 1 + k
      BY <2>7 DEF a, b
  <2>4. i <= Len(x) => x[i] = w[n + i]
    <3>1. i <= Len(x) => i \in 1..(Len(w) - n)
        BY <1>1, <1>2
    <3> QED
        BY <1>2, <3>1
  <2>5. v[i] = u[n + i]
      BY <1>1, <1>3
  <2> QED
      BY <2>2, <2>3, <2>4, <2>5
<1>5. Len(v) = Len(x) + rb.len - k
    BY <1>1, <1>2, <1>3
<1>6. Holds(x, rb, k, v)
    BY <1>3, <1>4, <1>5 DEF Holds
<1> QED
    BY <1>6 DEF x, v

\* Nothing has gone wrong with the ring; the connection is still to come, or is there.
Calm == "ring" \notin raced /\ ~lost
Live == tcp # "closed" \/ srv.pc \in {"start", "connect"}

\* What a thread has written and not yet advanced the ring by is at the front of
\* the ring, and the broker is to read the wire and the rest.
Owed == /\ srv.k + tp.k <= output.len
        /\ Live => Holds(wire, output, srv.k + tp.k, unsent)

StreamInv ==
  /\ srv.pc # "advance" => srv.k = 0
  /\ tp.pc # "advance" => tp.k = 0
  /\ Calm => Owed

\* A thread has written something only while it is at its advance.
LEMMA KStep ==
  ASSUME Locals, StreamInv, [MqttNext]_mqttVars
  PROVE  /\ srv'.pc # "advance" => srv'.k = 0
         /\ tp'.pc # "advance" => tp'.k = 0
<1> USE DEF Locals, StreamInv, Goto
<1>1. srv'.pc # "advance" => srv'.k = 0
  <2>1. CASE srv' = srv
      BY <2>1
  <2>2. CASE SrvNext
      BY <2>2 DEF SrvNext, SrvStart, SrvConnect, SrvSetErr, SrvSetState, SrvAppend, SrvWait,
         SrvPublish, SrvWalk, SrvLink, SrvSend, SrvAdvance
  <2>3. srv' = srv \/ SrvNext
      BY DEF MqttNext, mqttVars, TpInside, TpAdvance, TpUnchain, TpFinish, TpHandles, TcpSent,
         TcpPoll, RecvConnack, RecvAck, RecvPublish, RecvPingresp, RecvCut, RecvFin, TcpConnected,
         TcpAborts, CyclicTimer, Broker, BrokerReads, BrokerPublishes
  <2> QED
      BY <2>1, <2>2, <2>3
<1>2. tp'.pc # "advance" => tp'.k = 0
  <2>1. CASE tp' = tp
      BY <2>1
  <2>2. CASE TpInside
    <3>1. TpUnchain => tp'.k = 0
        BY DEF TpUnchain
    <3>2. TpAdvance \/ TpFinish => tp'.k = 0
        BY DEF TpAdvance, TpFinish, TpIdle
    <3> QED
        BY <2>2, <3>1, <3>2 DEF TpInside
  <2>3. CASE RecvAck
      BY <2>3 DEF RecvAck, TpIdle
  <2>4. CASE TcpSent \/ TcpPoll \/ RecvConnack \/ RecvPublish \/ TcpConnected
      BY <2>1, <2>4, TpWriteIs
         DEF TcpSent, TcpPoll, RecvConnack, Subscribe, RecvPublish, TcpConnected
  <2>5. \/ tp' = tp \/ TpInside \/ RecvAck
        \/ TcpSent \/ TcpPoll \/ RecvConnack \/ RecvPublish \/ TcpConnected
      BY DEF MqttNext, mqttVars, SrvNext, SrvStart, SrvConnect, SrvSetErr, SrvSetState, SrvAppend,
         SrvWait, SrvPublish, SrvWalk, SrvLink, SrvSend, SrvAdvance, TpHandles, RecvPingresp,
         RecvCut, RecvFin, TcpAborts, CyclicTimer, Broker, BrokerReads, BrokerPublishes
  <2> QED
      BY <2>1, <2>2, <2>3, <2>4, <2>5
<1> QED
    BY <1>1, <1>2

\* A race and a loss are not forgotten, and a closed connection is not reopened.
LEMMA CalmStep ==
  ASSUME Locals, EarlyInv, [MqttNext]_mqttVars
  PROVE  (Calm' => Calm) /\ (Live' => Live)
<1> USE DEF Locals, Goto
<1>1. "ring" \in raced => "ring" \in raced'
    BY DEF MqttNext, mqttVars, SrvNext, SrvStart, SrvConnect, SrvSetErr, SrvSetState, SrvAppend,
       SrvWait, SrvPublish, SrvWalk, SrvLink, SrvSend, SrvAdvance, TpInside, TpAdvance, TpUnchain,
       TpFinish, TpHandles, TcpSent, TcpPoll, RecvConnack, Subscribe, RecvAck, RecvPublish,
       RecvPingresp, RecvCut, RecvFin, TcpConnected, TcpAborts, CyclicTimer, ConnectTick,
       ConnectedTick, StrayTick, Broker, BrokerReads, BrokerPublishes, netVars
<1>2. lost => lost'
    BY DEF MqttNext, mqttVars, outVars, SrvNext, SrvStart, SrvConnect, SrvSetErr, SrvSetState,
       SrvAppend, SrvWait, SrvPublish, SrvWalk, SrvLink, SrvSend, SrvAdvance, TpInside, TpAdvance,
       TpUnchain, TpFinish, TpHandles, TcpSent, TcpPoll, RecvConnack, Subscribe, RecvAck,
       RecvPublish, RecvPingresp, RecvCut, RecvFin, TcpConnected, TcpAborts, CyclicTimer,
       ConnectTick, ConnectedTick, StrayTick, Broker, BrokerReads, BrokerPublishes, Put
<1>3. Live' => Live
  <2>1. CASE SrvNext
      BY <2>1 DEF SrvNext, SrvStart, SrvConnect, SrvSetErr, SrvSetState, SrvAppend, SrvWait,
         SrvPublish, SrvWalk, SrvLink, SrvSend, SrvAdvance, netVars, Live
  <2>2. CASE TcpConnected
      BY <2>2 DEF TcpConnected, Live
  <2>3. CASE ~SrvNext /\ ~TcpConnected
    <3>1. srv' = srv
        BY <2>3 DEF MqttNext, mqttVars, TpInside, TpAdvance, TpUnchain, TpFinish, TpHandles, TcpSent,
           TcpPoll, RecvConnack, RecvAck, RecvPublish, RecvPingresp, RecvCut, RecvFin, TcpAborts,
           CyclicTimer, Broker, BrokerReads, BrokerPublishes
    <3>2. tcp' = tcp \/ tcp' = "closed"
        BY <2>3 DEF MqttNext, mqttVars, TpInside, TpAdvance, TpUnchain, TpFinish, TpHandles, TcpSent,
           TcpPoll, RecvConnack, RecvAck, RecvPublish, RecvPingresp, RecvCut, RecvFin, TcpAborts,
           CyclicTimer, ConnectTick, ConnectedTick, StrayTick, Broker, BrokerReads, BrokerPublishes,
           Close, netVars
    <3> QED
        BY <3>1, <3>2 DEF Live
  <2> QED
      BY <2>1, <2>2, <2>3
<1> QED
    BY <1>1, <1>2, <1>3 DEF Calm

\* One cell more is in the ring and owed.
LEMMA PutOwed ==
  ASSUME StreamTypes, Owed, NEW cell \in CellSet, Put(cell), ~lost', "ring" \notin raced
  PROVE  /\ output' \in Ring /\ srv.k + tp.k <= output'.len
         /\ Owe(cell) => (Live => Holds(wire, output', srv.k + tp.k, unsent'))
<1>1. /\ output \in Ring /\ wire \in Seq(CellSet) /\ srv.k + tp.k \in Nat
      /\ srv.k + tp.k <= output.len /\ output.len \in Nat
    BY ContentIs DEF StreamTypes, Owed
<1>2. /\ output' \in Ring /\ output'.len = output.len + 1
      /\ output'.buf[output.len] = cell
      /\ \A n \in 0..(output.len - 1) : output'.buf[n] = output.buf[n]
    BY <1>1, PutIs
<1>3. ASSUME Owe(cell), Live PROVE Holds(wire, output', srv.k + tp.k, unsent')
  <2>1. unsent' = Append(unsent, cell) /\ Holds(wire, output, srv.k + tp.k, unsent)
      BY <1>3 DEF Owe, Owed
  <2> QED
      BY <1>1, <1>2, <2>1, HoldsPut
<1>4. srv.k + tp.k <= output'.len
    BY <1>1, <1>2
<1> QED
    BY <1>2, <1>3, <1>4

\* The tcpip_thread sends from a ring rb that nobody else is sending from.
LEMMA TpSends ==
  ASSUME StreamTypes, StreamInv, NEW rb \in Ring, tp.k = 0, srv.k <= rb.len, NEW u,
         Live => Holds(wire, rb, srv.k, u), NEW k \in Writes(rb, wire),
         "ring" \notin raced', SendRace(k) \subseteq raced', NEW w,
         w = wire \o SubSeq(Content(rb), 1, k)
  PROVE  srv.k + k <= rb.len /\ (Live => Holds(w, rb, srv.k + k, u))
<1>1. wire \in Seq(CellSet) /\ srv.k \in Nat /\ k \in Nat /\ k <= rb.len
    BY WritesIn DEF StreamTypes
<1>2. CASE k = 0
  <2>1. w = wire /\ srv.k + k = srv.k
      BY <1>1, <1>2, SendNothing
  <2> QED
      BY <2>1
<1>3. CASE k # 0
  <2>1. srv.pc # "advance"
      BY <1>1, <1>3 DEF SendRace
  <2>2. srv.k = 0 /\ srv.k + k = k
      BY <1>1, <2>1 DEF StreamInv
  <2> QED
      BY <1>1, <2>2, HoldsSend
<1> QED
    BY <1>2, <1>3

\* What is owed stays owed in every step, as long as nothing goes wrong.
LEMMA OwedStep ==
  ASSUME Locals, EarlyInv, SeqInv, StreamTypes, StreamInv, [MqttNext]_mqttVars, Calm'
  PROVE  Owed'
<1>1. Calm /\ Owed /\ (Live' => Live) /\ "ring" \notin raced /\ ~lost' /\ "ring" \notin raced'
    BY CalmStep DEF StreamInv, Calm
<1>2. /\ output \in Ring /\ wire \in Seq(CellSet) /\ srv.k \in Nat /\ tp.k \in Nat
      /\ srv.k + tp.k <= output.len /\ output.len \in Nat
      /\ Live => Holds(wire, output, srv.k + tp.k, unsent)
    BY <1>1, ContentIs DEF StreamTypes, Owed
<1> DEFINE Same == /\ output' = output /\ wire' = wire /\ unsent' = unsent
                   /\ srv'.k = srv.k /\ tp'.k = tp.k
           Ended == /\ tcp' = "closed" /\ output' = output /\ srv' = srv /\ tp'.k = tp.k
                    /\ srv.pc \notin {"start", "connect"}
<1>3. ASSUME Same PROVE Owed'
    BY <1>1, <1>2, <1>3 DEF Owed
<1>4. ASSUME Ended PROVE Owed'
    BY <1>1, <1>2, <1>4 DEF Owed, Live
<1>5. ASSUME tp.k = 0, srv' = srv, output' \in Ring, srv.k <= output'.len,
             Live => Holds(wire, output', srv.k, unsent'),
             NEW k \in Writes(output', wire), wire' = wire \o SubSeq(Content(output'), 1, k),
             tp'.k = k, SendRace(k) \subseteq raced'
      PROVE  Owed'
  <2>1. /\ srv.k + k <= output'.len
        /\ Live => Holds(wire', output', srv.k + k, unsent')
      BY <1>1, <1>5, TpSends
  <2> QED
      BY <1>1, <1>5, <2>1 DEF Owed
<1>6. \A k, release : TpWrite(k, release) => tp'.k = k
    BY DEF TpWrite, TpIdle
<1>7. Idle => tp.k = 0
    BY DEF StreamInv, Idle
<1>8. CASE UNCHANGED mqttVars
    BY <1>3, <1>8 DEF mqttVars, netVars, outVars
<1>9. CASE SrvNext
  <2> USE DEF Locals, Goto
  <2>1. CASE SrvStart \/ SrvConnect \/ SrvSetErr \/ SrvSetState \/ SrvWait \/ SrvPublish \/ SrvWalk
             \/ SrvLink
    <3>1. Same
        BY <2>1 DEF SrvStart, SrvConnect, SrvSetErr, SrvSetState, SrvWait, SrvPublish, SrvWalk,
           SrvLink, netVars, outVars
    <3> QED
        BY <1>3, <3>1
  <2>2. CASE SrvAppend
    <3>1. Put(Head(srv.todo)) /\ Owe(Head(srv.todo)) /\ Head(srv.todo) \in CellSet
        BY <2>2 DEF SrvAppend, StreamTypes
    <3>2. srv'.k = srv.k /\ tp' = tp /\ wire' = wire
        BY <2>2 DEF SrvAppend, netVars
    <3>3. /\ srv.k + tp.k <= output'.len
          /\ Live => Holds(wire, output', srv.k + tp.k, unsent')
        BY <1>1, <3>1, PutOwed
    <3> QED
        BY <1>1, <3>2, <3>3 DEF Owed
  <2>3. CASE SrvSend
    <3>1. PICK k \in Writes(output, wire) :
            /\ wire' = wire \o SubSeq(Content(output), 1, k) /\ srv'.k = k
            /\ tp.pc = "advance" /\ k > 0 => "ring" \in raced'
        BY <2>3 DEF SrvSend, Write
    <3>2. output' = output /\ unsent' = unsent /\ tp' = tp /\ srv.k = 0
        BY <2>3 DEF SrvSend, outVars, StreamInv
    <3>3. k \in Nat /\ k <= output.len
        BY <1>2, WritesIn
    <3>4. CASE k = 0
      <4>1. wire' = wire
          BY <1>2, <3>1, <3>4, SendNothing
      <4> QED
          BY <1>3, <3>1, <3>2, <3>4, <4>1
    <3>5. CASE k # 0
      <4>1. tp.k = 0
          BY <1>1, <3>1, <3>3, <3>5 DEF StreamInv
      <4>2. Live => Holds(wire', output, k, unsent)
          BY <1>2, <3>1, <3>2, <3>3, <4>1, HoldsSend
      <4>3. k + 0 = k
          BY <3>3
      <4> QED
          BY <1>1, <3>1, <3>2, <3>3, <4>1, <4>2, <4>3 DEF Owed
    <3> QED
        BY <3>4, <3>5
  <2>4. CASE SrvAdvance
    <3>1. /\ output' = AdvanceGet(output, srv.k) /\ wire' = wire /\ unsent' = unsent
          /\ srv'.k = 0 /\ tp' = tp
        BY <2>4 DEF SrvAdvance, netVars
    <3>2. /\ AdvanceGet(output, srv.k).len = output.len - srv.k
          /\ Live => Holds(wire, AdvanceGet(output, srv.k), (srv.k + tp.k) - srv.k, unsent)
      <4>1. srv.k + tp.k \in Nat /\ srv.k <= srv.k + tp.k
          BY <1>2
      <4>2. srv.k <= output.len
          BY <1>2
      <4>3. AdvanceGet(output, srv.k).len = output.len - srv.k
          BY <1>2, <4>2, AdvanceLen
      <4> QED
          BY <1>2, <4>1, <4>3, HoldsAdvance
    <3>3. (srv.k + tp.k) - srv.k = 0 + tp.k /\ 0 + tp.k <= output.len - srv.k
        BY <1>2
    <3> QED
        BY <1>1, <3>1, <3>2, <3>3 DEF Owed
  <2> QED
      BY <1>9, <2>1, <2>2, <2>3, <2>4 DEF SrvNext
<1>10. CASE TpAdvance
  <2>1. /\ output' = AdvanceGet(output, tp.k) /\ wire' = wire /\ unsent' = unsent
        /\ tp'.k = 0 /\ srv' = srv
      BY <1>10 DEF TpAdvance, TpIdle, netVars
  <2>2. /\ AdvanceGet(output, tp.k).len = output.len - tp.k
        /\ Live => Holds(wire, AdvanceGet(output, tp.k), (srv.k + tp.k) - tp.k, unsent)
    <3>1. srv.k + tp.k \in Nat /\ tp.k <= srv.k + tp.k
        BY <1>2
    <3>2. tp.k <= output.len
        BY <1>2
    <3>3. AdvanceGet(output, tp.k).len = output.len - tp.k
        BY <1>2, <3>2, AdvanceLen
    <3> QED
        BY <1>2, <3>1, <3>3, HoldsAdvance
  <2>3. (srv.k + tp.k) - tp.k = srv.k + 0 /\ srv.k + 0 <= output.len - tp.k
      BY <1>2
  <2> QED
      BY <1>1, <2>1, <2>2, <2>3 DEF Owed
<1>11. CASE TpUnchain \/ TpFinish
  <2>1. tp.k = 0 /\ tp'.k = 0
    <3>1. tp.k = 0
        BY <1>11 DEF TpUnchain, TpFinish, StreamInv
    <3>2. TpUnchain => tp'.k = tp.k
        BY DEF TpUnchain, Locals
    <3>3. TpFinish => tp'.k = 0
        BY DEF TpFinish, TpIdle
    <3> QED
        BY <1>11, <3>1, <3>2, <3>3
  <2>2. Same
      BY <1>11, <2>1 DEF TpUnchain, TpFinish, netVars, outVars
  <2> QED
      BY <1>3, <2>2
<1>12. CASE TcpConnected \/ TcpPoll \/ TcpSent
  <2>1. tp.k = 0 /\ output' = output /\ unsent' = unsent /\ srv' = srv
      BY <1>7, <1>12 DEF TcpConnected, TcpPoll, TcpSent, outVars
  <2>2. CASE Same
      BY <1>3, <2>2
  <2>3. CASE \E k \in Writes(output, wire) :
                /\ wire' = wire \o SubSeq(Content(output), 1, k)
                /\ tp'.k = k /\ SendRace(k) \subseteq raced'
    <3>1. srv.k + 0 = srv.k
        BY <1>2
    <3> QED
        BY <1>2, <1>5, <2>1, <2>3, <3>1
  <2> QED
      BY <1>6, <1>12, <2>1, <2>2, <2>3 DEF TcpConnected, TcpPoll, TcpSent, Write
<1>13. ASSUME NEW kind \in {"SUBSCRIBE", "PUBACK"}, NEW i \in Ids \cup {0}, Idle, srv' = srv,
              Put(<<kind, i, 1>>), Owe(<<kind, i, 1>>),
              NEW k \in Writes(output', wire), Write(output', k), tp'.k = k,
              SendRace(k) \subseteq raced'
       PROVE  Owed'
  <2>1. <<kind, i, 1>> \in CellSet
      BY CellsIn DEF Kinds
  <2>2. tp.k = 0 /\ srv.k + tp.k = srv.k
      BY <1>2, <1>7, <1>13
  <2>3. /\ output' \in Ring /\ srv.k <= output'.len
        /\ Live => Holds(wire, output', srv.k, unsent')
      BY <1>1, <1>13, <2>1, <2>2, PutOwed
  <2> QED
      BY <1>5, <1>13, <2>2, <2>3 DEF Write
<1>14. CASE RecvPublish
  <2>1. Idle /\ srv' = srv
      BY <1>14 DEF RecvPublish, Receives
  <2>2. CASE CheckSpace(output, "PUBACK")
    <3>1. PICK k \in Writes(output', wire) :
            Write(output', k) /\ tp'.k = k /\ SendRace(k) \subseteq raced'
        BY <1>6, <1>14, <2>2 DEF RecvPublish
    <3>2. Put(<<"PUBACK", 0, 1>>) /\ Owe(<<"PUBACK", 0, 1>>)
        BY <1>14, <2>2 DEF RecvPublish
    <3> QED
        BY <1>13, <2>1, <3>1, <3>2
  <2>3. CASE ~CheckSpace(output, "PUBACK")
      BY <1>3, <1>14, <2>3 DEF RecvPublish, outVars
  <2> QED
      BY <2>2, <2>3
<1>15. CASE RecvConnack
  <2>1. Idle /\ srv' = srv /\ tcp = "open"
      BY <1>15 DEF RecvConnack, Receives
  <2>2. CASE connState = "MQTT_CONNECTING" /\ Subscribe
    <3>1. pktIdSeq + 1 \in Ids
        BY <2>2, MqttAssumption DEF SeqInv, Early, Ids
    <3>2. CASE FreeSlots(reqs) # {} /\ CheckSpace(output, "SUBSCRIBE")
      <4>1. PICK k \in Writes(output', wire) :
              Write(output', k) /\ tp'.k = k /\ SendRace(k) \subseteq raced'
          BY <1>6, <2>2, <3>2 DEF Subscribe
      <4>2. Put(<<"SUBSCRIBE", pktIdSeq + 1, 1>>) /\ Owe(<<"SUBSCRIBE", pktIdSeq + 1, 1>>)
          BY <2>2, <3>2 DEF Subscribe
      <4> QED
          BY <1>13, <2>1, <3>1, <4>1, <4>2
    <3>3. CASE ~(FreeSlots(reqs) # {} /\ CheckSpace(output, "SUBSCRIBE"))
        BY <1>3, <2>1, <2>2, <3>3 DEF Subscribe, outVars
    <3> QED
        BY <3>2, <3>3
  <2>3. CASE Same
      BY <1>3, <2>3
  <2>4. CASE tcp' = "closed" /\ output' = output /\ tp' = tp
    <3>1. srv.pc \notin {"start", "connect"}
        BY <2>1 DEF EarlyInv
    <3> QED
        BY <1>4, <2>1, <2>4, <3>1
  <2> QED
      BY <1>15, <2>1, <2>2, <2>3, <2>4 DEF RecvConnack, Close, outVars
<1>16. CASE RecvAck \/ RecvPingresp \/ BrokerPublishes
  <2>1. RecvAck => tp.k = 0 /\ tp'.k = 0
      BY <1>7 DEF RecvAck, Receives, TpIdle
  <2>2. output' = output /\ wire' = wire /\ unsent' = unsent /\ srv' = srv /\ (tp' = tp \/ RecvAck)
      BY <1>16 DEF RecvAck, RecvPingresp, BrokerPublishes, outVars
  <2>3. Same
      BY <2>1, <2>2
  <2> QED
      BY <1>3, <2>3
<1>17. CASE RecvCut \/ RecvFin \/ TcpAborts
  <2>1. tcp # "closed" /\ tcp' = "closed" /\ output' = output /\ srv' = srv /\ tp' = tp
      BY <1>17 DEF RecvCut, RecvFin, TcpAborts, Receives, Close
  <2>2. Ended
      BY <2>1 DEF EarlyInv
  <2> QED
      BY <1>4, <2>2
<1>18. CASE CyclicTimer
  <2>1. srv' = srv /\ tp' = tp
      BY <1>18 DEF CyclicTimer
  <2>2. CASE StrayTick
      BY <1>3, <2>1, <2>2 DEF StrayTick, netVars, outVars
  <2>3. CASE ConnectTick
    <3>1. srv.pc \notin {"start", "connect"}
        BY <2>3 DEF ConnectTick, EarlyInv
    <3>2. output' = output /\ (tcp' = "closed" \/ Same)
        BY <2>1, <2>3 DEF ConnectTick, Close
    <3> QED
        BY <1>3, <1>4, <2>1, <3>1, <3>2
  <2>4. CASE ConnectedTick
    <3>1. srv.pc \notin {"start", "connect"}
        BY <2>4 DEF ConnectedTick, EarlyInv
    <3>2. CASE output' = output /\ (tcp' = "closed" \/ (wire' = wire /\ unsent' = unsent))
        BY <1>3, <1>4, <2>1, <3>1, <3>2
    <3>3. CASE /\ Put(<<"PINGREQ", 0, 1>>)
               /\ tcp' = "closed" \/ (wire' = wire /\ Owe(<<"PINGREQ", 0, 1>>))
      <4>1. <<"PINGREQ", 0, 1>> \in CellSet
          BY CellsIn DEF Kinds
      <4>2. /\ srv.k + tp.k <= output'.len
            /\ Owe(<<"PINGREQ", 0, 1>>) => (Live => Holds(wire, output', srv.k + tp.k, unsent'))
          BY <1>1, <3>3, <4>1, PutOwed
      <4>3. tcp' = "closed" => ~Live'
          BY <2>1, <3>1 DEF Live
      <4> QED
          BY <1>1, <2>1, <3>3, <4>2, <4>3 DEF Owed
    <3>4. \/ output' = output /\ (tcp' = "closed" \/ (wire' = wire /\ unsent' = unsent))
          \/ /\ Put(<<"PINGREQ", 0, 1>>)
             /\ tcp' = "closed" \/ (wire' = wire /\ Owe(<<"PINGREQ", 0, 1>>))
      <4> DEFINE ping == ((cyclicTick + 1) * Interval >= KeepAlive /\ CheckSpace(output, "PINGREQ"))
                          /\ budget.unasked > 0
      <4>1. (ping => Put(<<"PINGREQ", 0, 1>>)) /\ (~ping => output' = output)
          BY <2>4 DEF ConnectedTick
      <4>2. CASE tcp' = "closed"
        <5> HIDE DEF ping
        <5>1. CASE ping
            BY <4>1, <4>2, <5>1
        <5>2. CASE ~ping
            BY <4>1, <4>2, <5>2
        <5> QED
            BY <5>1, <5>2
      <4>3. CASE /\ wire' = wire
                 /\ (ping => Owe(<<"PINGREQ", 0, 1>>)) /\ (~ping => unsent' = unsent)
        <5> HIDE DEF ping
        <5>1. CASE ping
            BY <4>1, <4>3, <5>1
        <5>2. CASE ~ping
            BY <4>1, <4>3, <5>2
        <5> QED
            BY <5>1, <5>2
      <4> QED
          BY <2>4, <4>2, <4>3 DEF ConnectedTick, Close
    <3> QED
        BY <3>2, <3>3, <3>4
  <2> QED
      BY <1>18, <2>2, <2>3, <2>4 DEF CyclicTimer
<1>19. CASE BrokerReads
  <2> DEFINE n == Size(Head(wire)[1])
  <2>1. /\ output' = output /\ srv' = srv /\ tp' = tp /\ n <= Len(wire)
        /\ wire' = SubSeq(wire, n + 1, Len(wire)) /\ unsent' = SubSeq(unsent, n + 1, Len(unsent))
      BY <1>19 DEF BrokerReads
  <2>2. n \in Nat
      BY DEF Size
  <2> HIDE DEF n
  <2>3. srv.k + tp.k \in Nat
      BY <1>2
  <2>4. Live => Holds(wire', output, srv.k + tp.k, unsent')
      BY <1>2, <2>1, <2>2, <2>3, HoldsRead
  <2> QED
      BY <1>1, <1>2, <2>1, <2>4 DEF Owed
<1> QED
    BY <1>8, <1>9, <1>10, <1>11, <1>12, <1>14, <1>15, <1>16, <1>17, <1>18, <1>19
       DEF MqttNext, TpInside, TpHandles, Broker

\* At first the ring and the wire are empty, and nothing is owed.
LEMMA StreamInit == MqttInit => StreamInv
<1> SUFFICES ASSUME MqttInit PROVE StreamInv
    OBVIOUS
<1>1. /\ srv.k = 0 /\ tp.k = 0 /\ output.len = 0 /\ wire = <<>> /\ unsent = <<>>
    BY DEF MqttInit, SrvIdle, TpIdle, EmptyRing
<1>2. Holds(<<>>, output, 0, <<>>)
  <2>1. Len(<<>>) = 0 /\ <<>> \in Seq(CellSet) /\ 1..0 = {}
      OBVIOUS
  <2> QED
      BY <1>1, <2>1 DEF Holds
<1>3. 0 + 0 = 0 /\ 0 <= 0
    OBVIOUS
<1> QED
    BY <1>1, <1>2, <1>3 DEF StreamInv, Owed

\* Read as sequences, the invariant is StreamIntact.
LEMMA StreamGives == StreamTypes /\ StreamInv => StreamIntact
<1> SUFFICES ASSUME StreamTypes, StreamInv, tcp = "open", Calm
             PROVE  wire \o SubSeq(Content(output), srv.k + tp.k + 1, output.len) = unsent
    BY DEF StreamIntact, Calm
<1>1. /\ output \in Ring /\ wire \in Seq(CellSet) /\ srv.k + tp.k \in Nat
      /\ srv.k + tp.k <= output.len /\ Holds(wire, output, srv.k + tp.k, unsent)
    BY DEF StreamTypes, StreamInv, Owed, Live
<1> QED
    BY <1>1, HoldsGives

\* For any size of the ring and of TCP's send buffer, and any interleaving of the
\* two threads and the broker: as long as they have not been inside one half of
\* the ring at once and the ring was not filled exactly, what TCP got and what is
\* left in the ring is what was put there, in order, each part once (mqtt.c:184,
\* 201, 234).
THEOREM StreamIntactCorrect == MqttSpec => []StreamIntact
<1> DEFINE All == WalksInv /\ SeqInv /\ StreamTypes /\ StreamInv
<1>1. MqttInit => All
    BY WalksInit, ReqInitCorrect, StreamInit
<1>2. All /\ [MqttNext]_mqttVars => All'
  <2> SUFFICES ASSUME All, [MqttNext]_mqttVars PROVE All'
      OBVIOUS
  <2>1. WalksInv' /\ SeqInv' /\ StreamTypes'
      BY WalksStep, SeqStep, StreamStep DEF WalksInv
  <2>2. StreamInv'
      BY KStep, OwedStep DEF WalksInv, StreamInv
  <2> QED
      BY <2>1, <2>2
<1>3. All => StreamIntact
    BY StreamGives
<1> QED
    BY <1>1, <1>2, <1>3, PTL DEF MqttSpec

-----------------------------------------------------------------------------
(* When requests expire: TableSound *)

\* What the history says is left of the time of a request, and of each queued one.
Left(i) == Max({ReqTimeout - age[i], 0})
Due == [s \in Queued(reqs) |-> Left(reqs.id[s])]

\* The differences, when a request that was taken has left its own to the next.
Diffs ==
  [s \in Slots |-> IF tp.pc = "finish" /\ s = reqs.next[tp.slot]
                   THEN reqs.diff[s] + reqs.diff[tp.slot] ELSE reqs.diff[s]]

\* What srv_conn's walk has added up is the time of the item it has come to.
WalkSum ==
  /\ srv.head = NULL => srv.sum = 0 /\ srv.iter = reqs.queue
  /\ srv.head # NULL => /\ srv.head \in Queued(reqs) /\ srv.sum = Due[srv.head]
                        /\ srv.iter = reqs.next[srv.head]

Usable == conn = "pcb" \/ srv.pc \in {"start", "connect"}
Held == {srv.slot, tp.slot} \ {NULL}

\* A request that is not made yet has no age; who is not in the middle of
\* something holds no slot.
AgeInv ==
  /\ age \in [Ids -> Nat]
  /\ \A i \in Ids : outcome[i] = "none" => age[i] = 0
  /\ tp.pc \notin {"unchain", "finish"} => tp.slot = NULL
  /\ srv.pc \notin {"append", "walk", "link", "spin"} => srv.slot = NULL
  /\ Dated(reqs)

\* The differences add up to what the history says; no slot is lost.
TimesInv ==
  /\ Timed(reqs, Diffs, Due)
  /\ \A s \in Queued(reqs) : reqs.diff[s] \in Nat
  /\ tp.pc = "finish" => reqs.diff[tp.slot] \in Nat
  /\ srv.pc \in {"walk", "link"} /\ tp.pc # "finish" => WalkSum
  /\ Usable => FreeSlots(reqs) = Slots \ (Queued(reqs) \cup Held)

DueInv == AgeInv /\ ("table" \notin raced => TimesInv)

\* A race is not forgotten.
LEMMA RacedKeeps == ASSUME [MqttNext]_mqttVars PROVE "table" \in raced => "table" \in raced'
    BY DEF MqttNext, mqttVars, SrvNext, SrvStart, SrvConnect, SrvSetErr, SrvSetState, SrvAppend,
       SrvWait, SrvPublish, SrvWalk, SrvLink, SrvSend, SrvAdvance, TpInside, TpAdvance, TpUnchain,
       TpFinish, TpHandles, TcpSent, TcpPoll, RecvConnack, Subscribe, RecvAck, RecvPublish,
       RecvPingresp, RecvCut, RecvFin, TcpConnected, TcpAborts, CyclicTimer, ConnectTick,
       ConnectedTick, StrayTick, Broker, BrokerReads, BrokerPublishes, netVars

\* The larger of two numbers.
LEMMA MaxIs == ASSUME NEW a \in Int, NEW b \in Int PROVE Max({a, b}) = IF a >= b THEN a ELSE b
<1>1. \E m \in {a, b} : \A y \in {a, b} : m >= y
    OBVIOUS
<1>2. Max({a, b}) \in {a, b} /\ \A y \in {a, b} : Max({a, b}) >= y
    BY <1>1 DEF Max
<1> QED
    BY <1>2

\* And the smaller.
LEMMA MinIs == ASSUME NEW a \in Int, NEW b \in Int PROVE Min({a, b}) = IF a <= b THEN a ELSE b
<1>1. \E m \in {a, b} : \A y \in {a, b} : m <= y
    OBVIOUS
<1>2. Min({a, b}) \in {a, b} /\ \A y \in {a, b} : Min({a, b}) <= y
    BY <1>1 DEF Min
<1> QED
    BY <1>2

\* What is left is no more than the timeout.
LEMMA LeftIs ==
  ASSUME age \in [Ids -> Nat], NEW i \in Ids
  PROVE  /\ Left(i) = IF ReqTimeout >= age[i] THEN ReqTimeout - age[i] ELSE 0
         /\ Left(i) \in 0..ReqTimeout /\ Left(i) \in Nat
         /\ age[i] = 0 => Left(i) = ReqTimeout
<1>1. age[i] \in Nat /\ ReqTimeout \in Nat
    BY MqttAssumption
<1>2. ReqTimeout - age[i] \in Int
    BY <1>1
<1>3. Left(i) = IF ReqTimeout - age[i] >= 0 THEN ReqTimeout - age[i] ELSE 0
    BY <1>2, MaxIs DEF Left
<1> QED
    BY <1>1, <1>3

\* So each queued request is due in a time the differences can hold.
LEMMA DueIs ==
  ASSUME WalksInv, ReqInv, AgeInv
  PROVE  \A s \in Queued(reqs) : /\ s \in Slots /\ reqs.id[s] \in Ids
                                 /\ Due[s] = Left(reqs.id[s])
                                 /\ Due[s] \in 0..ReqTimeout /\ Due[s] \in Nat
<1>1. Sound(reqs) /\ age \in [Ids -> Nat]
    BY DEF WalksInv, TableInv, AgeInv
<1>2. \A s \in Queued(reqs) : s \in Slots /\ reqs.id[s] \in Ids /\ Due[s] = Left(reqs.id[s])
    BY <1>1, QueuedBusy DEF ReqInv, Due
<1> QED
    BY <1>1, <1>2, LeftIs

\* The ages: the timer counts them, and the close clears them.
LEMMA AgeStep ==
  ASSUME Locals, ReqInv, AgeInv, [MqttNext]_mqttVars
  PROVE  /\ age' \in [Ids -> Nat]
         /\ \A i \in Ids : outcome'[i] = "none" => age'[i] = 0
<1>1. \/ age' = age /\ \A i \in Ids : outcome'[i] = "none" => outcome[i] = "none"
      \/ age' = [i \in Ids |-> 0]
      \/ age' = [i \in Ids |-> IF outcome'[i] = "pending"
                               THEN Min({age[i] + Interval, ReqTimeout + Interval}) ELSE 0]
  <2>1. CASE UNCHANGED mqttVars
      BY <2>1 DEF mqttVars, reqHistory
  <2>2. CASE SrvNext \/ TpAdvance \/ TpUnchain
    <3>1. age' = age /\ (outcome' = outcome \/ \E j : outcome' = [outcome EXCEPT ![j] = "pending"])
        BY <2>2 DEF SrvNext, SrvStart, SrvConnect, SrvSetErr, SrvSetState, SrvAppend, SrvWait,
           SrvPublish, SrvWalk, SrvLink, SrvSend, SrvAdvance, TpAdvance, TpUnchain, reqHistory
    <3> QED
        BY <3>1 DEF ReqInv
  <2>3. CASE TpFinish
    <3>1. age' = age /\ outcome' = Outcome(outcome, {reqs.id[tp.slot]}, "confirmed")
        BY <2>3 DEF TpFinish
    <3> QED
        BY <3>1 DEF Outcome
  <2>4. CASE RecvConnack
    <3>1. \/ age' = age /\ (outcome' = outcome \/ \E j : outcome' = [outcome EXCEPT ![j] = "pending"])
          \/ age' = [i \in Ids |-> 0]
        BY <2>4 DEF RecvConnack, Subscribe, Close
    <3> QED
        BY <3>1 DEF ReqInv
  <2>5. CASE /\ TcpSent \/ TcpPoll \/ RecvAck \/ RecvPublish \/ RecvPingresp \/ RecvCut \/ RecvFin
                \/ TcpConnected \/ TcpAborts \/ Broker
      BY <2>5 DEF TcpSent, TcpPoll, RecvAck, RecvPublish, RecvPingresp, RecvCut, RecvFin,
         TcpConnected, TcpAborts, Broker, BrokerReads, BrokerPublishes, Close, reqHistory
  <2>6. CASE CyclicTimer
    <3>1. CASE ConnectTick \/ StrayTick
        BY <3>1 DEF ConnectTick, StrayTick, Close
    <3>2. CASE ConnectedTick
        BY <3>2 DEF ConnectedTick, Close
    <3> QED
        BY <2>6, <3>1, <3>2 DEF CyclicTimer
  <2> QED
      BY <2>1, <2>2, <2>3, <2>4, <2>5, <2>6 DEF MqttNext, TpInside, TpHandles
<1>2. ASSUME NEW i \in Ids PROVE Min({age[i] + Interval, ReqTimeout + Interval}) \in Nat
  <2>1. age[i] + Interval \in Nat /\ ReqTimeout + Interval \in Nat
      BY MqttAssumption DEF AgeInv
  <2>2. \A a, b \in Nat : Min({a, b}) \in Nat
      BY MinIs
  <2> QED
      BY <2>1, <2>2
<1>3. CASE age' = age /\ \A i \in Ids : outcome'[i] = "none" => outcome[i] = "none"
    BY <1>3 DEF AgeInv
<1>4. CASE age' = [i \in Ids |-> 0]
    BY <1>4
<1>5. CASE age' = [i \in Ids |-> IF outcome'[i] = "pending"
                                 THEN Min({age[i] + Interval, ReqTimeout + Interval}) ELSE 0]
  <2> DEFINE m == [i \in Ids |-> Min({age[i] + Interval, ReqTimeout + Interval})]
  <2>1. m \in [Ids -> Nat]
      BY <1>2
  <2>2. age' = [i \in Ids |-> IF outcome'[i] = "pending" THEN m[i] ELSE 0]
      BY <1>5
  <2> HIDE DEF m
  <2> QED
      BY <2>1, <2>2
<1> QED
    BY <1>1, <1>3, <1>4, <1>5

\* A handler that sends holds no slot.
LEMMA SenderHolds == ASSUME NEW k, NEW release, TpWrite(k, release) PROVE tp'.slot = NULL
<1>1. tp' = [pc |-> "advance", slot |-> NULL, prev |-> NULL, k |-> k, release |-> release]
    BY DEF TpWrite, TpIdle
<1> QED
    BY <1>1

\* Who holds a slot.
LEMMA HoldersStep ==
  ASSUME Locals, AgeInv, [MqttNext]_mqttVars
  PROVE  /\ tp'.pc \notin {"unchain", "finish"} => tp'.slot = NULL
         /\ srv'.pc \notin {"append", "walk", "link", "spin"} => srv'.slot = NULL
<1> USE DEF Locals, Goto
<1>1. tp'.pc \notin {"unchain", "finish"} => tp'.slot = NULL
  <2>1. CASE UNCHANGED tp
      BY <2>1 DEF AgeInv
  <2>2. ASSUME NEW k, NEW release, TpWrite(k, release) PROVE tp'.slot = NULL
      BY <2>2, SenderHolds
  <2>3. CASE TpInside
    <3>1. TpUnchain => tp'.pc = "finish"
        BY DEF TpUnchain
    <3> QED
        BY <2>3, <3>1 DEF TpInside, TpAdvance, TpFinish, TpIdle
  <2>4. CASE RecvAck
      BY <2>1, <2>4 DEF RecvAck, TpIdle
  <2>5. CASE SrvNext
      BY <2>1, <2>5 DEF SrvNext, SrvStart, SrvConnect, SrvSetErr, SrvSetState, SrvAppend, SrvWait,
         SrvPublish, SrvWalk, SrvLink, SrvSend, SrvAdvance
  <2>6. CASE TcpConnected \/ TcpSent \/ TcpPoll \/ RecvConnack \/ RecvPublish
      BY <2>1, <2>2, <2>6 DEF TcpConnected, TcpSent, TcpPoll, RecvConnack, Subscribe, RecvPublish
  <2>7. CASE RecvPingresp \/ RecvCut \/ RecvFin \/ TcpAborts \/ CyclicTimer \/ Broker
      BY <2>1, <2>7 DEF RecvPingresp, RecvCut, RecvFin, TcpAborts, CyclicTimer, Broker,
         BrokerReads, BrokerPublishes
  <2> QED
      BY <2>1, <2>3, <2>4, <2>5, <2>6, <2>7 DEF MqttNext, TpHandles, mqttVars
<1>2. srv'.pc \notin {"append", "walk", "link", "spin"} => srv'.slot = NULL
  <2>1. CASE UNCHANGED srv
      BY <2>1 DEF AgeInv
  <2>2. CASE SrvNext
      BY <2>2 DEF SrvNext, SrvStart, SrvConnect, SrvSetErr, SrvSetState, SrvAppend, SrvWait,
         SrvPublish, SrvWalk, SrvLink, SrvSend, SrvAdvance, AgeInv
  <2>3. CASE TpInside \/ TpHandles \/ TcpConnected \/ TcpAborts \/ CyclicTimer \/ Broker
    <3>1. UNCHANGED srv
        BY <2>3 DEF TpInside, TpAdvance, TpUnchain, TpFinish, TpHandles, TcpSent, TcpPoll,
           RecvConnack, RecvAck, RecvPublish, RecvPingresp, RecvCut, RecvFin, TcpConnected,
           TcpAborts, CyclicTimer, Broker, BrokerReads, BrokerPublishes
    <3> QED
        BY <2>1, <3>1
  <2> QED
      BY <2>1, <2>2, <2>3 DEF MqttNext, mqttVars
<1> QED
    BY <1>1, <1>2

\* mqtt_clear_requests leaves the differences where they are.
LEMMA ClearDiff == ASSUME NEW t, Table(t) PROVE Clear(t).diff = t.diff
<1>1. DOMAIN t = {"queue", "next", "id", "diff"}
    BY DEF Table
<1> QED
    BY <1>1 DEF Clear

\* Whatever is done to the table, every slot keeps a difference.
LEMMA DiffStep ==
  ASSUME WalksInv, AgeInv, [MqttNext]_mqttVars
  PROVE  Dated(reqs')
<1>0. Sound(reqs) /\ Table(reqs) /\ Dated(reqs) /\ DOMAIN reqs = {"queue", "next", "id", "diff"}
    BY DEF WalksInv, TableInv, Sound, AgeInv, Table
<1>1. ASSUME NEW t, t.diff = reqs.diff PROVE Dated(t)
    BY <1>0, <1>1 DEF Dated
<1>2. CASE UNCHANGED reqs
    BY <1>0, <1>2
<1>3. CASE SrvNext
  <2>1. \/ UNCHANGED reqs
        \/ \E i : reqs' = Create(reqs, i)
        \/ \E i, r : reqs' = Delete(Create(reqs, i), r)
        \/ \E s, h, sum : reqs' = Link(reqs, s, h, sum)
      BY <1>3 DEF SrvNext, SrvStart, SrvConnect, SrvSetErr, SrvSetState,
         SrvAppend, SrvWait, SrvPublish, SrvWalk, SrvLink, SrvSend, SrvAdvance
  <2>2. ASSUME NEW i, reqs' = Create(reqs, i) PROVE Dated(reqs')
      BY <1>0, <1>1, <2>2, SameDiff
  <2>3. ASSUME NEW i, NEW r, reqs' = Delete(Create(reqs, i), r) PROVE Dated(reqs')
    <3>1. Delete(Create(reqs, i), r).diff = reqs.diff
        BY <1>0 DEF Delete, Create
    <3> QED
        BY <1>1, <2>3, <3>1
  <2>4. ASSUME NEW s, NEW h, NEW sum, reqs' = Link(reqs, s, h, sum) PROVE Dated(reqs')
      BY <1>0, <2>4, LinkDiff
  <2> QED
      BY <1>0, <2>1, <2>2, <2>3, <2>4
<1>4. CASE TpUnchain
  <2>1. reqs'.diff = reqs.diff
      BY <1>0, <1>4, UnchainDiff DEF TpUnchain
  <2> QED
      BY <1>1, <2>1
<1>5. CASE TpFinish
  <2> DEFINE s == tp.slot
             after == reqs.next[s]
             timed == [reqs EXCEPT !.diff[after] = (@ + reqs.diff[s]) % DiffMod]
  <2>1. reqs' = Delete(reqs, s) \/ reqs' = Delete(timed, s)
      BY <1>5 DEF TpFinish
  <2>2. Delete(timed, s).diff = [reqs.diff EXCEPT ![after] = (@ + reqs.diff[s]) % DiffMod]
      BY <1>0 DEF Delete
  <2>3. ASSUME NEW d PROVE Dated(reqs) => LET f == [reqs.diff EXCEPT ![after] = d]
                                          IN  f = [x \in Slots |-> f[x]]
      BY DEF Dated
  <2> DEFINE d == (reqs.diff[after] + reqs.diff[s]) % DiffMod
  <2>4. Delete(timed, s).diff = [reqs.diff EXCEPT ![after] = d]
      BY <2>2
  <2> HIDE DEF d, timed, after
  <2>5. Dated(Delete(timed, s))
      BY <1>0, <2>3, <2>4 DEF Dated
  <2> QED
      BY <1>0, <1>1, <2>1, <2>5, SameDiff
<1>6. CASE RecvConnack
  <2> DEFINE i == pktIdSeq + 1
             r == FreeSlot(reqs)
             made == Create(reqs, i)
  <2>1. \/ UNCHANGED reqs \/ reqs' = Clear(reqs)
        \/ FreeSlots(reqs) # {} /\ reqs' = AppendRequest(made, r)
      BY <1>6 DEF RecvConnack, Close, Subscribe
  <2>2. CASE FreeSlots(reqs) # {} /\ reqs' = AppendRequest(made, r)
    <3>1. Table(made) /\ made.diff = reqs.diff
        BY <1>0, <2>2, CreateIs, SameDiff DEF Sound
    <3>2. Dated(made)
        BY <1>1, <3>1
    <3> HIDE DEF made, r
    <3> QED
        BY <2>2, <3>1, <3>2, LinkDiff DEF AppendRequest
  <2> QED
      BY <1>0, <1>1, <2>1, <2>2, ClearDiff
<1>7. CASE RecvCut
  <2>1. ASSUME NEW s \in Queued(reqs), NEW p, p = Predecessor(reqs, s),
               NEW u, u = Unchain(reqs, s, p), reqs' = Clear([u EXCEPT !.next[s] = NULL])
        PROVE  reqs'.diff = reqs.diff
      BY <1>0, <2>1 DEF Unchain, Clear
  <2>2. reqs' = Clear(reqs) => reqs'.diff = reqs.diff
      BY <1>0, ClearDiff
  <2>3. reqs'.diff = reqs.diff
      BY <1>7, <2>1, <2>2 DEF RecvCut, Close
  <2> QED
      BY <1>1, <2>3
<1>8. CASE CyclicTimer
  <2>1. ASSUME NEW gone, NEW first, NEW left, left = TimeElapsed(reqs, gone, first)
        PROVE  Dated(left) /\ Dated(Clear(left))
    <3> DEFINE times == [s \in Slots |-> IF s = first THEN Remaining(reqs, s) - Interval
                                         ELSE reqs.diff[s]]
    <3>1. left.diff = times /\ Clear(left).diff = times
        BY <1>0, <2>1 DEF TimeElapsed, Clear
    <3> QED
        BY <3>1 DEF Dated
  <2>2. CASE ConnectTick \/ StrayTick
      BY <1>0, <1>1, <2>2, ClearDiff DEF ConnectTick, StrayTick, Close
  <2>3. CASE ConnectedTick
      BY <2>1, <2>3 DEF ConnectedTick, Close
  <2> QED
      BY <1>8, <2>2, <2>3 DEF CyclicTimer
<1>9. CASE RecvFin \/ TcpAborts
  <2>1. UNCHANGED reqs \/ reqs' = Clear(reqs)
      BY <1>9 DEF RecvFin, TcpAborts, Close
  <2> QED
      BY <1>0, <1>1, <2>1, ClearDiff
<1>10. CASE /\ TpAdvance \/ TcpSent \/ TcpPoll \/ RecvAck \/ RecvPublish \/ RecvPingresp
               \/ TcpConnected \/ Broker
    BY <1>2, <1>10 DEF TpAdvance, TcpSent, TcpPoll, RecvAck, RecvPublish, RecvPingresp,
       TcpConnected, Broker, BrokerReads, BrokerPublishes
<1> QED
    BY <1>2, <1>3, <1>4, <1>5, <1>6, <1>7, <1>8, <1>9, <1>10
       DEF MqttNext, TpInside, TpHandles, mqttVars

\* All of it.
LEMMA AgesStep ==
  ASSUME WalksInv, ReqInv, AgeInv, [MqttNext]_mqttVars
  PROVE  AgeInv'
    BY AgeStep, HoldersStep, DiffStep DEF AgeInv, WalksInv, Dated

\* Only the queued items, their links and their differences matter.
LEMMA TimedSame ==
  ASSUME NEW t, Sound(t), NEW u, u.queue = t.queue, Queued(u) = Queued(t),
         \A x \in Queued(t) : u.next[x] = t.next[x],
         NEW d, NEW F, Timed(t, d, F), NEW e, \A x \in Queued(t) : e[x] = d[x],
         NEW G, \A x \in Queued(t) : G[x] = F[x]
  PROVE  Timed(u, e, G)
<1>1. t.queue # NULL => t.queue \in Queued(t)
    BY ReachSelf DEF Queued, Sound, Table
<1>2. \A x \in Queued(t) : t.next[x] # NULL => t.next[x] \in Queued(t)
    BY NextQueued
<1> QED
    BY <1>1, <1>2 DEF Timed

\* What the differences are when no request is between its two steps.
LEMMA DiffsIs ==
  ASSUME AgeInv
  PROVE  /\ tp.pc # "finish" => Diffs = reqs.diff
         /\ \A s \in Slots : Diffs[s] = IF tp.pc = "finish" /\ s = reqs.next[tp.slot]
                                        THEN reqs.diff[s] + reqs.diff[tp.slot] ELSE reqs.diff[s]
<1>1. tp.pc # "finish" => Diffs = [s \in Slots |-> reqs.diff[s]]
    BY DEF Diffs
<1>2. Dated(reqs)
    BY DEF AgeInv
<1> QED
    BY <1>1, <1>2 DEF Dated, Diffs

\* A step that leaves the table and the times alone, and in which a slot changes
\* hands at most between the queue and a thread.
LEMMA TimesQuiet ==
  ASSUME TimesInv, reqs' = reqs, age' = age, tp'.pc = "finish" <=> tp.pc = "finish",
         tp.pc = "finish" => tp'.slot = tp.slot,
         Queued(reqs) \cup Held' = Queued(reqs) \cup Held,
         srv'.pc \in {"walk", "link"} /\ tp'.pc # "finish" => WalkSum',
         Usable' => Usable
  PROVE  TimesInv'
<1>1. Due' = Due
    BY DEF Due, Left
<1>2. Diffs' = Diffs
    BY DEF Diffs
<1> QED
    BY <1>1, <1>2 DEF TimesInv

\* A handler that leaves the table and srv_conn alone.
LEMMA TimesHandler ==
  ASSUME TimesInv, reqs' = reqs, age' = age, srv' = srv,
         tp.pc # "finish", tp'.pc # "finish",
         tp.slot \in Queued(reqs) \cup {NULL}, tp'.slot \in Queued(reqs) \cup {NULL},
         Usable' => Usable
  PROVE  TimesInv'
<1>1. Queued(reqs) \cup Held' = Queued(reqs) \cup Held
    BY DEF Held
<1>2. srv.pc \in {"walk", "link"} => WalkSum
    BY DEF TimesInv
<1>3. WalkSum => WalkSum'
    BY DEF WalkSum, Due, Left
<1> QED
    BY <1>1, <1>2, <1>3, TimesQuiet

\* After mqtt_close there are no times.
LEMMA TimesEmpty ==
  ASSUME reqs'.queue = NULL, tp'.pc # "finish", srv'.pc \notin {"walk", "link"}, ~Usable'
  PROVE  TimesInv'
<1>1. Queued(reqs') = {}
    BY NoneQueued
<1> QED
    BY <1>1 DEF TimesInv, Timed

\* mqtt_close, in a handler of the tcpip_thread that did not race.
LEMMA TimesClose ==
  ASSUME EarlyInv, tcp # "closed" \/ connState # "TCP_DISCONNECTED", NEW t, "queue" \in DOMAIN t,
         NEW o, NEW D, Close(t, o, D), TableRace = {}, srv' = srv, tp'.pc # "finish"
  PROVE  TimesInv'
<1>1. reqs'.queue = NULL /\ conn' = "null"
    BY DEF Close, Clear
<1>2. srv.pc \notin {"start", "connect", "walk", "link"}
    BY DEF EarlyInv, TableRace
<1> QED
    BY <1>1, <1>2, TimesEmpty DEF Usable

\* srv_conn, but for the two steps that change the table.
LEMMA TimesSrv ==
  ASSUME WalksInv, ReqInv, AgeInv, TimesInv,
         SrvStart \/ SrvConnect \/ SrvSetErr \/ SrvSetState \/ SrvAppend \/ SrvWait \/ SrvSend
           \/ SrvAdvance
  PROVE  TimesInv'
<1>1. /\ reqs' = reqs /\ age' = age /\ tp' = tp
      /\ DOMAIN srv = {"pc", "slot", "todo", "iter", "head", "sum", "k"}
    BY DEF SrvStart, SrvConnect, SrvSetErr, SrvSetState, SrvAppend, SrvWait, SrvSend, SrvAdvance,
       reqHistory, WalksInv, Locals
<1>2. srv'.slot = srv.slot /\ (Usable' => Usable)
    BY <1>1 DEF SrvStart, SrvConnect, SrvSetErr, SrvSetState, SrvAppend, SrvWait, SrvSend, SrvAdvance,
       Goto, Usable, clientVars
<1>3. srv'.pc \in {"walk", "link"} =>
        srv'.pc = "walk" /\ srv'.head = NULL /\ srv'.sum = 0 /\ srv'.iter = reqs.queue
    BY <1>1 DEF SrvStart, SrvConnect, SrvSetErr, SrvSetState, SrvAppend, SrvWait, SrvSend, SrvAdvance,
       Goto
<1>4. srv'.pc \in {"walk", "link"} => WalkSum'
    BY <1>1, <1>3 DEF WalkSum
<1> QED
    BY <1>1, <1>2, <1>4, TimesQuiet DEF Held

\* The walk adds up the differences it passes.
LEMMA TimesWalk ==
  ASSUME WalksInv, ReqInv, AgeInv, TimesInv, SrvWalk
  PROVE  TimesInv'
<1>1. /\ reqs' = reqs /\ age' = age /\ tp' = tp /\ conn' = conn /\ srv.pc = "walk"
      /\ DOMAIN srv = {"pc", "slot", "todo", "iter", "head", "sum", "k"}
      /\ Sound(reqs)
    BY DEF SrvWalk, reqHistory, clientVars, WalksInv, Locals, TableInv
<1>2. srv'.slot = srv.slot /\ srv'.pc \in {"walk", "link", "spin"}
    BY <1>1 DEF SrvWalk
<1>3. ASSUME tp.pc # "finish", srv'.pc \in {"walk", "link"} PROVE WalkSum'
  <2>1. WalkSum /\ Timed(reqs, reqs.diff, Due)
      BY <1>1, <1>3, DiffsIs DEF TimesInv
  <2>2. CASE srv.iter = NULL
    <3>1. srv' = [srv EXCEPT !.pc = "link"]
        BY <2>2 DEF SrvWalk
    <3>2. srv'.head = srv.head /\ srv'.sum = srv.sum /\ srv'.iter = srv.iter
        BY <1>1, <3>1
    <3> QED
        BY <1>1, <2>1, <3>2 DEF WalkSum, Due, Left
  <2>3. CASE srv.iter # NULL
    <3> DEFINE i == srv.iter
    <3>1. /\ srv'.head = i /\ srv'.iter = reqs.next[i]
          /\ srv'.sum = (srv.sum + reqs.diff[i]) % DiffMod
        BY <1>1, <1>3, <2>3 DEF SrvWalk
    <3>2. i \in Queued(reqs) /\ Due[i] = srv.sum + reqs.diff[i]
      <4>1. CASE srv.head = NULL
        <5>1. srv.sum = 0 /\ i = reqs.queue /\ reqs.queue # NULL
            BY <2>1, <2>3, <4>1 DEF WalkSum
        <5>2. i \in Queued(reqs)
            BY <1>1, <5>1, ReachSelf DEF Queued, Sound, Table
        <5>3. Due[i] = reqs.diff[i] /\ reqs.diff[i] \in Nat
            BY <2>1, <5>1, <5>2 DEF Timed, TimesInv
        <5> QED
            BY <5>1, <5>2, <5>3
      <4>2. CASE srv.head # NULL
        <5>1. srv.head \in Queued(reqs) /\ srv.sum = Due[srv.head] /\ i = reqs.next[srv.head]
            BY <2>1, <4>2 DEF WalkSum
        <5>2. i \in Queued(reqs)
            BY <1>1, <2>3, <5>1, NextQueued
        <5>3. Due[i] = Due[srv.head] + reqs.diff[i]
            BY <2>1, <2>3, <5>1 DEF Timed
        <5> QED
            BY <5>1, <5>2, <5>3
      <4> QED
          BY <4>1, <4>2
    <3>3. srv'.sum = Due[i]
      <4>1. Due[i] \in 0..ReqTimeout
          BY <3>2, DueIs
      <4> QED
          BY <3>1, <3>2, <4>1, NotCut
    <3>4. i # NULL /\ Due' = Due
        BY <1>1, <2>3 DEF Due, Left
    <3> HIDE DEF i
    <3> QED
        BY <1>1, <3>1, <3>2, <3>3, <3>4 DEF WalkSum
  <2> QED
      BY <2>2, <2>3
<1>4. Usable' => Usable
    BY <1>1, <1>2 DEF Usable
<1> QED
    BY <1>1, <1>2, <1>3, <1>4, TimesQuiet DEF Held

\* A new request takes a slot, and gives it back if the ring has no room.
LEMMA TimesPublish ==
  ASSUME WalksInv, ReqInv, AgeInv, TimesInv, SrvPublish
  PROVE  TimesInv'
<1> DEFINE r == FreeSlot(reqs)
           i == pktIdSeq + 1
           made == Create(reqs, i)
<1>1. /\ tp' = tp /\ conn' = conn /\ age' = age /\ srv.pc = "publish" /\ srv.slot = NULL
      /\ DOMAIN srv = {"pc", "slot", "todo", "iter", "head", "sum", "k"}
      /\ Sound(reqs) /\ Table(reqs) /\ reqs.id \in [Slots -> Ids \cup {0}]
    BY DEF SrvPublish, reqHistory, clientVars, WalksInv, Locals, TableInv, Sound, AgeInv, ReqInv
<1>2. srv'.pc \in {"append", "stopped"}
    BY <1>1 DEF SrvPublish, Goto
<1>3. ~Usable \/ FreeSlots(reqs) = Slots \ (Queued(reqs) \cup Held)
    BY DEF TimesInv
<1>4. Usable' => Usable
    BY <1>1, <1>2 DEF Usable
<1>5. CASE reqs' = reqs /\ srv'.slot = srv.slot
    BY <1>1, <1>2, <1>4, <1>5, TimesQuiet DEF Held
<1>6. CASE /\ FreeSlots(reqs) # {}
           /\ \/ reqs' = made /\ srv'.slot = r
              \/ reqs' = Delete(made, r) /\ srv'.slot = NULL
  <2>1. /\ r \in Slots /\ reqs.next[r] = r /\ made.next[r] = NULL
        /\ Sound(made) /\ made.queue = reqs.queue
        /\ made.next = [reqs.next EXCEPT ![r] = NULL]
        /\ Reach(made, reqs.queue) = Reach(reqs, reqs.queue) /\ r \notin Reach(reqs, reqs.queue)
      BY <1>1, <1>6, CreateIs
  <2>2. made.diff = reqs.diff /\ made.id = [reqs.id EXCEPT ![r] = i]
      BY <1>1, CreateIds, SameDiff
  <2> HIDE DEF r, made, i
  <2>3. r \notin Reach(made, made.queue) /\ Table(made)
      BY <2>1 DEF Sound
  <2>4. /\ Delete(made, r).queue = reqs.queue /\ Delete(made, r).next = [made.next EXCEPT ![r] = r]
        /\ Delete(made, r).id = made.id /\ Delete(made, r).diff = made.diff
        /\ Reach(Delete(made, r), made.queue) = Reach(made, made.queue)
      BY <2>1, <2>3, DeleteIs, FreeIds, SameDiff
  <2>5. /\ reqs'.queue = reqs.queue /\ reqs'.diff = reqs.diff /\ reqs'.id = made.id
        /\ Queued(reqs') = Queued(reqs)
      BY <1>6, <2>1, <2>2, <2>4 DEF Queued
  <2>6. reqs.next \in [Slots -> Nodes] /\ r # NULL
      BY <1>1, <2>1, NullNoSlot DEF Table, Linked
  <2>7. \A c \in Slots \ {r} : reqs'.next[c] = reqs.next[c] /\ reqs'.id[c] = reqs.id[c]
      BY <1>1, <1>6, <2>1, <2>2, <2>4, <2>5, <2>6
  <2>8. reqs'.next[r] = IF srv'.slot = NULL THEN r ELSE NULL
      BY <1>1, <1>6, <2>1, <2>4, <2>6
  <2>9. \A x \in Queued(reqs) : x \in Slots \ {r}
      BY <1>1, <2>1, QueuedBusy DEF Queued
  <2>10. \A x \in Queued(reqs) : Due'[x] = Due[x]
      BY <1>1, <2>5, <2>7, <2>9 DEF Due, Left
  <2>11. tp.pc = "finish" => tp.slot \in Slots \ {r}
      BY <2>1 DEF WalksInv, TableInv, TakenInv
  <2>12. Diffs' = Diffs
      BY <1>1, <2>5, <2>7, <2>11 DEF Diffs
  <2>13. Timed(reqs', Diffs', Due')
      BY <1>1, <2>5, <2>7, <2>9, <2>10, <2>12, TimedSame DEF TimesInv
  <2>14. Usable' => FreeSlots(reqs') = Slots \ (Queued(reqs') \cup Held')
    <3>1. srv'.slot \in {NULL, r} /\ FreeSlots(reqs') = IF srv'.slot = NULL THEN FreeSlots(reqs)
                                                       ELSE FreeSlots(reqs) \ {r}
        BY <1>1, <1>6, <2>1, <2>6, <2>7, <2>8 DEF FreeSlots
    <3> QED
        BY <1>1, <1>3, <1>4, <2>5, <2>6, <3>1 DEF Held
  <2> QED
      BY <1>1, <1>2, <2>5, <2>13, <2>14 DEF TimesInv
<1> QED
    BY <1>1, <1>5, <1>6 DEF SrvPublish, Goto

\* The request is linked behind the others, and given what they leave of its time.
LEMMA TimesLink ==
  ASSUME WalksInv, ReqInv, AgeInv, TimesInv, SrvLink, "table" \notin raced'
  PROVE  TimesInv'
<1> DEFINE s == srv.slot
           h == srv.head
<1>1. /\ tp' = tp /\ conn' = conn /\ age' = age /\ srv.pc = "link" /\ s # NULL
      /\ DOMAIN srv = {"pc", "slot", "todo", "iter", "head", "sum", "k"}
      /\ Sound(reqs) /\ Table(reqs) /\ tp.pc \notin {"unchain", "finish"} /\ tp.slot = NULL
    BY DEF SrvLink, reqHistory, clientVars, WalksInv, Locals, TableInv, HeldInv, Sound, AgeInv
<1>2. /\ reqs' = Link(reqs, s, h, srv.sum) /\ srv'.pc = "send" /\ srv'.slot = NULL
    BY <1>1 DEF SrvLink
<1>3. /\ s \in Slots /\ reqs.next[s] = NULL /\ s \notin Reach(reqs, reqs.queue)
      /\ h = NULL => reqs.queue = NULL
    BY <1>1, NullNoSlot DEF WalksInv, Locals, TableInv, HeldInv
<1>4. WalkSum /\ srv.iter = NULL
    BY <1>1 DEF TimesInv, WalksInv, TableInv, HeldInv
<1>5. /\ h # NULL => h \in Queued(reqs) /\ reqs.next[h] = NULL
      /\ h = NULL => srv.sum = 0
      /\ h # NULL => srv.sum = Due[h]
    BY <1>4 DEF WalkSum
<1>6. Timed(reqs, reqs.diff, Due) /\ \A x \in Queued(reqs) : reqs.diff[x] \in Nat
    BY <1>1, DiffsIs DEF TimesInv
<1>7. reqs'.id = reqs.id
    BY <1>1, <1>2, LinkIds
<1> HIDE DEF s, h
<1>8. /\ Queued(reqs') = Queued(reqs) \cup {s} /\ FreeSlots(reqs') = FreeSlots(reqs)
    BY <1>1, <1>2, <1>3, <1>5, LinkQueue
<1>9. \A x \in Queued(reqs) : Due'[x] = Due[x] /\ Due[x] \in 0..ReqTimeout
    BY <1>1, <1>7, <1>8, DueIs DEF Due, Left
<1>10. Due'[s] = ReqTimeout
  <2>1. reqs.id[s] \in Ids /\ age[reqs.id[s]] = 0
      BY <1>1 DEF s, ReqInv, AgeInv
  <2>2. Left(reqs.id[s]) = ReqTimeout
      BY <2>1, LeftIs DEF AgeInv
  <2> QED
      BY <1>1, <1>7, <1>8, <2>2 DEF Due, Left
<1>11. Timed(reqs', reqs'.diff, Due') /\ \A x \in Queued(reqs') : reqs'.diff[x] \in Nat
  <2>1. Dated(reqs)
      BY DEF AgeInv
  <2> QED
      BY <1>1, <1>2, <1>3, <1>5, <1>6, <1>9, <1>10, <2>1, LinkTimed
<1>12. Diffs' = reqs'.diff
  <2>1. Dated(reqs')
      BY <1>1, <1>2, LinkDiff DEF AgeInv
  <2> QED
      BY <1>1, <2>1 DEF Diffs, Dated
<1>13. Usable' => FreeSlots(reqs') = Slots \ (Queued(reqs') \cup Held')
  <2>1. Usable' => Usable
      BY <1>1, <1>2 DEF Usable
  <2>2. Held = {s} /\ Held' = {}
      BY <1>1, <1>2 DEF Held, s
  <2> QED
      BY <1>8, <2>1, <2>2 DEF TimesInv
<1> QED
    BY <1>1, <1>2, <1>11, <1>12, <1>13 DEF TimesInv

\* A request is taken out; its successor is owed its time.
LEMMA TimesUnchain ==
  ASSUME WalksInv, ReqInv, AgeInv, TimesInv, TpUnchain, "table" \notin raced'
  PROVE  TimesInv'
<1> DEFINE s == tp.slot
<1>1. /\ srv' = srv /\ conn' = conn /\ age' = age /\ tp.pc = "unchain"
      /\ tp'.pc = "finish" /\ tp'.slot = s
      /\ Sound(reqs) /\ Table(reqs) /\ srv.pc \notin {"walk", "link"}
    BY DEF TpUnchain, reqHistory, clientVars, WalksInv, Locals, TableInv, Sound, TableRace
<1>2. /\ reqs' = Unchain(reqs, s, tp.prev) /\ s \in Queued(reqs) /\ Precedes(reqs, tp.prev, s)
    BY <1>1 DEF TpUnchain, WalksInv, TableInv, TakenInv
<1>3. Timed(reqs, reqs.diff, Due) /\ \A x \in Queued(reqs) : reqs.diff[x] \in Nat /\ Due[x] \in Nat
    BY <1>1, DiffsIs, DueIs DEF TimesInv
<1>4. reqs'.id = reqs.id /\ reqs'.diff = reqs.diff
    BY <1>1, <1>2, TakeIds, UnchainDiff
<1> HIDE DEF s
<1>5. /\ Queued(reqs') = Queued(reqs) \ {s} /\ FreeSlots(reqs') = FreeSlots(reqs)
      /\ reqs'.next[s] = reqs.next[s]
    BY <1>1, <1>2, UnchainQueue, UnchainIs
<1>6. \A x \in Queued(reqs') : Due'[x] = Due[x]
    BY <1>1, <1>4, <1>5 DEF Due, Left
<1>7. \A x \in Slots : Diffs'[x] = IF x = reqs.next[s] THEN reqs.diff[x] + reqs.diff[s]
                                   ELSE reqs.diff[x]
    BY <1>1, <1>4, <1>5 DEF Diffs
<1>8. Timed(reqs', Diffs', Due')
    BY <1>1, <1>2, <1>3, <1>6, <1>7, UnchainTimed
<1>9. Usable' => FreeSlots(reqs') = Slots \ (Queued(reqs') \cup Held')
  <2>1. Usable' => Usable
      BY <1>1 DEF Usable
  <2>2. Held' = Held /\ s \in Held
      BY <1>1, <1>2 DEF Held, s, Queued
  <2> QED
      BY <1>5, <2>1, <2>2 DEF TimesInv
<1> QED
    BY <1>1, <1>2, <1>3, <1>4, <1>5, <1>8, <1>9 DEF TimesInv

\* The successor gets the time it is owed, which fits; the slot is free.
LEMMA TimesFinish ==
  ASSUME WalksInv, ReqInv, AgeInv, TimesInv, TpFinish, "table" \notin raced'
  PROVE  TimesInv'
<1> DEFINE s == tp.slot
           after == reqs.next[s]
           carried == (reqs.diff[after] + reqs.diff[s]) % DiffMod
           timed == IF after = NULL THEN reqs ELSE [reqs EXCEPT !.diff[after] = carried]
<1>1. /\ srv' = srv /\ conn' = conn /\ age' = age /\ tp.pc = "finish"
      /\ tp'.pc = "idle" /\ tp'.slot = NULL
      /\ Sound(reqs) /\ Table(reqs) /\ srv.pc \notin {"walk", "link"}
    BY DEF TpFinish, TpIdle, clientVars, WalksInv, Locals, TableInv, Sound, TableRace
<1>2. /\ s \in Slots /\ s \notin Reach(reqs, reqs.queue) /\ reqs.next[s] # s
      /\ srv.slot # NULL => srv.slot # s
    BY <1>1 DEF WalksInv, TableInv, TakenInv, HeldInv
<1>3. reqs' = Delete(timed, s)
    BY DEF TpFinish
<1>4. /\ reqs'.queue = reqs.queue /\ reqs'.next = [reqs.next EXCEPT ![s] = s]
      /\ reqs'.id = reqs.id
      /\ reqs'.diff = IF after = NULL THEN reqs.diff ELSE [reqs.diff EXCEPT ![after] = carried]
  <2>1. DOMAIN reqs = {"queue", "next", "id", "diff"}
      BY <1>1 DEF Table
  <2> HIDE DEF carried, after, s
  <2> QED
      BY <1>3, <2>1 DEF Delete, timed
<1> HIDE DEF timed
<1>5. reqs.next \in [Slots -> Nodes] /\ NULL \notin Slots
    BY <1>1, NullNoSlot DEF Table, Linked
<1>6. \A c \in Slots \ {s} : reqs'.next[c] = reqs.next[c]
    BY <1>2, <1>4, <1>5
<1>7. reqs'.next[s] = s
    BY <1>2, <1>4, <1>5
<1>8. Queued(reqs') = Queued(reqs)
  <2>1. \A c \in Reach(reqs, reqs.queue) \ {NULL} : reqs'.next[c] = reqs.next[c]
    <3>1. \A c \in Reach(reqs, reqs.queue) \ {NULL} : c \in Slots \ {s}
        BY <1>1, <1>2, QueuedBusy DEF Queued
    <3> QED
        BY <1>6, <3>1
  <2>2. Linked(reqs) /\ reqs.queue \in Nodes
      BY <1>1 DEF Table
  <2>3. Linked(reqs')
      BY <1>2, <1>4, <1>5 DEF Linked, Nodes
  <2>4. Reach(reqs', reqs.queue) = Reach(reqs, reqs.queue)
      BY <2>1, <2>2, <2>3, ReachSame
  <2> QED
      BY <1>4, <2>4 DEF Queued
<1>9. \A x \in Queued(reqs) : x \in Slots \ {s} /\ x # NULL
    BY <1>1, <1>2, QueuedBusy DEF Queued
<1>10. \A x \in Queued(reqs) : Diffs[x] = IF x = after THEN reqs.diff[x] + reqs.diff[s] ELSE reqs.diff[x]
    BY <1>1, <1>9, DiffsIs
<1>11. \A x \in Queued(reqs) : Due[x] \in 0..ReqTimeout /\ Due[x] \in Nat /\ reqs.diff[x] \in Nat
    BY DueIs DEF TimesInv
<1>12. reqs.diff[s] \in Nat
    BY <1>1 DEF TimesInv
<1>13. ASSUME NEW x \in Queued(reqs) PROVE Diffs[x] \in 0..ReqTimeout
  <2>1. Diffs[x] \in Nat
      BY <1>10, <1>11, <1>12
  <2>2. CASE x = reqs.queue
    <3>1. Diffs[x] = Due[x]
        BY <1>9, <2>2 DEF TimesInv, Timed
    <3> QED
        BY <1>11, <3>1
  <2>3. CASE x # reqs.queue
    <3>1. PICK p \in Queued(reqs) : reqs.next[p] = x
        BY <1>1, <2>3, HasPredecessor
    <3>2. Due[x] = Due[p] + Diffs[x]
        BY <1>9, <3>1 DEF TimesInv, Timed
    <3> QED
        BY <1>11, <2>1, <3>1, <3>2, MqttAssumption
  <2> QED
      BY <2>2, <2>3
<1>14. ASSUME NEW x \in Queued(reqs) PROVE reqs'.diff[x] = Diffs[x]
  <2>0. Dated(reqs)
      BY DEF AgeInv
  <2>1. CASE x = after
    <3>1. carried = Diffs[x]
        BY <1>10, <1>13, <2>1, NotCut
    <3>2. reqs'.diff = [reqs.diff EXCEPT ![after] = carried]
        BY <1>4, <1>9, <2>1
    <3> HIDE DEF carried
    <3> QED
        BY <1>9, <2>0, <2>1, <3>1, <3>2 DEF Dated
  <2>2. CASE x # after
    <3> HIDE DEF carried, after
    <3>1. reqs'.diff[x] = reqs.diff[x]
        BY <1>4, <1>9, <2>0, <2>2 DEF Dated
    <3> QED
        BY <1>10, <2>2, <3>1
  <2> QED
      BY <2>1, <2>2
<1> HIDE DEF carried, after, s
<1>15. Due' = Due
    BY <1>1, <1>4, <1>8 DEF Due, Left
<1>16. \A x \in Queued(reqs) : Diffs'[x] = Diffs[x]
    BY <1>1, <1>9, <1>14 DEF Diffs
<1>17. Timed(reqs', Diffs', Due')
  <2>1. \A x \in Queued(reqs) : reqs'.next[x] = reqs.next[x] /\ Due'[x] = Due[x]
      BY <1>6, <1>9, <1>15
  <2>2. Sound(reqs) /\ Timed(reqs, Diffs, Due) /\ reqs'.queue = reqs.queue
      BY <1>1, <1>4 DEF TimesInv
  <2> QED
      BY <1>8, <1>16, <2>1, <2>2, TimedSame
<1>18. \A x \in Queued(reqs') : reqs'.diff[x] \in Nat
    BY <1>8, <1>13, <1>14
<1>19. Usable' => FreeSlots(reqs') = Slots \ (Queued(reqs') \cup Held')
  <2>1. Usable' => Usable
      BY <1>1 DEF Usable
  <2>2. FreeSlots(reqs') = FreeSlots(reqs) \cup {s}
      BY <1>2, <1>6, <1>7 DEF FreeSlots
  <2>3. Held' = Held \ {s} /\ s \notin Queued(reqs)
      BY <1>1, <1>2, <1>5 DEF Held, Queued, s
  <2> QED
      BY <1>2, <1>8, <2>1, <2>2, <2>3 DEF TimesInv
<1> QED
    BY <1>1, <1>17, <1>18, <1>19 DEF TimesInv

\* The subscription is queued while srv_conn waits, with all of its time.
LEMMA TimesSubscribe ==
  ASSUME WalksInv, SeqInv, ReqInv, AgeInv, TimesInv, Subscribe, connState = "MQTT_CONNECTING",
         FreeSlots(reqs) # {}, CheckSpace(output, "SUBSCRIBE"),
         tp.pc = "idle", srv' = srv, conn' = conn, age' = age
  PROVE  TimesInv'
<1> DEFINE i == pktIdSeq + 1
           r == FreeSlot(reqs)
           made == Create(reqs, i)
           last == LastOf(made)
           sum == IF last = NULL THEN 0 ELSE Remaining(made, last)
<1>1. /\ reqs' = AppendRequest(made, r) /\ tp'.slot = NULL /\ tp'.pc = "advance"
  <2>1. PICK k : TpWrite(k, TRUE)
      BY DEF Subscribe
  <2>2. tp'.slot = NULL /\ tp'.pc = "advance"
      BY <2>1 DEF TpWrite, TpIdle
  <2> QED
      BY <2>2 DEF Subscribe
<1>2. /\ srv.slot = NULL /\ srv.pc \in Waits /\ pktIdSeq = 0 /\ tp.slot = NULL
      /\ Sound(reqs) /\ Table(reqs)
    BY DEF WalksInv, EarlyInv, Early, SeqInv, AgeInv, TableInv, Sound
<1>3. i \in Ids /\ outcome[i] = "none" /\ Left(i) = ReqTimeout
  <2>1. i \in Ids /\ i > pktIdSeq
      BY <1>2, MqttAssumption DEF Ids
  <2>2. age[i] = 0
      BY <2>1 DEF ReqInv, AgeInv
  <2> QED
      BY <2>1, <2>2, LeftIs DEF ReqInv, AgeInv
<1>4. /\ r \in Slots /\ reqs.next[r] = r /\ made.next[r] = NULL
      /\ Sound(made) /\ made.queue = reqs.queue
      /\ made.next = [reqs.next EXCEPT ![r] = NULL]
      /\ Reach(made, reqs.queue) = Reach(reqs, reqs.queue) /\ r \notin Reach(reqs, reqs.queue)
    BY <1>2, CreateIs
<1>5. made.diff = reqs.diff /\ made.id = [reqs.id EXCEPT ![r] = i]
    BY <1>2, CreateIds, SameDiff
<1> HIDE DEF r, made, i
<1>6. /\ r \notin Reach(made, made.queue) /\ Table(made) /\ Dated(made)
      /\ Queued(made) = Queued(reqs)
    BY <1>4, <1>5 DEF Sound, AgeInv, Dated, Queued
<1>7. \A x \in Queued(reqs) : x \in Slots \ {r} /\ x # NULL
    BY <1>2, <1>4, QueuedBusy DEF Queued
<1>8. \A x \in Slots \ {r} : made.next[x] = reqs.next[x] /\ made.id[x] = reqs.id[x]
    BY <1>2, <1>4, <1>5 DEF Table, Linked, ReqInv
<1>9. Timed(reqs, reqs.diff, Due) /\ \A x \in Queued(reqs) : reqs.diff[x] \in Nat
    BY DiffsIs DEF TimesInv
<1>10. Timed(made, made.diff, Due)
  <2>1. \A x \in Queued(reqs) : made.next[x] = reqs.next[x]
      BY <1>7, <1>8
  <2> QED
      BY <1>2, <1>4, <1>5, <1>6, <1>9, <2>1, TimedSame
<1>11. /\ last = NULL => made.queue = NULL
       /\ last # NULL => last \in Queued(made) /\ made.next[last] = NULL
  <2>1. CASE made.queue = NULL
      BY <2>1 DEF LastOf
  <2>2. CASE made.queue # NULL
    <3>1. last \in Queued(made) /\ made.next[last] = NULL
        BY <1>4, <2>2, LastIs
    <3> QED
        BY <3>1 DEF Queued
  <2> QED
      BY <2>1, <2>2
<1>12. /\ last = NULL => sum = 0
       /\ last # NULL => sum = Due[last]
    BY <1>4, <1>10, <1>11, RemainingIs
<1>13. reqs' = Link(made, r, last, sum)
    BY <1>1 DEF AppendRequest
<1> HIDE DEF last, sum
<1>14. reqs'.id = made.id /\ Dated(reqs')
    BY <1>6, <1>13, LinkIds, LinkDiff
<1>15. /\ Queued(reqs') = Queued(reqs) \cup {r} /\ FreeSlots(reqs') = FreeSlots(made)
  <2>1. /\ Sound(made) /\ r \in Slots /\ made.next[r] = NULL /\ r \notin Reach(made, made.queue)
      BY <1>4, <1>6
  <2> QED
      BY <1>6, <1>11, <1>13, <2>1, LinkQueue
<1>16. \A x \in Queued(reqs) : Due'[x] = Due[x] /\ Due[x] \in 0..ReqTimeout
  <2>1. \A x \in Queued(reqs) : x \in Queued(reqs') /\ reqs'.id[x] = reqs.id[x]
      BY <1>7, <1>8, <1>14, <1>15
  <2>2. \A x \in Queued(reqs) : Due[x] \in 0..ReqTimeout
      BY DueIs
  <2> QED
      BY <2>1, <2>2 DEF Due, Left
<1>17. Due'[r] = ReqTimeout
  <2>1. reqs'.id[r] = i
      BY <1>4, <1>5, <1>14 DEF ReqInv
  <2> QED
      BY <1>3, <1>15, <2>1 DEF Due, Left
<1>18. Timed(reqs', reqs'.diff, Due') /\ \A x \in Queued(reqs') : reqs'.diff[x] \in Nat
  <2>1. /\ Sound(made) /\ r \in Slots /\ made.next[r] = NULL /\ r \notin Reach(made, made.queue)
        /\ Dated(made)
      BY <1>4, <1>6
  <2>2. \A x \in Queued(made) : /\ Due[x] \in 0..ReqTimeout /\ made.diff[x] \in Nat
                                 /\ Due'[x] = Due[x]
      BY <1>5, <1>6, <1>9, <1>16
  <2> QED
      BY <1>10, <1>11, <1>12, <1>13, <1>17, <2>1, <2>2, LinkTimed
<1>19. Diffs' = reqs'.diff
    BY <1>1, <1>14 DEF Diffs, Dated
<1>20. Usable' => FreeSlots(reqs') = Slots \ (Queued(reqs') \cup Held')
  <2>1. Usable' => Usable
      BY DEF Usable
  <2>2. FreeSlots(made) = FreeSlots(reqs) \ {r}
      BY <1>4, <1>8, NullNoSlot DEF FreeSlots
  <2>3. Held = {} /\ Held' = {}
      BY <1>1, <1>2 DEF Held
  <2> QED
      BY <1>15, <2>1, <2>2, <2>3 DEF TimesInv
<1> QED
    BY <1>1, <1>2, <1>18, <1>19, <1>20 DEF TimesInv, Waits

\* The timer takes an interval from what is left of each request.
LEMMA TimesTick ==
  ASSUME WalksInv, ReqInv, ReqInv', AgeInv, TimesInv, "table" \notin raced', tp.pc = "idle",
         srv' = srv, tp' = tp, conn' = conn, TableRace = {},
         NEW gone, gone = Expired(reqs), NEW first, first = FirstLeft(reqs, gone),
         reqs' = TimeElapsed(reqs, gone, first),
         age' = [i \in Ids |-> IF outcome'[i] = "pending"
                               THEN Min({age[i] + Interval, ReqTimeout + Interval}) ELSE 0],
         AgeInv'
  PROVE  TimesInv'
<1>1. Sound(reqs) /\ Table(reqs) /\ srv.pc \notin {"walk", "link"} /\ tp.slot = NULL
    BY DEF WalksInv, TableInv, Sound, TableRace, AgeInv
<1>2. /\ Queued(reqs') = Queued(reqs) \ gone /\ FreeSlots(reqs') = FreeSlots(reqs) \cup gone
      /\ gone \subseteq Queued(reqs)
    BY <1>1, ElapsedLeaves
<1>3. reqs'.id = reqs.id
    BY <1>1, TakeIds
<1>4. Timed(reqs, reqs.diff, Due)
      /\ \A x \in Queued(reqs) : Due[x] \in Nat /\ reqs.diff[x] \in Nat
    BY DiffsIs, DueIs DEF TimesInv
<1>5. ASSUME NEW x \in Queued(reqs') PROVE Due'[x] = Due[x] - Interval
  <2> DEFINE i == reqs.id[x]
  <2>1. x \in Queued(reqs) /\ x \notin Expired(reqs)
      BY <1>2
  <2>2. i \in Ids /\ outcome'[i] = "pending"
      BY <1>3 DEF ReqInv
  <2>3. Due[x] >= Interval
      BY <1>1, <1>4, <2>1, NotExpired
  <2>4. Due[x] = Left(i)
      BY <2>1 DEF Due
  <2> HIDE DEF i
  <2>5. age[i] \in Nat /\ Left(i) = IF ReqTimeout >= age[i] THEN ReqTimeout - age[i] ELSE 0
      BY <2>2, LeftIs DEF AgeInv
  <2>6. ReqTimeout \in Nat /\ Interval \in Nat /\ Interval > 0
      BY MqttAssumption
  <2>7. age[i] + Interval <= ReqTimeout /\ Due[x] = ReqTimeout - age[i]
      BY <2>3, <2>4, <2>5, <2>6
  <2>8. Min({age[i] + Interval, ReqTimeout + Interval}) = age[i] + Interval
    <3>1. age[i] + Interval \in Int /\ ReqTimeout + Interval \in Int
          /\ age[i] + Interval <= ReqTimeout + Interval
        BY <2>5, <2>6, <2>7
    <3> QED
        BY <3>1, MinIs
  <2>9. age'[i] = age[i] + Interval
      BY <2>2, <2>8
  <2>10. Due'[x] = Max({ReqTimeout - (age[i] + Interval), 0})
      BY <1>3, <2>9 DEF Due, Left, i
  <2>11. ReqTimeout - (age[i] + Interval) \in Int /\ ReqTimeout - (age[i] + Interval) >= 0
      BY <2>5, <2>6, <2>7
  <2>12. Max({ReqTimeout - (age[i] + Interval), 0}) = ReqTimeout - (age[i] + Interval)
      BY <2>11, MaxIs
  <2> QED
      BY <2>5, <2>6, <2>7, <2>10, <2>12
<1>6. Timed(reqs', reqs'.diff, Due') /\ \A x \in Queued(reqs') : reqs'.diff[x] \in Nat
    BY <1>1, <1>4, <1>5, ElapsedTimed
<1>7. Diffs' = reqs'.diff
    BY DEF AgeInv, Diffs, Dated
<1>8. Usable' => FreeSlots(reqs') = Slots \ (Queued(reqs') \cup Held')
  <2>1. (Usable' => Usable) /\ Held' = Held
      BY DEF Usable, Held
  <2>2. gone \cap Held = {} /\ gone \subseteq Slots
    <3>1. srv.slot # NULL => srv.slot \notin Reach(reqs, reqs.queue)
        BY DEF WalksInv, TableInv, HeldInv
    <3>2. gone \subseteq Slots
        BY <1>1, <1>2, QueuedBusy
    <3> QED
        BY <1>1, <1>2, <3>1, <3>2 DEF Held, Queued
  <2> QED
      BY <1>2, <2>1, <2>2 DEF TimesInv
<1> QED
    BY <1>1, <1>6, <1>7, <1>8 DEF TimesInv

\* The handlers and the timer of the tcpip_thread, and what the broker does.
LEMMA TimesIdle ==
  ASSUME WalksInv, SeqInv, ReqInv, ReqInv', AgeInv, AgeInv', TimesInv, "table" \notin raced',
         TpAdvance \/ TpHandles \/ TcpConnected \/ TcpAborts \/ Broker
  PROVE  TimesInv'
<1>1. /\ srv' = srv /\ DOMAIN reqs = {"queue", "next", "id", "diff"}
  <2>1. srv' = srv
      BY DEF TpAdvance, TpHandles, TcpSent, TcpPoll, RecvConnack, RecvAck, RecvPublish,
         RecvPingresp, RecvCut, RecvFin, TcpConnected, TcpAborts, Broker, BrokerReads,
         BrokerPublishes
  <2> QED
      BY <2>1 DEF WalksInv, TableInv, Sound, Table
<1>2. tp.slot \in Queued(reqs) \cup {NULL} \/ tp.pc = "finish"
    BY DEF WalksInv, TableInv, TakenInv, AgeInv
<1>3. CASE Broker
  <2>1. /\ reqs' = reqs /\ age' = age /\ conn' = conn /\ tp' = tp
      BY <1>3 DEF Broker, BrokerReads, BrokerPublishes, clientVars, reqHistory
  <2>2. WalkSum' <=> WalkSum
      BY <1>1, <2>1 DEF WalkSum, Due, Left
  <2>3. Held' = Held /\ (Usable' => Usable)
      BY <1>1, <2>1 DEF Held, Usable
  <2> QED
      BY <1>1, <2>1, <2>2, <2>3, TimesQuiet DEF TimesInv
<1>4. ASSUME reqs' = reqs, age' = age, conn' = conn, tp.pc \in {"idle", "advance"},
             tp'.pc \in {"idle", "advance"}
      PROVE  TimesInv'
  <2>1. tp.slot = NULL /\ tp'.slot = NULL /\ (Usable' => Usable)
      BY <1>1, <1>4 DEF AgeInv, Usable
  <2> QED
      BY <1>1, <1>4, <2>1, TimesHandler
<1>5. ASSUME NEW k, NEW release, TpWrite(k, release) PROVE tp'.pc = "advance"
    BY <1>5, TpWriteIs
<1>6. CASE TpAdvance
  <2>1. /\ reqs' = reqs /\ age' = age /\ conn' = conn /\ tp.pc = "advance" /\ tp'.pc = "idle"
      BY <1>6 DEF TpAdvance, TpIdle, clientVars, reqHistory
  <2> QED
      BY <1>4, <2>1
<1>7. CASE TcpSent \/ TcpPoll \/ RecvPublish \/ RecvPingresp \/ TcpConnected
  <2>1. /\ reqs' = reqs /\ age' = age /\ conn' = conn /\ tp.pc = "idle"
        /\ tp' = tp \/ \E k, release : TpWrite(k, release)
      BY <1>7 DEF TcpSent, TcpPoll, RecvPublish, RecvPingresp, TcpConnected, Receives, Idle,
         clientVars, reqHistory
  <2>2. tp'.pc \in {"idle", "advance"}
      BY <1>5, <2>1
  <2> QED
      BY <1>4, <2>1, <2>2
<1>8. CASE RecvAck
  <2>1. /\ reqs' = reqs /\ age' = age /\ conn' = conn /\ tp.pc = "idle"
      BY <1>8 DEF RecvAck, Receives, Idle, reqHistory
  <2>2. \/ tp' = tp
        \/ \E s \in Queued(reqs) :
             tp' = [TpIdle EXCEPT !.pc = "unchain", !.slot = s, !.prev = Predecessor(reqs, s)]
      BY <1>8 DEF RecvAck
  <2>3. tp'.pc \in {"idle", "unchain"} /\ tp'.slot \in Queued(reqs) \cup {NULL}
      BY <1>2, <2>1, <2>2 DEF TpIdle
  <2>4. Usable' => Usable
      BY <1>1, <2>1 DEF Usable
  <2> QED
      BY <1>1, <1>2, <2>1, <2>3, <2>4, TimesHandler
<1>9. ASSUME NEW t, "queue" \in DOMAIN t, NEW o, NEW D, Close(t, o, D),
             tp' = tp, tp.pc = "idle", TableRace \subseteq raced',
             tcp # "closed" \/ connState # "TCP_DISCONNECTED"
      PROVE  TimesInv'
  <2>1. TableRace = {}
      BY <1>9 DEF TableRace
  <2> QED
      BY <1>1, <1>9, <2>1, TimesClose DEF WalksInv
<1>10. CASE RecvFin
    BY <1>1, <1>9, <1>10 DEF RecvFin, Idle
<1>11. CASE TcpAborts
  <2>1. CASE errCb
      BY <1>1, <1>9, <1>11, <2>1 DEF TcpAborts, Idle
  <2>2. CASE ~errCb
    <3>1. /\ reqs' = reqs /\ age' = age /\ conn' = "freed" /\ tp' = tp /\ tp.pc = "idle"
          /\ tcp # "closed"
        BY <1>11, <2>2 DEF TcpAborts, Idle
    <3>2. ~Usable'
        BY <1>1, <3>1 DEF Usable, WalksInv, EarlyInv
    <3> QED
        BY <1>1, <1>2, <3>1, <3>2, TimesHandler
  <2> QED
      BY <2>1, <2>2
<1>12. CASE RecvCut
  <2>1. /\ tp' = tp /\ tp.pc = "idle" /\ tcp = "open" /\ TableRace \subseteq raced'
      BY <1>12 DEF RecvCut, Receives, Idle
  <2>2. CASE Close(reqs, outcome, {})
      BY <1>1, <1>9, <2>1, <2>2
  <2>3. ASSUME NEW s \in Queued(reqs), NEW p, NEW u, u = Unchain(reqs, s, p),
               Close([u EXCEPT !.next[s] = NULL], outcome, {reqs.id[s]})
        PROVE  TimesInv'
    <3>1. "queue" \in DOMAIN [u EXCEPT !.next[s] = NULL]
        BY <1>1, <2>3 DEF Unchain
    <3> QED
        BY <1>9, <2>1, <2>3, <3>1
  <2> QED
      BY <1>12, <2>2, <2>3 DEF RecvCut
<1>13. CASE RecvConnack
  <2>1. /\ tp.pc = "idle" /\ tcp = "open"
      BY <1>13 DEF RecvConnack, Receives, Idle
  <2>2. CASE connState # "MQTT_CONNECTING"
      BY <1>4, <1>13, <2>1, <2>2 DEF RecvConnack
  <2>3. CASE Close(reqs, outcome, {}) /\ TableRace \subseteq raced' /\ tp' = tp
      BY <1>1, <1>9, <2>1, <2>3
  <2>4. CASE Subscribe /\ conn' = conn /\ age' = age /\ connState = "MQTT_CONNECTING"
    <3>1. CASE FreeSlots(reqs) # {} /\ CheckSpace(output, "SUBSCRIBE")
        BY <1>1, <2>1, <2>4, <3>1, TimesSubscribe
    <3>2. CASE ~(FreeSlots(reqs) # {} /\ CheckSpace(output, "SUBSCRIBE"))
        BY <1>4, <2>1, <2>4, <3>2 DEF Subscribe
    <3> QED
        BY <3>1, <3>2
  <2> QED
      BY <1>13, <2>2, <2>3, <2>4 DEF RecvConnack
<1> QED
    BY <1>3, <1>6, <1>7, <1>8, <1>10, <1>11, <1>12, <1>13 DEF TpHandles

\* mqtt_cyclic_timer.
LEMMA TimesTimer ==
  ASSUME WalksInv, ReqInv, ReqInv', AgeInv, AgeInv', TimesInv, "table" \notin raced', CyclicTimer
  PROVE  TimesInv'
<1>1. /\ srv' = srv /\ tp' = tp /\ tp.pc = "idle" /\ tp.slot = NULL
      /\ DOMAIN reqs = {"queue", "next", "id", "diff"}
    BY DEF CyclicTimer, Idle, AgeInv, WalksInv, TableInv, Sound, Table
<1>2. ASSUME NEW t, "queue" \in DOMAIN t, NEW o, NEW D, Close(t, o, D),
             TableRace \subseteq raced', connState # "TCP_DISCONNECTED"
      PROVE  TimesInv'
  <2>1. TableRace = {}
      BY <1>2 DEF TableRace
  <2> QED
      BY <1>1, <1>2, <2>1, TimesClose DEF WalksInv
<1>3. ASSUME reqs' = reqs, age' = age, conn' = conn PROVE TimesInv'
  <2>1. Usable' => Usable
      BY <1>1, <1>3 DEF Usable
  <2> QED
      BY <1>1, <1>3, <2>1, TimesHandler
<1>4. CASE ConnectTick
    BY <1>1, <1>2, <1>3, <1>4 DEF ConnectTick
<1>5. CASE StrayTick
    BY <1>3, <1>5 DEF StrayTick
<1>6. CASE ConnectedTick
  <2>1. connState # "TCP_DISCONNECTED" /\ TableRace \subseteq raced'
      BY <1>6 DEF ConnectedTick
  <2>2. ASSUME NEW gone, gone = Expired(reqs), NEW first, first = FirstLeft(reqs, gone),
               NEW left, left = TimeElapsed(reqs, gone, first),
               NEW o, Close(left, o, {})
        PROVE  TimesInv'
    <3>1. "queue" \in DOMAIN left
        BY <1>1, <2>2 DEF TimeElapsed
    <3> QED
        BY <1>2, <2>1, <2>2, <3>1
  <2>3. ASSUME NEW gone, gone = Expired(reqs), NEW first, first = FirstLeft(reqs, gone),
               NEW left, left = TimeElapsed(reqs, gone, first), reqs' = left, conn' = conn,
               age' = [i \in Ids |-> IF outcome'[i] = "pending"
                                     THEN Min({age[i] + Interval, ReqTimeout + Interval}) ELSE 0]
        PROVE  TimesInv'
    <3>1. TableRace = {}
        BY <2>1 DEF TableRace
    <3> QED
        BY <1>1, <2>3, <3>1, TimesTick
  <2> QED
      BY <1>6, <2>2, <2>3 DEF ConnectedTick
<1> QED
    BY <1>4, <1>5, <1>6 DEF CyclicTimer

\* Every step that does not race keeps the times.
LEMMA TimesStep ==
  ASSUME WalksInv, SeqInv, ReqInv, ReqInv', AgeInv, AgeInv', TimesInv, "table" \notin raced',
         [MqttNext]_mqttVars
  PROVE  TimesInv'
<1>1. CASE UNCHANGED mqttVars
    BY <1>1 DEF mqttVars, clientVars, reqHistory, TimesInv, Diffs, Due, Left, WalkSum, Usable, Held
<1>2. CASE SrvNext
    BY <1>2, TimesSrv, TimesWalk, TimesPublish, TimesLink DEF SrvNext
<1>3. CASE TpInside
    BY <1>3, TimesIdle, TimesUnchain, TimesFinish DEF TpInside
<1>4. CASE TpHandles \/ TcpConnected \/ TcpAborts \/ Broker
    BY <1>4, TimesIdle
<1>5. CASE CyclicTimer
    BY <1>5, TimesTimer
<1> QED
    BY <1>1, <1>2, <1>3, <1>4, <1>5 DEF MqttNext

\* The table is empty at first.
LEMMA DueInit == MqttInit => DueInv
<1> SUFFICES ASSUME MqttInit PROVE DueInv
    OBVIOUS
<1>1. reqs = EmptyTable /\ srv = SrvIdle /\ tp = TpIdle
    BY DEF MqttInit
<1>2. /\ reqs.queue = NULL /\ reqs.next = [s \in Slots |-> s] /\ reqs.diff = [s \in Slots |-> 0]
    BY <1>1 DEF EmptyTable
<1>3. /\ srv.slot = NULL /\ srv.pc = "start" /\ tp.slot = NULL /\ tp.pc = "idle"
    BY <1>1 DEF SrvIdle, TpIdle
<1>4. Queued(reqs) = {}
    BY <1>2, NoneQueued
<1>5. age \in [Ids -> Nat] /\ \A i \in Ids : age[i] = 0
    BY DEF MqttInit
<1>6. FreeSlots(reqs) = Slots /\ Held = {}
    BY <1>2, <1>3 DEF FreeSlots, Held
<1>7. AgeInv
    BY <1>2, <1>3, <1>5 DEF AgeInv, Dated
<1> QED
    BY <1>2, <1>3, <1>4, <1>6, <1>7 DEF DueInv, TimesInv, Timed

\* The invariant is inductive, with those of the walks and of the requests.
LEMMA DueStep ==
  ASSUME WalksInv, SeqInv, ReqInv, ReqInv', DueInv, [MqttNext]_mqttVars
  PROVE  DueInv'
<1>1. AgeInv'
    BY AgesStep DEF DueInv
<1> QED
    BY <1>1, RacedKeeps, TimesStep DEF DueInv

\* What TableSound says follows: the walk of Remaining adds up the differences.
LEMMA DueGives ==
  ASSUME WalksInv, ReqInv, DueInv
  PROVE  TableSound
<1> SUFFICES ASSUME "table" \notin raced, TimesInv PROVE TableSound
    BY DEF DueInv, TableSound
<1>1. Sound(reqs)
    BY DEF WalksInv, TableInv
<1>2. conn = "pcb" => FreeSlots(reqs) = Slots \ (Queued(reqs) \cup ({srv.slot, tp.slot} \ {NULL}))
    BY DEF TimesInv, Usable, Held
<1>3. ASSUME NEW s \in Queued(reqs)
      PROVE  /\ outcome[reqs.id[s]] = "pending"
             /\ \A x \in Queued(reqs) : reqs.id[x] = reqs.id[s] => x = s
    BY <1>3 DEF ReqInv
<1>4. ASSUME NEW s \in Queued(reqs), tp.pc # "finish"
      PROVE  Remaining(reqs, s) = Max({ReqTimeout - age[reqs.id[s]], 0})
  <2>1. Timed(reqs, reqs.diff, Due)
      BY <1>4, DiffsIs DEF DueInv, TimesInv
  <2>2. Remaining(reqs, s) = Due[s]
      BY <1>1, <2>1, RemainingIs
  <2> QED
      BY <2>2 DEF Due, Left
<1> QED
    BY <1>2, <1>3, <1>4 DEF TableSound

\* For any table, timeouts and interleaving, until the threads race on it: no slot
\* is lost, what is queued is pending, each request once, and its timeout_diffs add
\* up to what is left of MQTT_REQ_TIMEOUT (mqtt_append_request, mqtt_take_request
\* and mqtt_request_time_elapsed, mqtt.c).
THEOREM TableSoundCorrect == MqttSpec => []TableSound
<1>1. MqttInit => WalksInv /\ SeqInv /\ StreamTypes /\ ReqInv /\ DueInv
    BY WalksInit, ReqInitCorrect, DueInit
<1>2. WalksInv /\ SeqInv /\ StreamTypes /\ ReqInv /\ DueInv /\ [MqttNext]_mqttVars
      => WalksInv' /\ SeqInv' /\ StreamTypes' /\ ReqInv' /\ DueInv'
    BY WalksStep, SeqStep, StreamStep, ReqStepCorrect, DueStep DEF WalksInv
<1>3. WalksInv /\ ReqInv /\ DueInv => TableSound
    BY DueGives
<1> QED
    BY <1>1, <1>2, <1>3, PTL DEF MqttSpec

-----------------------------------------------------------------------------
(* The types of all the rest: MqttTypeOK *)

\* Each timeout_diff fits its 16 bits.
DiffOK(t) == t.diff \in [Slots -> 0..(DiffMod - 1)]

\* The connection, its flags and callbacks.
FlagTypes ==
  /\ conn \in {"null", "pcb", "freed"}
  /\ connState \in {"TCP_DISCONNECTED", "TCP_CONNECTING", "MQTT_CONNECTING", "MQTT_CONNECTED"}
  /\ errCb \in BOOLEAN /\ timer \in BOOLEAN /\ unacked \in BOOLEAN
  /\ sem \in BOOLEAN /\ lost \in BOOLEAN
  /\ tcp \in {"closed", "syn", "open"}
  /\ raced \subseteq {"table", "ring", "state"}

\* The counters of the timer, and the bounds.
CountTypes ==
  /\ cyclicTick \in Nat /\ watchdog \in Nat
  /\ budget \in [srv : 0..MaxPublishes, unasked : 0..MaxUnasked]

\* The two threads' locals.
SrvTypes ==
  /\ srv.pc \in {"start", "connect", "set_err", "set_state", "append", "wait", "publish",
                 "walk", "link", "send", "advance", "spin", "stopped"}
  /\ srv.sum \in 0..(DiffMod - 1) /\ srv.k \in 0..RingSize

TpTypes ==
  tp \in [pc : {"idle", "advance", "unchain", "finish"}, slot : Slots \cup {NULL},
          prev : Slots \cup {NULL}, k : 0..RingSize, release : BOOLEAN]

RestTypes ==
  /\ FlagTypes /\ CountTypes /\ SrvTypes /\ TpTypes /\ DiffOK(reqs)
  /\ unsent \in Seq(CellSet)

\* A difference that is written is cut to 16 bits.
LEMMA CutIn == ASSUME NEW d \in Int PROVE d % DiffMod \in 0..(DiffMod - 1)
    BY MqttAssumption

\* So whatever table a request is linked into, and whatever sum was added up.
LEMMA LinkDiffOK ==
  ASSUME NEW t, Table(t), DiffOK(t), NEW s, NEW h, NEW sum \in Int
  PROVE  DiffOK(Link(t, s, h, sum))
<1>1. DOMAIN t = {"queue", "next", "id", "diff"}
    BY DEF Table
<1> DEFINE d == (ReqTimeout - sum) % DiffMod
<1>2. Link(t, s, h, sum).diff = [t.diff EXCEPT ![s] = d]
    BY <1>1 DEF Link
<1>3. d \in 0..(DiffMod - 1)
    BY CutIn, MqttAssumption
<1> HIDE DEF d
<1> QED
    BY <1>2, <1>3 DEF DiffOK

\* Whatever is done to the table, raced or not, the differences keep their width.
LEMMA DiffTypes ==
  ASSUME WalksInv, SeqInv, SrvTypes, DiffOK(reqs), [MqttNext]_mqttVars
  PROVE  DiffOK(reqs')
<1>0. Sound(reqs) /\ Table(reqs) /\ DOMAIN reqs = {"queue", "next", "id", "diff"}
    BY DEF WalksInv, TableInv, Sound, Table
<1>1. ASSUME NEW t, t.diff = reqs.diff PROVE DiffOK(t)
    BY <1>1 DEF DiffOK
<1>2. CASE UNCHANGED reqs
    BY <1>2
<1>3. CASE SrvNext
  <2>1. \/ UNCHANGED reqs
        \/ \E i : reqs' = Create(reqs, i)
        \/ \E i, r : reqs' = Delete(Create(reqs, i), r)
        \/ \E s, h : reqs' = Link(reqs, s, h, srv.sum)
      BY <1>3 DEF SrvNext, SrvStart, SrvConnect, SrvSetErr, SrvSetState,
         SrvAppend, SrvWait, SrvPublish, SrvWalk, SrvLink, SrvSend, SrvAdvance
  <2>2. ASSUME NEW i, reqs' = Create(reqs, i) PROVE DiffOK(reqs')
      BY <1>0, <1>1, <2>2, SameDiff
  <2>3. ASSUME NEW i, NEW r, reqs' = Delete(Create(reqs, i), r) PROVE DiffOK(reqs')
    <3>1. Delete(Create(reqs, i), r).diff = reqs.diff
        BY <1>0 DEF Delete, Create
    <3> QED
        BY <1>1, <2>3, <3>1
  <2>4. ASSUME NEW s, NEW h, reqs' = Link(reqs, s, h, srv.sum) PROVE DiffOK(reqs')
    <3>1. srv.sum \in Int
        BY MqttAssumption DEF SrvTypes
    <3> QED
        BY <1>0, <2>4, <3>1, LinkDiffOK
  <2> QED
      BY <2>1, <2>2, <2>3, <2>4
<1>4. CASE TpUnchain
  <2>1. reqs'.diff = reqs.diff
      BY <1>0, <1>4, UnchainDiff DEF TpUnchain
  <2> QED
      BY <1>1, <2>1
<1>5. CASE TpFinish
  <2> DEFINE s == tp.slot
             after == reqs.next[s]
             d == (reqs.diff[after] + reqs.diff[s]) % DiffMod
             timed == [reqs EXCEPT !.diff[after] = d]
  <2>1. IF after = NULL THEN reqs' = Delete(reqs, s) ELSE reqs' = Delete(timed, s)
      BY <1>5 DEF TpFinish
  <2>2. Delete(timed, s).diff = [reqs.diff EXCEPT ![after] = d]
    <3> HIDE DEF d, after, s
    <3> QED
        BY <1>0 DEF Delete
  <2>3. after # NULL => d \in 0..(DiffMod - 1)
    <3>1. s \in Slots /\ reqs.next \in [Slots -> Nodes]
        BY <1>0, <1>5 DEF TpFinish, WalksInv, TableInv, TakenInv, Table, Linked
    <3>2. after # NULL => after \in Slots
        BY <3>1 DEF Nodes
    <3>3. after # NULL => reqs.diff[after] + reqs.diff[s] \in Int
        BY <3>1, <3>2, MqttAssumption DEF DiffOK
    <3> HIDE DEF after, s
    <3> QED
        BY <3>3, CutIn
  <2> HIDE DEF d, timed, after
  <2>4. after # NULL => DiffOK(Delete(timed, s))
      BY <2>2, <2>3 DEF DiffOK
  <2> QED
      BY <1>0, <1>1, <2>1, <2>4, SameDiff
<1>6. CASE RecvConnack
  <2> DEFINE i == pktIdSeq + 1
             r == FreeSlot(reqs)
             made == Create(reqs, i)
             last == LastOf(made)
             sum == IF last = NULL THEN 0 ELSE Remaining(made, last)
  <2>1. \/ UNCHANGED reqs \/ reqs' = Clear(reqs)
        \/ FreeSlots(reqs) # {} /\ reqs' = AppendRequest(made, r)
      BY <1>6 DEF RecvConnack, Close, Subscribe
  <2>2. CASE FreeSlots(reqs) # {} /\ reqs' = AppendRequest(made, r)
    <3>1. Table(made) /\ Sound(made) /\ DiffOK(made)
        BY <1>0, <1>1, <2>2, CreateIs, SameDiff DEF Sound
    <3> HIDE DEF made, r
    <3>2. PICK F : Timed(made, made.diff, F) /\ \A x \in Queued(made) : F[x] \in Nat
      <4>1. \A x \in Queued(made) : made.diff[x] \in Nat
          BY <3>1, QueuedBusy, MqttAssumption DEF DiffOK
      <4> QED
          BY <3>1, <4>1, TimesExist
    <3>3. last # NULL => last \in Queued(made)
        BY <3>1, LastIs DEF LastOf
    <3>4. sum \in Int
        BY <3>1, <3>2, <3>3, RemainingIs
    <3>5. reqs' = Link(made, r, last, sum)
        BY <2>2 DEF AppendRequest
    <3> HIDE DEF last, sum
    <3> QED
        BY <3>1, <3>4, <3>5, LinkDiffOK
  <2> QED
      BY <1>0, <1>1, <2>1, <2>2, ClearDiff
<1>7. CASE RecvCut
  <2>1. ASSUME NEW s \in Queued(reqs), NEW p, p = Predecessor(reqs, s),
               NEW u, u = Unchain(reqs, s, p), reqs' = Clear([u EXCEPT !.next[s] = NULL])
        PROVE  reqs'.diff = reqs.diff
      BY <1>0, <2>1 DEF Unchain, Clear
  <2>2. reqs' = Clear(reqs) => reqs'.diff = reqs.diff
      BY <1>0, ClearDiff
  <2>3. reqs'.diff = reqs.diff
      BY <1>7, <2>1, <2>2 DEF RecvCut, Close
  <2> QED
      BY <1>1, <2>3
<1>8. CASE CyclicTimer
  <2>1. ASSUME NEW gone, gone = Expired(reqs), NEW first, first = FirstLeft(reqs, gone),
               NEW left, left = TimeElapsed(reqs, gone, first)
        PROVE  DiffOK(left) /\ DiffOK(Clear(left))
    <3>1. DiffOK(left)
        BY <1>0, <2>1, ElapsedDiff DEF DiffOK
    <3>2. Clear(left).diff = left.diff
        BY <1>0, <2>1 DEF TimeElapsed, Clear
    <3> QED
        BY <3>1, <3>2 DEF DiffOK
  <2>2. CASE ConnectTick \/ StrayTick
      BY <1>0, <1>1, <2>2, ClearDiff DEF ConnectTick, StrayTick, Close
  <2>3. CASE ConnectedTick
      BY <2>1, <2>3 DEF ConnectedTick, Close
  <2> QED
      BY <1>8, <2>2, <2>3 DEF CyclicTimer
<1>9. CASE RecvFin \/ TcpAborts
  <2>1. UNCHANGED reqs \/ reqs' = Clear(reqs)
      BY <1>9 DEF RecvFin, TcpAborts, Close
  <2> QED
      BY <1>0, <1>1, <2>1, ClearDiff
<1>10. CASE /\ TpAdvance \/ TcpSent \/ TcpPoll \/ RecvAck \/ RecvPublish \/ RecvPingresp
               \/ TcpConnected \/ Broker
    BY <1>2, <1>10 DEF TpAdvance, TcpSent, TcpPoll, RecvAck, RecvPublish, RecvPingresp,
       TcpConnected, Broker, BrokerReads, BrokerPublishes
<1> QED
    BY <1>2, <1>3, <1>4, <1>5, <1>6, <1>7, <1>8, <1>9, <1>10
       DEF MqttNext, TpInside, TpHandles, mqttVars

\* The connection, its flags, and the record of the races.
LEMMA FlagsStep ==
  ASSUME FlagTypes, TpTypes, StreamTypes, [MqttNext]_mqttVars
  PROVE  FlagTypes'
<1> USE DEF FlagTypes
<1>0. tp.release \in BOOLEAN
    BY DEF TpTypes
<1>1. /\ conn' \in {conn, "null", "pcb", "freed"}
      /\ connState' \in {connState, "TCP_DISCONNECTED", "TCP_CONNECTING", "MQTT_CONNECTING",
                         "MQTT_CONNECTED"}
      /\ tcp' \in {tcp, "closed", "syn", "open"}
    BY DEF MqttNext, mqttVars, SrvNext, SrvStart, SrvConnect, SrvSetErr, SrvSetState, SrvAppend,
       SrvWait, SrvPublish, SrvWalk, SrvLink, SrvSend, SrvAdvance, TpInside, TpAdvance, TpUnchain,
       TpFinish, TpHandles, TcpSent, TcpPoll, RecvConnack, RecvAck, RecvPublish, RecvPingresp,
       RecvCut, RecvFin, TcpConnected, TcpAborts, CyclicTimer, ConnectTick, ConnectedTick,
       StrayTick, Broker, BrokerReads, BrokerPublishes, Close, clientVars, netVars
<1>2. /\ errCb' \in BOOLEAN /\ timer' \in BOOLEAN
    BY DEF MqttNext, mqttVars, SrvNext, SrvStart, SrvConnect, SrvSetErr, SrvSetState, SrvAppend,
       SrvWait, SrvPublish, SrvWalk, SrvLink, SrvSend, SrvAdvance, TpInside, TpAdvance, TpUnchain,
       TpFinish, TpHandles, TcpSent, TcpPoll, RecvConnack, RecvAck, RecvPublish, RecvPingresp,
       RecvCut, RecvFin, TcpConnected, TcpAborts, CyclicTimer, ConnectTick, ConnectedTick,
       StrayTick, Broker, BrokerReads, BrokerPublishes, Close, clientVars, netVars
<1>3. unacked' \in BOOLEAN
  <2>1. ASSUME TcpSent PROVE unacked' \in BOOLEAN
    <3>1. unacked' = FALSE \/ \E k \in Writes(output, wire) : unacked' = (k > 0)
        BY <2>1 DEF TcpSent
    <3>2. \A k \in Writes(output, wire) : k \in Nat
        BY WritesIn DEF StreamTypes
    <3>3. \A k \in Nat : (k > 0) \in BOOLEAN
        OBVIOUS
    <3> QED
        BY <3>1, <3>2, <3>3, Zenon
  <2>2. (\E rb, k : Write(rb, k)) => unacked' \in BOOLEAN
      BY DEF Write
  <2>3. RecvConnack => unacked' \in BOOLEAN
      BY <2>2 DEF RecvConnack, Subscribe, Close
  <2>4. CASE ~TcpSent /\ ~RecvConnack
      BY <2>2, <2>4 DEF MqttNext, mqttVars, SrvNext, SrvStart, SrvConnect, SrvSetErr, SrvSetState,
         SrvAppend, SrvWait, SrvPublish, SrvWalk, SrvLink, SrvSend, SrvAdvance, TpInside,
         TpAdvance, TpUnchain, TpFinish, TpHandles, TcpPoll, RecvAck, RecvPublish, RecvPingresp,
         RecvCut, RecvFin, TcpConnected, TcpAborts, CyclicTimer, ConnectTick, ConnectedTick,
         StrayTick, Broker, BrokerReads, BrokerPublishes, Close, netVars
  <2> QED
      BY <2>1, <2>3, <2>4
<1>4. sem' \in BOOLEAN
    BY <1>0 DEF MqttNext, mqttVars, SrvNext, SrvStart, SrvConnect, SrvSetErr, SrvSetState, SrvAppend,
       SrvWait, SrvPublish, SrvWalk, SrvLink, SrvSend, SrvAdvance, TpInside, TpAdvance, TpUnchain,
       TpFinish, TpHandles, TcpSent, TcpPoll, RecvConnack, Subscribe, RecvAck, RecvPublish,
       RecvPingresp, RecvCut, RecvFin, TcpConnected, TcpAborts, CyclicTimer, Broker, BrokerReads,
       BrokerPublishes
<1>5. lost' \in BOOLEAN
    BY DEF MqttNext, mqttVars, SrvNext, SrvStart, SrvConnect, SrvSetErr, SrvSetState, SrvAppend,
       SrvWait, SrvPublish, SrvWalk, SrvLink, SrvSend, SrvAdvance, TpInside, TpAdvance, TpUnchain,
       TpFinish, TpHandles, TcpSent, TcpPoll, RecvConnack, Subscribe, RecvAck, RecvPublish,
       RecvPingresp, RecvCut, RecvFin, TcpConnected, TcpAborts, CyclicTimer, ConnectTick,
       ConnectedTick, StrayTick, Broker, BrokerReads, BrokerPublishes, Put, outVars
<1>6. raced' \subseteq raced \cup {"table", "ring", "state"}
    BY DEF MqttNext, mqttVars, SrvNext, SrvStart, SrvConnect, SrvSetErr, SrvSetState, SrvAppend,
       SrvWait, SrvPublish, SrvWalk, SrvLink, SrvSend, SrvAdvance, TpInside, TpAdvance, TpUnchain,
       TpFinish, TpHandles, TcpSent, TcpPoll, RecvConnack, Subscribe, RecvAck, RecvPublish,
       RecvPingresp, RecvCut, RecvFin, TcpConnected, TcpAborts, CyclicTimer, ConnectTick,
       ConnectedTick, StrayTick, Broker, BrokerReads, BrokerPublishes, TableRace, PutRace,
       SendRace, StateRace
<1> QED
    BY <1>1, <1>2, <1>3, <1>4, <1>5, <1>6

\* The counters never go below zero.
LEMMA CountsStep ==
  ASSUME CountTypes, [MqttNext]_mqttVars
  PROVE  CountTypes'
<1> USE DEF CountTypes
<1>1. budget' = budget \/ (Unasked /\ budget.unasked > 0)
    BY DEF MqttNext, mqttVars, SrvNext, SrvStart, SrvConnect, SrvSetErr, SrvSetState, SrvAppend,
       SrvWait, SrvPublish, SrvWalk, SrvLink, SrvSend, SrvAdvance, TpInside, TpAdvance, TpUnchain,
       TpFinish, TpHandles, TcpSent, TcpPoll, RecvConnack, RecvAck, RecvPublish, RecvPingresp,
       RecvCut, RecvFin, TcpConnected, TcpAborts, CyclicTimer, ConnectTick, ConnectedTick,
       StrayTick, Broker, BrokerReads, BrokerPublishes, netVars
<1>2. budget' \in [srv : 0..MaxPublishes, unasked : 0..MaxUnasked]
  <2>1. ASSUME Unasked, budget.unasked > 0
        PROVE  budget' \in [srv : 0..MaxPublishes, unasked : 0..MaxUnasked]
    <3>1. budget.unasked - 1 \in 0..MaxUnasked
        BY <2>1, MqttAssumption
    <3> QED
        BY <2>1, <3>1 DEF Unasked
  <2> QED
      BY <1>1, <2>1
<1>3. cyclicTick' \in {cyclicTick, 0, cyclicTick + 1, Min({cyclicTick + 1, KeepAlive})}
    BY DEF MqttNext, mqttVars, SrvNext, SrvStart, SrvConnect, SrvSetErr, SrvSetState, SrvAppend,
       SrvWait, SrvPublish, SrvWalk, SrvLink, SrvSend, SrvAdvance, TpInside, TpAdvance, TpUnchain,
       TpFinish, TpHandles, TcpSent, TcpPoll, RecvConnack, RecvAck, RecvPublish, RecvPingresp,
       RecvCut, RecvFin, TcpConnected, TcpAborts, CyclicTimer, ConnectTick, ConnectedTick,
       StrayTick, Broker, BrokerReads, BrokerPublishes, clientVars
<1>4. watchdog' \in {watchdog, 0, watchdog + 1}
    BY DEF MqttNext, mqttVars, SrvNext, SrvStart, SrvConnect, SrvSetErr, SrvSetState, SrvAppend,
       SrvWait, SrvPublish, SrvWalk, SrvLink, SrvSend, SrvAdvance, TpInside, TpAdvance, TpUnchain,
       TpFinish, TpHandles, TcpSent, TcpPoll, RecvConnack, RecvAck, RecvPublish,
       RecvPingresp, Receives, RecvCut, RecvFin, TcpConnected, TcpAborts, CyclicTimer,
       ConnectTick, ConnectedTick, StrayTick, Broker, BrokerReads, BrokerPublishes, clientVars
<1>5. Min({cyclicTick + 1, KeepAlive}) \in Nat
    BY MinIs, MqttAssumption
<1> QED
    BY <1>2, <1>3, <1>4, <1>5

\* The sum of srv_conn's walk is cut to 16 bits; a send is no longer than the ring.
LEMMA SrvTypesStep ==
  ASSUME Locals, Sound(reqs), SrvTypes, DiffOK(reqs), StreamTypes, [MqttNext]_mqttVars
  PROVE  SrvTypes'
<1> USE DEF Locals, Goto
<1>1. srv'.pc \in {srv.pc, "start", "connect", "set_err", "set_state", "append", "wait", "publish",
                   "walk", "link", "send", "advance", "spin", "stopped"}
    BY DEF MqttNext, mqttVars, SrvNext, SrvStart, SrvConnect, SrvSetErr, SrvSetState, SrvAppend,
       SrvWait, SrvPublish, SrvWalk, SrvLink, SrvSend, SrvAdvance, TpInside, TpAdvance, TpUnchain,
       TpFinish, TpHandles, TcpSent, TcpPoll, RecvConnack, RecvAck, RecvPublish, RecvPingresp,
       RecvCut, RecvFin, TcpConnected, TcpAborts, CyclicTimer, Broker, BrokerReads, BrokerPublishes
<1>2. CASE SrvWalk /\ srv.iter # NULL
  <2>1. srv.iter \in Slots
      BY <1>2 DEF Nodes
  <2>2. srv.sum + reqs.diff[srv.iter] \in Int
      BY <2>1, MqttAssumption DEF SrvTypes, DiffOK
  <2>3. srv'.k = srv.k /\ srv'.sum \in {srv.sum, (srv.sum + reqs.diff[srv.iter]) % DiffMod}
      BY <1>2 DEF SrvWalk
  <2>4. (srv.sum + reqs.diff[srv.iter]) % DiffMod \in 0..(DiffMod - 1)
      BY <2>2, CutIn
  <2> QED
      BY <1>1, <2>3, <2>4 DEF SrvTypes
<1>3. CASE SrvSend
  <2>1. PICK k \in Writes(output, wire) : srv'.k = k /\ srv'.sum = srv.sum
      BY <1>3 DEF SrvSend
  <2>2. k \in Nat /\ k <= output.len
      BY WritesIn DEF StreamTypes
  <2>3. k \in 0..RingSize
      BY <2>2, MqttAssumption DEF StreamTypes, Ring
  <2> QED
      BY <1>1, <2>1, <2>3 DEF SrvTypes
<1>4. CASE ~SrvSend /\ ~(SrvWalk /\ srv.iter # NULL)
  <2>1. srv'.sum \in {srv.sum, 0} /\ srv'.k \in {srv.k, 0}
      BY <1>4 DEF MqttNext, mqttVars, SrvNext, SrvStart, SrvConnect, SrvSetErr, SrvSetState,
         SrvAppend, SrvWait, SrvPublish, SrvWalk, SrvLink, SrvAdvance, TpInside, TpAdvance,
         TpUnchain, TpFinish, TpHandles, TcpSent, TcpPoll, RecvConnack, RecvAck, RecvPublish,
         RecvPingresp, RecvCut, RecvFin, TcpConnected, TcpAborts, CyclicTimer, Broker, BrokerReads,
         BrokerPublishes
  <2>2. 0 \in 0..(DiffMod - 1) /\ 0 \in 0..RingSize
      BY MqttAssumption
  <2> QED
      BY <1>1, <2>1, <2>2 DEF SrvTypes
<1> QED
    BY <1>2, <1>3, <1>4

\* The tcpip_thread takes a request with what is before it in the queue, and a
\* send is no longer than the ring.
LEMMA TpTypesStep ==
  ASSUME WalksInv, TpTypes, StreamTypes, StreamTypes', [MqttNext]_mqttVars
  PROVE  TpTypes'
<1> DEFINE Tp == [pc : {"idle", "advance", "unchain", "finish"}, slot : Slots \cup {NULL},
                  prev : Slots \cup {NULL}, k : 0..RingSize, release : BOOLEAN]
<1> SUFFICES tp' \in Tp
    BY DEF TpTypes
<1>0. 0 \in 0..RingSize /\ tp \in Tp
    BY MqttAssumption DEF TpTypes
<1>1. TpIdle \in Tp
    BY <1>0 DEF TpIdle
<1>2. ASSUME NEW k \in 0..RingSize, NEW release \in BOOLEAN, TpWrite(k, release) PROVE tp' \in Tp
  <2>1. tp' = [pc |-> "advance", slot |-> NULL, prev |-> NULL, k |-> k, release |-> release]
      BY <1>2 DEF TpWrite, TpIdle
  <2> QED
      BY <1>2, <2>1
<1> HIDE DEF Tp
<1>3. ASSUME NEW rb \in Ring, NEW k \in Writes(rb, wire) PROVE k \in 0..RingSize
  <2>1. k \in Nat /\ k <= rb.len
      BY WritesIn DEF StreamTypes
  <2> QED
      BY <2>1, MqttAssumption DEF Ring
<1>4. output \in Ring /\ output' \in Ring
    BY DEF StreamTypes
<1>5. CASE RecvAck
  <2>1. CASE UNCHANGED tp
      BY <1>0, <2>1
  <2>2. CASE ~UNCHANGED tp
    <3>1. PICK s \in Queued(reqs) :
            tp' = [TpIdle EXCEPT !.pc = "unchain", !.slot = s, !.prev = Predecessor(reqs, s)]
        BY <1>5, <2>2 DEF RecvAck
    <3>2. \A x \in Queued(reqs) : x \in Slots
        BY QueuedBusy DEF WalksInv, TableInv
    <3>3. Predecessor(reqs, s) \in Slots \cup {NULL}
        BY <3>2, PredecessorIs DEF WalksInv, TableInv
    <3>4. tp' = [pc |-> "unchain", slot |-> s, prev |-> Predecessor(reqs, s), k |-> 0,
                 release |-> FALSE]
        BY <3>1 DEF TpIdle
    <3> QED
        BY <1>0, <3>2, <3>3, <3>4 DEF Tp
  <2> QED
      BY <2>1, <2>2
<1>6. CASE TpInside
  <2>1. tp' = TpIdle \/ tp' = [tp EXCEPT !.pc = "finish", !.prev = NULL]
      BY <1>6 DEF TpInside, TpAdvance, TpUnchain, TpFinish
  <2> QED
      BY <1>0, <1>1, <2>1 DEF Tp
<1>7. CASE TcpConnected \/ TcpPoll \/ TcpSent \/ RecvConnack \/ RecvPublish
  <2>1. \/ tp' = tp
        \/ \E k \in Writes(output, wire) : TpWrite(k, FALSE)
        \/ \E k \in Writes(output', wire) : TpWrite(k, FALSE) \/ TpWrite(k, TRUE)
      BY <1>7 DEF TcpConnected, TcpPoll, TcpSent, RecvConnack, RecvPublish, Subscribe
  <2> QED
      BY <1>0, <1>2, <1>3, <1>4, <2>1
<1>8. CASE UNCHANGED tp
    BY <1>0, <1>8
<1> QED
    BY <1>5, <1>6, <1>7, <1>8 DEF MqttNext, mqttVars, SrvNext, SrvStart, SrvConnect, SrvSetErr,
       SrvSetState, SrvAppend, SrvWait, SrvPublish, SrvWalk, SrvLink, SrvSend, SrvAdvance,
       TpHandles, RecvPingresp, RecvCut, RecvFin, TcpAborts, CyclicTimer, Broker, BrokerReads,
       BrokerPublishes

\* What the broker has still to read are cells.
LEMMA UnsentStep ==
  ASSUME Locals, EarlyInv, SeqInv, StreamTypes, unsent \in Seq(CellSet), [MqttNext]_mqttVars
  PROVE  unsent' \in Seq(CellSet)
<1>0. <<>> \in Seq(CellSet)
    OBVIOUS
<1>1. ASSUME NEW cell \in CellSet, Owe(cell) PROVE unsent' \in Seq(CellSet)
  <2>2. Append(unsent, cell) \in Seq(CellSet)
      OBVIOUS
  <2>1. unsent' = <<>> \/ unsent' = Append(unsent, cell)
      BY <1>1 DEF Owe
  <2> QED
      BY <1>0, <2>1, <2>2
<1>2. CASE SrvAppend
  <2>1. Head(srv.todo) \in CellSet
      BY <1>2 DEF SrvAppend, StreamTypes
  <2> QED
      BY <1>1, <1>2, <2>1 DEF SrvAppend
<1>3. CASE RecvConnack \/ RecvPublish \/ CyclicTimer
  <2>1. \/ unsent' = unsent \/ unsent' = <<>>
        \/ Owe(<<"PUBACK", 0, 1>>) \/ Owe(<<"PINGREQ", 0, 1>>)
        \/ connState = "MQTT_CONNECTING" /\ Owe(<<"SUBSCRIBE", pktIdSeq + 1, 1>>)
      BY <1>3 DEF RecvConnack, Subscribe, RecvPublish, CyclicTimer, ConnectTick, ConnectedTick,
         StrayTick, Close, outVars
  <2>2. <<"PUBACK", 0, 1>> \in CellSet /\ <<"PINGREQ", 0, 1>> \in CellSet
      BY CellsIn DEF Kinds
  <2>3. connState = "MQTT_CONNECTING" => <<"SUBSCRIBE", pktIdSeq + 1, 1>> \in CellSet
    <3>1. connState = "MQTT_CONNECTING" => pktIdSeq + 1 \in Ids
        BY MqttAssumption DEF SeqInv, Early, Ids
    <3> QED
        BY <3>1, CellsIn DEF Kinds
  <2>4. <<>> \in Seq(CellSet)
      OBVIOUS
  <2> QED
      BY <1>1, <2>1, <2>2, <2>3, <2>4
<1>4. CASE BrokerReads
  <2>1. unsent' = SubSeq(unsent, Size(Head(wire)[1]) + 1, Len(unsent))
      BY <1>4 DEF BrokerReads
  <2>2. Size(Head(wire)[1]) \in Nat
      BY DEF Size
  <2> DEFINE n == Size(Head(wire)[1])
  <2>3. n \in Nat
      BY <2>2
  <2> HIDE DEF n
  <2>4. SubSeq(unsent, n + 1, Len(unsent)) \in Seq(CellSet)
      BY <2>3
  <2> QED
      BY <2>1, <2>4 DEF n
<1>5. CASE ~(SrvAppend \/ RecvConnack \/ RecvPublish \/ CyclicTimer \/ BrokerReads)
  <2>1. unsent' = unsent \/ unsent' = <<>>
      BY <1>5 DEF MqttNext, mqttVars, SrvNext, SrvStart, SrvConnect, SrvSetErr, SrvSetState,
         SrvWait, SrvPublish, SrvWalk, SrvLink, SrvSend, SrvAdvance, TpInside, TpAdvance,
         TpUnchain, TpFinish, TpHandles, TcpSent, TcpPoll, RecvAck, RecvPingresp, RecvCut,
         RecvFin, TcpConnected, TcpAborts, Broker, BrokerPublishes, Close, outVars
  <2> QED
      BY <1>0, <2>1
<1> QED
    BY <1>2, <1>3, <1>4, <1>5

\* At first nothing is open, counted, queued or sent.
LEMMA RestInit == MqttInit => RestTypes
<1> SUFFICES ASSUME MqttInit PROVE RestTypes
    OBVIOUS
<1>0. 0 \in 0..(DiffMod - 1) /\ 0 \in 0..RingSize
    BY MqttAssumption
<1>1. FlagTypes
    BY DEF MqttInit, FlagTypes
<1>2. CountTypes
    BY DEF MqttInit, CountTypes
<1>3. SrvTypes
    BY <1>0 DEF MqttInit, SrvTypes, SrvIdle
<1>4. TpTypes
    BY <1>0 DEF MqttInit, TpTypes, TpIdle
<1>5. DiffOK(reqs)
  <2>1. reqs.diff = [s \in Slots |-> 0]
      BY DEF MqttInit, EmptyTable
  <2> QED
      BY <1>0, <2>1 DEF DiffOK
<1>6. unsent \in Seq(CellSet)
    BY DEF MqttInit
<1> QED
    BY <1>1, <1>2, <1>3, <1>4, <1>5, <1>6 DEF RestTypes

\* The types are kept by every step, raced or not.
LEMMA RestStep ==
  ASSUME WalksInv, SeqInv, StreamTypes, StreamTypes', RestTypes, [MqttNext]_mqttVars
  PROVE  RestTypes'
<1> USE DEF RestTypes, WalksInv, TableInv
<1>1. FlagTypes'
    BY FlagsStep
<1>2. CountTypes'
    BY CountsStep
<1>3. SrvTypes'
    BY SrvTypesStep
<1>4. TpTypes'
    BY TpTypesStep
<1>5. DiffOK(reqs')
    BY DiffTypes
<1>6. unsent' \in Seq(CellSet)
    BY UnsentStep
<1> QED
    BY <1>1, <1>2, <1>3, <1>4, <1>5, <1>6

\* MqttTypeOK is made of these.
LEMMA TypesGive ==
  ASSUME WalksInv, SeqInv, StreamTypes, ReqInv, AgeInv, RestTypes
  PROVE  MqttTypeOK
<1>1. reqs \in [queue : Slots \cup {NULL}, next : [Slots -> Slots \cup {NULL}],
                id : [Slots -> Ids \cup {0}], diff : [Slots -> 0..(DiffMod - 1)]]
  <2>1. /\ reqs = [queue |-> reqs.queue, next |-> reqs.next, id |-> reqs.id, diff |-> reqs.diff]
        /\ reqs.queue \in Slots \cup {NULL} /\ reqs.next \in [Slots -> Slots \cup {NULL}]
      BY DEF WalksInv, TableInv, Sound, Table, Linked, Nodes
  <2> QED
      BY <2>1 DEF ReqInv, RestTypes, DiffOK
<1>2. outcome \in [Ids -> {"none", "pending", "confirmed", "timed_out", "dropped", "wrong"}]
    BY DEF ReqInv, Results
<1>3. pktIdSeq \in Ids \cup {0}
    BY MqttAssumption DEF SeqInv, Ids
<1>4. srv.slot \in Slots \cup {NULL} /\ srv.iter \in Slots \cup {NULL}
      /\ srv.head \in Slots \cup {NULL}
    BY DEF WalksInv, Locals, Nodes
<1>5. /\ output \in [buf : [0..(RingSize - 1) -> CellSet], len : 0..(RingSize - 1)]
      /\ wire \in Seq(CellSet) /\ unsent \in Seq(CellSet) /\ srv.todo \in Seq(CellSet)
    BY DEF StreamTypes, Ring, RestTypes
<1> QED
    BY <1>1, <1>2, <1>3, <1>4, <1>5
       DEF MqttTypeOK, ReqInv, AgeInv, RestTypes, FlagTypes, CountTypes, SrvTypes, TpTypes

\* For any table, ring and interleaving, raced or not, every variable keeps its
\* type: no identifier, index, difference or length leaves the width that the
\* fields of mqtt_client_t have (mqtt_priv.h, mqtt.c).
THEOREM MqttTypeCorrect == MqttSpec => []MqttTypeOK
<1> DEFINE Inv == WalksInv /\ SeqInv /\ StreamTypes /\ ReqInv /\ AgeInv /\ RestTypes
<1>1. MqttInit => Inv
    BY WalksInit, ReqInitCorrect, DueInit, RestInit DEF DueInv
<1>2. Inv /\ [MqttNext]_mqttVars => Inv'
    BY WalksStep, SeqStep, StreamStep, ReqStepCorrect, AgesStep, RestStep DEF WalksInv
<1>3. Inv => MqttTypeOK
    BY TypesGive
<1> QED
    BY <1>1, <1>2, <1>3, PTL DEF MqttSpec
=============================================================================
