----------------------------- MODULE MqttClient -----------------------------
(***************************************************************************)
(* The telemetry client: the thread srv_conn (mqtt_server_connection)      *)
(* calls lwIP's MQTT library directly, while the tcpip_thread runs the     *)
(* library's TCP callbacks and its cyclic timer on the same mqtt_client_t. *)
(* LWIP_ASSERT_CORE_LOCKED is empty in this build and srv_conn takes no    *)
(* lock, so the two threads, of one priority with time slicing, interleave *)
(* at any point.  One connection attempt is modelled: the program makes    *)
(* no second one.                                                          *)
(*                                                                         *)
(* The bytes of a message are abstracted to one or two cells, so that a    *)
(* message can be cut and the ring can be filled exactly.                  *)
(***************************************************************************)
EXTENDS Integers, Sequences, FiniteSets, FiniteSetsExt

CONSTANTS
  MaxInFlight,     \* MQTT_REQ_MAX_IN_FLIGHT (4)
  ReqTimeout,      \* MQTT_REQ_TIMEOUT (30 s)
  ConnectTimeout,  \* MQTT_CONNECT_TIMOUT (100 s)
  Interval,        \* MQTT_CYCLIC_TIMER_INTERVAL (5 s)
  KeepAlive,       \* keep_alive of mqtt_client_info (100 s)
  RingSize,        \* MQTT_OUTPUT_RINGBUF_SIZE, in cells
  SndBuf,          \* TCP_SND_BUF, in cells
  DiffMod,         \* timeout_diff is computed modulo 2^16
  MaxPublishes,    \* bound: messages the thread publishes
  MaxUnasked       \* bound: messages the broker publishes, and PINGREQs

ASSUME MqttAssumption ==
  /\ MaxInFlight \in Nat \ {0}
  /\ Interval \in Nat \ {0}
  /\ ReqTimeout \in Nat \ {0}
  /\ ConnectTimeout \in Nat
  /\ KeepAlive \in Nat \ {0}
  /\ RingSize \in Nat \ {0, 1}
  /\ SndBuf \in Nat
  /\ DiffMod \in Nat /\ DiffMod > ReqTimeout
  /\ MaxPublishes \in Nat
  /\ MaxUnasked \in Nat

VARIABLES
  conn,        \* client->conn: "null", "pcb", or "freed" when it dangles
  connState,   \* client->conn_state
  errCb,       \* mqtt_tcp_err_cb is registered
  timer,       \* mqtt_cyclic_timer is scheduled
  cyclicTick,  \* client->cyclic_tick
  watchdog,    \* client->server_watchdog
  reqs,        \* client->req_list and pend_req_queue
  output,      \* client->output
  pktIdSeq,    \* client->pkt_id_seq
  sem,         \* conn_successfull is signalled
  srv,         \* srv_conn: where it is, and its locals
  tp,          \* tcpip_thread: the handler it is inside
  tcp,         \* the connection: "closed", "syn" or "open"
  wire,        \* cells written to TCP that the broker has not read
  unacked,     \* TCP has not yet reported written data as acknowledged
  down,        \* messages of the broker that the client has not received
  budget,      \* bound: publications, and messages of the broker and PINGREQs to come
  outcome,     \* history: what became of each request
  answered,    \* history: requests the broker has answered
  age,         \* history: seconds the timer counted since a request was queued
  unsent,      \* history: cells put into the ring that the broker has not read,
               \* until the ring is damaged
  lost,        \* history: the ring was filled exactly, and so looked empty
  raced        \* history: what the two threads have changed under each other

clientVars == <<conn, connState, errCb, timer, cyclicTick, watchdog>>
netVars == <<tcp, wire, unacked, down, budget>>
reqHistory == <<outcome, answered, age>>
outVars == <<output, unsent, lost>>
mqttVars == <<clientVars, netVars, reqs, outVars, pktIdSeq, sem, srv, tp,
              reqHistory, raced>>

Ids == 1..(MaxPublishes + 1)
Slots == 1..MaxInFlight
NULL == 0

-----------------------------------------------------------------------------
(* The request table: a list threaded through a fixed array.  A slot whose *)
(* next is itself is free; timeout_diff counts from the predecessor.       *)

EmptyTable == [queue |-> NULL,
               next  |-> [s \in Slots |-> s],
               id    |-> [s \in Slots |-> 0],
               diff  |-> [s \in Slots |-> 0]]

FreeSlots(t) == {s \in Slots : t.next[s] = s}

Regions == SUBSET (Slots \cup {NULL})

\* What a walk that starts at from meets: it is in every set closed under next.
Reach(t, from) ==
  LET closed == {C \in Regions : from \in C /\ \A c \in C \ {NULL} : t.next[c] \in C}
  IN  {x \in Slots \cup {NULL} : \A C \in closed : x \in C}

Queued(t) == Reach(t, t.queue) \ {NULL}
QueuedIds(t) == {t.id[s] : s \in Queued(t)}

Predecessor(t, s) ==
  IF t.queue = s THEN NULL ELSE CHOOSE x \in Queued(t) : t.next[x] = s

\* The time until s expires: the sum of the differences up to it.
Remaining(t, s) ==
  LET sum[x \in Queued(t)] ==
        IF x = t.queue THEN t.diff[x] ELSE sum[Predecessor(t, x)] + t.diff[x]
  IN  sum[s]

\* The free slot a request is given: the first, but which one makes no difference.
FreeSlot(t) == CHOOSE s \in FreeSlots(t) : TRUE

Create(t, i) ==
  LET r == FreeSlot(t)
  IN  [t EXCEPT !.next[r] = NULL, !.id[r] = i]

Delete(t, s) == [t EXCEPT !.next[s] = s]

\* Slip: the new request is given the whole time, not what the others leave of it.
Link_undated(t, s, last, sum) ==
  LET dated == [t EXCEPT !.diff[s] = ReqTimeout]
  IN  IF last = NULL THEN [dated EXCEPT !.queue = s] ELSE [dated EXCEPT !.next[last] = s]

\* mqtt_append_request after its walk, which found the last item and the sum.
Link(t, s, last, sum) ==
  LET dated == [t EXCEPT !.diff[s] = (ReqTimeout - sum) % DiffMod]
  IN  IF last = NULL THEN [dated EXCEPT !.queue = s] ELSE [dated EXCEPT !.next[last] = s]

LastOf(t) ==
  IF t.queue = NULL THEN NULL ELSE CHOOSE s \in Queued(t) : t.next[s] = NULL

\* The whole of mqtt_append_request, when nothing interrupts it.
AppendRequest(t, s) ==
  LET last == LastOf(t)
  IN  Link(t, s, last, IF last = NULL THEN 0 ELSE Remaining(t, last))

\* mqtt_clear_requests.
Clear(t) ==
  [t EXCEPT !.queue = NULL,
            !.next = [s \in Slots |-> IF s \in Queued(t) THEN s ELSE t.next[s]]]

\* mqtt_request_time_elapsed: the requests it unchains, and the table it leaves.
\* It stops when the time is used up, so a request due with the last one it
\* removes waits for the next call.
Expired(t) ==
  {s \in Queued(t) : \A x \in Queued(t) : s \in Reach(t, x) =>
                       /\ Remaining(t, x) <= Interval
                       /\ Remaining(t, x) - t.diff[x] < Interval}

\* The first item that stays in the queue.
FirstLeft(t, gone) ==
  IF Queued(t) = gone THEN NULL
  ELSE CHOOSE s \in Queued(t) \ gone : s = t.queue \/ \E x \in gone : t.next[x] = s

TimeElapsed(t, gone, first) ==
  [t EXCEPT !.queue = first,
            !.next = [s \in Slots |-> IF s \in gone THEN s ELSE t.next[s]],
            !.diff = [s \in Slots |-> IF s = first THEN Remaining(t, s) - Interval
                                      ELSE t.diff[s]]]

-----------------------------------------------------------------------------
(* The output ring and the messages, in cells <<kind, packet id, part>>.   *)

Blank == <<"none", 0, 1>>
Size(kind) == IF kind \in {"CONNECT", "PUBLISH"} THEN 2 ELSE 1
Cells(kind, i) == [n \in 1..Size(kind) |-> <<kind, i, n>>]
Kinds == {"CONNECT", "SUBSCRIBE", "PUBLISH", "PUBACK", "PINGREQ"}
CellSet == (Kinds \X (Ids \cup {0}) \X {1, 2}) \cup {Blank}

\* The ring, seen from get: buf[n] is rb->buf[(get + n) % size], and len is
\* what mqtt_ringbuf_len computes of put and get.
EmptyRing == [buf |-> [n \in 0..(RingSize - 1) |-> Blank], len |-> 0]

\* mqtt_output_check_space: <=, so a message may fill the ring exactly.
CheckSpace(rb, kind) == Size(kind) <= RingSize - rb.len

Content(rb) == [n \in 1..rb.len |-> rb.buf[n - 1]]

\* Slip: the second part of a send is not counted.
AdvanceGet_once(rb, k) ==
  LET j == Min({k, 1})
  IN  [buf |-> [n \in 0..(RingSize - 1) |-> IF n + j < RingSize THEN rb.buf[n + j] ELSE Blank],
       len |-> (rb.len - j) % RingSize]

\* mqtt_ringbuf_advance_get_idx.  A cell that is passed is blanked, so that
\* sending it again shows.
AdvanceGet(rb, k) ==
  [buf |-> [n \in 0..(RingSize - 1) |-> IF n + k < RingSize THEN rb.buf[n + k] ELSE Blank],
   len |-> (rb.len - k) % RingSize]

\* mqtt_ringbuf_put, with whether the ring has become full, which
\* mqtt_ringbuf_len takes for empty.
Put(cell) ==
  /\ output' = [buf |-> [output.buf EXCEPT ![output.len] = cell],
                len |-> (output.len + 1) % RingSize]
  /\ lost' = (lost \/ output.len + 1 = RingSize)

\* The broker is to read the cell too.
Owe(cell) == unsent' = IF lost' \/ "ring" \in raced THEN <<>> ELSE Append(unsent, cell)

\* The cells mqtt_output_send writes, of a ring rb, when w are still on their
\* way: as many as the TCP send buffer has room for, none if altcp_write runs
\* out of memory or there is no connection.  What the ring holds past its end
\* goes with a second altcp_write.
Writes(rb, w) ==
  IF conn = "pcb" THEN {0, Min({rb.len, Max({SndBuf - Len(w), 0})})} ELSE {0}

\* mqtt_output_send up to its last altcp_write.
Write(rb, k) ==
  /\ wire' = wire \o SubSeq(Content(rb), 1, k)
  /\ unacked' = (unacked \/ k > 0)

-----------------------------------------------------------------------------
(* What one thread may not do while the other is inside, by what it breaks. *)

\* The tcpip_thread changes the table while srv_conn walks it or links to it.
TableRace == IF srv.pc \in {"walk", "link"} THEN {"table"} ELSE {}

\* Two threads append to the ring at once, or two take from it.
PutRace == IF srv.pc = "append" THEN {"ring"} ELSE {}
SendRace(k) == IF srv.pc = "advance" /\ k > 0 THEN {"ring"} ELSE {}

\* The connection changes between two steps of mqtt_client_connect that
\* assume it is in progress, or is closed under mqtt_publish.
StateRace ==
  IF \/ srv.pc \in {"set_err", "set_state"}
     \/ srv.slot # NULL /\ srv.pc \in {"append", "walk", "link"}
  THEN {"state"} ELSE {}

-----------------------------------------------------------------------------
SrvIdle == [pc |-> "start", slot |-> NULL, todo |-> <<>>, iter |-> NULL,
            head |-> NULL, sum |-> 0, k |-> 0]
TpIdle == [pc |-> "idle", slot |-> NULL, prev |-> NULL, k |-> 0, release |-> FALSE]

MqttInit ==
  /\ conn = "null" /\ connState = "TCP_DISCONNECTED"
  /\ errCb = FALSE /\ timer = FALSE
  /\ cyclicTick = 0 /\ watchdog = 0
  /\ reqs = EmptyTable
  /\ output = EmptyRing
  /\ pktIdSeq = 0
  /\ sem = FALSE
  /\ srv = SrvIdle
  /\ tp = TpIdle
  /\ tcp = "closed" /\ wire = <<>> /\ unacked = FALSE /\ down = <<>>
  /\ budget \in [srv : 0..MaxPublishes, unasked : 0..MaxUnasked]
  /\ outcome = [i \in Ids |-> "none"] /\ answered = {}
  /\ age = [i \in Ids |-> 0]
  /\ unsent = <<>> /\ lost = FALSE /\ raced = {}

Goto(l) == srv' = [srv EXCEPT !.pc = l]

\* One message that nobody asked for.
Unasked == budget' = [budget EXCEPT !.unasked = @ - 1]

-----------------------------------------------------------------------------
(* The thread srv_conn: mqtt_server_connection.                            *)

\* The semaphore and the client are allocated, or the thread stops.
SrvStart ==
  /\ srv.pc = "start"
  /\ Goto("connect") \/ Goto("stopped")
  /\ UNCHANGED <<clientVars, netVars, reqs, outVars, pktIdSeq, sem, tp, reqHistory, raced>>

\* mqtt_client_connect up to altcp_connect.  Its failure is not looked at.
SrvConnect ==
  /\ srv.pc = "connect"
  /\ \/ conn' = "pcb" /\ tcp' = "syn" /\ Goto("set_err")
     \/ UNCHANGED <<conn, tcp>> /\ Goto("wait")
  /\ UNCHANGED <<connState, errCb, timer, cyclicTick, watchdog, wire, unacked, down, budget,
                 reqs, outVars, pktIdSeq, sem, tp, reqHistory, raced>>

\* altcp_err(client->conn, mqtt_tcp_err_cb)
SrvSetErr ==
  /\ srv.pc = "set_err"
  /\ errCb' = (conn = "pcb")
  /\ Goto("set_state")
  /\ UNCHANGED <<conn, connState, timer, cyclicTick, watchdog, netVars, reqs, outVars,
                 pktIdSeq, sem, tp, reqHistory, raced>>

\* client->conn_state = TCP_CONNECTING, then the CONNECT message is built.
SrvSetState ==
  /\ srv.pc = "set_state"
  /\ connState' = "TCP_CONNECTING"
  /\ srv' = [srv EXCEPT !.pc = "append", !.todo = Cells("CONNECT", 0)]
  /\ UNCHANGED <<conn, errCb, timer, cyclicTick, watchdog, netVars, reqs, outVars,
                 pktIdSeq, sem, tp, reqHistory, raced>>

\* One more part of the message, and after the last the next thing to do:
\* wait for CONNACK, or queue the request (iter = *tail).
SrvAppend ==
  /\ srv.pc = "append"
  /\ Put(Head(srv.todo)) /\ Owe(Head(srv.todo))
  /\ srv' = IF Len(srv.todo) > 1 THEN [srv EXCEPT !.todo = Tail(@)]
            ELSE IF srv.slot = NULL THEN [srv EXCEPT !.pc = "wait", !.todo = <<>>]
            ELSE [srv EXCEPT !.pc = "walk", !.todo = <<>>, !.iter = reqs.queue,
                             !.head = NULL, !.sum = 0]
  /\ UNCHANGED <<clientVars, netVars, reqs, pktIdSeq, sem, tp, reqHistory, raced>>

\* osal_semaphore_wait(conn_successfull, 5000): the answer, or the timeout.
SrvWait ==
  /\ srv.pc = "wait"
  /\ \/ sem /\ sem' = FALSE /\ Goto("publish")
     \/ UNCHANGED sem /\ Goto("stopped")
  /\ UNCHANGED <<clientVars, netVars, reqs, outVars, pktIdSeq, tp, reqHistory, raced>>

\* mqtt_publish up to the space check.  Any error ends the thread.
SrvPublish ==
  /\ srv.pc = "publish"
  /\ pktIdSeq \in 1..budget.srv
  /\ IF connState = "TCP_DISCONNECTED"
     THEN Goto("stopped") /\ UNCHANGED <<pktIdSeq, reqs>>
     ELSE /\ pktIdSeq' = pktIdSeq + 1
          /\ IF FreeSlots(reqs) = {}
             THEN Goto("stopped") /\ UNCHANGED reqs
             ELSE LET r == FreeSlot(reqs)
                      made == Create(reqs, pktIdSeq + 1)
                  IN  IF CheckSpace(output, "PUBLISH")
                      THEN /\ reqs' = made
                           /\ srv' = [srv EXCEPT !.pc = "append", !.slot = r,
                                                 !.todo = Cells("PUBLISH", pktIdSeq + 1)]
                      ELSE /\ reqs' = Delete(made, r)
                           /\ Goto("stopped")
  /\ UNCHANGED <<clientVars, netVars, outVars, sem, tp, reqHistory, raced>>

\* The loop of mqtt_append_request: an item that was freed under it is its own
\* successor, and the loop never ends.
SrvWalk ==
  /\ srv.pc = "walk"
  /\ srv' = IF srv.iter = NULL THEN [srv EXCEPT !.pc = "link"]
            ELSE IF reqs.next[srv.iter] = srv.iter THEN [srv EXCEPT !.pc = "spin"]
            ELSE [srv EXCEPT !.sum = (@ + reqs.diff[srv.iter]) % DiffMod,
                             !.head = srv.iter,
                             !.iter = reqs.next[srv.iter]]
  /\ UNCHANGED <<clientVars, netVars, reqs, outVars, pktIdSeq, sem, tp, reqHistory, raced>>

SrvLink ==
  /\ srv.pc = "link"
  /\ reqs' = Link(reqs, srv.slot, srv.head, srv.sum)
  /\ outcome' = [outcome EXCEPT ![reqs.id[srv.slot]] = "pending"]
  /\ srv' = [srv EXCEPT !.pc = "send", !.slot = NULL, !.head = NULL, !.sum = 0]
  /\ raced' = raced \cup (IF tp.pc \in {"unchain", "finish"} THEN {"table"} ELSE {})
  /\ UNCHANGED <<clientVars, netVars, outVars, pktIdSeq, sem, tp, answered, age>>

SrvSend ==
  /\ srv.pc = "send"
  /\ \E k \in Writes(output, wire) :
       /\ Write(output, k)
       /\ srv' = [srv EXCEPT !.pc = "advance", !.k = k]
       /\ raced' = raced \cup (IF tp.pc = "advance" /\ k > 0 THEN {"ring"} ELSE {})
  /\ UNCHANGED <<clientVars, tcp, down, budget, reqs, outVars, pktIdSeq, sem, tp, reqHistory>>

\* mqtt_ringbuf_advance_get_idx; then the thread sleeps 100 ms and goes on.
SrvAdvance ==
  /\ srv.pc = "advance"
  /\ output' = AdvanceGet(output, srv.k)
  /\ srv' = [srv EXCEPT !.pc = "publish", !.k = 0]
  /\ UNCHANGED <<clientVars, netVars, reqs, unsent, lost, pktIdSeq, sem, tp, reqHistory, raced>>

-----------------------------------------------------------------------------
(* The tcpip_thread: callbacks and timer run one after the other; what     *)
(* srv_conn may do inside one is between its steps here.                   *)

Idle == tp.pc = "idle"

\* The end of a handler that sends: the write, with the advance still to come.
TpWrite(k, release) ==
  tp' = [TpIdle EXCEPT !.pc = "advance", !.k = k, !.release = release]

\* The callbacks of the requests S, called with the result res.
Outcome(o, S, res) ==
  [i \in Ids |-> IF i \notin S THEN o[i] ELSE IF o[i] = "pending" THEN res ELSE "wrong"]

\* Requests dropped without a callback.
Dropped(o, S) ==
  [i \in Ids |-> IF i \in S /\ o[i] = "pending" THEN "dropped" ELSE o[i]]

\* mqtt_close, of a table t and outcomes o that the handler has changed before.
\* The requests D have been taken from the table without a callback.
Close(t, o, D) ==
  /\ conn' = "null" /\ connState' = "TCP_DISCONNECTED"
  /\ errCb' = FALSE /\ timer' = FALSE
  /\ tcp' = "closed" /\ wire' = <<>> /\ unacked' = FALSE /\ down' = <<>>
  /\ reqs' = Clear(t)
  /\ outcome' = Dropped(o, QueuedIds(t) \cup D)
  /\ age' = [i \in Ids |-> 0] /\ unsent' = <<>>

\* mqtt_tcp_connect_cb
TcpConnected ==
  /\ Idle /\ tcp = "syn"
  /\ tcp' = "open"
  /\ connState' = "MQTT_CONNECTING"
  /\ timer' = TRUE /\ cyclicTick' = 0
  /\ \E k \in Writes(output, wire) :
       /\ Write(output, k)
       /\ TpWrite(k, FALSE)
       /\ raced' = raced \cup StateRace \cup SendRace(k)
  /\ UNCHANGED <<conn, errCb, watchdog, down, budget, reqs, outVars, pktIdSeq, sem, srv,
                 reqHistory>>

\* The connection fails or is reset: mqtt_tcp_err_cb, if it is registered by then.
TcpAborts ==
  /\ Idle /\ tcp # "closed"
  /\ raced' = raced \cup TableRace \cup StateRace
  /\ IF errCb THEN Close(reqs, outcome, {})
     ELSE /\ conn' = "freed" /\ tcp' = "closed"
          /\ wire' = <<>> /\ unacked' = FALSE /\ down' = <<>>
          /\ UNCHANGED <<connState, errCb, timer, reqs, outcome, age, unsent>>
  /\ UNCHANGED <<cyclicTick, watchdog, budget, output, lost, pktIdSeq, sem, srv, tp, answered>>

\* mqtt_ringbuf_advance_get_idx; connection_cb then signals srv_conn.
TpAdvance ==
  /\ tp.pc = "advance"
  /\ output' = AdvanceGet(output, tp.k)
  /\ sem' = (sem \/ tp.release)
  /\ tp' = TpIdle
  /\ UNCHANGED <<clientVars, netVars, reqs, unsent, lost, pktIdSeq, srv, reqHistory, raced>>

\* mqtt_tcp_sent_cb; the library's own QoS 0 requests do not occur here.
TcpSent ==
  /\ Idle /\ unacked
  /\ IF connState = "MQTT_CONNECTED"
     THEN /\ cyclicTick' = 0 /\ watchdog' = 0
          /\ \E k \in Writes(output, wire) :
               /\ wire' = wire \o SubSeq(Content(output), 1, k)
               /\ unacked' = (k > 0)
               /\ TpWrite(k, FALSE)
               /\ raced' = raced \cup SendRace(k)
     ELSE /\ unacked' = FALSE
          /\ UNCHANGED <<cyclicTick, watchdog, wire, tp, raced>>
  /\ UNCHANGED <<conn, connState, errCb, timer, tcp, down, budget, reqs, outVars, pktIdSeq,
                 sem, srv, reqHistory>>

\* mqtt_tcp_poll_cb
TcpPoll ==
  /\ Idle /\ tcp = "open" /\ connState = "MQTT_CONNECTED"
  /\ \E k \in Writes(output, wire) \ {0} :
       /\ Write(output, k)
       /\ TpWrite(k, FALSE)
       /\ raced' = raced \cup SendRace(k)
  /\ UNCHANGED <<clientVars, tcp, down, budget, reqs, outVars, pktIdSeq, sem, srv, reqHistory>>

\* mqtt_tcp_recv_cb takes the next message of the broker.
Receives(kind) ==
  /\ Idle /\ tcp = "open"
  /\ down # <<>> /\ Head(down)[1] = kind
  /\ watchdog' = 0

\* The subscription made inside connection_cb: mqtt_sub_unsub.
Subscribe ==
  LET i == pktIdSeq + 1
      r == FreeSlot(reqs)
  IN  /\ pktIdSeq' = i
      /\ IF FreeSlots(reqs) # {} /\ CheckSpace(output, "SUBSCRIBE")
         THEN /\ Put(<<"SUBSCRIBE", i, 1>>) /\ Owe(<<"SUBSCRIBE", i, 1>>)
              /\ \E made \in {Create(reqs, i)} : reqs' = AppendRequest(made, r)
              /\ outcome' = [outcome EXCEPT ![i] = "pending"]
              /\ \E k \in Writes(output', wire) :
                   /\ Write(output', k)
                   /\ TpWrite(k, TRUE)
                   /\ raced' = raced \cup PutRace \cup SendRace(k) \cup TableRace
              /\ UNCHANGED sem
         ELSE /\ sem' = TRUE
              /\ UNCHANGED <<outVars, reqs, outcome, wire, unacked, tp, raced>>

\* CONNACK; ignored unless the client waits for it.
RecvConnack ==
  /\ Receives("CONNACK")
  /\ IF connState # "MQTT_CONNECTING"
     THEN /\ down' = Tail(down)
          /\ UNCHANGED <<conn, connState, errCb, timer, cyclicTick, tcp, wire, unacked, reqs,
                         outVars, pktIdSeq, sem, tp, outcome, age, raced>>
     ELSE \/ /\ cyclicTick' = 0
             /\ connState' = "MQTT_CONNECTED"
             /\ down' = Tail(down)
             /\ Subscribe
             /\ UNCHANGED <<conn, errCb, timer, tcp, age>>
          \/ \* the broker refuses
             /\ Close(reqs, outcome, {})
             /\ raced' = raced \cup TableRace \cup StateRace
             /\ UNCHANGED <<cyclicTick, output, lost, pktIdSeq, sem, tp>>
  /\ UNCHANGED <<budget, srv, answered>>

\* Slip: a request that has no predecessor is left at the head of the queue.
Unchain_head(t, s, prev) ==
  IF prev = NULL THEN t ELSE [t EXCEPT !.next[prev] = t.next[s]]

Unchain(t, s, prev) ==
  IF prev = NULL THEN [t EXCEPT !.queue = t.next[s]] ELSE [t EXCEPT !.next[prev] = t.next[s]]

\* SUBACK or PUBACK: mqtt_take_request has found the request, or there is none.
\* Slip: the answer is taken to be for the first request of the queue.
RecvAck_first ==
  /\ \E kind \in {"SUBACK", "PUBACK"} : Receives(kind)
  /\ down' = Tail(down)
  /\ tp' = IF reqs.queue = NULL THEN tp
           ELSE [TpIdle EXCEPT !.pc = "unchain", !.slot = reqs.queue]
  /\ UNCHANGED <<conn, connState, errCb, timer, cyclicTick, tcp, wire, unacked, budget, reqs,
                 outVars, pktIdSeq, sem, srv, reqHistory, raced>>

RecvAck ==
  /\ \E kind \in {"SUBACK", "PUBACK"} : Receives(kind)
  /\ down' = Tail(down)
  /\ LET found == {s \in Queued(reqs) : reqs.id[s] = Head(down)[2]}
     IN  IF found = {} THEN UNCHANGED tp
         ELSE \E s \in found :
                tp' = [TpIdle EXCEPT !.pc = "unchain", !.slot = s,
                                     !.prev = Predecessor(reqs, s)]
  /\ UNCHANGED <<conn, connState, errCb, timer, cyclicTick, tcp, wire, unacked, budget, reqs,
                 outVars, pktIdSeq, sem, srv, reqHistory, raced>>

\* *tail = iter->next, or prev->next = iter->next.
TpUnchain ==
  /\ tp.pc = "unchain"
  /\ reqs' = Unchain(reqs, tp.slot, tp.prev)
  /\ tp' = [tp EXCEPT !.pc = "finish", !.prev = NULL]
  /\ raced' = raced \cup TableRace
  /\ UNCHANGED <<clientVars, netVars, outVars, pktIdSeq, sem, srv, reqHistory>>

\* The successor inherits the time; the callback; mqtt_delete_request.
TpFinish ==
  /\ tp.pc = "finish"
  /\ LET s == tp.slot
         after == reqs.next[s]
         timed == IF after = NULL THEN reqs
                  ELSE [reqs EXCEPT !.diff[after] = (@ + reqs.diff[s]) % DiffMod]
     IN  /\ reqs' = Delete(timed, s)
         /\ outcome' = Outcome(outcome, {reqs.id[s]}, "confirmed")
  /\ tp' = TpIdle
  /\ raced' = raced \cup TableRace
  /\ UNCHANGED <<clientVars, netVars, outVars, pktIdSeq, sem, srv, answered, age>>

\* A message of the broker, QoS 1: pub_ack_rec_rel_response.
RecvPublish ==
  /\ Receives("PUBLISH")
  /\ down' = Tail(down)
  /\ IF CheckSpace(output, "PUBACK")
     THEN /\ Put(<<"PUBACK", 0, 1>>) /\ Owe(<<"PUBACK", 0, 1>>)
          /\ \E k \in Writes(output', wire) :
               /\ Write(output', k)
               /\ TpWrite(k, FALSE)
               /\ raced' = raced \cup PutRace \cup SendRace(k)
     ELSE UNCHANGED <<outVars, wire, unacked, tp, raced>>
  /\ UNCHANGED <<conn, connState, errCb, timer, cyclicTick, tcp, budget, reqs, pktIdSeq, sem,
                 srv, reqHistory>>

RecvPingresp ==
  /\ Receives("PINGRESP")
  /\ down' = Tail(down)
  /\ UNCHANGED <<conn, connState, errCb, timer, cyclicTick, tcp, wire, unacked, budget, reqs,
                 outVars, pktIdSeq, sem, srv, tp, reqHistory, raced>>

\* TCP delivers the message in two segments, cut inside its variable header:
\* the first part is taken for a short message and the connection is closed.
\* A SUBACK cut before its last byte has already been taken from the table.
RecvCut ==
  /\ \/ Receives("CONNACK") /\ connState = "MQTT_CONNECTING"
     \/ \E kind \in {"SUBACK", "PUBACK", "PUBLISH"} : Receives(kind)
  /\ raced' = raced \cup TableRace \cup StateRace
  /\ \/ Close(reqs, outcome, {})
     \/ /\ Head(down)[1] = "SUBACK"
        /\ \E s \in Queued(reqs), p \in {NULL} \cup Queued(reqs) :
             /\ reqs.id[s] = Head(down)[2] /\ p = Predecessor(reqs, s)
             /\ \E taken \in {Unchain(reqs, s, p)} :
                  Close([taken EXCEPT !.next[s] = NULL], outcome, {reqs.id[s]})
  /\ UNCHANGED <<cyclicTick, budget, output, lost, pktIdSeq, sem, srv, tp, answered>>

\* The broker has closed the connection: recv with no data.
RecvFin ==
  /\ Idle /\ tcp = "open" /\ down = <<>>
  /\ Close(reqs, outcome, {})
  /\ raced' = raced \cup TableRace \cup StateRace
  /\ UNCHANGED <<cyclicTick, watchdog, budget, output, lost, pktIdSeq, sem, srv, tp, answered>>

\* Slip: the ticks are counted once the client is connected only.
ConnectTick_uncounted ==
  /\ connState = "MQTT_CONNECTING"
  /\ UNCHANGED <<cyclicTick, conn, connState, errCb, timer, tcp, wire, unacked, down, reqs,
                 unsent, outcome, age, raced>>
  /\ UNCHANGED <<watchdog, budget, output, lost>>

ConnectTick ==
  /\ connState = "MQTT_CONNECTING"
  /\ cyclicTick' = cyclicTick + 1
  /\ IF cyclicTick' * Interval >= ConnectTimeout
     THEN Close(reqs, outcome, {}) /\ raced' = raced \cup TableRace \cup StateRace
     ELSE UNCHANGED <<conn, connState, errCb, timer, tcp, wire, unacked, down, reqs, unsent,
                      outcome, age, raced>>
  /\ UNCHANGED <<watchdog, budget, output, lost>>

\* The requests whose time is up, the watchdog, and the keep-alive, which is
\* looked at even after the watchdog has closed the connection.  PINGREQ is
\* only put into the ring; it goes out with what is sent next.
ConnectedTick ==
  LET dead == (watchdog + 1) * Interval > KeepAlive + KeepAlive \div 2
      due == (cyclicTick + 1) * Interval >= KeepAlive /\ CheckSpace(output, "PINGREQ")
      ping == due /\ budget.unasked > 0
  IN  /\ connState = "MQTT_CONNECTED"
      /\ cyclicTick' = IF due THEN 0 ELSE Min({cyclicTick + 1, KeepAlive})
      /\ IF ping THEN Put(<<"PINGREQ", 0, 1>>) /\ Unasked
         ELSE UNCHANGED <<output, lost, budget>>
      /\ \E gone \in {Expired(reqs)} : \E first \in {FirstLeft(reqs, gone)} :
         \E left \in {TimeElapsed(reqs, gone, first)},
            notified \in {Outcome(outcome, {reqs.id[s] : s \in gone}, "timed_out")} :
           IF dead
           THEN Close(left, notified, {}) /\ UNCHANGED watchdog
           ELSE /\ watchdog' = watchdog + 1
                /\ reqs' = left /\ outcome' = notified
                /\ age' = [i \in Ids |-> IF notified[i] = "pending"
                                         THEN Min({age[i] + Interval, ReqTimeout + Interval})
                                         ELSE 0]
                /\ IF ping THEN Owe(<<"PINGREQ", 0, 1>>) ELSE UNCHANGED unsent
                /\ UNCHANGED <<conn, connState, errCb, timer, tcp, wire, unacked, down>>
      /\ raced' = raced \cup TableRace \cup (IF dead THEN StateRace ELSE {})
                        \cup (IF ping THEN PutRace ELSE {})

\* In any other state the timer is not scheduled again.
StrayTick ==
  /\ connState \notin {"MQTT_CONNECTING", "MQTT_CONNECTED"}
  /\ timer' = FALSE
  /\ UNCHANGED <<conn, connState, errCb, cyclicTick, watchdog, netVars, reqs, outVars,
                 outcome, age, raced>>

\* mqtt_cyclic_timer
CyclicTimer ==
  /\ Idle /\ timer
  /\ ConnectTick \/ ConnectedTick \/ StrayTick
  /\ UNCHANGED <<pktIdSeq, sem, srv, tp, answered>>

-----------------------------------------------------------------------------
(* The broker, external.  It reads whole messages and answers or does not. *)
(* It may close the connection whenever it likes (RecvFin), as it does on  *)
(* what is no message.                                                     *)

BrokerReads ==
  /\ tcp = "open" /\ wire # <<>> /\ Len(down) < 2
  /\ LET cell == Head(wire)
         n == Size(cell[1])
         reply(kind) == {<<>>, <<<<kind, cell[2]>>>>}
     IN  /\ cell[1] \in Kinds /\ Len(wire) >= n
         /\ SubSeq(wire, 1, n) = Cells(cell[1], cell[2])
         /\ wire' = SubSeq(wire, n + 1, Len(wire))
         /\ unsent' = SubSeq(unsent, n + 1, Len(unsent))
         /\ \E a \in CASE cell[1] = "CONNECT" -> reply("CONNACK")
                       [] cell[1] = "SUBSCRIBE" -> reply("SUBACK")
                       [] cell[1] = "PUBLISH" -> reply("PUBACK")
                       [] cell[1] = "PINGREQ" -> reply("PINGRESP")
                       [] OTHER -> {<<>>} :
              /\ down' = down \o a
              /\ answered' = IF a # <<>> /\ cell[2] # 0
                             THEN answered \cup {cell[2]} ELSE answered
  /\ UNCHANGED <<clientVars, tcp, unacked, budget, reqs, output, lost, pktIdSeq, sem, srv, tp,
                 outcome, age, raced>>

BrokerPublishes ==
  /\ tcp = "open" /\ connState = "MQTT_CONNECTED"
  /\ budget.unasked > 0 /\ Len(down) < 2
  /\ Unasked
  /\ down' = Append(down, <<"PUBLISH", 0>>)
  /\ UNCHANGED <<clientVars, tcp, wire, unacked, reqs, outVars, pktIdSeq, sem, srv, tp,
                 reqHistory, raced>>

-----------------------------------------------------------------------------
SrvNext == \/ SrvStart \/ SrvConnect \/ SrvSetErr \/ SrvSetState \/ SrvAppend \/ SrvWait
           \/ SrvPublish \/ SrvWalk \/ SrvLink \/ SrvSend \/ SrvAdvance

TpInside == TpAdvance \/ TpUnchain \/ TpFinish

TpHandles == \/ TcpSent \/ TcpPoll \/ RecvConnack \/ RecvAck \/ RecvPublish \/ RecvPingresp
             \/ RecvCut \/ RecvFin

Broker == BrokerReads \/ BrokerPublishes

MqttNext == \/ SrvNext \/ TpInside \/ TpHandles \/ TcpConnected \/ TcpAborts \/ CyclicTimer
            \/ Broker

\* Both threads are scheduled.  The timer is served between messages, however
\* many there are.  TCP gives up a connection attempt that is not answered, but
\* an open connection may stay silent for ever.
MqttFairness ==
  /\ WF_mqttVars(SrvNext)
  /\ WF_mqttVars(TpInside)
  /\ SF_mqttVars(CyclicTimer)
  /\ WF_mqttVars(TcpConnected \/ (tcp = "syn" /\ TcpAborts))

MqttSpec == MqttInit /\ [][MqttNext]_mqttVars /\ MqttFairness

-----------------------------------------------------------------------------
(* Types *)

MqttTypeOK ==
  /\ conn \in {"null", "pcb", "freed"}
  /\ connState \in {"TCP_DISCONNECTED", "TCP_CONNECTING", "MQTT_CONNECTING", "MQTT_CONNECTED"}
  /\ errCb \in BOOLEAN /\ timer \in BOOLEAN /\ unacked \in BOOLEAN
  /\ sem \in BOOLEAN /\ lost \in BOOLEAN
  /\ cyclicTick \in Nat /\ watchdog \in Nat
  /\ reqs \in [queue : Slots \cup {NULL},
               next : [Slots -> Slots \cup {NULL}],
               id : [Slots -> Ids \cup {0}],
               diff : [Slots -> 0..(DiffMod - 1)]]
  /\ output \in [buf : [0..(RingSize - 1) -> CellSet], len : 0..(RingSize - 1)]
  /\ pktIdSeq \in Ids \cup {0}
  /\ srv.pc \in {"start", "connect", "set_err", "set_state", "append", "wait", "publish",
                 "walk", "link", "send", "advance", "spin", "stopped"}
  /\ srv.slot \in Slots \cup {NULL} /\ srv.iter \in Slots \cup {NULL}
  /\ srv.head \in Slots \cup {NULL}
  /\ srv.sum \in 0..(DiffMod - 1) /\ srv.k \in 0..RingSize
  /\ srv.todo \in Seq(CellSet)
  /\ tp \in [pc : {"idle", "advance", "unchain", "finish"}, slot : Slots \cup {NULL},
             prev : Slots \cup {NULL}, k : 0..RingSize, release : BOOLEAN]
  /\ tcp \in {"closed", "syn", "open"}
  /\ wire \in Seq(CellSet) /\ unsent \in Seq(CellSet)
  /\ budget \in [srv : 0..MaxPublishes, unasked : 0..MaxUnasked]
  /\ outcome \in [Ids -> {"none", "pending", "confirmed", "timed_out", "dropped", "wrong"}]
  /\ answered \subseteq Ids
  /\ age \in [Ids -> Nat]
  /\ raced \subseteq {"table", "ring", "state"}

-----------------------------------------------------------------------------
(* Properties *)

\* Whatever the two threads do to each other, a walk of the queue that the
\* tcpip_thread starts ends: no item of it has been freed, or linked back.  A
\* freed item points to itself, and the network stack would never come back
\* from mqtt_take_request (mqtt.c:355).  Only srv_conn's own walk can hang.
WalksEnd == NULL \in Reach(reqs, reqs.queue)

\* While no thread changes the table under the other: as long as there is a
\* connection every slot is free, queued, being filled by srv_conn, or being
\* answered; the queued requests are pending, each queued once, and each
\* expires ReqTimeout after it was queued.
TableSound ==
  "table" \notin raced =>
    LET held == {srv.slot, tp.slot} \ {NULL}
    IN  /\ conn = "pcb" => FreeSlots(reqs) = Slots \ (Queued(reqs) \cup held)
        /\ \A s \in Queued(reqs) :
             /\ outcome[reqs.id[s]] = "pending"
             /\ \A x \in Queued(reqs) : reqs.id[x] = reqs.id[s] => x = s
             /\ tp.pc # "finish" =>
                  Remaining(reqs, s) = Max({ReqTimeout - age[reqs.id[s]], 0})

\* While only one thread at a time appends to the ring or takes from it, and it
\* has not been filled exactly: what TCP got and what the ring holds is what was
\* appended, in order, each part once.
StreamIntact ==
  (tcp = "open" /\ "ring" \notin raced /\ ~lost) =>
    wire \o SubSeq(Content(output), srv.k + tp.k + 1, output.len) = unsent

\* The table keeps what RequestTable promises, raced or not: no callback is
\* called twice, or after its request was dropped or had timed out.
Requests == INSTANCE RequestTable
TableSpec == Requests!ReqSpec

\* Nothing stays open for ever: again and again no request is pending and no
\* connection attempt under way (the publications being bounded, each ends),
\* unless a race damaged the table, queued a request after the close, or let
\* the connection's callback come before the state was set (mqtt.c:1411, 1412).
Settled ==
  []<>(\/ raced \cap {"table", "state"} # {}
       \/ /\ connState \notin {"TCP_CONNECTING", "MQTT_CONNECTING"}
          /\ \A i \in Ids : outcome[i] # "pending")
=============================================================================
