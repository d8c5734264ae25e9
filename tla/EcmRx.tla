------------------------------- MODULE EcmRx -------------------------------
(***************************************************************************)
(* The receive and link path of the firmware: Ethernet frames that the USB *)
(* host sends over CDC-ECM reach lwIP through                              *)
(*                                                                         *)
(*   OTG_FS interrupt -> USBD_CDC_ECM_DataOut -> net_notify                *)
(*     -> lwip_input thread (net_event_loop) -> tcpip_input -> mailbox     *)
(*     -> tcpip_thread                                                     *)
(*                                                                         *)
(* Three actors interleave.  The USB interrupt is atomic: no thread runs   *)
(* before it returns.  The two threads have the same priority and share    *)
(* the recursive lwIP core mutex; a thread can be preempted between any    *)
(* two accesses to state it shares with the interrupt or the other thread, *)
(* so net_event_loop is split at exactly those points.                     *)
(*                                                                         *)
(* Addresses are modelled: the class handle is a heap block, freed when    *)
(* the configuration is torn down and possibly handed out again at the     *)
(* same address, and the threads keep copies of the pointer.               *)
(***************************************************************************)
EXTENDS Integers, Sequences

CONSTANTS
  Handles,      \* heap blocks USBD_malloc can return for the class handle
  NULL,         \* the null pointer
  MaxPcktLen,   \* CDC_ECM_DATA_FS_MAX_PACKET_SIZE (64)
  MaxSegSize,   \* CDC_ECM_ETH_MAX_SEGSZE (1514)
  RxBufSize,    \* sizeof UserRxBuffer (CDC_ECM_ETH_MAX_SEGSZE + 100)
  PoolBufSize,  \* PBUF_POOL_BUFSIZE (1524)
  PoolSize,     \* PBUF_POOL_SIZE (8)
  MboxSize,     \* TCPIP_MBOX_SIZE (6)
  MaxHeld,      \* pool pbufs the lwIP core may retain (IP_REASS_MAX_PBUFS)
  MaxFrames,    \* bound: frames the host sends
  MaxTeardowns  \* bound: times the host tears the configuration down

ASSUME EcmRxAssumption ==
  /\ NULL \notin Handles
  /\ MaxPcktLen \in Nat \ {0}
  /\ MaxSegSize \in Nat \ {0}
  /\ MaxSegSize % MaxPcktLen # 0
  /\ RxBufSize \in Nat
  /\ MaxSegSize + MaxPcktLen <= RxBufSize
  /\ PoolBufSize \in Nat
  /\ MaxSegSize <= PoolBufSize
  /\ PoolSize \in Nat
  /\ MboxSize \in Nat
  /\ MaxHeld \in Nat
  /\ MaxFrames \in Nat
  /\ MaxTeardowns \in Nat

VARIABLES
  devState,    \* USBD_Device.dev_state
  pClassData,  \* USBD_Device.pClassData
  rxLength,    \* hcdc->RxLength of every block
  rxState,     \* hcdc->RxState of every block
  out,         \* where the armed OUT endpoint stores the next packet
  buf,         \* UserRxBuffer
  flags,       \* notification value of the lwip_input thread
  frame,       \* the host: the frame it is sending
  teardowns,   \* history: times a configured class was deinitialised
  link,        \* NETIF_FLAG_LINK_UP of main_netif
  merged,      \* history: the last LINK_UP was handled with a LINK_DOWN
  pcR,         \* lwip_input: where net_event_loop is
  ev,          \* lwip_input: its local flags
  hcdc,        \* lwip_input: the local hcdc of net_event_loop
  lh,          \* lwip_input: the local hcdc of ll_input
  p,           \* lwip_input: the pbuf it holds
  owner,       \* holder of the lwIP core mutex
  depth,       \* its recursion count
  pcT,         \* tcpip_thread: where it is
  msg,         \* tcpip_thread: the packet it fetched
  mbox,        \* tcpip_mbox
  held,        \* pool pbufs retained by the lwIP core
  free,        \* pool pbufs that are free
  fault        \* the CPU is in the HardFault loop

usb == <<devState, pClassData, rxLength, rxState, out, buf, frame, teardowns>>
rx == <<link, merged, pcR, ev, hcdc, lh, p>>
core == <<owner, depth>>
tcpip == <<pcT, msg, mbox, held>>
vars == <<usb, flags, rx, core, tcpip, free, fault>>

NET_EVENT_LINK_UP == "up"
NET_EVENT_LINK_DOWN == "down"
NET_EVENT_NEW_PACKET == "new"

NoRx == -1     \* out: the endpoint answers NAK
Wild == -2     \* out: armed on a pointer read through NULL
NoPbuf == -1   \* no pbuf
Garbled == 0   \* a pbuf that does not hold exactly one frame of the host

NoOne == "none"
RxThread == "lwip_input"
TcpipThread == "tcpip_thread"

\* Byte i of the host's frame f of n bytes; Blank is what is in the buffer
\* before any frame.
Cell(f, i, n) == <<f, i, n>>
Blank == <<0, 0, 0>>

\* The frame that the first n bytes of the buffer are, all of it and nothing
\* else, or Garbled.
FrameIn(b, n) ==
  IF n > 0 /\ n <= RxBufSize /\ \A i \in 0..(n - 1) : b[i] = Cell(b[0][1], i, n)
  THEN b[0][1]
  ELSE Garbled

-----------------------------------------------------------------------------
(* The USB device side, in the OTG_FS interrupt. *)

\* Slip: the class comes up without notifying LINK_UP.
USBD_CDC_ECM_Init_silent(h) ==
  /\ pClassData' = h
  /\ rxLength' = [rxLength EXCEPT ![h] = 0]
  /\ rxState' = [rxState EXCEPT ![h] = 0]
  /\ out' = 0
  /\ UNCHANGED flags

\* USBD_CDC_ECM_Init with the block h from the heap.  CDC_ECM_Itf_Init
\* notifies LINK_UP before the fields are cleared; the interrupt hides the
\* order.
USBD_CDC_ECM_Init(h) ==
  /\ pClassData' = h
  /\ rxLength' = [rxLength EXCEPT ![h] = 0]
  /\ rxState' = [rxState EXCEPT ![h] = 0]
  /\ flags' = flags \cup {NET_EVENT_LINK_UP}
  /\ out' = 0

\* Slip: LINK_DOWN is not notified.
USBD_CDC_ECM_DeInit_silent ==
  /\ out' = NoRx
  /\ pClassData' = NULL
  /\ teardowns' = IF pClassData # NULL THEN teardowns + 1 ELSE teardowns
  /\ UNCHANGED flags

\* USBD_CDC_ECM_DeInit: the endpoints close; a handle is freed and LINK_DOWN
\* notified.  The freed block keeps its contents.
USBD_CDC_ECM_DeInit ==
  /\ out' = NoRx
  /\ pClassData' = NULL
  /\ IF pClassData # NULL
     THEN /\ flags' = flags \cup {NET_EVENT_LINK_DOWN}
          /\ teardowns' = teardowns + 1
     ELSE UNCHANGED <<flags, teardowns>>

\* The host gives up the frame it was sending.
HostAborts == frame' = [frame EXCEPT !.state = "idle"]

MayTearDown == pClassData # NULL => teardowns < MaxTeardowns

\* Slip: a bus reset leaves the class up.
USBD_LL_Reset_keeping ==
  /\ devState' = "DEFAULT"
  /\ out' = NoRx
  /\ HostAborts
  /\ UNCHANGED <<pClassData, rxLength, rxState, buf, flags, teardowns>>

\* Bus reset: the driver NAKs every endpoint (stm32f4xx_hal_pcd.c 1287-1357),
\* USBD_LL_Reset deinitialises the class if it has a handle.
USBD_LL_Reset ==
  /\ MayTearDown
  /\ devState' = "DEFAULT"
  /\ USBD_CDC_ECM_DeInit
  /\ HostAborts
  /\ UNCHANGED <<rxLength, rxState, buf>>

\* Slip: a configured device accepts another address.
USBD_SetAddress_any(addr) ==
  /\ devState' = IF addr # 0 THEN "ADDRESSED" ELSE "DEFAULT"
  /\ UNCHANGED <<pClassData, rxLength, rxState, out, buf, flags, frame, teardowns>>

USBD_SetAddress(addr) ==
  /\ devState # "CONFIGURED"
  /\ devState' = IF addr # 0 THEN "ADDRESSED" ELSE "DEFAULT"
  /\ UNCHANGED <<pClassData, rxLength, rxState, out, buf, flags, frame, teardowns>>

\* SET_CONFIGURATION(cfgidx), cfgidx in 0..USBD_MAX_NUM_CONFIGURATION.
\* USBD_malloc may fail.
USBD_SetConfig(cfgidx) ==
  \/ /\ devState = "ADDRESSED"
     /\ cfgidx # 0
     /\ \/ \E h \in Handles : USBD_CDC_ECM_Init(h) /\ devState' = "CONFIGURED"
        \/ /\ pClassData' = NULL
           /\ UNCHANGED <<devState, rxLength, rxState, out, flags>>
     /\ UNCHANGED <<buf, frame, teardowns>>
  \/ /\ devState = "CONFIGURED"
     /\ cfgidx = 0
     /\ MayTearDown
     /\ devState' = "ADDRESSED"
     /\ USBD_CDC_ECM_DeInit
     /\ HostAborts
     /\ UNCHANGED <<rxLength, rxState, buf>>
  \/ /\ devState = "DEFAULT"
     /\ USBD_CDC_ECM_DeInit
     /\ UNCHANGED <<devState, rxLength, rxState, buf, frame>>

\* The frame the host's next packet belongs to: the one it is sending, or a
\* new one of any length the descriptor's wMaxSegmentSize allows.
HostFrames ==
  IF frame.state = "sending"
  THEN {frame}
  ELSE {[id |-> frame.id + 1, len |-> n, sent |-> 0, state |-> "sending"] : n \in 1..MaxSegSize}

\* Length of the next packet of f: full packets, then one short packet, which
\* is empty when the length is a multiple of MaxPcktLen.
PacketLen(f) ==
  IF f.len - f.sent < MaxPcktLen THEN f.len - f.sent ELSE MaxPcktLen

\* f once that packet is on its way; a short packet ends the frame.
AfterPacket(f) ==
  [id |-> f.id, len |-> f.len, sent |-> f.sent + PacketLen(f),
   state |-> IF PacketLen(f) = MaxPcktLen THEN "sending" ELSE "idle"]

\* Slip: only a short packet ends a frame.
LastPacket_short(k, total) == k < MaxPcktLen

\* Whether the packet just added ends the frame being collected.
LastPacket(k, total) == k < MaxPcktLen \/ total >= MaxSegSize

\* Slip: the endpoint is armed again right away, as most classes do.
USBD_CDC_ECM_DataOut_eager(k) ==
  LET total == rxLength[pClassData] + k
  IN  /\ rxLength' = [rxLength EXCEPT ![pClassData] = total]
      /\ rxState' = [rxState EXCEPT ![pClassData] = IF LastPacket(k, total) THEN 1 ELSE @]
      /\ flags' = IF LastPacket(k, total) THEN flags \cup {NET_EVENT_NEW_PACKET} ELSE flags
      /\ out' = IF LastPacket(k, total) THEN 0 ELSE total

\* USBD_CDC_ECM_DataOut for a packet of k bytes: collect it, then either hand
\* the frame over (CDC_ECM_Itf_Receive) and leave the endpoint in NAK, or arm
\* it again behind the bytes collected so far.
USBD_CDC_ECM_DataOut(k) ==
  LET total == rxLength[pClassData] + k
  IN  /\ rxLength' = [rxLength EXCEPT ![pClassData] = total]
      /\ IF LastPacket(k, total)
         THEN /\ rxState' = [rxState EXCEPT ![pClassData] = 1]
              /\ flags' = flags \cup {NET_EVENT_NEW_PACKET}
              /\ out' = NoRx
         ELSE /\ out' = total
              /\ UNCHANGED <<rxState, flags>>

\* A packet arrives on the armed data endpoint: the driver stores it where the
\* endpoint points and the class collects it.
DataOutStage ==
  /\ devState = "CONFIGURED"
  /\ out >= 0
  /\ \E f \in HostFrames :
       LET k == PacketLen(f)
       IN  /\ f.id <= MaxFrames
           /\ buf' = [i \in DOMAIN buf |->
                        IF out <= i /\ i < out + k
                        THEN Cell(f.id, f.sent + (i - out), f.len)
                        ELSE buf[i]]
           /\ frame' = AfterPacket(f)
           /\ USBD_CDC_ECM_DataOut(k)
  /\ UNCHANGED <<devState, pClassData, teardowns>>

\* The interrupt, except for a packet stored through a wild pointer.
Isr ==
  /\ ~fault
  /\ \/ USBD_LL_Reset
     \/ \E addr \in 0..1 : USBD_SetAddress(addr)
     \/ \E cfgidx \in 0..1 : USBD_SetConfig(cfgidx)
     \/ DataOutStage
  /\ UNCHANGED <<rx, core, tcpip, free, fault>>

\* A packet stored through a pointer that was read through NULL.
WildStore ==
  /\ ~fault
  /\ devState = "CONFIGURED"
  /\ out = Wild
  /\ fault' = TRUE
  /\ UNCHANGED <<usb, flags, rx, core, tcpip, free>>

-----------------------------------------------------------------------------
(* The lwip_input thread: net_event_loop. *)

At(l) == ~fault /\ pcR = l
Goto(l) == pcR' = l

\* osal_thread_notify_wait: blocks until a flag is set, takes and clears all.
notify_wait ==
  /\ At("wait")
  /\ flags # {}
  /\ ev' = flags
  /\ flags' = {}
  /\ merged' = IF NET_EVENT_LINK_UP \in flags
               THEN NET_EVENT_LINK_DOWN \in flags
               ELSE merged
  /\ Goto("up")
  /\ UNCHANGED <<usb, link, hcdc, lh, p, core, tcpip, free, fault>>

\* Slip: LINK_UP does not load the class handle.
handle_link_up_only ==
  /\ At("up")
  /\ link' = (NET_EVENT_LINK_UP \in ev \/ link)
  /\ Goto("down")
  /\ UNCHANGED <<usb, flags, merged, ev, hcdc, lh, p, core, tcpip, free, fault>>

handle_link_up ==
  /\ At("up")
  /\ IF NET_EVENT_LINK_UP \in ev
     THEN link' = TRUE /\ hcdc' = pClassData
     ELSE UNCHANGED <<link, hcdc>>
  /\ Goto("down")
  /\ UNCHANGED <<usb, flags, merged, ev, lh, p, core, tcpip, free, fault>>

handle_link_down ==
  /\ At("down")
  /\ IF NET_EVENT_LINK_DOWN \in ev
     THEN link' = FALSE /\ hcdc' = NULL
     ELSE UNCHANGED <<link, hcdc>>
  /\ Goto(IF NET_EVENT_NEW_PACKET \in ev THEN "lock" ELSE "wait")
  /\ UNCHANGED <<usb, flags, merged, ev, lh, p, core, tcpip, free, fault>>

\* Slip: the packet section starts without waiting for the mutex.
lock_core_unguarded ==
  /\ At("lock")
  /\ owner' = RxThread
  /\ depth' = depth + 1
  /\ Goto("alloc")
  /\ UNCHANGED <<usb, flags, link, merged, ev, hcdc, lh, p, tcpip, free, fault>>

\* Slip: taking the mutex does not count.
lock_core_uncounted ==
  /\ At("lock")
  /\ owner \in {NoOne, RxThread}
  /\ owner' = RxThread
  /\ Goto("alloc")
  /\ UNCHANGED <<usb, flags, link, merged, ev, hcdc, lh, p, depth, tcpip, free, fault>>

\* LOCK_TCPIP_CORE: the mutex is recursive.
lock_core ==
  /\ At("lock")
  /\ owner \in {NoOne, RxThread}
  /\ owner' = RxThread
  /\ depth' = depth + 1
  /\ Goto("alloc")
  /\ UNCHANGED <<usb, flags, link, merged, ev, hcdc, lh, p, tcpip, free, fault>>

\* ll_input up to pbuf_alloc.  With no pbuf net_event_loop jumps to proceed
\* and the mutex stays taken.
ll_input_alloc ==
  /\ At("alloc")
  /\ pClassData # NULL
  /\ lh' = pClassData
  /\ rxLength[pClassData] <= PoolBufSize
  /\ IF rxLength[pClassData] > 0 /\ rxState[pClassData] = 1 /\ free > 0
     THEN /\ p' = Garbled
          /\ free' = free - 1
          /\ Goto("copy")
     ELSE /\ Goto("length")
          /\ UNCHANGED <<p, free>>
  /\ UNCHANGED <<usb, flags, link, merged, ev, hcdc, core, tcpip, fault>>

\* ll_input when there is no handle, or with more bytes than a pool pbuf
\* holds: what is read through NULL makes the test false or the copy that
\* follows runs astray.
ll_input_undefined ==
  /\ \/ /\ At("alloc")
        /\ pClassData = NULL
        /\ lh' = NULL
        /\ \/ Goto("length") /\ UNCHANGED fault
           \/ fault' = TRUE /\ UNCHANGED pcR
     \/ /\ \/ At("alloc") /\ pClassData # NULL /\ rxLength[pClassData] > PoolBufSize
           \/ At("copy") /\ rxLength[lh] > PoolBufSize
        /\ fault' = TRUE
        /\ UNCHANGED <<pcR, lh>>
  /\ UNCHANGED <<usb, flags, link, merged, ev, hcdc, p, core, tcpip, free>>

\* ll_input: memcpy from the receive buffer into the pbuf.
ll_input_copy ==
  /\ At("copy")
  /\ rxLength[lh] <= PoolBufSize
  /\ p' = FrameIn(buf, rxLength[lh])
  /\ Goto("input")
  /\ UNCHANGED <<usb, flags, link, merged, ev, hcdc, lh, core, tcpip, free, fault>>

\* Slip: a packet the mailbox refuses is not freed.
netif_input_leaking ==
  /\ At("input")
  /\ mbox' = IF Len(mbox) < MboxSize THEN Append(mbox, p) ELSE mbox
  /\ p' = NoPbuf
  /\ Goto("unlock")
  /\ UNCHANGED <<usb, flags, link, merged, ev, hcdc, lh, core, pcT, msg, held, free, fault>>

\* Slip: after ERR_MEM the jump to proceed skips the unlock.
netif_input_skipping ==
  /\ At("input")
  /\ IF Len(mbox) < MboxSize
     THEN mbox' = Append(mbox, p) /\ UNCHANGED free /\ Goto("unlock")
     ELSE free' = free + 1 /\ UNCHANGED mbox /\ Goto("length")
  /\ p' = NoPbuf
  /\ UNCHANGED <<usb, flags, link, merged, ev, hcdc, lh, core, pcT, msg, held, fault>>

\* Slip: the post waits for room in the mailbox.
netif_input_blocking ==
  /\ At("input")
  /\ Len(mbox) < MboxSize
  /\ mbox' = Append(mbox, p)
  /\ p' = NoPbuf
  /\ Goto("unlock")
  /\ UNCHANGED <<usb, flags, link, merged, ev, hcdc, lh, core, pcT, msg, held, free, fault>>

\* netif->input = tcpip_input: post to the mailbox; on ERR_MEM free the pbuf.
netif_input ==
  /\ At("input")
  /\ IF Len(mbox) < MboxSize
     THEN mbox' = Append(mbox, p) /\ UNCHANGED free
     ELSE free' = free + 1 /\ UNCHANGED mbox
  /\ p' = NoPbuf
  /\ Goto("unlock")
  /\ UNCHANGED <<usb, flags, link, merged, ev, hcdc, lh, core, pcT, msg, held, fault>>

unlock_core ==
  /\ At("unlock")
  /\ depth' = depth - 1
  /\ owner' = IF depth = 1 THEN NoOne ELSE owner
  /\ Goto("length")
  /\ UNCHANGED <<usb, flags, link, merged, ev, hcdc, lh, p, tcpip, free, fault>>

\* Slip: RxLength is not reset.
reset_length_skipped ==
  /\ At("length")
  /\ Goto("state")
  /\ UNCHANGED <<usb, flags, link, merged, ev, hcdc, lh, p, core, tcpip, free, fault>>

\* proceed: hcdc->RxLength = 0, through whatever hcdc was loaded by the last
\* LINK_UP; a store through NULL into the flash alias is dropped or faults.
reset_length ==
  /\ At("length")
  /\ IF hcdc # NULL
     THEN rxLength' = [rxLength EXCEPT ![hcdc] = 0] /\ UNCHANGED fault
     ELSE fault' \in BOOLEAN /\ UNCHANGED rxLength
  /\ Goto("state")
  /\ UNCHANGED <<devState, pClassData, rxState, out, buf, frame, teardowns,
                 flags, link, merged, ev, hcdc, lh, p, core, tcpip, free>>

reset_state ==
  /\ At("state")
  /\ rxState' = IF hcdc # NULL THEN [rxState EXCEPT ![hcdc] = 0] ELSE rxState
  /\ Goto("rearm")
  /\ UNCHANGED <<devState, pClassData, rxLength, out, buf, frame, teardowns,
                 flags, link, merged, ev, hcdc, lh, p, core, tcpip, free, fault>>

\* Slip: the endpoint is not armed again.
prepare_receive_skipped ==
  /\ At("rearm")
  /\ Goto("wait")
  /\ UNCHANGED <<usb, flags, link, merged, ev, hcdc, lh, p, core, tcpip, free, fault>>

\* USBD_LL_PrepareReceive(hcdc->RxBuffer): every block's RxBuffer is
\* UserRxBuffer, also after it was freed.
prepare_receive ==
  /\ At("rearm")
  /\ out' = IF hcdc # NULL THEN 0 ELSE Wild
  /\ Goto("wait")
  /\ UNCHANGED <<devState, pClassData, rxLength, rxState, buf, frame, teardowns,
                 flags, link, merged, ev, hcdc, lh, p, core, tcpip, free, fault>>

net_event_loop ==
  \/ notify_wait \/ handle_link_up \/ handle_link_down
  \/ lock_core \/ ll_input_alloc \/ ll_input_undefined \/ ll_input_copy
  \/ netif_input \/ unlock_core
  \/ reset_length \/ reset_state \/ prepare_receive

-----------------------------------------------------------------------------
(* The tcpip_thread. *)

\* sys_arch_mbox_fetch: a packet, or a timeout that makes timers due.
mbox_fetch ==
  /\ ~fault
  /\ pcT = "fetch"
  /\ \/ /\ mbox # <<>>
        /\ msg' = Head(mbox)
        /\ mbox' = Tail(mbox)
     \/ /\ mbox = <<>>
        /\ UNCHANGED <<msg, mbox>>
  /\ pcT' = "lock"
  /\ UNCHANGED <<usb, flags, rx, core, held, free, fault>>

tcpip_lock ==
  /\ ~fault
  /\ pcT = "lock"
  /\ owner = NoOne
  /\ owner' = TcpipThread
  /\ depth' = 1
  /\ pcT' = "run"
  /\ UNCHANGED <<usb, flags, rx, msg, mbox, held, free, fault>>

\* tcpip_thread_handle_msg or sys_check_timeouts, then UNLOCK_TCPIP_CORE: of
\* the packets in its hands the core keeps some and frees the others.
handle_msg ==
  /\ ~fault
  /\ pcT = "run"
  /\ LET has == held + (IF msg # NoPbuf THEN 1 ELSE 0)
     IN  \E keep \in 0..MaxHeld :
           /\ keep <= has
           /\ held' = keep
           /\ free' = free + (has - keep)
  /\ msg' = NoPbuf
  /\ owner' = NoOne
  /\ depth' = 0
  /\ pcT' = "fetch"
  /\ UNCHANGED <<usb, flags, rx, mbox, fault>>

tcpip_thread == mbox_fetch \/ tcpip_lock \/ handle_msg

-----------------------------------------------------------------------------
\* After net_init and usb_ecm_init: main_netif_setup has set the link up, the
\* device waits for its first bus reset.
Init ==
  /\ devState = "DEFAULT"
  /\ pClassData = NULL
  /\ rxLength = [h \in Handles |-> 0]
  /\ rxState = [h \in Handles |-> 0]
  /\ out = NoRx
  /\ buf = [i \in 0..(RxBufSize - 1) |-> Blank]
  /\ flags = {}
  /\ frame = [id |-> 0, len |-> 0, sent |-> 0, state |-> "idle"]
  /\ teardowns = 0
  /\ link = TRUE
  /\ merged = FALSE
  /\ pcR = "wait"
  /\ ev = {}
  /\ hcdc = NULL
  /\ lh = NULL
  /\ p = NoPbuf
  /\ owner = NoOne
  /\ depth = 0
  /\ pcT = "fetch"
  /\ msg = NoPbuf
  /\ mbox = <<>>
  /\ held = 0
  /\ free = PoolSize
  /\ fault = FALSE

Next == Isr \/ WildStore \/ net_event_loop \/ tcpip_thread

Spec == Init /\ [][Next]_vars

\* Both threads are scheduled (equal priority, time slicing); a thread that
\* waits for the core mutex again and again gets it.  The host owes nothing.
Fairness ==
  /\ WF_vars(net_event_loop)
  /\ SF_vars(lock_core)
  /\ WF_vars(tcpip_thread)
  /\ SF_vars(tcpip_lock)

FairSpec == Spec /\ Fairness
-----------------------------------------------------------------------------
(* Properties. *)

DevStates == {"DEFAULT", "ADDRESSED", "CONFIGURED"}
NetEvents == {NET_EVENT_LINK_UP, NET_EVENT_LINK_DOWN, NET_EVENT_NEW_PACKET}
RxLabels == {"wait", "up", "down", "lock", "alloc", "copy", "input", "unlock",
             "length", "state", "rearm"}
Pointers == Handles \cup {NULL}
Packets == Nat \cup {NoPbuf}
Frame == [id : Nat, len : Nat, sent : Nat, state : {"idle", "sending"}]

UsbTypeOK ==
  /\ devState \in DevStates
  /\ pClassData \in Pointers
  /\ rxLength \in [Handles -> Nat]
  /\ rxState \in [Handles -> {0, 1}]
  /\ out \in Nat \cup {NoRx, Wild}
  /\ buf \in [0..(RxBufSize - 1) -> Nat \X Nat \X Nat]
  /\ frame \in Frame
  /\ teardowns \in Nat

RxTypeOK ==
  /\ flags \subseteq NetEvents
  /\ link \in BOOLEAN
  /\ merged \in BOOLEAN
  /\ pcR \in RxLabels
  /\ ev \subseteq NetEvents
  /\ hcdc \in Pointers
  /\ lh \in Pointers
  /\ p \in Packets

CoreTypeOK ==
  /\ owner \in {NoOne, RxThread, TcpipThread}
  /\ depth \in Nat
  /\ pcT \in {"fetch", "lock", "run"}
  /\ msg \in Packets
  /\ mbox \in Seq(Nat)
  /\ held \in Nat
  /\ free \in Nat
  /\ fault \in BOOLEAN

\* The type of every variable.
TypeOK == UsbTypeOK /\ RxTypeOK /\ CoreTypeOK

\* The driver never stores a packet past the end of UserRxBuffer, whatever
\* the interrupt and net_event_loop did to RxLength in between, stale pointers
\* included: wherever the OUT endpoint points, a full packet fits.
RxStoreInBounds == out >= 0 => out + MaxPcktLen <= RxBufSize

\* No pbuf of the pool is lost or freed twice on any path through ll_input,
\* the ERR_MEM path of net_event_loop and the tcpip_thread.
PoolConserved ==
  free + Len(mbox) + held + (IF p # NoPbuf THEN 1 ELSE 0)
    + (IF msg # NoPbuf THEN 1 ELSE 0) = PoolSize

\* The packet section of net_event_loop and the tcpip_thread's message handling
\* exclude each other, also when the mutex was taken and not released.
CoreExclusive ==
  pcR \in {"alloc", "copy", "input", "unlock"} => owner = RxThread /\ pcT # "run"

\* The class has a handle exactly while the device is configured, so the NULL
\* tests of the class callbacks never fire.
HandleIffConfigured == devState = "CONFIGURED" <=> pClassData # NULL

\* The part of the library that is modelled here is the device of UsbDevice,
\* which module Usbd implements in full: the path above it may rely on it.
Device == INSTANCE UsbDevice WITH state <- devState, up <- (pClassData # NULL)

DeviceSpec == Device!Spec

\* net_event_loop has handled every notification.
Settled == pcR = "wait" /\ flags = {}

\* Once the notifications are handled, lwIP never believes in a link whose
\* class handle is gone; the link that main_netif_setup raises at boot, before
\* any host, is the one exception.
LinkUpOnlyWithClass ==
  Settled /\ link /\ pClassData = NULL => teardowns = 0

\* A configured device ends with its link down, and with no handle in
\* net_event_loop, only when LINK_DOWN and the LINK_UP that followed it were
\* merged into one wake-up: net_event_loop handles LINK_UP first.
LinkLostOnlyByMerge ==
  Settled /\ pClassData # NULL /\ ~merged => link /\ hcdc # NULL

\* The endpoint answers NAK from the last packet of a frame until
\* net_event_loop is done with the buffer.
Processing ==
  pcR \in {"lock", "alloc", "copy", "input", "unlock", "length", "state", "rearm"}
NackedTillDone ==
  \/ NET_EVENT_NEW_PACKET \in flags
  \/ pcR \in {"up", "down"} /\ NET_EVENT_NEW_PACKET \in ev
  \/ Processing
  => out = NoRx

\* NackedTillDone in the first session, before the host tears the
\* configuration down.
NackedInFirstSession == teardowns = 0 => NackedTillDone

\* In the first session every packet that lwIP gets is exactly one frame of
\* the host, and frames arrive in the order they were sent, none twice.
FramesIntact ==
  teardowns = 0 =>
    /\ \A i \in 1..Len(mbox) : mbox[i] # Garbled
    /\ \A i \in 1..Len(mbox) : \A j \in 1..Len(mbox) : i < j => mbox[i] < mbox[j]
    /\ pcR = "input" => p # Garbled /\ \A i \in 1..Len(mbox) : mbox[i] < p

\* In the first session nothing is read or stored through a null or an
\* oversized pointer.
NoFaultInFirstSession == teardowns = 0 => ~fault /\ out # Wild

\* With a pool that is large enough for the mailbox, the packet in each
\* thread's hands and what the core retains, net_event_loop returns to its wait
\* with the core mutex released, until the first teardown.
MutexReleasedWhileWaiting ==
  PoolSize > MboxSize + MaxHeld + 1 /\ teardowns = 0 /\ pcR = "wait"
    => owner # RxThread

\* A pbuf is free whenever a complete frame waits in the receive buffer for
\* ll_input.
PbufForEveryFrame ==
  pcR = "alloc" /\ pClassData # NULL /\ rxState[pClassData] = 1 => free > 0

\* lwip_input is inside a function of the lwIP core: the packet section or one
\* of the link calls.
InCore ==
  \/ pcR \in {"alloc", "copy", "input", "unlock"}
  \/ pcR = "up" /\ NET_EVENT_LINK_UP \in ev
  \/ pcR = "down" /\ NET_EVENT_LINK_DOWN \in ev

\* Functions of the lwIP core run in one thread at a time.
OneThreadInCore == ~(InCore /\ pcT = "run")

\* In the first session a frame that the class handed over is taken and the
\* endpoint armed again.
RxRearmed ==
  (teardowns = 0 /\ NET_EVENT_NEW_PACKET \in flags) ~> (out >= 0 \/ teardowns > 0)

\* In the first session, with a pool that is large enough, a packet that was
\* posted reaches the tcpip_thread's handler.
PacketsHandled ==
  (teardowns = 0 /\ PoolSize > MboxSize + MaxHeld + 1 /\ mbox # <<>>)
    ~> (mbox = <<>> \/ teardowns > 0)

\* A link event is taken, even after the core mutex was left locked, unless the
\* CPU faulted.
EventsTaken == (flags # {}) ~> (flags = {} \/ fault)

=============================================================================
