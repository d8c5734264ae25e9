---------------------------- MODULE EcmRx_proofs ----------------------------
(***************************************************************************)
(* Proofs of the safety properties of EcmRx for every value of the         *)
(* constants.                                                              *)
(***************************************************************************)
EXTENDS EcmRx, TLAPS

\* The assumptions on the constants, without the remainder, which only the
\* argument about complete frames needs.
LEMMA Constants ==
  /\ NULL \notin Handles
  /\ MaxPcktLen \in Nat /\ MaxPcktLen > 0
  /\ MaxSegSize \in Nat /\ MaxSegSize > 0
  /\ RxBufSize \in Nat /\ MaxSegSize + MaxPcktLen <= RxBufSize
  /\ PoolBufSize \in Nat /\ MaxSegSize <= PoolBufSize
  /\ PoolSize \in Nat /\ MboxSize \in Nat /\ MaxHeld \in Nat
BY EcmRxAssumption

InSection == {"alloc", "copy", "input", "unlock"}

\* Who holds the core mutex and what the threads hold, by program counter.
LockInv ==
  /\ owner = NoOne <=> depth = 0
  /\ owner = TcpipThread <=> pcT = "run"
  /\ pcR \in InSection => owner = RxThread
  /\ pcR = "copy" => lh \in Handles
  /\ p # NoPbuf <=> pcR \in {"copy", "input"}
  /\ pcT = "fetch" => msg = NoPbuf
  /\ Len(mbox) <= MboxSize
  /\ held <= MaxHeld

\* The inductive strengthening of the invariants that hold in every session.
IInv == TypeOK /\ HandleIffConfigured /\ LockInv /\ RxStoreInBounds /\ PoolConserved

LEMMA InitIInv == Init => IInv
<1> SUFFICES ASSUME Init PROVE IInv
  OBVIOUS
<1> USE Constants
<1>1. TypeOK
  <2>1. UsbTypeOK
    BY DEF Init, UsbTypeOK, DevStates, Pointers, Frame, NoRx, Blank
  <2>2. RxTypeOK
    BY DEF Init, RxTypeOK, NetEvents, RxLabels, Pointers, Packets, NoPbuf
  <2>3. CoreTypeOK
    <3>1. mbox \in Seq(Nat)
      BY DEF Init
    <3>2. QED BY <3>1 DEF Init, CoreTypeOK, Packets, NoPbuf, NoOne
  <2>4. QED BY <2>1, <2>2, <2>3 DEF TypeOK
<1>2. LockInv /\ HandleIffConfigured
  BY DEF Init, LockInv, HandleIffConfigured, InSection, NoOne, TcpipThread, NoPbuf
<1>3. RxStoreInBounds /\ PoolConserved
  BY DEF Init, RxStoreInBounds, PoolConserved, NoRx, NoPbuf
<1>4. QED BY <1>1, <1>2, <1>3 DEF IInv

-----------------------------------------------------------------------------
(* The host's frames. *)

\* A frame under way has a legal length and no more bytes sent than it has.
HostInv ==
  /\ frame \in Frame
  /\ frame.state = "sending" => frame.len \in 1..MaxSegSize /\ frame.sent \in 0..frame.len

LEMMA InitHostInv == Init => HostInv
BY DEF Init, HostInv, Frame

LEMMA HostFramesType ==
  ASSUME HostInv, NEW f \in HostFrames
  PROVE  f \in Frame /\ f.len \in 1..MaxSegSize /\ f.sent \in 0..f.len
<1>1. CASE frame.state = "sending"
  BY <1>1 DEF HostFrames, HostInv
<1>2. CASE frame.state # "sending"
  <2>1. PICK n \in 1..MaxSegSize :
          f = [id |-> frame.id + 1, len |-> n, sent |-> 0, state |-> "sending"]
    BY <1>2 DEF HostFrames
  <2>2. QED BY <2>1, Constants DEF HostInv, Frame
<1>3. QED BY <1>1, <1>2

\* A packet is never longer than MaxPcktLen nor than what is left of its frame.
LEMMA PacketLenBounds ==
  ASSUME HostInv, NEW f \in HostFrames
  PROVE  /\ PacketLen(f) \in 0..MaxPcktLen
         /\ f.sent + PacketLen(f) \in 0..f.len
<1>1. f.len \in 1..MaxSegSize /\ f.sent \in 0..f.len
  BY HostFramesType
<1>2. QED BY <1>1, Constants DEF PacketLen

LEMMA NextHostInv == HostInv /\ [Next]_vars => HostInv'
<1> SUFFICES ASSUME HostInv, [Next]_vars
             PROVE  HostInv'
  OBVIOUS
<1>1. ASSUME DataOutStage
      PROVE  HostInv'
  <2>1. PICK f \in HostFrames : frame' = AfterPacket(f)
    BY <1>1 DEF DataOutStage
  <2>2. f \in Frame /\ f.len \in 1..MaxSegSize /\ f.sent + PacketLen(f) \in 0..f.len
    BY HostFramesType, PacketLenBounds
  <2>3. frame' \in Frame /\ frame'.len = f.len /\ frame'.sent = f.sent + PacketLen(f)
    BY <2>1, <2>2, Constants DEF Frame, AfterPacket
  <2>4. QED BY <2>2, <2>3 DEF HostInv
<1>2. ASSUME HostAborts
      PROVE  HostInv'
  BY <1>2 DEF HostAborts, HostInv, Frame
<1>3. ASSUME UNCHANGED frame
      PROVE  HostInv'
  BY <1>3 DEF HostInv
<1>4. QED
  BY <1>1, <1>2, <1>3
     DEF Next, vars, usb, Isr, USBD_LL_Reset, USBD_SetAddress, USBD_SetConfig, WildStore,
         net_event_loop, notify_wait, handle_link_up, handle_link_down, lock_core,
         ll_input_alloc, ll_input_undefined, ll_input_copy, netif_input, unlock_core,
         reset_length, reset_state, prepare_receive,
         tcpip_thread, mbox_fetch, tcpip_lock, handle_msg

-----------------------------------------------------------------------------
(* The inductive step, one lemma per actor. *)

\* What the interrupt leaves alone.
LEMMA IsrFrame ==
  ASSUME IInv, Isr, UsbTypeOK', flags' \subseteq NetEvents,
         HandleIffConfigured', RxStoreInBounds'
  PROVE  IInv'
<1>1. UNCHANGED <<rx, core, tcpip, free, fault>>
  BY DEF Isr
<1>2. RxTypeOK' /\ CoreTypeOK'
  BY <1>1 DEF IInv, TypeOK, RxTypeOK, CoreTypeOK, rx, core, tcpip
<1>3. LockInv' /\ PoolConserved'
  BY <1>1 DEF IInv, LockInv, PoolConserved, rx, core, tcpip
<1>4. QED BY <1>2, <1>3 DEF IInv, TypeOK

LEMMA IsrIInv ==
  ASSUME IInv, HostInv, Isr
  PROVE  IInv'
<1> USE Constants
<1>0. HostInv'
  BY NextHostInv DEF Next
<1>1. ASSUME USBD_CDC_ECM_DeInit, devState' \in {"DEFAULT", "ADDRESSED"}, UNCHANGED <<rxLength, rxState, buf>>
      PROVE  IInv'
  <2>1. UsbTypeOK'
    <3>1. out' \in Nat \cup {NoRx, Wild} /\ pClassData' \in Pointers
      BY <1>1 DEF USBD_CDC_ECM_DeInit, Pointers
    <3>2. teardowns' \in Nat
      BY <1>1 DEF USBD_CDC_ECM_DeInit, IInv, TypeOK, UsbTypeOK
    <3>3. QED BY <1>0, <1>1, <3>1, <3>2 DEF IInv, TypeOK, UsbTypeOK, HostInv, DevStates
  <2>2. flags' \subseteq NetEvents
    BY <1>1 DEF USBD_CDC_ECM_DeInit, IInv, TypeOK, RxTypeOK, NetEvents
  <2>3. HandleIffConfigured' /\ RxStoreInBounds'
    BY <1>1 DEF USBD_CDC_ECM_DeInit, HandleIffConfigured, RxStoreInBounds, NoRx
  <2>4. QED BY <2>1, <2>2, <2>3, IsrFrame
<1>2. ASSUME NEW addr \in 0..1, USBD_SetAddress(addr)
      PROVE  IInv'
  <2>1. UsbTypeOK'
    BY <1>2 DEF USBD_SetAddress, IInv, TypeOK, UsbTypeOK, DevStates
  <2>2. flags' \subseteq NetEvents
    BY <1>2 DEF USBD_SetAddress, IInv, TypeOK, RxTypeOK
  <2>3. HandleIffConfigured' /\ RxStoreInBounds'
    BY <1>2 DEF USBD_SetAddress, IInv, HandleIffConfigured, RxStoreInBounds
  <2>4. QED BY <2>1, <2>2, <2>3, IsrFrame
<1>3. ASSUME NEW h \in Handles, USBD_CDC_ECM_Init(h), devState' = "CONFIGURED",
             UNCHANGED <<buf, frame, teardowns>>
      PROVE  IInv'
  <2>1. UsbTypeOK'
    BY <1>3 DEF USBD_CDC_ECM_Init, IInv, TypeOK, UsbTypeOK, DevStates, Pointers
  <2>2. flags' \subseteq NetEvents
    BY <1>3 DEF USBD_CDC_ECM_Init, IInv, TypeOK, RxTypeOK, NetEvents
  <2>3. HandleIffConfigured' /\ RxStoreInBounds'
    BY <1>3 DEF USBD_CDC_ECM_Init, HandleIffConfigured, RxStoreInBounds
  <2>4. QED BY <2>1, <2>2, <2>3, IsrFrame
<1>4. ASSUME devState = "ADDRESSED", pClassData' = NULL,
             UNCHANGED <<devState, rxLength, rxState, out, flags, buf, frame, teardowns>>
      PROVE  IInv'
  <2>1. UsbTypeOK'
    BY <1>4 DEF IInv, TypeOK, UsbTypeOK, Pointers
  <2>2. flags' \subseteq NetEvents
    BY <1>4 DEF IInv, TypeOK, RxTypeOK
  <2>3. HandleIffConfigured' /\ RxStoreInBounds'
    BY <1>4 DEF IInv, HandleIffConfigured, RxStoreInBounds
  <2>4. QED BY <2>1, <2>2, <2>3, IsrFrame
<1>5. ASSUME DataOutStage
      PROVE  IInv'
  <2>1. PICK f \in HostFrames :
          /\ buf' = [i \in DOMAIN buf |->
                       IF out <= i /\ i < out + PacketLen(f)
                       THEN Cell(f.id, f.sent + (i - out), f.len)
                       ELSE buf[i]]
          /\ USBD_CDC_ECM_DataOut(PacketLen(f))
    BY <1>5 DEF DataOutStage
  <2>2. /\ f \in Frame /\ f.sent \in Nat /\ f.len \in Nat
        /\ PacketLen(f) \in 0..MaxPcktLen
    BY HostFramesType, PacketLenBounds DEF Frame
  <2>3. pClassData \in Handles /\ out \in Nat
    BY <1>5 DEF DataOutStage, IInv, TypeOK, UsbTypeOK, HandleIffConfigured, Pointers, NoRx, Wild
  <2>4. buf' \in [0..(RxBufSize - 1) -> Nat \X Nat \X Nat]
    <3>1. buf \in [0..(RxBufSize - 1) -> Nat \X Nat \X Nat]
      BY DEF IInv, TypeOK, UsbTypeOK
    <3>2. ASSUME NEW i \in 0..(RxBufSize - 1), out <= i
          PROVE  Cell(f.id, f.sent + (i - out), f.len) \in Nat \X Nat \X Nat
      <4>1. f.sent + (i - out) \in Nat
        BY <2>2, <2>3, <3>2
      <4>2. QED BY <2>2, <4>1 DEF Cell, Frame
    <3>3. QED BY <2>1, <3>1, <3>2
  <2>5. /\ rxLength \in [Handles -> Nat] /\ rxState \in [Handles -> {0, 1}]
        /\ rxLength[pClassData] + PacketLen(f) \in Nat
    <3>1. rxLength \in [Handles -> Nat] /\ rxState \in [Handles -> {0, 1}]
      BY DEF IInv, TypeOK, UsbTypeOK
    <3>2. rxLength[pClassData] \in Nat
      BY <2>3, <3>1
    <3>3. QED BY <2>2, <3>1, <3>2
  <2>6. /\ rxLength' \in [Handles -> Nat]
        /\ rxState' \in [Handles -> {0, 1}]
        /\ out' \in Nat \cup {NoRx, Wild}
        /\ flags' \subseteq NetEvents
    <3>1. flags \subseteq NetEvents
      BY DEF IInv, TypeOK, RxTypeOK
    <3>2. QED BY <2>1, <2>3, <2>5, <3>1 DEF USBD_CDC_ECM_DataOut, NetEvents
  <2>7. UsbTypeOK'
    BY <1>0, <1>5, <2>4, <2>6 DEF DataOutStage, IInv, TypeOK, UsbTypeOK, HostInv
  <2>8. RxStoreInBounds'
    BY <2>1, <2>2, <2>5 DEF USBD_CDC_ECM_DataOut, LastPacket, RxStoreInBounds, NoRx
  <2>9. HandleIffConfigured'
    BY <1>5 DEF DataOutStage, IInv, HandleIffConfigured
  <2>10. QED BY <2>6, <2>7, <2>8, <2>9, IsrFrame
<1>6. QED
  BY <1>1, <1>2, <1>3, <1>4, <1>5 DEF Isr, USBD_LL_Reset, USBD_SetConfig

\* A step that leaves the USB side alone keeps what is said about it.
LEMMA UsbFrame ==
  ASSUME IInv, UNCHANGED usb
  PROVE  UsbTypeOK' /\ HandleIffConfigured' /\ RxStoreInBounds'
BY DEF IInv, TypeOK, UsbTypeOK, HandleIffConfigured, RxStoreInBounds, usb

\* The steps of lwip_input that touch neither the core nor the pool.
LEMMA RxFrame ==
  ASSUME IInv, RxTypeOK', UsbTypeOK', HandleIffConfigured', RxStoreInBounds',
         UNCHANGED <<p, core, tcpip, free>>, fault' \in BOOLEAN,
         pcR' \notin InSection, pcR \notin {"copy", "input"}
  PROVE  IInv'
<1>1. CoreTypeOK'
  BY DEF IInv, TypeOK, CoreTypeOK, core, tcpip
<1>2. LockInv'
  BY DEF IInv, LockInv, core, tcpip, InSection
<1>3. PoolConserved'
  BY DEF IInv, PoolConserved, tcpip
<1>4. QED BY <1>1, <1>2, <1>3 DEF IInv, TypeOK

LEMMA FrameInType ==
  ASSUME NEW b \in [0..(RxBufSize - 1) -> Nat \X Nat \X Nat], NEW k \in Nat
  PROVE  FrameIn(b, k) \in Nat
<1>1. CASE k > 0 /\ k <= RxBufSize
  <2>1. b[0] \in Nat \X Nat \X Nat
    BY <1>1, Constants
  <2>2. b[0][1] \in Nat
    BY <2>1
  <2>3. QED BY <2>2 DEF FrameIn, Garbled
<1>2. CASE ~(k > 0 /\ k <= RxBufSize)
  BY <1>2 DEF FrameIn, Garbled
<1>3. QED BY <1>1, <1>2

LEMMA NetEventLoopIInv ==
  ASSUME IInv, net_event_loop
  PROVE  IInv'
<1> USE Constants
<1>a. UsbTypeOK /\ RxTypeOK /\ CoreTypeOK /\ LockInv /\ PoolConserved
  BY DEF IInv, TypeOK
<1>1. ASSUME notify_wait
      PROVE  IInv'
  <2>1. UsbTypeOK' /\ HandleIffConfigured' /\ RxStoreInBounds'
    BY <1>1, UsbFrame DEF notify_wait
  <2>2. RxTypeOK'
    <3>1. merged' \in BOOLEAN
      <4>1. CASE NET_EVENT_LINK_UP \in flags
        BY <1>1, <4>1 DEF notify_wait
      <4>2. CASE NET_EVENT_LINK_UP \notin flags
        BY <1>1, <4>2, <1>a DEF notify_wait, RxTypeOK
      <4>3. QED BY <4>1, <4>2
    <3>2. QED BY <1>1, <1>a, <3>1 DEF notify_wait, RxTypeOK, RxLabels, NetEvents, Goto
  <2>3. fault' \in BOOLEAN /\ UNCHANGED <<p, core, tcpip, free>>
    BY <1>1, <1>a DEF notify_wait, CoreTypeOK
  <2>4. pcR' \notin InSection /\ pcR \notin {"copy", "input"}
    BY <1>1 DEF notify_wait, InSection, At, Goto
  <2>5. QED BY <2>1, <2>2, <2>3, <2>4, RxFrame
<1>2. ASSUME handle_link_up
      PROVE  IInv'
  <2>1. UsbTypeOK' /\ HandleIffConfigured' /\ RxStoreInBounds'
    BY <1>2, UsbFrame DEF handle_link_up
  <2>2. RxTypeOK'
    BY <1>2, <1>a DEF handle_link_up, RxTypeOK, RxLabels, Goto, UsbTypeOK
  <2>3. fault' \in BOOLEAN /\ UNCHANGED <<p, core, tcpip, free>>
    BY <1>2, <1>a DEF handle_link_up, CoreTypeOK
  <2>4. pcR' \notin InSection /\ pcR \notin {"copy", "input"}
    BY <1>2 DEF handle_link_up, InSection, At, Goto
  <2>5. QED BY <2>1, <2>2, <2>3, <2>4, RxFrame
<1>3. ASSUME handle_link_down
      PROVE  IInv'
  <2>1. UsbTypeOK' /\ HandleIffConfigured' /\ RxStoreInBounds'
    BY <1>3, UsbFrame DEF handle_link_down
  <2>2. RxTypeOK'
    BY <1>3, <1>a DEF handle_link_down, RxTypeOK, RxLabels, Goto, Pointers
  <2>3. fault' \in BOOLEAN /\ UNCHANGED <<p, core, tcpip, free>>
    BY <1>3, <1>a DEF handle_link_down, CoreTypeOK
  <2>4. pcR' \notin InSection /\ pcR \notin {"copy", "input"}
    BY <1>3 DEF handle_link_down, InSection, At, Goto
  <2>5. QED BY <2>1, <2>2, <2>3, <2>4, RxFrame
<1>4. ASSUME lock_core
      PROVE  IInv'
  <2>1. UsbTypeOK' /\ HandleIffConfigured' /\ RxStoreInBounds'
    BY <1>4, UsbFrame DEF lock_core
  <2>2. RxTypeOK'
    BY <1>4, <1>a DEF lock_core, RxTypeOK, RxLabels, Goto
  <2>3. CoreTypeOK'
    BY <1>4, <1>a DEF lock_core, CoreTypeOK, core, tcpip
  <2>4. LockInv'
    BY <1>4, <1>a DEF lock_core, LockInv, InSection, At, Goto, core, tcpip, NoOne, RxThread, TcpipThread, CoreTypeOK
  <2>5. PoolConserved'
    BY <1>4, <1>a DEF lock_core, PoolConserved, tcpip, core
  <2>6. QED BY <2>1, <2>2, <2>3, <2>4, <2>5 DEF IInv, TypeOK
<1>5. ASSUME ll_input_alloc
      PROVE  IInv'
  <2>1. UsbTypeOK' /\ HandleIffConfigured' /\ RxStoreInBounds'
    BY <1>5, UsbFrame DEF ll_input_alloc
  <2>2. RxTypeOK'
    BY <1>5, <1>a DEF ll_input_alloc, RxTypeOK, RxLabels, Goto, Packets, Garbled, NoPbuf, UsbTypeOK
  <2>3. CoreTypeOK'
    BY <1>5, <1>a DEF ll_input_alloc, CoreTypeOK, core, tcpip
  <2>4. LockInv'
    BY <1>5, <1>a DEF ll_input_alloc, LockInv, InSection, At, Goto, core, tcpip, NoPbuf, Garbled, UsbTypeOK, Pointers
  <2>5. PoolConserved'
    <3>1. p = NoPbuf
      BY <1>5, <1>a DEF ll_input_alloc, At, LockInv
    <3>2. CASE free' = free - 1 /\ p' = Garbled
      BY <1>5, <1>a, <3>1, <3>2 DEF ll_input_alloc, PoolConserved, CoreTypeOK, tcpip, NoPbuf, Garbled
    <3>3. CASE UNCHANGED <<p, free>>
      BY <1>5, <1>a, <3>3 DEF ll_input_alloc, PoolConserved, tcpip
    <3>4. QED BY <1>5, <3>2, <3>3 DEF ll_input_alloc
  <2>6. QED BY <2>1, <2>2, <2>3, <2>4, <2>5 DEF IInv, TypeOK
<1>6. ASSUME ll_input_undefined
      PROVE  IInv'
  <2>1. UsbTypeOK' /\ HandleIffConfigured' /\ RxStoreInBounds'
    BY <1>6, UsbFrame DEF ll_input_undefined
  <2>2. RxTypeOK'
    BY <1>6, <1>a DEF ll_input_undefined, RxTypeOK, RxLabels, Goto, Pointers, Packets
  <2>3. CoreTypeOK'
    BY <1>6, <1>a DEF ll_input_undefined, CoreTypeOK, core, tcpip
  <2>4. LockInv'
    BY <1>6, <1>a DEF ll_input_undefined, LockInv, InSection, At, Goto, core, tcpip
  <2>5. PoolConserved'
    BY <1>6, <1>a DEF ll_input_undefined, PoolConserved, tcpip
  <2>6. QED BY <2>1, <2>2, <2>3, <2>4, <2>5 DEF IInv, TypeOK
<1>7. ASSUME ll_input_copy
      PROVE  IInv'
  <2>1. UsbTypeOK' /\ HandleIffConfigured' /\ RxStoreInBounds'
    BY <1>7, UsbFrame DEF ll_input_copy
  <2>a. p' \in Nat
    <3>1. lh \in Handles
      BY <1>7, <1>a DEF ll_input_copy, At, LockInv
    <3>2. rxLength[lh] \in Nat
      BY <1>a, <3>1 DEF UsbTypeOK
    <3>3. QED BY <1>7, <1>a, <3>2, FrameInType DEF ll_input_copy, UsbTypeOK
  <2>b. p \in Nat
    BY <1>7, <1>a DEF ll_input_copy, At, LockInv, RxTypeOK, Packets
  <2>2. RxTypeOK'
    BY <1>7, <1>a, <2>a DEF ll_input_copy, RxTypeOK, RxLabels, Goto, Packets
  <2>3. CoreTypeOK'
    BY <1>7, <1>a DEF ll_input_copy, CoreTypeOK, core, tcpip
  <2>4. LockInv'
    BY <1>7, <1>a, <2>a DEF ll_input_copy, LockInv, InSection, At, Goto, core, tcpip, NoPbuf
  <2>5. PoolConserved'
    BY <1>7, <1>a, <2>a, <2>b DEF ll_input_copy, PoolConserved, tcpip, NoPbuf
  <2>6. QED BY <2>1, <2>2, <2>3, <2>4, <2>5 DEF IInv, TypeOK
<1>8. ASSUME netif_input
      PROVE  IInv'
  <2>1. UsbTypeOK' /\ HandleIffConfigured' /\ RxStoreInBounds'
    BY <1>8, UsbFrame DEF netif_input
  <2>a. p \in Nat /\ p # NoPbuf /\ mbox \in Seq(Nat) /\ free \in Nat
    BY <1>8, <1>a DEF netif_input, At, LockInv, RxTypeOK, CoreTypeOK, Packets, NoPbuf
  <2>2. RxTypeOK'
    BY <1>8, <1>a DEF netif_input, RxTypeOK, RxLabels, Goto, Packets
  <2>3. CoreTypeOK'
    <3>1. mbox' \in Seq(Nat) /\ free' \in Nat
      <4>1. Append(mbox, p) \in Seq(Nat)
        BY <2>a
      <4>2. CASE Len(mbox) < MboxSize
        BY <1>8, <2>a, <4>1, <4>2 DEF netif_input
      <4>3. CASE ~(Len(mbox) < MboxSize)
        BY <1>8, <2>a, <4>3 DEF netif_input
      <4>4. QED BY <4>2, <4>3
    <3>2. QED BY <1>8, <1>a, <3>1 DEF netif_input, CoreTypeOK, core
  <2>b. Len(mbox') <= MboxSize
    BY <1>8, <1>a, <2>a DEF netif_input, LockInv
  <2>4. LockInv'
    BY <1>8, <1>a, <2>b DEF netif_input, LockInv, InSection, At, Goto, core, NoPbuf
  <2>5. PoolConserved'
    <3>1. CASE mbox' = Append(mbox, p) /\ free' = free
      <4>1. Len(mbox') = Len(mbox) + 1
        BY <2>a, <3>1
      <4>2. QED BY <1>8, <1>a, <2>a, <3>1, <4>1 DEF netif_input, PoolConserved, CoreTypeOK, NoPbuf
    <3>2. CASE free' = free + 1 /\ mbox' = mbox
      BY <1>8, <1>a, <2>a, <3>2 DEF netif_input, PoolConserved, CoreTypeOK, NoPbuf
    <3>3. QED BY <1>8, <3>1, <3>2 DEF netif_input
  <2>6. QED BY <2>1, <2>2, <2>3, <2>4, <2>5 DEF IInv, TypeOK
<1>9. ASSUME unlock_core
      PROVE  IInv'
  <2>1. UsbTypeOK' /\ HandleIffConfigured' /\ RxStoreInBounds'
    BY <1>9, UsbFrame DEF unlock_core
  <2>a. owner = RxThread /\ depth \in Nat /\ depth # 0 /\ pcT # "run"
    BY <1>9, <1>a DEF unlock_core, At, LockInv, InSection, CoreTypeOK, NoOne, RxThread, TcpipThread
  <2>2. RxTypeOK'
    BY <1>9, <1>a DEF unlock_core, RxTypeOK, RxLabels, Goto
  <2>3. CoreTypeOK'
    BY <1>9, <1>a, <2>a DEF unlock_core, CoreTypeOK, tcpip
  <2>4. LockInv'
    BY <1>9, <1>a, <2>a DEF unlock_core, LockInv, InSection, At, Goto, tcpip, NoOne, RxThread, TcpipThread
  <2>5. PoolConserved'
    BY <1>9, <1>a DEF unlock_core, PoolConserved, tcpip
  <2>6. QED BY <2>1, <2>2, <2>3, <2>4, <2>5 DEF IInv, TypeOK
<1>10. ASSUME reset_length
      PROVE  IInv'
  <2>a. UsbTypeOK'
    <3>1. CASE hcdc = NULL
      BY <1>10, <1>a, <3>1 DEF reset_length, UsbTypeOK
    <3>2. CASE hcdc # NULL
      <4>1. rxLength' = [rxLength EXCEPT ![hcdc] = 0]
        BY <1>10, <3>2 DEF reset_length
      <4>2. rxLength' \in [Handles -> Nat]
        BY <1>a, <4>1 DEF UsbTypeOK
      <4>3. QED BY <1>10, <1>a, <4>2 DEF reset_length, UsbTypeOK
    <3>3. QED BY <3>1, <3>2
  <2>1. UsbTypeOK' /\ HandleIffConfigured' /\ RxStoreInBounds'
    BY <1>10, <2>a DEF reset_length, IInv, HandleIffConfigured, RxStoreInBounds, Wild
  <2>2. RxTypeOK'
    BY <1>10, <1>a DEF reset_length, RxTypeOK, RxLabels, Goto
  <2>3. fault' \in BOOLEAN /\ UNCHANGED <<p, core, tcpip, free>>
    BY <1>10, <1>a DEF reset_length, CoreTypeOK
  <2>4. pcR' \notin InSection /\ pcR \notin {"copy", "input"}
    BY <1>10 DEF reset_length, InSection, At, Goto
  <2>5. QED BY <2>1, <2>2, <2>3, <2>4, RxFrame
<1>11. ASSUME reset_state
      PROVE  IInv'
  <2>a. UsbTypeOK'
    <3>1. CASE hcdc = NULL
      BY <1>11, <1>a, <3>1 DEF reset_state, UsbTypeOK
    <3>2. CASE hcdc # NULL
      BY <1>11, <1>a, <3>2 DEF reset_state, UsbTypeOK
    <3>3. QED BY <3>1, <3>2
  <2>1. UsbTypeOK' /\ HandleIffConfigured' /\ RxStoreInBounds'
    BY <1>11, <2>a DEF reset_state, IInv, HandleIffConfigured, RxStoreInBounds, Wild
  <2>2. RxTypeOK'
    BY <1>11, <1>a DEF reset_state, RxTypeOK, RxLabels, Goto
  <2>3. fault' \in BOOLEAN /\ UNCHANGED <<p, core, tcpip, free>>
    BY <1>11, <1>a DEF reset_state, CoreTypeOK
  <2>4. pcR' \notin InSection /\ pcR \notin {"copy", "input"}
    BY <1>11 DEF reset_state, InSection, At, Goto
  <2>5. QED BY <2>1, <2>2, <2>3, <2>4, RxFrame
<1>12. ASSUME prepare_receive
      PROVE  IInv'
  <2>a. UsbTypeOK'
    <3>1. CASE hcdc = NULL
      BY <1>12, <1>a, <3>1 DEF prepare_receive, UsbTypeOK
    <3>2. CASE hcdc # NULL
      BY <1>12, <1>a, <3>2 DEF prepare_receive, UsbTypeOK
    <3>3. QED BY <3>1, <3>2
  <2>1. UsbTypeOK' /\ HandleIffConfigured' /\ RxStoreInBounds'
    BY <1>12, <2>a DEF prepare_receive, IInv, HandleIffConfigured, RxStoreInBounds, Wild
  <2>2. RxTypeOK'
    BY <1>12, <1>a DEF prepare_receive, RxTypeOK, RxLabels, Goto
  <2>3. fault' \in BOOLEAN /\ UNCHANGED <<p, core, tcpip, free>>
    BY <1>12, <1>a DEF prepare_receive, CoreTypeOK
  <2>4. pcR' \notin InSection /\ pcR \notin {"copy", "input"}
    BY <1>12 DEF prepare_receive, InSection, At, Goto
  <2>5. QED BY <2>1, <2>2, <2>3, <2>4, RxFrame
<1>13. QED
  BY <1>1, <1>2, <1>3, <1>4, <1>5, <1>6, <1>7, <1>8, <1>9, <1>10, <1>11, <1>12 DEF net_event_loop

LEMMA TcpipThreadIInv ==
  ASSUME IInv, tcpip_thread
  PROVE  IInv'
<1> USE Constants
<1>a. UsbTypeOK /\ RxTypeOK /\ CoreTypeOK /\ LockInv /\ PoolConserved
  BY DEF IInv, TypeOK
<1>b. UsbTypeOK' /\ HandleIffConfigured' /\ RxStoreInBounds'
  BY UsbFrame DEF tcpip_thread, mbox_fetch, tcpip_lock, handle_msg
<1>c. RxTypeOK'
  BY <1>a DEF tcpip_thread, mbox_fetch, tcpip_lock, handle_msg, RxTypeOK, rx
<1>1. ASSUME mbox_fetch
      PROVE  IInv'
  <2>1. msg = NoPbuf
    BY <1>1, <1>a DEF mbox_fetch, LockInv
  <2>2. CASE mbox # <<>> /\ msg' = Head(mbox) /\ mbox' = Tail(mbox)
    <3>1. /\ msg' \in Nat /\ mbox' \in Seq(Nat)
          /\ Len(mbox) \in Nat /\ Len(mbox') = Len(mbox) - 1
      BY <2>2, <1>a DEF CoreTypeOK
    <3>2. CoreTypeOK'
      BY <1>1, <1>a, <3>1 DEF mbox_fetch, CoreTypeOK, core, Packets
    <3>3. LockInv'
      BY <1>1, <1>a, <3>1 DEF mbox_fetch, LockInv, core, rx
    <3>4. PoolConserved'
      <4>1. msg' # NoPbuf /\ UNCHANGED <<p, free, held>>
        BY <1>1, <3>1 DEF mbox_fetch, rx, NoPbuf
      <4>2. free + Len(mbox) + held + (IF p # NoPbuf THEN 1 ELSE 0) + 0 = PoolSize
        BY <1>a, <2>1 DEF PoolConserved
      <4>3. free \in Nat /\ held \in Nat
        BY <1>a DEF CoreTypeOK
      <4>4. QED BY <3>1, <4>1, <4>2, <4>3 DEF PoolConserved
    <3>5. QED BY <1>b, <1>c, <3>2, <3>3, <3>4 DEF IInv, TypeOK
  <2>3. CASE UNCHANGED <<msg, mbox>>
    <3>1. CoreTypeOK'
      BY <1>1, <1>a, <2>3 DEF mbox_fetch, CoreTypeOK, core
    <3>2. LockInv'
      BY <1>1, <1>a, <2>3 DEF mbox_fetch, LockInv, core, rx
    <3>3. PoolConserved'
      BY <1>1, <1>a, <2>3 DEF mbox_fetch, PoolConserved, rx
    <3>4. QED BY <1>b, <1>c, <3>1, <3>2, <3>3 DEF IInv, TypeOK
  <2>4. QED BY <1>1, <2>2, <2>3 DEF mbox_fetch
<1>2. ASSUME tcpip_lock
      PROVE  IInv'
  <2>1. CoreTypeOK'
    BY <1>2, <1>a DEF tcpip_lock, CoreTypeOK
  <2>2. LockInv'
    BY <1>2, <1>a DEF tcpip_lock, LockInv, rx, NoOne, RxThread, TcpipThread
  <2>3. PoolConserved'
    BY <1>2, <1>a DEF tcpip_lock, PoolConserved, rx
  <2>4. QED BY <1>b, <1>c, <2>1, <2>2, <2>3 DEF IInv, TypeOK
<1>3. ASSUME handle_msg
      PROVE  IInv'
  <2> DEFINE has == held + (IF msg # NoPbuf THEN 1 ELSE 0)
  <2>1. has \in Nat /\ held \in Nat /\ free \in Nat
    BY <1>a DEF CoreTypeOK
  <2>2. PICK keep \in 0..MaxHeld : keep <= has /\ held' = keep /\ free' = free + (has - keep)
    BY <1>3 DEF handle_msg
  <2>3. held' \in Nat /\ free' \in Nat /\ held' <= MaxHeld /\ free' + held' = free + has
    BY <2>1, <2>2
  <2>4. /\ msg' = NoPbuf /\ owner' = NoOne /\ depth' = 0 /\ pcT' = "fetch"
        /\ mbox' = mbox /\ p' = p /\ pcR' = pcR /\ lh' = lh /\ fault' = fault
    BY <1>3 DEF handle_msg, rx
  <2>5. CoreTypeOK'
    BY <1>a, <2>3, <2>4 DEF CoreTypeOK, Packets
  <2>6. LockInv'
    <3>1. pcR \notin InSection
      BY <1>3, <1>a DEF handle_msg, LockInv, RxThread, TcpipThread
    <3>2. QED
      BY <1>a, <2>3, <2>4, <3>1 DEF LockInv, NoOne, TcpipThread
  <2>7. PoolConserved'
    <3>1. Len(mbox) \in Nat
      BY <1>a DEF CoreTypeOK
    <3> DEFINE q == IF p # NoPbuf THEN 1 ELSE 0
    <3>2. q \in Nat /\ (IF p' # NoPbuf THEN 1 ELSE 0) = q /\ Len(mbox') = Len(mbox)
      BY <2>4
    <3>3. free + Len(mbox) + q + has = PoolSize
      BY <1>a, <2>1, <3>1 DEF PoolConserved
    <3>4. (IF msg' # NoPbuf THEN 1 ELSE 0) = 0
      BY <2>4
    <3>5. (free + (has - keep)) + Len(mbox) + keep + q + 0 = PoolSize
      <4>1. q \in Nat /\ keep \in Nat
        OBVIOUS
      <4> HIDE DEF has, q
      <4>2. QED BY <2>1, <3>1, <3>3, <4>1
    <3>6. QED BY <2>2, <3>2, <3>4, <3>5 DEF PoolConserved
  <2>8. QED BY <1>b, <1>c, <2>5, <2>6, <2>7 DEF IInv, TypeOK
<1>4. QED BY <1>1, <1>2, <1>3 DEF tcpip_thread

LEMMA NextIInv ==
  ASSUME IInv, HostInv, [Next]_vars
  PROVE  IInv'
<1>1. CASE WildStore
  <2>1. UsbTypeOK' /\ HandleIffConfigured' /\ RxStoreInBounds'
    BY <1>1, UsbFrame DEF WildStore
  <2>2. RxTypeOK' /\ CoreTypeOK'
    BY <1>1 DEF WildStore, IInv, TypeOK, RxTypeOK, CoreTypeOK, rx, core, tcpip
  <2>3. LockInv' /\ PoolConserved'
    BY <1>1 DEF WildStore, IInv, LockInv, PoolConserved, rx, core, tcpip
  <2>4. QED BY <2>1, <2>2, <2>3 DEF IInv, TypeOK
<1>2. CASE UNCHANGED vars
  <2>1. UsbTypeOK' /\ HandleIffConfigured' /\ RxStoreInBounds'
    BY <1>2, UsbFrame DEF vars
  <2>2. RxTypeOK' /\ CoreTypeOK'
    BY <1>2 DEF vars, IInv, TypeOK, RxTypeOK, CoreTypeOK, rx, core, tcpip
  <2>3. LockInv' /\ PoolConserved'
    BY <1>2 DEF vars, IInv, LockInv, PoolConserved, rx, core, tcpip
  <2>4. QED BY <2>1, <2>2, <2>3 DEF IInv, TypeOK
<1>3. QED
  BY <1>1, <1>2, IsrIInv, NetEventLoopIInv, TcpipThreadIInv DEF Next

-----------------------------------------------------------------------------
(* The theorems. *)

\* IInv holds in every state of the system.
THEOREM Inductive == Spec => [](IInv /\ HostInv)
<1>1. Init => IInv /\ HostInv
  BY InitIInv, InitHostInv
<1>2. IInv /\ HostInv /\ [Next]_vars => IInv' /\ HostInv'
  BY NextIInv, NextHostInv
<1>3. QED BY <1>1, <1>2, PTL DEF Spec

\* Every variable of the receive path keeps its type.
THEOREM TypeCorrect == Spec => []TypeOK
<1>1. IInv => TypeOK
  BY DEF IInv
<1>2. QED BY <1>1, Inductive, PTL

\* A packet is never stored past the end of UserRxBuffer, whatever the
\* interleaving of the interrupt with net_event_loop and however often the
\* handle was freed and allocated again.
THEOREM StoresStayInBounds == Spec => []RxStoreInBounds
<1>1. IInv => RxStoreInBounds
  BY DEF IInv
<1>2. QED BY <1>1, Inductive, PTL

\* No pbuf of the pool is lost or freed twice.
THEOREM PoolIsConserved == Spec => []PoolConserved
<1>1. IInv => PoolConserved
  BY DEF IInv
<1>2. QED BY <1>1, Inductive, PTL

\* The packet section of net_event_loop excludes the tcpip_thread, and the
\* other way round, also when the mutex is leaked.
THEOREM CoreIsExclusive == Spec => []CoreExclusive
<1>1. IInv => CoreExclusive
  BY DEF IInv, LockInv, CoreExclusive, InSection, RxThread, TcpipThread
<1>2. QED BY <1>1, Inductive, PTL

\* The class has its handle exactly while the device is configured.
THEOREM HandleWhileConfigured == Spec => []HandleIffConfigured
<1>1. IInv => HandleIffConfigured
  BY DEF IInv
<1>2. QED BY <1>1, Inductive, PTL

\* What the USB library does to the class, as this module models it, is the
\* device of UsbDevice: the class comes up and goes down only with the
\* configuration.
THEOREM DeviceImplemented == Spec => DeviceSpec
<1>1. Init => Device!Init
  BY DEF Init, Device!Init
<1>2. IInv /\ [Next]_vars => [Device!Next]_(Device!vars)
  <2> SUFFICES ASSUME IInv, [Next]_vars
               PROVE  [Device!Next]_(Device!vars)
    OBVIOUS
  <2>a. HandleIffConfigured /\ devState \in DevStates /\ NULL \notin Handles
    BY Constants DEF IInv, TypeOK, UsbTypeOK
  <2>1. CASE USBD_LL_Reset
    BY <2>1 DEF USBD_LL_Reset, USBD_CDC_ECM_DeInit, Device!Next, Device!Reset
  <2>2. CASE \E addr \in 0..1 : USBD_SetAddress(addr)
    BY <2>2, <2>a DEF USBD_SetAddress, Device!Next, Device!Address
  <2>3. CASE \E cfgidx \in 0..1 : USBD_SetConfig(cfgidx)
    BY <2>3, <2>a
       DEF USBD_SetConfig, USBD_CDC_ECM_Init, USBD_CDC_ECM_DeInit, HandleIffConfigured,
           Device!Next, Device!Configure, Device!Deconfigure, Device!vars
  <2>4. CASE UNCHANGED <<devState, pClassData>>
    BY <2>4 DEF Device!vars
  <2>5. QED
    BY <2>1, <2>2, <2>3, <2>4
       DEF Next, vars, usb, Isr, DataOutStage, WildStore,
           net_event_loop, notify_wait, handle_link_up, handle_link_down, lock_core,
           ll_input_alloc, ll_input_undefined, ll_input_copy, netif_input, unlock_core,
           reset_length, reset_state, prepare_receive,
           tcpip_thread, mbox_fetch, tcpip_lock, handle_msg
<1>3. QED BY <1>1, <1>2, Inductive, PTL DEF Spec, DeviceSpec, Device!Spec

-----------------------------------------------------------------------------
(* The link events. *)

\* What the interrupt does to the handle and the notifications: the class comes
\* up, goes down, or hands over a frame.
IsrEvent ==
  \/ /\ pClassData' # NULL /\ flags' = flags \cup {NET_EVENT_LINK_UP}
     /\ teardowns' = teardowns
  \/ /\ pClassData # NULL /\ pClassData' = NULL /\ flags' = flags \cup {NET_EVENT_LINK_DOWN}
     /\ teardowns' = teardowns + 1
  \/ /\ pClassData' = pClassData /\ teardowns' = teardowns
     /\ flags' \in {flags, flags \cup {NET_EVENT_NEW_PACKET}}

\* Every interrupt is one of these, and none touches what net_event_loop holds.
LEMMA IsrEvents == ASSUME IInv, Isr PROVE IsrEvent /\ UNCHANGED rx
<1>a. HandleIffConfigured
  BY DEF IInv
<1>1. ASSUME NEW h \in Handles, USBD_CDC_ECM_Init(h), teardowns' = teardowns
      PROVE  IsrEvent
  BY <1>1, Constants DEF USBD_CDC_ECM_Init, IsrEvent
<1>2. ASSUME USBD_CDC_ECM_DeInit
      PROVE  IsrEvent
  BY <1>2 DEF USBD_CDC_ECM_DeInit, IsrEvent
<1>3. ASSUME DataOutStage
      PROVE  IsrEvent
  BY <1>3 DEF DataOutStage, USBD_CDC_ECM_DataOut, IsrEvent
<1>4. ASSUME NEW cfgidx \in 0..1, USBD_SetConfig(cfgidx)
      PROVE  IsrEvent
  <2>1. CASE devState = "ADDRESSED"
    <3>1. pClassData = NULL
      BY <1>a, <2>1 DEF HandleIffConfigured
    <3>2. CASE \E h \in Handles : USBD_CDC_ECM_Init(h)
      BY <1>1, <1>4, <2>1, <3>2 DEF USBD_SetConfig
    <3>3. CASE pClassData' = NULL /\ UNCHANGED <<flags, teardowns>>
      BY <3>1, <3>3 DEF IsrEvent
    <3>4. QED BY <1>4, <2>1, <3>2, <3>3 DEF USBD_SetConfig
  <2>2. QED BY <1>2, <1>4, <2>1 DEF USBD_SetConfig
<1>5. ASSUME NEW addr \in 0..1, USBD_SetAddress(addr)
      PROVE  IsrEvent
  BY <1>5 DEF USBD_SetAddress, IsrEvent
<1>6. QED BY <1>2, <1>3, <1>4, <1>5 DEF Isr, USBD_LL_Reset

\* Up and down notifications that wait agree with the handle: the last one came
\* last.  Without a handle after a teardown, LINK_DOWN waits, is in hand, or has
\* been handled, and no older LINK_UP is still to come.  With a handle, unless
\* the two were merged, LINK_UP waits, is in hand, or has been handled.
LinkInv ==
  /\ pClassData = NULL /\ NET_EVENT_LINK_UP \in flags => NET_EVENT_LINK_DOWN \in flags
  /\ pClassData # NULL /\ NET_EVENT_LINK_DOWN \in flags => NET_EVENT_LINK_UP \in flags
  /\ pClassData = NULL /\ teardowns > 0 =>
       \/ NET_EVENT_LINK_DOWN \in flags
       \/ pcR \in {"up", "down"} /\ NET_EVENT_LINK_DOWN \in ev
       \/ ~link /\ ~(pcR = "up" /\ NET_EVENT_LINK_UP \in ev)
  /\ pClassData # NULL /\ ~merged =>
       \/ NET_EVENT_LINK_UP \in flags
       \/ pcR = "up" /\ NET_EVENT_LINK_UP \in ev /\ NET_EVENT_LINK_DOWN \notin ev
       \/ link /\ hcdc # NULL /\ ~(pcR \in {"up", "down"} /\ NET_EVENT_LINK_DOWN \in ev)

\* LinkInv holds when the system starts.
LEMMA InitLinkInv == Init => LinkInv
BY DEF Init, LinkInv

\* Every step keeps LinkInv.
LEMMA NextLinkInv == ASSUME IInv, LinkInv, [Next]_vars PROVE LinkInv'
<1> USE DEF NET_EVENT_LINK_UP, NET_EVENT_LINK_DOWN, NET_EVENT_NEW_PACKET
<1>1. CASE Isr
  <2>1. IsrEvent /\ UNCHANGED rx /\ teardowns \in Nat
    BY <1>1, IsrEvents DEF IInv, TypeOK, UsbTypeOK
  <2>2. QED BY <2>1 DEF IsrEvent, LinkInv, rx
<1>2. CASE notify_wait
  BY <1>2 DEF notify_wait, LinkInv, At, Goto, usb
<1>3. CASE handle_link_up
  BY <1>3 DEF handle_link_up, LinkInv, At, Goto, usb
<1>4. CASE handle_link_down
  BY <1>4 DEF handle_link_down, LinkInv, At, Goto, usb
<1>5. ASSUME UNCHANGED <<pClassData, teardowns, flags, link, merged, ev, hcdc>>,
             pcR' = pcR \/ (pcR \notin {"up", "down"} /\ pcR' \notin {"up", "down"})
      PROVE  LinkInv'
  BY <1>5 DEF LinkInv
<1>6. CASE WildStore \/ tcpip_thread \/ UNCHANGED vars
  BY <1>5, <1>6 DEF WildStore, tcpip_thread, mbox_fetch, tcpip_lock, handle_msg, vars, usb, rx
<1>7. CASE \/ lock_core \/ ll_input_alloc \/ ll_input_undefined \/ ll_input_copy
           \/ netif_input \/ unlock_core \/ reset_length \/ reset_state \/ prepare_receive
  BY <1>5, <1>7
     DEF lock_core, ll_input_alloc, ll_input_undefined, ll_input_copy, netif_input, unlock_core,
         reset_length, reset_state, prepare_receive, At, Goto, usb
<1>8. QED
  BY <1>1, <1>2, <1>3, <1>4, <1>6, <1>7 DEF Next, net_event_loop

\* Once its notifications are handled, lwIP believes in a link without a class
\* only before the first host, whatever was merged or overtaken on the way
\* (net.c:138-148).
THEOREM LinkUpIsBacked == Spec => []LinkUpOnlyWithClass
<1>1. IInv /\ LinkInv => LinkUpOnlyWithClass
  BY DEF IInv, TypeOK, UsbTypeOK, LinkInv, LinkUpOnlyWithClass, Settled
<1>2. QED BY <1>1, Inductive, InitLinkInv, NextLinkInv, PTL DEF Spec

\* And a configured device is left without link or handle only by a merge.
THEOREM LinkLossIsAMerge == Spec => []LinkLostOnlyByMerge
<1>1. LinkInv => LinkLostOnlyByMerge
  BY DEF LinkInv, LinkLostOnlyByMerge, Settled
<1>2. QED BY <1>1, Inductive, InitLinkInv, NextLinkInv, PTL DEF Spec

\* A number of full packets.
Whole(n) == \E m \in Nat : n = m * MaxPcktLen

\* One more full packet.
LEMMA WholeNext ==
  ASSUME NEW n \in Nat, Whole(n)
  PROVE  Whole(n + MaxPcktLen)
<1>1. PICK m \in Nat : n = m * MaxPcktLen
  BY DEF Whole
<1>2. n + MaxPcktLen = (m + 1) * MaxPcktLen
  BY <1>1, Constants
<1>3. QED BY <1>2 DEF Whole

\* A frame of the largest size does not end with a full packet.
LEMMA NotWhole == ~Whole(MaxSegSize)
<1> SUFFICES ASSUME NEW m \in Nat, MaxSegSize = m * MaxPcktLen PROVE FALSE
  BY DEF Whole
<1>1. \A x \in Nat : \A b \in Nat \ {0} : (x * b) % b = 0
  BY SMTT(30)
<1>2. QED BY <1>1, EcmRxAssumption

-----------------------------------------------------------------------------
(* The first session. *)

\* lwip_input has taken the notification of a frame and not yet looked at it.
Taken == pcR \in {"up", "down"} /\ NET_EVENT_NEW_PACKET \in ev

\* A frame has been handed over and the endpoint is not armed again.
Handing == NET_EVENT_NEW_PACKET \in flags \/ Taken \/ Processing

\* Until the first teardown: the endpoint waits while a frame is handed over, of
\* which there is one at a time; net_event_loop has the handle once it has seen
\* LINK_UP, and is never given LINK_DOWN.
SessionInv ==
  /\ ~fault /\ out # Wild
  /\ NET_EVENT_LINK_DOWN \notin flags
  /\ pcR \in {"up", "down"} => NET_EVENT_LINK_DOWN \notin ev
  /\ pClassData = NULL => flags = {} /\ pcR = "wait" /\ out = NoRx /\ frame.state = "idle"
  /\ pClassData # NULL => \/ hcdc = pClassData
                          \/ pcR = "wait" /\ NET_EVENT_LINK_UP \in flags
                          \/ pcR = "up" /\ NET_EVENT_LINK_UP \in ev
  /\ pcR = "copy" => lh = pClassData
  /\ NET_EVENT_NEW_PACKET \in flags => ~Processing /\ ~Taken
  /\ Handing => out = NoRx

\* The first n bytes of the buffer are those of the host's frame, and RxLength
\* counts them.
Stored(n) ==
  /\ rxLength[pClassData] = n
  /\ \A i \in 0..(n - 1) : buf[i] = Cell(frame.id, i, frame.len)

\* A whole frame is in the buffer.
InBuffer ==
  \/ NET_EVENT_NEW_PACKET \in flags \/ Taken
  \/ pcR \in {"lock", "alloc", "copy", "input", "unlock", "length"}

\* The armed endpoint points behind what the host has sent of its frame; a frame
\* that is handed over is complete.
BufInv ==
  /\ out >= 0 => Stored(out) /\ out = IF frame.state = "sending" THEN frame.sent ELSE 0
  /\ frame.state = "sending" => out >= 0 /\ Whole(frame.sent)
  /\ InBuffer => /\ frame.len \in 1..MaxSegSize /\ Stored(frame.len)
                 /\ rxState[pClassData] = 1
  /\ pcR \in {"state", "rearm"} => rxLength[pClassData] = 0

\* The host's frame has not been posted to the mailbox yet.
Undelivered ==
  \/ frame.state = "sending" \/ NET_EVENT_NEW_PACKET \in flags \/ Taken
  \/ pcR \in {"lock", "alloc", "copy", "input"}

Ordered(q) == \A i, j \in 1..Len(q) : i < j => q[i] < q[j]
Below(q, n) == \A i \in 1..Len(q) : q[i] > 0 /\ q[i] < n

\* The mailbox holds frames in the order they were sent, all before the one that
\* is on its way.
OrderInv ==
  /\ Ordered(mbox)
  /\ Below(mbox, IF Undelivered THEN frame.id ELSE frame.id + 1)
  /\ Undelivered => frame.id > 0
  /\ pcR = "input" => p = frame.id

\* With a pool that is large enough the mutex is left where it is taken.
MutexInv ==
  PoolSize > MboxSize + MaxHeld + 1 /\ owner = RxThread => pcR \in InSection /\ depth = 1

FirstInv == SessionInv /\ BufInv /\ OrderInv /\ MutexInv

\* FirstInv holds when the system starts.
LEMMA InitFirstInv == Init => FirstInv
<1> SUFFICES ASSUME Init PROVE FirstInv
  OBVIOUS
<1>1. SessionInv
  BY DEF Init, SessionInv, Handing, Taken, Processing, NoRx, Wild
<1>2. BufInv
  BY DEF Init, BufInv, InBuffer, Taken, NoRx
<1>3. OrderInv
  BY DEF Init, OrderInv, Ordered, Below, Undelivered, Taken
<1>4. MutexInv
  BY DEF Init, MutexInv, NoOne, RxThread
<1>5. QED BY <1>1, <1>2, <1>3, <1>4 DEF FirstInv

\* What the interrupt changes of the packet path, a packet apart.
LEMMA QuietIsrFirst ==
  ASSUME IInv, FirstInv, Isr, ~DataOutStage, teardowns = 0, teardowns' = 0
  PROVE  FirstInv'
<1> USE DEF NET_EVENT_LINK_UP, NET_EVENT_LINK_DOWN, NET_EVENT_NEW_PACKET
<1>a. SessionInv /\ BufInv /\ OrderInv /\ MutexInv
  BY DEF FirstInv
<1>b. UNCHANGED <<link, merged, pcR, ev, hcdc, lh, p, owner, depth, mbox, fault>>
  BY DEF Isr, rx, core, tcpip
<1>c. HandleIffConfigured /\ frame \in Frame /\ rxLength \in [Handles -> Nat]
  BY DEF IInv, TypeOK, UsbTypeOK
<1>d. MutexInv'
  BY <1>a, <1>b DEF MutexInv
<1>1. ASSUME pClassData = NULL, NEW h \in Handles, USBD_CDC_ECM_Init(h), UNCHANGED <<buf, frame>>
      PROVE  FirstInv'
  <2>1. flags = {} /\ pcR = "wait" /\ frame.state = "idle"
    BY <1>a, <1>1 DEF SessionInv
  <2>2. /\ pClassData' = h /\ h # NULL /\ flags' = {NET_EVENT_LINK_UP} /\ out' = 0
        /\ rxLength'[h] = 0
    BY <1>1, <1>c, <2>1, Constants DEF USBD_CDC_ECM_Init
  <2>3. SessionInv'
    BY <1>a, <1>b, <2>1, <2>2 DEF SessionInv, Handing, Taken, Processing, Wild
  <2>4. BufInv'
    BY <1>1, <1>b, <2>1, <2>2 DEF BufInv, Stored, InBuffer, Taken
  <2>5. OrderInv'
    BY <1>1, <1>a, <1>b, <2>1, <2>2 DEF OrderInv, Undelivered, Taken
  <2>6. QED BY <1>d, <2>3, <2>4, <2>5 DEF FirstInv
<1>2. ASSUME pClassData = NULL, pClassData' = NULL, flags' = flags, out' = NoRx,
             frame'.state = "idle", frame'.id = frame.id
      PROVE  FirstInv'
  <2>1. flags = {} /\ pcR = "wait" /\ frame.state = "idle"
    BY <1>a, <1>2 DEF SessionInv
  <2>2. SessionInv'
    BY <1>2, <1>a, <1>b, <2>1 DEF SessionInv, Handing, Taken, Processing, Wild, NoRx
  <2>3. BufInv'
    BY <1>2, <1>b, <2>1 DEF BufInv, InBuffer, Taken, NoRx
  <2>4. OrderInv'
    BY <1>2, <1>a, <1>b, <2>1 DEF OrderInv, Undelivered, Taken
  <2>5. QED BY <1>d, <2>2, <2>3, <2>4 DEF FirstInv
<1>3. ASSUME UNCHANGED <<pClassData, rxLength, rxState, out, buf, flags, frame>>
      PROVE  FirstInv'
  BY <1>3, <1>a, <1>b, <1>d
     DEF FirstInv, SessionInv, Handing, Taken, Processing, BufInv, Stored, InBuffer, OrderInv,
         Undelivered
<1>4. ASSUME USBD_CDC_ECM_DeInit, HostAborts \/ UNCHANGED frame PROVE FirstInv'
  <2>1. pClassData = NULL /\ pClassData' = NULL /\ flags' = flags /\ out' = NoRx
    BY <1>4 DEF USBD_CDC_ECM_DeInit
  <2>2. frame'.state = "idle" /\ frame'.id = frame.id
    BY <1>4, <1>a, <1>c, <2>1 DEF HostAborts, SessionInv, Frame
  <2>3. QED BY <1>2, <2>1, <2>2
<1>5. ASSUME NEW cfgidx \in 0..1, USBD_SetConfig(cfgidx) PROVE FirstInv'
  <2>1. CASE devState = "ADDRESSED"
    <3>1. pClassData = NULL /\ UNCHANGED <<buf, frame>>
      BY <1>5, <1>c, <2>1 DEF HandleIffConfigured, USBD_SetConfig
    <3>2. CASE \E h \in Handles : USBD_CDC_ECM_Init(h)
      BY <1>1, <3>1, <3>2
    <3>3. CASE pClassData' = NULL /\ UNCHANGED <<rxLength, rxState, out, flags>>
      BY <1>3, <3>1, <3>3
    <3>4. QED BY <1>5, <2>1, <3>2, <3>3 DEF USBD_SetConfig
  <2>2. QED BY <1>4, <1>5, <2>1 DEF USBD_SetConfig
<1>6. ASSUME NEW addr \in 0..1, USBD_SetAddress(addr) PROVE FirstInv'
  BY <1>3, <1>6 DEF USBD_SetAddress
<1>7. QED BY <1>4, <1>5, <1>6 DEF Isr, USBD_LL_Reset

\* A packet arrives.
LEMMA DataOutFirst ==
  ASSUME IInv, HostInv, FirstInv, DataOutStage,
         UNCHANGED <<rx, core, tcpip, free, fault>>
  PROVE  FirstInv'
<1> USE DEF NET_EVENT_LINK_UP, NET_EVENT_LINK_DOWN, NET_EVENT_NEW_PACKET
<1>a. SessionInv /\ BufInv /\ OrderInv /\ MutexInv
  BY DEF FirstInv
<1>b. /\ UNCHANGED <<link, merged, pcR, ev, hcdc, lh, p, owner, depth, mbox, fault>>
      /\ UNCHANGED <<pClassData, teardowns>>
  BY DEF DataOutStage, rx, core, tcpip
<1> DEFINE h == pClassData
<1>c. /\ h \in Handles /\ h # NULL /\ out \in Nat /\ out + MaxPcktLen <= RxBufSize
      /\ rxLength \in [Handles -> Nat] /\ rxState \in [Handles -> {0, 1}]
      /\ buf \in [0..(RxBufSize - 1) -> Nat \X Nat \X Nat]
  BY Constants DEF DataOutStage, IInv, TypeOK, UsbTypeOK, HandleIffConfigured, Pointers, NoRx, Wild,
     RxStoreInBounds
<1>d. ~Handing /\ ~InBuffer
  BY <1>a, <1>c DEF SessionInv, Handing, InBuffer, Processing, NoRx
<1>1. PICK f \in HostFrames :
        /\ buf' = [i \in DOMAIN buf |->
                     IF out <= i /\ i < out + PacketLen(f)
                     THEN Cell(f.id, f.sent + (i - out), f.len)
                     ELSE buf[i]]
        /\ frame' = AfterPacket(f)
        /\ USBD_CDC_ECM_DataOut(PacketLen(f))
  BY DEF DataOutStage
<1> DEFINE k == PacketLen(f)
           total == out + k
<1>2. /\ f \in Frame /\ f.len \in 1..MaxSegSize /\ f.id \in Nat /\ f.sent \in Nat
      /\ k \in 0..MaxPcktLen /\ f.sent + k \in 0..f.len
  BY HostFramesType, PacketLenBounds DEF Frame
<1>3. /\ Stored(out) /\ f.sent = out /\ Whole(out)
      /\ \A i \in 0..(out - 1) : buf[i] = Cell(f.id, i, f.len)
      /\ Below(mbox, f.id) /\ f.id > 0
  <2>1. CASE frame.state = "sending"
    <3>1. f = frame
      BY <1>1, <2>1 DEF HostFrames
    <3>2. Stored(out) /\ frame.sent = out /\ Whole(out)
      BY <1>a, <1>c, <2>1 DEF BufInv
    <3>3. Below(mbox, frame.id) /\ frame.id > 0
      BY <1>a, <2>1 DEF OrderInv, Undelivered
    <3>4. QED BY <3>1, <3>2, <3>3 DEF Stored
  <2>2. CASE frame.state # "sending"
    <3>1. f.id = frame.id + 1 /\ f.sent = 0 /\ frame.id \in Nat
      BY <1>1, <2>2 DEF HostFrames, HostInv, Frame
    <3>2. out = 0 /\ Stored(out)
      BY <1>a, <1>c, <2>2 DEF BufInv
    <3>3. Whole(0)
      BY Constants DEF Whole
    <3>4. ~Undelivered
      BY <1>d, <2>2 DEF Undelivered, InBuffer
    <3>5. Below(mbox, f.id)
      BY <1>a, <3>1, <3>4 DEF OrderInv
    <3>6. QED BY <3>1, <3>2, <3>3, <3>5
  <2>3. QED BY <2>1, <2>2
<1>4. /\ frame'.id = f.id /\ frame'.len = f.len /\ frame'.sent = total
      /\ frame'.state = IF k = MaxPcktLen THEN "sending" ELSE "idle"
  BY <1>1, <1>3 DEF AfterPacket
<1>5. rxLength[h] = out
  BY <1>3 DEF Stored
<1>6. \A i \in 0..(total - 1) : buf'[i] = Cell(f.id, i, f.len)
  <2> SUFFICES ASSUME NEW i \in 0..(total - 1) PROVE buf'[i] = Cell(f.id, i, f.len)
    OBVIOUS
  <2>1. i \in DOMAIN buf /\ i \in Nat /\ k \in Nat
    <3>1. k \in Nat /\ out + k <= RxBufSize
      BY <1>2, <1>c, Constants
    <3> HIDE DEF k
    <3>2. QED BY <1>c, <3>1, Constants
  <2>2. CASE i < out
    BY <1>1, <1>3, <1>c, <2>1, <2>2
  <2>3. CASE out <= i
    <3>1. f.sent + (i - out) = i /\ i < out + PacketLen(f)
      BY <1>2, <1>3, <1>c, <2>1
    <3>2. QED BY <1>1, <2>1, <2>3, <3>1
  <2>4. QED BY <1>c, <2>1, <2>2, <2>3
<1> HIDE DEF k, total
<1>7. /\ rxLength' = [rxLength EXCEPT ![h] = total] /\ total \in Nat
      /\ LastPacket(k, total) =>
           /\ rxState' = [rxState EXCEPT ![h] = 1]
           /\ flags' = flags \cup {NET_EVENT_NEW_PACKET} /\ out' = NoRx
      /\ ~LastPacket(k, total) => out' = total /\ rxState' = rxState /\ flags' = flags
  BY <1>1, <1>2, <1>5, <1>c DEF USBD_CDC_ECM_DataOut, k, total
<1>8. /\ rxLength'[pClassData'] = total
      /\ \A i \in 0..(total - 1) : buf'[i] = Cell(frame'.id, i, frame'.len)
  BY <1>4, <1>6, <1>7, <1>b, <1>c
<1>d2. MutexInv'
  BY <1>a, <1>b DEF MutexInv
<1>9. CASE LastPacket(k, total)
  <2>1. k < MaxPcktLen
    <3> SUFFICES ASSUME k = MaxPcktLen PROVE FALSE
      BY <1>2, Constants
    <3>1. total >= MaxSegSize /\ total = out + MaxPcktLen
      BY <1>9, Constants DEF LastPacket, total
    <3>2. total = MaxSegSize
      BY <1>2, <1>3, <3>1, Constants DEF total
    <3>3. Whole(total)
      BY <1>3, <1>c, <3>1, WholeNext
    <3>4. QED BY <3>2, <3>3, NotWhole
  <2>2. total = f.len /\ frame'.state = "idle"
    <3>1. PacketLen(f) = f.len - f.sent
      BY <2>1, Constants DEF PacketLen, k
    <3>2. QED BY <1>2, <1>3, <1>4, <2>1, <3>1, Constants DEF k, total
  <2>3. SessionInv'
    BY <1>7, <1>9, <1>a, <1>b, <1>c, <1>d
       DEF SessionInv, Handing, Taken, Processing, NoRx, Wild
  <2>4. rxState'[h] = 1
    BY <1>7, <1>9, <1>c
  <2>5. BufInv'
    BY <1>2, <1>4, <1>7, <1>8, <1>9, <1>b, <1>d, <2>2, <2>4
       DEF BufInv, Stored, NoRx, Handing, Processing
  <2>6. OrderInv'
    BY <1>3, <1>4, <1>7, <1>9, <1>a, <1>b, <1>d DEF OrderInv, Undelivered, InBuffer
  <2>7. QED BY <1>d2, <2>3, <2>5, <2>6 DEF FirstInv
<1>10. CASE ~LastPacket(k, total)
  <2>1. k = MaxPcktLen /\ frame'.state = "sending"
    BY <1>2, <1>4, <1>10, Constants DEF LastPacket
  <2>2. Whole(total)
    BY <1>3, <1>c, <2>1, WholeNext DEF total
  <2>3. SessionInv'
    BY <1>7, <1>10, <1>a, <1>b, <1>c, <1>d
       DEF SessionInv, Handing, Taken, Processing, NoRx, Wild
  <2>4. BufInv'
    BY <1>4, <1>7, <1>8, <1>10, <1>b, <1>d, <2>1, <2>2
       DEF BufInv, Stored, InBuffer, Taken, Handing, Processing
  <2>5. OrderInv'
    BY <1>3, <1>4, <1>7, <1>10, <1>a, <1>b, <1>d, <2>1 DEF OrderInv, Undelivered, InBuffer, Taken
  <2>6. QED BY <1>d2, <2>3, <2>4, <2>5 DEF FirstInv
<1>11. QED BY <1>9, <1>10

\* The frame that is handed over is the one in the buffer.
LEMMA FrameInIs ==
  ASSUME NEW b, NEW n \in Nat, n > 0, n <= RxBufSize, NEW x,
         \A i \in 0..(n - 1) : b[i] = Cell(x, i, n)
  PROVE  FrameIn(b, n) = x
<1>1. b[0] = Cell(x, 0, n)
  OBVIOUS
<1>2. b[0][1] = x
  BY <1>1 DEF Cell
<1>3. \A i \in 0..(n - 1) : b[i] = Cell(b[0][1], i, n)
  BY <1>2
<1>4. QED BY <1>2, <1>3 DEF FrameIn

\* Every step of the receive thread keeps FirstInv.
LEMMA RxFirst ==
  ASSUME IInv, FirstInv, net_event_loop
  PROVE  FirstInv'
<1> USE DEF NET_EVENT_LINK_UP, NET_EVENT_LINK_DOWN, NET_EVENT_NEW_PACKET
<1>a. SessionInv /\ BufInv /\ OrderInv /\ MutexInv
  BY DEF FirstInv
<1>b. /\ pClassData \in Handles \cup {NULL} /\ frame.id \in Nat
      /\ rxLength \in [Handles -> Nat] /\ rxState \in [Handles -> {0, 1}]
      /\ flags \subseteq NetEvents /\ NULL \notin Handles
  BY Constants DEF IInv, TypeOK, UsbTypeOK, RxTypeOK, Pointers, Frame
<1>c. LockInv /\ depth \in Nat
  BY DEF IInv, TypeOK, CoreTypeOK
\* With the USB side, the mailbox and the mutex left alone, what remains is the
\* place of the frame.
<1>d. ASSUME UNCHANGED <<pClassData, rxLength, rxState, out, buf, frame>>,
             InBuffer' => InBuffer, pcR' \notin {"state", "rearm"}
      PROVE  BufInv'
  BY <1>d, <1>a DEF BufInv, Stored
<1>e. ASSUME UNCHANGED <<mbox, frame>>, Undelivered' <=> Undelivered, pcR' # "input"
      PROVE  OrderInv'
  BY <1>e, <1>a DEF OrderInv
<1>f. ASSUME UNCHANGED core, pcR \notin InSection
      PROVE  MutexInv'
  BY <1>f, <1>a DEF MutexInv, core
<1>1. CASE notify_wait
  <2>1. /\ pcR = "wait" /\ pcR' = "up" /\ ev' = flags /\ flags' = {} /\ UNCHANGED <<usb, core, tcpip>>
        /\ UNCHANGED <<hcdc, lh, p, fault>> /\ flags # {}
    BY <1>1 DEF notify_wait, At, Goto
  <2>2. pClassData # NULL
    BY <1>a, <2>1 DEF SessionInv
  <2>3. SessionInv'
    BY <1>a, <2>1, <2>2 DEF SessionInv, Handing, Taken, Processing, usb
  <2>4. BufInv'
    BY <1>d, <2>1 DEF InBuffer, Taken, usb
  <2>5. OrderInv'
    BY <1>e, <2>1 DEF Undelivered, Taken, usb, tcpip
  <2>6. MutexInv'
    BY <1>f, <2>1 DEF InSection
  <2>7. QED BY <2>3, <2>4, <2>5, <2>6 DEF FirstInv
<1>2. CASE handle_link_up
  <2>1. /\ pcR = "up" /\ pcR' = "down" /\ ev' = ev /\ flags' = flags /\ UNCHANGED <<usb, core, tcpip>>
        /\ UNCHANGED <<lh, p, fault>>
        /\ hcdc' = IF NET_EVENT_LINK_UP \in ev THEN pClassData ELSE hcdc
    BY <1>2 DEF handle_link_up, At, Goto
  <2>3. SessionInv'
    BY <1>a, <2>1 DEF SessionInv, Handing, Taken, Processing, usb
  <2>4. BufInv'
    BY <1>d, <2>1 DEF InBuffer, Taken, usb
  <2>5. OrderInv'
    BY <1>e, <2>1 DEF Undelivered, Taken, usb, tcpip
  <2>6. MutexInv'
    BY <1>f, <2>1 DEF InSection
  <2>7. QED BY <2>3, <2>4, <2>5, <2>6 DEF FirstInv
<1>3. CASE handle_link_down
  <2>1. /\ pcR = "down" /\ ev' = ev /\ flags' = flags /\ UNCHANGED <<usb, core, tcpip>>
        /\ UNCHANGED <<lh, p, fault>>
        /\ pcR' = IF NET_EVENT_NEW_PACKET \in ev THEN "lock" ELSE "wait"
    BY <1>3 DEF handle_link_down, At, Goto
  <2>2. hcdc' = hcdc
    BY <1>3, <1>a, <2>1 DEF handle_link_down, SessionInv
  <2>3. SessionInv'
    BY <1>a, <2>1, <2>2 DEF SessionInv, Handing, Taken, Processing, usb
  <2>4. BufInv'
    BY <1>d, <2>1 DEF InBuffer, Taken, usb
  <2>5. OrderInv'
    BY <1>e, <2>1 DEF Undelivered, Taken, usb, tcpip
  <2>6. MutexInv'
    BY <1>f, <2>1 DEF InSection
  <2>7. QED BY <2>3, <2>4, <2>5, <2>6 DEF FirstInv
<1>4. CASE lock_core
  <2>1. /\ pcR = "lock" /\ pcR' = "alloc" /\ flags' = flags /\ UNCHANGED <<usb, tcpip>>
        /\ UNCHANGED <<hcdc, lh, p, fault>> /\ depth' = depth + 1 /\ owner \in {NoOne, RxThread}
    BY <1>4 DEF lock_core, At, Goto
  <2>3. SessionInv'
    BY <1>a, <2>1 DEF SessionInv, Handing, Taken, Processing, usb
  <2>4. BufInv'
    BY <1>d, <2>1 DEF InBuffer, Taken, usb
  <2>5. OrderInv'
    BY <1>e, <2>1 DEF Undelivered, Taken, usb, tcpip
  <2>6. MutexInv'
    BY <1>a, <1>c, <2>1 DEF MutexInv, LockInv, InSection
  <2>7. QED BY <2>3, <2>4, <2>5, <2>6 DEF FirstInv
\* In the packet section there is a handle and a frame, and it is not too long.
<1>g. ASSUME pcR \in {"alloc", "copy", "length"}
      PROVE  /\ pClassData \in Handles /\ hcdc = pClassData /\ InBuffer
             /\ rxLength[pClassData] = frame.len /\ frame.len \in 1..MaxSegSize
             /\ rxState[pClassData] = 1 /\ Stored(frame.len)
  <2>1. InBuffer
    BY <1>g DEF InBuffer
  <2>2. pClassData # NULL
    BY <1>a, <1>g DEF SessionInv
  <2>3. hcdc = pClassData
    BY <1>a, <1>g, <2>2 DEF SessionInv
  <2>4. QED BY <1>a, <1>b, <2>1, <2>2, <2>3 DEF BufInv, Stored
<1>5. CASE ll_input_alloc
  <2>1. /\ pcR = "alloc" /\ flags' = flags /\ UNCHANGED <<usb, core, tcpip>>
        /\ UNCHANGED <<hcdc, fault>> /\ lh' = pClassData
        /\ pcR' = IF rxLength[pClassData] > 0 /\ rxState[pClassData] = 1 /\ free > 0
                  THEN "copy" ELSE "length"
    BY <1>5 DEF ll_input_alloc, At, Goto
  <2>2. rxLength[pClassData] > 0 /\ rxState[pClassData] = 1
    BY <1>g, <2>1, Constants
  <2>3. SessionInv'
    BY <1>a, <2>1 DEF SessionInv, Handing, Taken, Processing, usb
  <2>4. BufInv'
    BY <1>d, <2>1 DEF InBuffer, Taken, usb
  <2>5. OrderInv'
    <3>1. Undelivered /\ pcR' # "input"
      BY <2>1 DEF Undelivered
    <3>2. Below(mbox, frame.id) /\ frame.id > 0 /\ Ordered(mbox)
      BY <1>a, <3>1 DEF OrderInv
    <3>3. Below(mbox, frame.id + 1)
      <4>1. \A i \in 1..Len(mbox) : mbox[i] \in Nat
        BY DEF IInv, TypeOK, CoreTypeOK
      <4>2. QED BY <1>b, <3>2, <4>1 DEF Below
    <3>4. UNCHANGED <<mbox, frame>>
      BY <2>1 DEF usb, tcpip
    <3>5. QED BY <3>1, <3>2, <3>3, <3>4 DEF OrderInv
  <2>6. MutexInv'
    <3> SUFFICES ASSUME PoolSize > MboxSize + MaxHeld + 1 PROVE free > 0
      BY <1>a, <2>1, <2>2 DEF MutexInv, core, InSection
    <3>1. p = NoPbuf /\ Len(mbox) <= MboxSize /\ held <= MaxHeld
      BY <1>c, <2>1 DEF LockInv
    <3>2. free \in Nat /\ held \in Nat /\ Len(mbox) \in Nat
      BY DEF IInv, TypeOK, CoreTypeOK
    <3>3. free + Len(mbox) + held + 0 + (IF msg # NoPbuf THEN 1 ELSE 0) = PoolSize
      BY <3>1 DEF IInv, PoolConserved
    <3>4. QED BY <3>1, <3>2, <3>3, Constants
  <2>7. QED BY <2>3, <2>4, <2>5, <2>6 DEF FirstInv
<1>6. CASE ll_input_undefined
  <2>1. CASE pcR = "alloc"
    <3>1. rxLength[pClassData] <= PoolBufSize /\ pClassData # NULL
      BY <1>b, <1>g, <2>1, Constants
    <3>2. QED BY <1>6, <1>b, <2>1, <3>1, Constants DEF ll_input_undefined, At
  <2>2. CASE pcR = "copy"
    <3>1. rxLength[lh] <= PoolBufSize
      BY <1>a, <1>g, <2>2, Constants DEF SessionInv
    <3>2. lh \in Handles
      BY <1>c, <2>2 DEF LockInv
    <3>3. QED BY <1>6, <1>b, <2>2, <3>1, <3>2, Constants DEF ll_input_undefined, At
  <2>3. QED BY <1>6, <2>1, <2>2 DEF ll_input_undefined, At
<1>7. CASE ll_input_copy
  <2>1. /\ pcR = "copy" /\ pcR' = "input" /\ flags' = flags /\ UNCHANGED <<usb, core, tcpip>>
        /\ UNCHANGED <<hcdc, lh, fault>> /\ p' = FrameIn(buf, rxLength[lh])
    BY <1>7 DEF ll_input_copy, At, Goto
  <2>2. lh = pClassData
    BY <1>a, <2>1 DEF SessionInv
  <2>3. SessionInv'
    BY <1>a, <2>1 DEF SessionInv, Handing, Taken, Processing, usb
  <2>4. BufInv'
    BY <1>d, <2>1 DEF InBuffer, Taken, usb
  <2>5. p' = frame.id
    <3>1. \A i \in 0..(frame.len - 1) : buf[i] = Cell(frame.id, i, frame.len)
      BY <1>g, <2>1 DEF Stored
    <3>2. frame.len \in Nat /\ frame.len > 0 /\ frame.len <= RxBufSize
      BY <1>g, <2>1, Constants
    <3>3. QED BY <1>g, <2>1, <2>2, <3>1, <3>2, FrameInIs
  <2>6. OrderInv'
    BY <1>a, <2>1, <2>5 DEF OrderInv, Undelivered, Taken, usb, tcpip
  <2>7. MutexInv'
    BY <1>a, <2>1 DEF MutexInv, core, InSection
  <2>8. QED BY <2>3, <2>4, <2>6, <2>7 DEF FirstInv
<1>8. CASE netif_input
  <2>1. /\ pcR = "input" /\ pcR' = "unlock" /\ flags' = flags /\ UNCHANGED <<usb, core>>
        /\ UNCHANGED <<hcdc, lh, fault>>
        /\ mbox' = mbox \/ mbox' = Append(mbox, p)
    BY <1>8 DEF netif_input, At, Goto
  <2>2. SessionInv'
    BY <1>a, <2>1 DEF SessionInv, Handing, Taken, Processing, usb
  <2>3. BufInv'
    BY <1>d, <2>1 DEF InBuffer, Taken, usb
  <2>4. /\ Ordered(mbox) /\ Below(mbox, frame.id) /\ p = frame.id /\ frame.id > 0
        /\ mbox \in Seq(Nat) /\ frame.id \in Nat
    BY <1>a, <1>b, <2>1 DEF OrderInv, Undelivered, IInv, TypeOK, CoreTypeOK
  <2>5. Ordered(mbox') /\ Below(mbox', frame.id + 1)
    <3>1. CASE mbox' = mbox
      <4>1. \A i \in 1..Len(mbox) : mbox[i] \in Nat
        BY <2>4
      <4>2. QED BY <2>4, <3>1, <4>1 DEF Below
    <3>2. CASE mbox' = Append(mbox, p)
      <4>1. /\ Len(mbox') = Len(mbox) + 1 /\ Len(mbox) \in Nat
            /\ \A i \in 1..Len(mbox) : mbox'[i] = mbox[i] /\ mbox[i] \in Nat
            /\ mbox'[Len(mbox) + 1] = frame.id
        BY <2>4, <3>2
      <4>2. \A i \in 1..Len(mbox') : i \in 1..Len(mbox) \/ i = Len(mbox) + 1
        BY <4>1
      <4>3. Below(mbox', frame.id + 1)
        BY <2>4, <4>1, <4>2 DEF Below
      <4>4. Ordered(mbox')
        BY <2>4, <4>1, <4>2 DEF Below, Ordered
      <4>5. QED BY <4>3, <4>4
    <3>3. QED BY <2>1, <3>1, <3>2
  <2>6. OrderInv'
    <3>1. ~Undelivered'
      <4>1. NET_EVENT_NEW_PACKET \notin flags /\ out = NoRx
        BY <1>a, <2>1 DEF SessionInv, Handing, Processing
      <4>2. frame.state # "sending"
        BY <1>a, <4>1 DEF BufInv, NoRx
      <4>3. QED BY <2>1, <4>1, <4>2 DEF Undelivered, Taken, usb
    <3>2. QED BY <2>1, <2>5, <3>1 DEF OrderInv, usb
  <2>7. MutexInv'
    BY <1>a, <2>1 DEF MutexInv, core, InSection
  <2>8. QED BY <2>2, <2>3, <2>6, <2>7 DEF FirstInv
<1>9. CASE unlock_core
  <2>1. /\ pcR = "unlock" /\ pcR' = "length" /\ flags' = flags /\ UNCHANGED <<usb, tcpip>>
        /\ UNCHANGED <<hcdc, lh, p, fault>> /\ owner' = IF depth = 1 THEN NoOne ELSE owner
    BY <1>9 DEF unlock_core, At, Goto
  <2>2. SessionInv'
    BY <1>a, <2>1 DEF SessionInv, Handing, Taken, Processing, usb
  <2>3. BufInv'
    BY <1>d, <2>1 DEF InBuffer, Taken, usb
  <2>4. OrderInv'
    BY <1>e, <2>1 DEF Undelivered, Taken, usb, tcpip
  <2>5. MutexInv'
    BY <1>a, <2>1 DEF MutexInv, NoOne, RxThread
  <2>6. QED BY <2>2, <2>3, <2>4, <2>5 DEF FirstInv
\* The last steps: nothing waits in the buffer any more.
<1>h. ASSUME pcR \in {"length", "state", "rearm"}
      PROVE  /\ NET_EVENT_NEW_PACKET \notin flags /\ out = NoRx /\ frame.state # "sending"
             /\ hcdc = pClassData /\ pClassData \in Handles
  <2>1. NET_EVENT_NEW_PACKET \notin flags /\ out = NoRx
    BY <1>a, <1>h DEF SessionInv, Handing, Processing
  <2>2. pClassData # NULL
    BY <1>a, <1>h DEF SessionInv
  <2>3. hcdc = pClassData
    BY <1>a, <1>h, <2>2 DEF SessionInv
  <2>4. QED BY <1>a, <1>b, <2>1, <2>2, <2>3 DEF BufInv, NoRx
<1>10. CASE reset_length
  <2>1. /\ pcR = "length" /\ pcR' = "state" /\ flags' = flags /\ UNCHANGED <<core, tcpip>>
        /\ UNCHANGED <<hcdc, lh, p, ev, pClassData, rxState, out, buf, frame>>
    BY <1>10 DEF reset_length, At, Goto
  <2>2. fault' = fault /\ rxLength' = [rxLength EXCEPT ![pClassData] = 0]
    BY <1>10, <1>b, <1>h, <2>1 DEF reset_length
  <2>3. SessionInv'
    BY <1>a, <1>h, <2>1, <2>2 DEF SessionInv, Handing, Taken, Processing
  <2>4. BufInv'
    BY <1>b, <1>h, <2>1, <2>2 DEF BufInv, InBuffer, Taken, NoRx
  <2>5. OrderInv'
    BY <1>e, <1>h, <2>1 DEF Undelivered, Taken, tcpip
  <2>6. MutexInv'
    BY <1>f, <2>1 DEF InSection
  <2>7. QED BY <2>3, <2>4, <2>5, <2>6 DEF FirstInv
<1>11. CASE reset_state
  <2>1. /\ pcR = "state" /\ pcR' = "rearm" /\ flags' = flags /\ UNCHANGED <<core, tcpip>>
        /\ UNCHANGED <<hcdc, lh, p, ev, pClassData, rxLength, out, buf, frame, fault>>
    BY <1>11 DEF reset_state, At, Goto
  <2>2. SessionInv'
    BY <1>a, <1>h, <2>1 DEF SessionInv, Handing, Taken, Processing
  <2>3. BufInv'
    BY <1>a, <1>h, <2>1 DEF BufInv, InBuffer, Taken, NoRx
  <2>4. OrderInv'
    BY <1>e, <1>h, <2>1 DEF Undelivered, Taken, tcpip
  <2>5. MutexInv'
    BY <1>f, <2>1 DEF InSection
  <2>6. QED BY <2>2, <2>3, <2>4, <2>5 DEF FirstInv
<1>12. CASE prepare_receive
  <2>1. /\ pcR = "rearm" /\ pcR' = "wait" /\ flags' = flags /\ UNCHANGED <<core, tcpip>>
        /\ UNCHANGED <<hcdc, lh, p, ev, pClassData, rxLength, rxState, buf, frame, fault>>
    BY <1>12 DEF prepare_receive, At, Goto
  <2>2. out' = 0
    BY <1>12, <1>b, <1>h, <2>1 DEF prepare_receive
  <2>3. SessionInv'
    BY <1>a, <1>b, <1>h, <2>1, <2>2 DEF SessionInv, Handing, Taken, Processing, Wild
  <2>4. rxLength[pClassData] = 0
    BY <1>a, <2>1 DEF BufInv
  <2>5. BufInv'
    BY <1>h, <2>1, <2>2, <2>4 DEF BufInv, Stored, InBuffer, Taken
  <2>6. OrderInv'
    BY <1>e, <1>h, <2>1 DEF Undelivered, Taken, tcpip
  <2>7. MutexInv'
    BY <1>f, <2>1 DEF InSection
  <2>8. QED BY <2>3, <2>5, <2>6, <2>7 DEF FirstInv
<1>13. QED
  BY <1>1, <1>2, <1>3, <1>4, <1>5, <1>6, <1>7, <1>8, <1>9, <1>10, <1>11, <1>12 DEF net_event_loop

\* And every step of the tcpip_thread.
LEMMA TcpipFirst ==
  ASSUME IInv, FirstInv, tcpip_thread
  PROVE  FirstInv'
<1>a. SessionInv /\ BufInv /\ OrderInv /\ MutexInv
  BY DEF FirstInv
<1>b. UNCHANGED <<usb, flags, rx, fault>>
  BY DEF tcpip_thread, mbox_fetch, tcpip_lock, handle_msg
<1>1. SessionInv'
  BY <1>a, <1>b DEF SessionInv, Handing, Taken, Processing, usb, rx
<1>2. BufInv'
  BY <1>a, <1>b DEF BufInv, Stored, InBuffer, Taken, usb, rx
<1>3. OrderInv'
  <2>1. CASE mbox' = mbox
    BY <1>a, <1>b, <2>1 DEF OrderInv, Undelivered, Taken, usb, rx
  <2>2. CASE mbox # <<>> /\ mbox' = Tail(mbox)
    <3>1. mbox \in Seq(Nat)
      BY DEF IInv, TypeOK, CoreTypeOK
    <3>2. /\ Len(mbox) \in Nat /\ Len(mbox') = Len(mbox) - 1
          /\ \A i \in 1..Len(mbox') : mbox'[i] = mbox[i + 1] /\ i + 1 \in 1..Len(mbox)
      BY <2>2, <3>1
    <3>3. Ordered(mbox')
      <4> SUFFICES ASSUME NEW i \in 1..Len(mbox'), NEW j \in 1..Len(mbox'), i < j
                   PROVE  mbox'[i] < mbox'[j]
        BY DEF Ordered
      <4>1. i + 1 < j + 1
        BY <3>2
      <4>2. QED BY <1>a, <3>2, <4>1 DEF OrderInv, Ordered
    <3>4. ASSUME NEW n, Below(mbox, n) PROVE Below(mbox', n)
      BY <3>2, <3>4 DEF Below
    <3>5. QED BY <1>a, <1>b, <3>3, <3>4 DEF OrderInv, Undelivered, Taken, usb, rx
  <2>3. QED BY <2>1, <2>2 DEF tcpip_thread, mbox_fetch, tcpip_lock, handle_msg
<1>4. MutexInv'
  BY <1>a, <1>b DEF tcpip_thread, mbox_fetch, tcpip_lock, handle_msg, MutexInv, core, rx, NoOne,
     RxThread, TcpipThread
<1>5. QED BY <1>1, <1>2, <1>3, <1>4 DEF FirstInv

\* FirstInv holds until the first teardown.
LEMMA NextFirstInv ==
  ASSUME IInv, HostInv, teardowns = 0 => FirstInv, [Next]_vars
  PROVE  (teardowns = 0 => FirstInv)'
<1> SUFFICES ASSUME teardowns' = 0 PROVE FirstInv'
  OBVIOUS
<1>1. teardowns = 0
  <2>1. teardowns' = teardowns \/ teardowns' = teardowns + 1
    BY DEF Next, vars, usb, Isr, USBD_LL_Reset, USBD_CDC_ECM_DeInit, USBD_SetAddress, USBD_SetConfig,
       DataOutStage, WildStore, net_event_loop, notify_wait, handle_link_up, handle_link_down,
       lock_core, ll_input_alloc, ll_input_undefined, ll_input_copy, netif_input, unlock_core,
       reset_length, reset_state, prepare_receive, tcpip_thread, mbox_fetch, tcpip_lock, handle_msg
  <2>2. teardowns \in Nat
    BY DEF IInv, TypeOK, UsbTypeOK
  <2>3. QED BY <2>1, <2>2
<1>2. CASE Isr
  <2>1. UNCHANGED <<rx, core, tcpip, free, fault>>
    BY <1>2 DEF Isr
  <2>2. QED BY <1>1, <1>2, <2>1, QuietIsrFirst, DataOutFirst
<1>3. CASE WildStore
  BY <1>1, <1>3 DEF WildStore, FirstInv, SessionInv
<1>4. CASE UNCHANGED vars
  BY <1>1, <1>4
     DEF vars, usb, rx, core, tcpip, FirstInv, SessionInv, Handing, Taken, Processing, BufInv, Stored,
         InBuffer, OrderInv, Undelivered, MutexInv
<1>5. QED BY <1>1, <1>2, <1>3, <1>4, RxFirst, TcpipFirst DEF Next

\* The first session: the facts of FirstInv hold until the first teardown.
LEMMA FirstSession == Spec => [](teardowns = 0 => FirstInv)
<1>1. Init => (teardowns = 0 => FirstInv)
  BY InitFirstInv
<1>2. QED BY <1>1, Inductive, NextFirstInv, PTL DEF Spec

\* Until the first teardown the endpoint answers NAK from the last packet of a
\* frame until net_event_loop is done with the buffer (usbd_cdc_ecm.c:768).
THEOREM NackedAtFirst == Spec => []NackedInFirstSession
<1>1. (teardowns = 0 => FirstInv) => NackedInFirstSession
  BY DEF FirstInv, SessionInv, Handing, Taken, NackedInFirstSession, NackedTillDone
<1>2. QED BY <1>1, FirstSession, PTL

\* Until the first teardown lwIP gets the host's frames whole, in order, and none
\* twice, for any lengths of packets and frames (net.c:22-37).
THEOREM FramesStayIntact == Spec => []FramesIntact
<1>1. CoreTypeOK /\ (teardowns = 0 => FirstInv) => FramesIntact
  BY DEF FirstInv, OrderInv, Ordered, Below, Undelivered, FramesIntact, Garbled
<1>2. IInv => CoreTypeOK
  BY DEF IInv, TypeOK
<1>3. QED BY <1>1, <1>2, FirstSession, Inductive, PTL

\* Until the first teardown nothing is read or stored through NULL.
THEOREM NoFaultAtFirst == Spec => []NoFaultInFirstSession
<1>1. (teardowns = 0 => FirstInv) => NoFaultInFirstSession
  BY DEF FirstInv, SessionInv, NoFaultInFirstSession
<1>2. QED BY <1>1, FirstSession, PTL

\* Until the first teardown, a pool of more than the mailbox, one packet in each
\* thread's hands and what the core retains keeps the mutex from being leaked
\* (net.c:154-156).
THEOREM MutexIsReleased == Spec => []MutexReleasedWhileWaiting
<1>1. (teardowns = 0 => FirstInv) => MutexReleasedWhileWaiting
  BY DEF FirstInv, MutexInv, InSection, MutexReleasedWhileWaiting
<1>2. QED BY <1>1, FirstSession, PTL
=============================================================================
