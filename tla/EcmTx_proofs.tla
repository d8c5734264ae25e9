---------------------------- MODULE EcmTx_proofs ----------------------------
(***************************************************************************)
(* The transmitter never hangs: proof for any number of senders, any       *)
(* number of sessions, and class handles reused in any order.  And with    *)
(* one sender and a host that stays, the transmit path is a pipe for one   *)
(* frame, for every length of packets, frames and buffer.                  *)
(***************************************************************************)
EXTENDS EcmTx, TLAPS, SequenceTheorems

\* The part of the state the argument is about, and where a sender's handle is
\* known to be one.
CtlInv ==
  /\ pClassData \in Pointers
  /\ txState \in [Handles -> {0, 1}]
  /\ pc \in [Senders -> Labels]
  /\ hcdc \in [Senders -> Pointers]
  /\ in.state \in {"idle", "armed", "complete"}
  /\ \A s \in Senders : pc[s] \in {"copy", "check", "set", "arm"} => hcdc[s] \in Handles

IInv == CtlInv /\ NeverStuck

LEMMA Null == NULL \notin Handles
BY EcmTxAssumption

LEMMA InitIInv == Init => IInv
BY Null DEF Init, IInv, CtlInv, NeverStuck, Pointers, Labels, Idle

\* The interrupt: it marks the transmitter of a new session free, and frees it
\* only when it puts no further transfer on the endpoint.
LEMMA IsrIInv ==
  ASSUME IInv, Isr
  PROVE  IInv'
<1>1. ASSUME NEW h \in Handles, USBD_CDC_ECM_Init(h)
      PROVE  IInv'
  <2>1. UNCHANGED <<pc, hcdc>> /\ pClassData' = h /\ txState' = [txState EXCEPT ![h] = 0]
    BY <1>1 DEF USBD_CDC_ECM_Init, snd
  <2>2. in'.state \in {"idle", "armed", "complete"}
    BY <1>1 DEF USBD_CDC_ECM_Init, IInv, CtlInv, Idle
  <2>3. txState' \in [Handles -> {0, 1}] /\ txState'[h] = 0
    BY <2>1 DEF IInv, CtlInv
  <2>4. CtlInv'
    BY <2>1, <2>2, <2>3 DEF IInv, CtlInv, Pointers
  <2>5. NeverStuck'
    BY <2>1, <2>3 DEF NeverStuck
  <2>6. QED BY <2>4, <2>5 DEF IInv
<1>2. ASSUME USBD_CDC_ECM_DeInit
      PROVE  IInv'
  BY <1>2 DEF USBD_CDC_ECM_DeInit, IInv, CtlInv, NeverStuck, Pointers, Idle, snd
<1>3. ASSUME PCD_WriteEmptyTxFifo
      PROVE  IInv'
  <2>1. UNCHANGED <<pClassData, txState, pc, hcdc>>
    BY <1>3 DEF PCD_WriteEmptyTxFifo, dev, snd
  <2>2. in'.state \in {"armed", "complete"}
    BY <1>3 DEF PCD_WriteEmptyTxFifo
  <2>3. QED BY <2>1, <2>2 DEF IInv, CtlInv, NeverStuck
<1>4. ASSUME USBD_CDC_ECM_DataIn
      PROVE  IInv'
  <2>1. UNCHANGED <<pClassData, pc, hcdc>> /\ pClassData # NULL
    BY <1>4 DEF USBD_CDC_ECM_DataIn, snd
  <2>2. CASE in' = Transfer(0) /\ UNCHANGED txState
    BY <2>1, <2>2 DEF IInv, CtlInv, NeverStuck, Transfer
  <2>3. CASE in' = Idle /\ txState' = [txState EXCEPT ![pClassData] = 0]
    <3>1. pClassData \in Handles
      BY <2>1 DEF IInv, CtlInv, Pointers
    <3>2. txState' \in [Handles -> {0, 1}] /\ txState'[pClassData] = 0
      BY <2>3, <3>1 DEF IInv, CtlInv
    <3>3. CtlInv'
      BY <2>1, <2>3, <3>2 DEF IInv, CtlInv, Idle
    <3>4. NeverStuck'
      BY <2>1, <3>2 DEF NeverStuck
    <3>5. QED BY <3>3, <3>4 DEF IInv
  <2>4. QED BY <1>4, <2>2, <2>3 DEF USBD_CDC_ECM_DataIn
<1>5. QED BY <1>1, <1>2, <1>3, <1>4 DEF Isr, Hardware

\* A sender's step that neither touches TxState nor starts or ends a transfer,
\* and does not leave "arm".
LEMMA SenderFrame ==
  ASSUME IInv, NEW s \in Senders, NEW l \in Labels \ {"arm"},
         UNCHANGED <<pClassData, txState, in, hcdc>>,
         pc[s] # "arm", pc' = [pc EXCEPT ![s] = l],
         l \in {"copy", "check", "set"} => hcdc[s] \in Handles
  PROVE  IInv'
<1>1. pc' \in [Senders -> Labels]
  BY DEF IInv, CtlInv
<1>2. \A t \in Senders : pc[t] = "arm" => pc'[t] = "arm"
  BY DEF IInv, CtlInv
<1>3. \A t \in Senders : pc'[t] \in {"copy", "check", "set", "arm"} => hcdc'[t] \in Handles
  BY DEF IInv, CtlInv
<1>4. CtlInv'
  BY <1>1, <1>3 DEF IInv, CtlInv
<1>5. NeverStuck'
  BY <1>2 DEF IInv, NeverStuck
<1>6. QED BY <1>4, <1>5 DEF IInv

LEMMA SenderIInv ==
  ASSUME IInv, NEW s \in Senders, ll_output_cb(s)
  PROVE  IInv'
<1>0. pc \in [Senders -> Labels] /\ hcdc \in [Senders -> Pointers] /\ pc[s] \in Labels
  BY DEF IInv, CtlInv
<1>1. ASSUME no_handle(s)
      PROVE  IInv'
  <2>1. UNCHANGED <<pClassData, txState, in, hcdc>> /\ pc[s] # "arm"
    BY <1>1 DEF no_handle, At, dev
  <2>2. CASE UNCHANGED pc
    BY <2>1, <2>2 DEF IInv, CtlInv, NeverStuck
  <2>3. CASE Goto(s, "idle")
    BY <2>1, <2>3, SenderFrame DEF Goto, Labels
  <2>4. QED BY <1>1, <2>2, <2>3 DEF no_handle
<1>2. ASSUME spin(s)
      PROVE  IInv'
  BY <1>2 DEF spin, dev, IInv, CtlInv, NeverStuck
<1>3. ASSUME give_up(s)
      PROVE  IInv'
  BY <1>3, SenderFrame DEF give_up, At, Goto, dev, Labels
<1>4. ASSUME begin(s)
      PROVE  IInv'
  <2>1. hcdc[s] \in Handles
    BY <1>0, <1>4 DEF begin, Pointers
  <2>2. QED BY <1>4, <2>1, SenderFrame DEF begin, At, Goto, Labels
<1>5. ASSUME copy(s)
      PROVE  IInv'
  BY <1>5 DEF copy, IInv, CtlInv, NeverStuck
<1>6. ASSUME USBD_CDC_ECM_SetTxBuffer(s)
      PROVE  IInv'
  <2>1. hcdc[s] \in Handles
    BY <1>6 DEF USBD_CDC_ECM_SetTxBuffer, At, IInv, CtlInv
  <2>2. QED BY <1>6, <2>1, SenderFrame DEF USBD_CDC_ECM_SetTxBuffer, At, Goto, Labels
<1>7. ASSUME transmit_check(s)
      PROVE  IInv'
  <2>1. UNCHANGED <<pClassData, txState, in>> /\ pc[s] = "check"
    BY <1>7 DEF transmit_check, At, dev
  <2>2. CASE UNCHANGED hcdc /\ Goto(s, "idle")
    BY <2>1, <2>2, SenderFrame DEF Goto, Labels
  <2>3. CASE pClassData # NULL /\ hcdc' = [hcdc EXCEPT ![s] = pClassData] /\ Goto(s, "set")
    <3>1. pClassData \in Handles
      BY <2>3 DEF IInv, CtlInv, Pointers
    <3>2. pc' \in [Senders -> Labels] /\ hcdc' \in [Senders -> Pointers]
      BY <1>0, <2>3, <3>1 DEF Goto, Labels, Pointers
    <3>3. \A t \in Senders : pc[t] = "arm" => pc'[t] = "arm"
      BY <1>0, <2>1, <2>3 DEF Goto
    <3>4. \A t \in Senders : pc'[t] \in {"copy", "check", "set", "arm"} => hcdc'[t] \in Handles
      BY <1>0, <2>3, <3>1 DEF Goto, IInv, CtlInv
    <3>5. CtlInv'
      BY <2>1, <3>2, <3>4 DEF IInv, CtlInv
    <3>6. NeverStuck'
      BY <2>1, <3>3 DEF IInv, NeverStuck
    <3>7. QED BY <3>5, <3>6 DEF IInv
  <2>4. QED BY <1>7, <2>2, <2>3 DEF transmit_check
<1>8. ASSUME transmit_set(s)
      PROVE  IInv'
  <2>1. UNCHANGED <<pClassData, in, hcdc>> /\ pc[s] = "set"
        /\ pc' = [pc EXCEPT ![s] = "arm"] /\ txState' = [txState EXCEPT ![hcdc[s]] = 1]
    BY <1>8 DEF transmit_set, At, Goto
  <2>2. txState' \in [Handles -> {0, 1}]
    BY <2>1 DEF IInv, CtlInv
  <2>3. pc' \in [Senders -> Labels] /\ pc'[s] = "arm"
    BY <1>0, <2>1 DEF Labels
  <2>4. \A t \in Senders : pc'[t] \in {"copy", "check", "set", "arm"} => hcdc'[t] \in Handles
    BY <1>0, <2>1 DEF IInv, CtlInv
  <2>5. CtlInv'
    BY <2>1, <2>2, <2>3, <2>4 DEF IInv, CtlInv
  <2>6. NeverStuck'
    BY <2>3 DEF NeverStuck
  <2>7. QED BY <2>5, <2>6 DEF IInv
<1>9. ASSUME transmit_arm(s)
      PROVE  IInv'
  <2>1. UNCHANGED <<pClassData, txState, hcdc>> /\ in'.state = "armed"
        /\ pc' = [pc EXCEPT ![s] = "idle"]
    BY <1>9 DEF transmit_arm, Goto, Transfer
  <2>2. pc' \in [Senders -> Labels]
    BY <1>0, <2>1 DEF Labels
  <2>3. \A t \in Senders : pc'[t] \in {"copy", "check", "set", "arm"} => hcdc'[t] \in Handles
    BY <1>0, <2>1 DEF IInv, CtlInv
  <2>4. CtlInv'
    BY <2>1, <2>2, <2>3 DEF IInv, CtlInv
  <2>5. NeverStuck'
    BY <2>1 DEF NeverStuck
  <2>6. QED BY <2>4, <2>5 DEF IInv
<1>10. QED
  BY <1>1, <1>2, <1>3, <1>4, <1>5, <1>6, <1>7, <1>8, <1>9 DEF ll_output_cb

LEMMA NextIInv == IInv /\ [Next]_vars => IInv'
<1> SUFFICES ASSUME IInv, [Next]_vars
             PROVE  IInv'
  OBVIOUS
<1>1. ASSUME NEW s \in Senders, NEW n \in Lengths, call(s, n)
      PROVE  IInv'
  <2>1. UNCHANGED <<pClassData, txState, in>> /\ pc[s] = "idle"
        /\ pc' = [pc EXCEPT ![s] = "spin"] /\ hcdc' = [hcdc EXCEPT ![s] = pClassData]
    BY <1>1 DEF call, At, Goto, dev
  <2>2. pc' \in [Senders -> Labels] /\ hcdc' \in [Senders -> Pointers]
    BY <2>1 DEF IInv, CtlInv, Labels
  <2>3. \A t \in Senders : pc[t] = "arm" => pc'[t] = "arm"
    BY <2>1 DEF IInv, CtlInv
  <2>4. \A t \in Senders : pc'[t] \in {"copy", "check", "set", "arm"} => hcdc'[t] \in Handles
    BY <2>1 DEF IInv, CtlInv
  <2>5. CtlInv'
    BY <2>1, <2>2, <2>4 DEF IInv, CtlInv
  <2>6. NeverStuck'
    BY <2>1, <2>3 DEF IInv, NeverStuck
  <2>7. QED BY <2>5, <2>6 DEF IInv
<1>2. CASE UNCHANGED vars
  BY <1>2 DEF vars, dev, snd, IInv, CtlInv, NeverStuck
<1>3. QED
  BY <1>1, <1>2, IsrIInv, SenderIInv DEF Next

\* Whatever the senders interleave and the host tears down, TxState of the
\* current handle is set only while a transfer is under way or about to start.
THEOREM TransmitterNeverStuck == Spec => []NeverStuck
<1>1. IInv => NeverStuck
  BY DEF IInv
<1>2. QED BY <1>1, InitIInv, NextIInv, PTL DEF Spec

-----------------------------------------------------------------------------
(* Types. *)

\* TypeOK in two parts, and the position of the transfer.
DevType ==
  /\ pClassData \in Pointers /\ txState \in [Handles -> {0, 1}] /\ txLength \in [Handles -> Nat]
  /\ total \in Nat /\ in \in Xfer /\ in.count <= in.len
  /\ rcv \in Seq(Nat \X Nat \X Nat) /\ delivered \in Seq(Nat)
  /\ teardowns \in Nat

SndType ==
  /\ buf \in [0..(TxBufSize - 1) -> Nat \X Nat \X Nat]
  /\ pc \in [Senders -> Labels] /\ hcdc \in [Senders -> Pointers] /\ try \in [Senders -> 0..Tries]
  /\ frame \in [Senders -> Nat \X Nat] /\ copied \in [Senders -> Nat]
  /\ calls \in Nat /\ accepted \in Seq(Nat) /\ fault \in BOOLEAN

TypeInv == DevType /\ SndType

\* A packet is at most what is left, and at most the packet length.
LEMMA PacketBounds ==
  ASSUME TypeInv
  PROVE  /\ PacketLen \in Nat /\ PacketLen <= MaxPcktLen
         /\ in.count + PacketLen <= in.len
BY EcmTxAssumption DEF TypeInv, DevType, Xfer, PacketLen

\* What the host receives is a frame or garbled.
LEMMA FrameOfType ==
  ASSUME NEW b \in Seq(Nat \X Nat \X Nat)
  PROVE  FrameOf(b) \in Nat
<1>1. CASE Len(b) > 0
  <2>1. b[1] \in Nat \X Nat \X Nat
    BY <1>1
  <2>2. b[1][1] \in Nat
    BY <2>1
  <2>3. QED BY <2>2 DEF FrameOf, Garbled
<1>2. QED BY <1>1 DEF FrameOf, Garbled

\* The types hold when the system starts.
LEMMA InitType == Init => TypeInv
<1> SUFFICES ASSUME Init PROVE TypeInv
  OBVIOUS
<1>1. DevType
  <2>1. Idle \in Xfer /\ Idle.count <= Idle.len
    BY DEF Idle, Xfer
  <2>2. <<>> \in Seq(Nat \X Nat \X Nat) /\ <<>> \in Seq(Nat)
    OBVIOUS
  <2>3. in \in Xfer /\ in.count <= in.len
    BY <2>1 DEF Init
  <2>4. rcv \in Seq(Nat \X Nat \X Nat) /\ delivered \in Seq(Nat)
    BY <2>2 DEF Init
  <2>5. /\ pClassData \in Pointers /\ txState \in [Handles -> {0, 1}]
        /\ txLength \in [Handles -> Nat] /\ total \in Nat /\ teardowns \in Nat
    BY DEF Init, Pointers
  <2>6. QED BY <2>3, <2>4, <2>5 DEF DevType
<1>2. Blank \in Nat \X Nat \X Nat /\ 0 \in 0..Tries
  BY EcmTxAssumption DEF Blank
<1>3. SndType
  <2>1. buf \in [0..(TxBufSize - 1) -> Nat \X Nat \X Nat]
    BY <1>2 DEF Init
  <2>2. pc \in [Senders -> Labels] /\ hcdc \in [Senders -> Pointers] /\ try \in [Senders -> 0..Tries]
    BY <1>2 DEF Init, Pointers, Labels
  <2>3. frame \in [Senders -> Nat \X Nat] /\ copied \in [Senders -> Nat]
    BY DEF Init
  <2>4. calls \in Nat /\ accepted \in Seq(Nat) /\ fault \in BOOLEAN
    <3>1. <<>> \in Seq(Nat)
      OBVIOUS
    <3>2. calls = 0 /\ accepted = <<>> /\ fault = FALSE
      BY DEF Init
    <3>3. QED BY <3>1, <3>2
  <2>5. QED BY <2>1, <2>2, <2>3, <2>4 DEF SndType
<1>4. QED BY <1>1, <1>3 DEF TypeInv

\* Every interrupt keeps them.
LEMMA IsrType ==
  ASSUME TypeInv, Isr
  PROVE  TypeInv'
<1>1. ASSUME NEW h \in Handles, USBD_CDC_ECM_Init(h)
      PROVE  TypeInv'
  BY <1>1 DEF USBD_CDC_ECM_Init, TypeInv, DevType, SndType, Pointers, Xfer, Idle, host, snd
<1>2. ASSUME USBD_CDC_ECM_DeInit
      PROVE  TypeInv'
  BY <1>2 DEF USBD_CDC_ECM_DeInit, TypeInv, DevType, SndType, Pointers, Xfer, Idle, snd
<1>3. ASSUME PCD_WriteEmptyTxFifo
      PROVE  TypeInv'
  <2> DEFINE k == PacketLen
             data == rcv \o [i \in 1..k |-> Byte(in.count + i - 1)]
  <2>1. k \in Nat /\ in.count + k <= in.len /\ in.count \in Nat /\ in.len \in Nat
    BY PacketBounds DEF TypeInv, DevType, SndType, Xfer
  <2>2. \A i \in 1..k : Byte(in.count + i - 1) \in Nat \X Nat \X Nat
    <3> SUFFICES ASSUME NEW i \in 1..k PROVE Byte(in.count + i - 1) \in Nat \X Nat \X Nat
      OBVIOUS
    <3> HIDE DEF k
    <3>1. in.count + i - 1 \in Nat
      BY <2>1
    <3>2. QED BY <3>1, EcmTxAssumption DEF Byte, Blank, TypeInv, DevType, SndType
  <2>3. [i \in 1..k |-> Byte(in.count + i - 1)] \in Seq(Nat \X Nat \X Nat)
    <3> HIDE DEF k
    <3>1. QED BY <2>1, <2>2
  <2>4. data \in Seq(Nat \X Nat \X Nat)
    <3> DEFINE t == [i \in 1..k |-> Byte(in.count + i - 1)]
    <3>1. t \in Seq(Nat \X Nat \X Nat) /\ rcv \in Seq(Nat \X Nat \X Nat)
      BY <2>3 DEF TypeInv, DevType, SndType
    <3> HIDE DEF t
    <3>2. rcv \o t \in Seq(Nat \X Nat \X Nat)
      BY <3>1
    <3>3. QED BY <3>2 DEF t
  <2>5. /\ in' = [state |-> IF in.count + k = in.len THEN "complete" ELSE "armed",
                  len |-> in.len, count |-> in.count + k]
        /\ rcv' \in {<<>>, data} /\ delivered' \in {delivered, Append(delivered, FrameOf(data))}
        /\ UNCHANGED <<dev, buf, teardowns, snd, fault>>
    BY <1>3 DEF PCD_WriteEmptyTxFifo
  <2>6. FrameOf(data) \in Nat
    BY <2>4, FrameOfType
  <2> HIDE DEF data, k
  <2>7. delivered' \in Seq(Nat) /\ rcv' \in Seq(Nat \X Nat \X Nat)
    <3>1. delivered \in Seq(Nat)
      BY DEF TypeInv, DevType
    <3>2. Append(delivered, FrameOf(data)) \in Seq(Nat)
      BY <2>6, <3>1
    <3>3. <<>> \in Seq(Nat \X Nat \X Nat)
      OBVIOUS
    <3>4. QED BY <2>4, <2>5, <3>1, <3>2, <3>3
  <2>8. in' \in Xfer /\ in'.count <= in'.len
    BY <2>1, <2>5 DEF Xfer
  <2>9. DevType'
    BY <2>5, <2>7, <2>8 DEF TypeInv, DevType, dev
  <2>10. SndType'
    BY <2>5 DEF TypeInv, SndType, snd
  <2>11. QED BY <2>9, <2>10 DEF TypeInv
<1>4. ASSUME USBD_CDC_ECM_DataIn
      PROVE  TypeInv'
  <2>1. total' \in Nat /\ txState' \in [Handles -> {0, 1}] /\ in' \in {Transfer(0), Idle}
    <3>1. total \in Nat /\ txState \in [Handles -> {0, 1}]
      BY DEF TypeInv, DevType
    <3>2. QED BY <1>4, <3>1 DEF USBD_CDC_ECM_DataIn
  <2>2. in' \in Xfer /\ in'.count <= in'.len
    BY <2>1 DEF Xfer, Transfer, Idle
  <2>3. DevType'
    BY <1>4, <2>1, <2>2 DEF USBD_CDC_ECM_DataIn, TypeInv, DevType, host
  <2>4. SndType'
    BY <1>4 DEF USBD_CDC_ECM_DataIn, TypeInv, SndType, snd
  <2>5. QED BY <2>3, <2>4 DEF TypeInv
<1>5. QED BY <1>1, <1>2, <1>3, <1>4 DEF Isr, Hardware

\* Every step of a sender keeps them.
LEMMA SenderType ==
  ASSUME TypeInv, NEW s \in Senders, ll_output_cb(s),
         \A t \in Senders : pc[t] \in {"copy", "check", "set", "arm"} => hcdc[t] \in Handles
  PROVE  TypeInv'
<1> USE DEF At, Goto, Labels
<1>1. ASSUME no_handle(s) \/ spin(s) \/ give_up(s)
      PROVE  TypeInv'
  <2>1. try' \in [Senders -> 0..Tries] /\ fault' \in BOOLEAN /\ pc' \in [Senders -> Labels]
    <3>1. CASE spin(s)
      <4>1. try[s] \in 0..Tries /\ try[s] > 0 /\ Tries \in Nat
        BY <3>1, EcmTxAssumption DEF spin, TypeInv, SndType
      <4>2. try[s] - 1 \in 0..Tries
        BY <4>1
      <4>3. QED BY <3>1, <4>2 DEF spin, TypeInv, SndType
    <3>2. CASE no_handle(s) \/ give_up(s)
      BY <3>2 DEF no_handle, give_up, TypeInv, SndType
    <3>3. QED BY <1>1, <3>1, <3>2
  <2>2. QED BY <1>1, <2>1 DEF no_handle, spin, give_up, TypeInv, DevType, SndType, dev, host
<1>2. ASSUME begin(s)
      PROVE  TypeInv'
  BY <1>2 DEF begin, TypeInv, DevType, SndType, host
<1>3. ASSUME copy(s)
      PROVE  TypeInv'
  <2>1. PICK k \in 1..(frame[s][2] - copied[s]) :
          /\ buf' = [i \in DOMAIN buf |->
                       IF copied[s] <= i /\ i < copied[s] + k
                       THEN Cell(frame[s][1], i, frame[s][2])
                       ELSE buf[i]]
          /\ copied' = [copied EXCEPT ![s] = @ + k]
          /\ txLength' = [txLength EXCEPT ![hcdc[s]] = @ + k]
    BY <1>3 DEF copy
  <2>2. k \in Nat /\ copied[s] \in Nat /\ frame[s][1] \in Nat /\ frame[s][2] \in Nat
        /\ copied[s] + k <= frame[s][2]
    BY DEF TypeInv, DevType, SndType
  <2>3. buf' \in [0..(TxBufSize - 1) -> Nat \X Nat \X Nat]
    <3>1. \A i \in 0..(TxBufSize - 1) : Cell(frame[s][1], i, frame[s][2]) \in Nat \X Nat \X Nat
      BY <2>2, EcmTxAssumption DEF Cell
    <3>2. QED BY <2>1, <3>1 DEF TypeInv, SndType
  <2>4. copied' \in [Senders -> Nat] 
    BY <2>1, <2>2 DEF TypeInv, DevType, SndType
  <2>5. txLength' \in [Handles -> Nat]
    <3>1. hcdc[s] \in Handles => txLength[hcdc[s]] + k \in Nat
      BY <2>2 DEF TypeInv, DevType
    <3>2. QED BY <2>1, <3>1 DEF TypeInv, DevType
  <2>6. QED BY <1>3, <2>3, <2>4, <2>5 DEF copy, TypeInv, DevType, SndType, host
<1>4. ASSUME USBD_CDC_ECM_SetTxBuffer(s)
      PROVE  TypeInv'
  <2>1. hcdc[s] \in Handles
    BY <1>4 DEF USBD_CDC_ECM_SetTxBuffer
  <2>2. QED BY <1>4, <2>1 DEF USBD_CDC_ECM_SetTxBuffer, TypeInv, DevType, SndType, host
<1>5. ASSUME transmit_check(s)
      PROVE  TypeInv'
  BY <1>5 DEF transmit_check, TypeInv, DevType, SndType, dev, host
<1>6. ASSUME transmit_set(s)
      PROVE  TypeInv'
  BY <1>6 DEF transmit_set, TypeInv, DevType, SndType, host
<1>7. ASSUME transmit_arm(s)
      PROVE  TypeInv'
  <2>1. hcdc[s] \in Handles
    BY <1>7 DEF transmit_arm
  <2>2. txLength[hcdc[s]] \in Nat /\ frame[s][1] \in Nat
    BY <2>1 DEF TypeInv, DevType, SndType
  <2>3. accepted' \in Seq(Nat) /\ total' \in Nat /\ in' \in Xfer /\ in'.count <= in'.len
    BY <1>7, <2>2 DEF transmit_arm, TypeInv, DevType, SndType, Transfer, Xfer
  <2>4. QED BY <1>7, <2>3 DEF transmit_arm, TypeInv, DevType, SndType, host
<1>8. QED BY <1>1, <1>2, <1>3, <1>4, <1>5, <1>6, <1>7 DEF ll_output_cb

\* And every step.
LEMMA NextType ==
  ASSUME IInv, TypeInv, [Next]_vars
  PROVE  TypeInv'
<1>1. ASSUME NEW s \in Senders, NEW n \in Lengths, call(s, n)
      PROVE  TypeInv'
  <2>1. n \in Nat /\ Tries \in 0..Tries
    BY EcmTxAssumption
  <2>2. calls + 1 \in Nat /\ frame \in [Senders -> Nat \X Nat]
    BY DEF TypeInv, SndType
  <2>3. <<calls + 1, n>> \in Nat \X Nat
    BY <2>1, <2>2
  <2>4. frame' = [frame EXCEPT ![s] = <<calls + 1, n>>] /\ calls' = calls + 1
    BY <1>1 DEF call
  <2>5. frame' \in [Senders -> Nat \X Nat]
    BY <2>2, <2>3, <2>4
  <2>6. DevType'
    BY <1>1 DEF call, TypeInv, DevType, dev, host
  <2>7. SndType'
    <3>1. /\ pc' = [pc EXCEPT ![s] = "spin"] /\ hcdc' = [hcdc EXCEPT ![s] = pClassData]
          /\ try' = [try EXCEPT ![s] = Tries] /\ copied' = [copied EXCEPT ![s] = 0]
          /\ UNCHANGED <<buf, accepted, fault>>
      BY <1>1 DEF call, Goto
    <3>2. pc' \in [Senders -> Labels] /\ hcdc' \in [Senders -> Pointers]
      BY <3>1 DEF TypeInv, SndType, DevType, Labels
    <3>3. try' \in [Senders -> 0..Tries] /\ copied' \in [Senders -> Nat]
      BY <2>1, <3>1 DEF TypeInv, SndType
    <3>4. QED BY <2>2, <2>4, <2>5, <3>1, <3>2, <3>3 DEF TypeInv, SndType
  <2>8. QED BY <2>6, <2>7 DEF TypeInv
<1>2. ASSUME UNCHANGED vars
      PROVE  TypeInv'
  <2>1. UNCHANGED <<dev, host, snd>> /\ UNCHANGED <<in, buf, teardowns, fault>>
    BY <1>2 DEF vars
  <2>2. DevType'
    BY <2>1 DEF dev, host, TypeInv, DevType
  <2>3. SndType'
    BY <2>1 DEF snd, TypeInv, SndType
  <2>4. QED BY <2>2, <2>3 DEF TypeInv
<1>3. QED BY <1>1, <1>2, IsrType, SenderType DEF Next, IInv, CtlInv

\* Every variable keeps its type, for any number of senders and sessions; no
\* transfer sends more than it was given.
THEOREM TypeCorrect == Spec => []TypeOK
<1>1. TypeInv => TypeOK
  BY DEF TypeInv, DevType, SndType, TypeOK
<1>2. QED BY <1>1, InitIInv, NextIInv, InitType, NextType, PTL DEF Spec

-----------------------------------------------------------------------------
(* The one-frame pipe: one sender, and the host never tears down. *)

\* A number of full packets.
Whole(n) == \E m \in Nat : n = m * MaxPcktLen

\* The first m bytes of the frame f of n bytes.
Cells(f, n, m) == [i \in 1..m |-> Cell(f, i - 1, n)]

\* And the k bytes that follow.
Packet(f, n, m, k) == [i \in 1..k |-> Cell(f, m + i - 1, n)]

\* Where the sender is in its call, what it has copied so far, and that it holds
\* the transmitter from begin to arm.
CallInv(s) ==
  /\ teardowns = 0
  /\ hcdc[s] # NULL => hcdc[s] = pClassData
  /\ pc[s] # "idle" => frame[s] \in (1..MaxFrames) \X Lengths
  /\ pc[s] = "spin" => copied[s] = 0
  /\ pc[s] \in {"copy", "check", "set", "arm"} =>
       /\ txLength[hcdc[s]] = copied[s]
       /\ \A i \in 0..(copied[s] - 1) : buf[i] = Cell(frame[s][1], i, frame[s][2])
       /\ pc[s] # "copy" => copied[s] = frame[s][2]
       /\ pc[s] # "arm" => txState[hcdc[s]] = 0
  /\ pc[s] = "arm" => in.state = "idle" /\ txState[hcdc[s]] = 1
  /\ pClassData = NULL => in.state = "idle"
  /\ pClassData # NULL /\ txState[pClassData] = 0 => in.state = "idle"

\* Packets of the frame f of n bytes are on their way.
Sending(f, n) ==
  /\ in.state = "armed" /\ in.len = n /\ total = n /\ in.count < n /\ Whole(in.count)
  /\ \A i \in 0..(n - 1) : buf[i] = Cell(f, i, n)
  /\ rcv = Cells(f, n, in.count)

\* All of its bytes were sent, in full packets: the host waits for the empty one.
Unended(f, n) ==
  /\ rcv = Cells(f, n, n)
  /\ \/ in.state = "complete" /\ total = n /\ n % MaxPcktLen = 0
     \/ in.state = "armed" /\ total = 0 /\ in.len = 0 /\ in.count = 0

\* The host has the frame, or there is none.
Ended ==
  /\ rcv = <<>>
  /\ \/ in.state = "idle"
     \/ in.state = "complete" /\ ~(total > 0 /\ total % MaxPcktLen = 0)

\* What was accepted is what was delivered and at most one frame more.
PipeInv ==
  \/ accepted = delivered /\ Ended
  \/ \E f \in 1..MaxFrames, n \in Lengths :
       accepted = Append(delivered, f) /\ (Sending(f, n) \/ Unended(f, n))

SessionInv(s) == CallInv(s) /\ PipeInv

\* What a step does to the frames: nothing, one more is accepted, or the one that
\* was accepted is delivered.
Moves ==
  \/ UNCHANGED <<accepted, delivered>>
  \/ /\ accepted = delivered /\ delivered' = delivered
     /\ \E f \in 1..MaxFrames : accepted' = Append(accepted, f)
  \/ /\ delivered' = accepted /\ accepted' = accepted
     /\ \E f \in 1..MaxFrames : accepted = Append(delivered, f)

\* A packet that is not full ends where the packet length does not divide.
LEMMA WholeRest ==
  ASSUME NEW n \in Nat, Whole(n), NEW k \in 1..(MaxPcktLen - 1)
  PROVE  (n + k) % MaxPcktLen # 0
<1>1. PICK m \in Nat : n = m * MaxPcktLen
  BY DEF Whole
<1>2. \A x \in Nat, b \in Nat \ {0} : (x * b) % b = 0
  BY SMTT(30)
<1>3. \A x \in Nat, b \in Nat \ {0}, r \in Nat : r < b => (x * b + r) % b = r
  BY SMTT(30)
<1>4. QED BY <1>1, <1>2, <1>3, EcmTxAssumption

\* Full packets end where the packet length divides.
LEMMA WholeFull ==
  ASSUME NEW n \in Nat, Whole(n)
  PROVE  n % MaxPcktLen = 0
<1>1. PICK m \in Nat : n = m * MaxPcktLen
  BY DEF Whole
<1>2. \A x \in Nat, b \in Nat \ {0} : (x * b) % b = 0
  BY SMTT(30)
<1>3. QED BY <1>1, <1>2, EcmTxAssumption

\* One more full packet.
LEMMA WholeNext ==
  ASSUME NEW n \in Nat, Whole(n)
  PROVE  Whole(n + MaxPcktLen)
<1>1. PICK m \in Nat : n = m * MaxPcktLen
  BY DEF Whole
<1>2. n + MaxPcktLen = (m + 1) * MaxPcktLen
  BY <1>1, EcmTxAssumption
<1>3. QED BY <1>2 DEF Whole

\* The next packet of a frame extends what the host has of it.
LEMMA CellsExtend ==
  ASSUME NEW f \in Nat, NEW n \in Nat, NEW m \in Nat, NEW k \in Nat
  PROVE  Cells(f, n, m) \o Packet(f, n, m, k) = Cells(f, n, m + k)
<1> DEFINE S == {Cell(f, i, n) : i \in Int}
           c == Cells(f, n, m)
           d == Cells(f, n, m + k)
           t == Packet(f, n, m, k)
<1>1. c \in Seq(S) /\ Len(c) = m /\ \A i \in 1..m : c[i] = Cell(f, i - 1, n)
  BY DEF Cells
<1>2. t \in Seq(S) /\ Len(t) = k /\ \A i \in 1..k : t[i] = Cell(f, m + i - 1, n)
  BY DEF Packet
<1>3. d \in Seq(S) /\ Len(d) = m + k /\ \A i \in 1..(m + k) : d[i] = Cell(f, i - 1, n)
  BY DEF Cells
<1> HIDE DEF c, d, t, S
<1> DEFINE e == c \o t
<1>4. /\ e \in Seq(S) /\ Len(e) = m + k
      /\ \A i \in 1..(m + k) : e[i] = IF i <= m THEN c[i] ELSE t[i - m]
  <2>1. c \in Seq(S) /\ t \in Seq(S)
    BY <1>1, <1>2
  <2>2. /\ c \o t \in Seq(S) /\ Len(c \o t) = Len(c) + Len(t)
        /\ \A i \in 1..(Len(c) + Len(t)) :
             (c \o t)[i] = IF i <= Len(c) THEN c[i] ELSE t[i - Len(c)]
    BY <2>1, ConcatProperties, Zenon
  <2>3. QED BY <1>1, <1>2, <2>2 DEF e
<1> HIDE DEF e
<1>5. ASSUME NEW i \in 1..(m + k)
      PROVE  e[i] = d[i]
  <2>1. CASE i <= m
    BY <1>1, <1>3, <1>4, <2>1
  <2>2. CASE m < i
    <3>1. i - m \in 1..k /\ m + (i - m) - 1 = i - 1
      BY <2>2
    <3>2. e[i] = t[i - m]
      BY <1>4, <2>2
    <3>3. QED BY <1>2, <1>3, <3>1, <3>2
  <2>3. QED BY <2>1, <2>2
<1>6. e = d
  BY <1>3, <1>4, <1>5, SeqEqual
<1>7. QED BY <1>6 DEF c, d, e, t

\* The host takes all bytes of a frame for that frame.
LEMMA CellsAreFrame ==
  ASSUME NEW f \in Nat, NEW n \in Nat \ {0}
  PROVE  FrameOf(Cells(f, n, n)) = f
<1> DEFINE b == Cells(f, n, n)
<1>1. Len(b) = n /\ \A i \in 1..n : b[i] = Cell(f, i - 1, n)
  BY DEF Cells
<1> HIDE DEF b
<1>2. b[1][1] = f
  <2>1. b[1] = Cell(f, 0, n)
    BY <1>1
  <2>2. QED BY <2>1 DEF Cell
<1>3. FrameOf(b) = f
  BY <1>1, <1>2 DEF FrameOf
<1>4. QED BY <1>3 DEF b

\* The host has nothing yet.
LEMMA NoCells == ASSUME NEW f \in Nat, NEW n \in Nat PROVE Cells(f, n, 0) = <<>>
<1> DEFINE c == Cells(f, n, 0)
           S == {Cell(f, i, n) : i \in Int}
<1>1. c \in Seq(S) /\ Len(c) = 0 /\ <<>> \in Seq(S) /\ Len(<<>>) = 0
  BY DEF Cells
<1> HIDE DEF c
<1>2. c = <<>>
  BY <1>1
<1>3. QED BY <1>2 DEF c

\* With the endpoint idle everything that was accepted is delivered.
LEMMA IdlePipe ==
  (in.state = "idle" => (PipeInv <=> accepted = delivered /\ rcv = <<>>))
BY DEF PipeInv, Ended, Sending, Unended

\* The transmitter is the sender's from begin to arm.
LEMMA InCall ==
  ASSUME NEW s \in Senders, CtlInv, CallInv(s), pc[s] \in {"copy", "check", "set", "arm"}
  PROVE  hcdc[s] = pClassData /\ pClassData \in Handles /\ pClassData # NULL /\ in.state = "idle"
BY Null DEF CtlInv, CallInv

\* What the proof of the pipe needs holds when the system starts.
LEMMA InitSession == ASSUME NEW s \in Senders, Init PROVE CallInv(s) /\ PipeInv
BY DEF Init, CallInv, PipeInv, Ended, Idle

\* A packet of a transfer.
LEMMA PacketPipe ==
  ASSUME TypeInv, PipeInv, PCD_WriteEmptyTxFifo
  PROVE  PipeInv' /\ Moves
<1> DEFINE k == PacketLen
           t == [i \in 1..k |-> Byte(in.count + i - 1)]
           data == rcv \o t
<1>a. k \in Nat /\ k <= MaxPcktLen /\ in.count + k <= in.len /\ in.count \in Nat /\ in.len \in Nat
  BY PacketBounds DEF TypeInv, DevType, Xfer
<1>b. k = MaxPcktLen \/ k = in.len - in.count
  BY DEF PacketLen
<1>c. /\ in' = [state |-> IF in.count + k = in.len THEN "complete" ELSE "armed",
                len |-> in.len, count |-> in.count + k]
      /\ IF k < MaxPcktLen
         THEN delivered' = Append(delivered, FrameOf(data)) /\ rcv' = <<>>
         ELSE rcv' = data /\ delivered' = delivered
      /\ UNCHANGED <<total, buf, accepted>> /\ in.state = "armed"
  BY DEF PCD_WriteEmptyTxFifo, dev, snd
<1>d. Lengths \subseteq 1..TxBufSize /\ TxBufSize \in Nat /\ MaxPcktLen \in Nat \ {0}
      /\ MaxFrames \in Nat
  BY EcmTxAssumption
<1>1. PICK f \in 1..MaxFrames, n \in Lengths :
        accepted = Append(delivered, f) /\ (Sending(f, n) \/ Unended(f, n))
  BY <1>c DEF PipeInv, Ended
<1>2. f \in Nat /\ n \in Nat \ {0} /\ n <= TxBufSize
  BY <1>d
<1>3. CASE Sending(f, n)
  <2>1. in.len = n /\ total = n /\ in.count < n /\ Whole(in.count) /\ rcv = Cells(f, n, in.count)
    BY <1>3 DEF Sending
  <2>2. t = Packet(f, n, in.count, k)
    <3> SUFFICES ASSUME NEW i \in 1..k
                 PROVE  Byte(in.count + i - 1) = Cell(f, in.count + i - 1, n)
      BY DEF Packet
    <3> HIDE DEF k
    <3>1. in.count + i - 1 \in 0..(n - 1) /\ in.count + i - 1 < TxBufSize
      BY <1>2, <1>a, <1>d, <2>1
    <3>2. QED BY <1>3, <3>1 DEF Byte, Sending
  <2> HIDE DEF t, k
  <2>3. data = Cells(f, n, in.count + k)
    <3>1. f \in Nat /\ n \in Nat /\ in.count \in Nat /\ k \in Nat
      BY <1>2, <1>a
    <3>2. Cells(f, n, in.count) \o Packet(f, n, in.count, k) = Cells(f, n, in.count + k)
      BY <3>1, CellsExtend
    <3>3. QED BY <2>1, <2>2, <3>2
  <2> HIDE DEF data
  <2>4. CASE k < MaxPcktLen
    <3>1. in.count + k = n /\ k \in 1..(MaxPcktLen - 1)
      BY <1>a, <1>b, <1>d, <2>1, <2>4
    <3>2. FrameOf(data) = f
      BY <1>2, <2>3, <3>1, CellsAreFrame
    <3>3. n % MaxPcktLen # 0
      BY <1>a, <2>1, <3>1, WholeRest
    <3>4. delivered' = accepted /\ rcv' = <<>> /\ in'.state = "complete" /\ total' = n
      BY <1>1, <1>c, <2>1, <2>4, <3>1, <3>2
    <3>5. Ended' /\ accepted' = delivered'
      BY <1>c, <3>3, <3>4 DEF Ended
    <3>6. QED BY <1>1, <1>c, <3>4, <3>5 DEF PipeInv, Moves
  <2>5. CASE k = MaxPcktLen
    <3>1. rcv' = Cells(f, n, in.count + k) /\ Whole(in.count + k) /\ delivered' = delivered
      <4>1. rcv' = data /\ delivered' = delivered
        BY <1>c, <1>d, <2>5
      <4>2. Whole(in.count + k)
        BY <1>a, <2>1, <2>5, WholeNext
      <4>3. QED BY <2>3, <4>1, <4>2
    <3>2. CASE in.count + k = n
      <4>1. n % MaxPcktLen = 0
        BY <1>2, <3>1, <3>2, WholeFull
      <4>2. Unended(f, n)'
        BY <1>c, <2>1, <3>1, <3>2, <4>1 DEF Unended
      <4>3. QED BY <1>1, <1>c, <3>1, <4>2 DEF PipeInv, Moves
    <3>3. CASE in.count + k # n
      <4>1. in'.state = "armed" /\ in'.len = n /\ in'.count = in.count + k /\ in'.count < n
        <5>1. in.count + k < n
          BY <1>2, <1>a, <2>1, <3>3
        <5>2. QED BY <1>c, <2>1, <3>3, <5>1
      <4>2. Sending(f, n)'
        BY <1>3, <1>c, <2>1, <3>1, <4>1 DEF Sending
      <4>3. QED BY <1>1, <1>c, <3>1, <4>2 DEF PipeInv, Moves
    <3>4. QED BY <3>2, <3>3
  <2>6. QED BY <1>a, <1>d, <2>4, <2>5
<1>4. CASE Unended(f, n)
  <2>1. rcv = Cells(f, n, n) /\ total = 0 /\ in.len = 0 /\ in.count = 0
    BY <1>4, <1>c DEF Unended
  <2>2. k = 0
    BY <1>a, <2>1
  <2>3. t = Packet(f, n, n, k)
    BY <2>2 DEF Packet
  <2> HIDE DEF t, k
  <2>4. data = Cells(f, n, n)
    <3>1. f \in Nat /\ n \in Nat /\ k \in Nat /\ n + k = n
      BY <1>2, <2>2
    <3>2. Cells(f, n, n) \o Packet(f, n, n, k) = Cells(f, n, n + k)
      BY <3>1, CellsExtend
    <3>3. QED BY <2>1, <2>3, <3>1, <3>2
  <2>5. FrameOf(data) = f
    BY <1>2, <2>4, CellsAreFrame
  <2> HIDE DEF data
  <2>6. delivered' = accepted /\ rcv' = <<>> /\ in'.state = "complete" /\ total' = 0
    BY <1>1, <1>c, <1>d, <2>1, <2>2, <2>5
  <2>7. Ended' /\ accepted' = delivered'
    BY <1>c, <2>6 DEF Ended
  <2>8. QED BY <1>1, <1>c, <2>6, <2>7 DEF PipeInv, Moves
<1>5. QED BY <1>1, <1>3, <1>4

\* A transfer is complete.
LEMMA DataInPipe ==
  ASSUME TypeInv, PipeInv, USBD_CDC_ECM_DataIn
  PROVE  PipeInv' /\ UNCHANGED <<accepted, delivered>>
<1>a. /\ in.state = "complete" /\ UNCHANGED <<rcv, accepted, delivered>>
      /\ IF total > 0 /\ total % MaxPcktLen = 0
         THEN total' = 0 /\ in' = Transfer(0)
         ELSE in' = Idle /\ total' = total
  BY DEF USBD_CDC_ECM_DataIn, host, snd
<1>1. CASE accepted = delivered /\ Ended
  BY <1>1, <1>a DEF Ended, PipeInv, Idle
<1>2. ASSUME NEW f \in 1..MaxFrames, NEW n \in Lengths,
             accepted = Append(delivered, f), Sending(f, n) \/ Unended(f, n)
      PROVE  PipeInv'
  <2>1. rcv = Cells(f, n, n) /\ total = n /\ n % MaxPcktLen = 0 /\ n > 0
    BY <1>2, <1>a, EcmTxAssumption DEF Sending, Unended
  <2>2. in' = Transfer(0) /\ total' = 0
    BY <1>a, <2>1
  <2>3. Unended(f, n)'
    BY <1>a, <2>1, <2>2 DEF Unended, Transfer
  <2>4. QED BY <1>2, <1>a, <2>3 DEF PipeInv
<1>3. QED BY <1>1, <1>2, <1>a DEF PipeInv

\* The interrupt.
LEMMA IsrPipe ==
  ASSUME NEW s \in Senders, MaxTeardowns = 0,
         CtlInv, TypeInv, CallInv(s), PipeInv, Isr
  PROVE  CallInv(s)' /\ PipeInv' /\ Moves
<1>a. in.state # "idle" => pc[s] \in {"idle", "spin"}
  BY InCall DEF CtlInv, Labels
<1>1. ASSUME NEW h \in Handles, USBD_CDC_ECM_Init(h)
      PROVE  CallInv(s)' /\ PipeInv' /\ Moves
  <2>1. /\ pClassData = NULL /\ in.state = "idle" /\ hcdc[s] = NULL
        /\ pc[s] \in {"idle", "spin"}
    BY <1>1, InCall DEF USBD_CDC_ECM_Init, CallInv, CtlInv, Labels
  <2>2. /\ in'.state = "idle"
        /\ UNCHANGED <<buf, rcv, delivered, teardowns, pc, hcdc, frame, copied, accepted>>
    BY <1>1, <2>1 DEF USBD_CDC_ECM_Init, Idle, host, snd
  <2>3. PipeInv'
    BY <2>1, <2>2, IdlePipe DEF PipeInv, Ended
  <2>4. CallInv(s)'
    BY <2>1, <2>2 DEF CallInv
  <2>5. QED BY <2>2, <2>3, <2>4 DEF Moves
<1>2. ASSUME USBD_CDC_ECM_DeInit
      PROVE  FALSE
  BY <1>2 DEF USBD_CDC_ECM_DeInit, CallInv
<1>3. ASSUME PCD_WriteEmptyTxFifo
      PROVE  CallInv(s)' /\ PipeInv' /\ Moves
  <2>1. in.state = "armed" /\ UNCHANGED <<dev, buf, teardowns, snd>>
    BY <1>3 DEF PCD_WriteEmptyTxFifo
  <2>2. CallInv(s)'
    BY <1>a, <2>1, <1>3 DEF CallInv, dev, snd, PCD_WriteEmptyTxFifo
  <2>3. QED BY <1>3, <2>2, PacketPipe
<1>4. ASSUME USBD_CDC_ECM_DataIn
      PROVE  CallInv(s)' /\ PipeInv' /\ Moves
  <2>1. /\ in.state = "complete" /\ pClassData \in Handles /\ pClassData # NULL
        /\ \/ txState' = [txState EXCEPT ![pClassData] = 0] /\ in'.state = "idle"
           \/ UNCHANGED txState
        /\ UNCHANGED <<pClassData, txLength, buf, teardowns, pc, hcdc, frame, copied, accepted>>
    BY <1>4 DEF USBD_CDC_ECM_DataIn, CtlInv, Pointers, Idle, host, snd
  <2>2. CallInv(s)'
    BY <1>a, <2>1 DEF CallInv, CtlInv
  <2>3. QED BY <1>4, <2>2, DataInPipe DEF Moves
<1>5. QED BY <1>1, <1>2, <1>3, <1>4 DEF Isr, Hardware

\* A sender's step but the last, which starts the transfer.
LEMMA QuietPipe ==
  ASSUME PipeInv, UNCHANGED <<total, in, rcv, delivered, accepted>>,
         UNCHANGED buf \/ in.state = "idle"
  PROVE  PipeInv' /\ Moves
<1>1. CASE UNCHANGED buf
  BY <1>1 DEF PipeInv, Ended, Sending, Unended, Moves
<1>2. CASE in.state = "idle"
  BY <1>2, IdlePipe DEF PipeInv, Ended, Moves
<1>3. QED BY <1>1, <1>2

\* Every step of the sender.
LEMMA SenderPipe ==
  ASSUME NEW s \in Senders, CtlInv, TypeInv, CallInv(s), PipeInv, ll_output_cb(s)
  PROVE  CallInv(s)' /\ PipeInv' /\ Moves
<1> USE DEF At, Goto
<1>a. /\ pc \in [Senders -> Labels] /\ hcdc \in [Senders -> Pointers]
      /\ copied \in [Senders -> Nat] /\ frame \in [Senders -> Nat \X Nat]
  BY DEF TypeInv, SndType
<1>1. ASSUME no_handle(s) \/ spin(s) \/ give_up(s)
      PROVE  CallInv(s)' /\ PipeInv' /\ Moves
  <2>1. /\ pc[s] = "spin" /\ pc'[s] \in {"idle", "spin"}
        /\ UNCHANGED <<pClassData, txState, txLength, total, in, buf, rcv, delivered>>
        /\ UNCHANGED <<teardowns, hcdc, frame, copied, accepted>>
    BY <1>1, <1>a DEF no_handle, spin, give_up, dev, host
  <2>2. CallInv(s)'
    BY <2>1 DEF CallInv
  <2>3. QED BY <2>1, <2>2, QuietPipe
<1>2. ASSUME begin(s)
      PROVE  CallInv(s)' /\ PipeInv' /\ Moves
  <2>1. /\ pc[s] = "spin" /\ pc'[s] = "copy" /\ hcdc[s] # NULL /\ txState[hcdc[s]] = 0
        /\ hcdc[s] \in Handles /\ copied[s] = 0
        /\ txLength' = [txLength EXCEPT ![hcdc[s]] = 0]
        /\ UNCHANGED <<pClassData, txState, total, in, buf, rcv, delivered>>
        /\ UNCHANGED <<teardowns, hcdc, frame, copied, accepted>>
    BY <1>2, <1>a DEF begin, host, Pointers, CallInv
  <2>2. txLength'[hcdc[s]] = 0
    BY <2>1 DEF TypeInv, DevType
  <2>3. CallInv(s)'
    BY <2>1, <2>2 DEF CallInv
  <2>4. QED BY <2>1, <2>3, QuietPipe
<1>3. ASSUME copy(s)
      PROVE  CallInv(s)' /\ PipeInv' /\ Moves
  <2>1. /\ pc[s] = "copy" /\ in.state = "idle" /\ hcdc[s] \in Handles
        /\ UNCHANGED <<pClassData, txState, total, in, rcv, delivered>>
        /\ UNCHANGED <<teardowns, pc, hcdc, frame, accepted>>
    BY <1>3, InCall DEF copy, host
  <2>2. PICK k \in 1..(frame[s][2] - copied[s]) :
          /\ buf' = [i \in DOMAIN buf |->
                       IF copied[s] <= i /\ i < copied[s] + k
                       THEN Cell(frame[s][1], i, frame[s][2])
                       ELSE buf[i]]
          /\ copied' = [copied EXCEPT ![s] = @ + k]
          /\ txLength' = [txLength EXCEPT ![hcdc[s]] = @ + k]
    BY <1>3 DEF copy
  <2>3. /\ copied'[s] = copied[s] + k /\ txLength'[hcdc[s]] = txLength[hcdc[s]] + k
        /\ copied[s] \in Nat /\ frame[s][2] \in Lengths /\ k \in Nat
        /\ copied[s] + k <= frame[s][2] /\ frame[s][2] <= TxBufSize /\ TxBufSize \in Nat
    <3>1. frame[s][2] \in Lengths /\ frame[s][2] \in 1..TxBufSize /\ TxBufSize \in Nat
      BY <2>1, EcmTxAssumption DEF CallInv
    <3>2. copied[s] \in Nat
      BY <1>a
    <3>3. QED BY <1>a, <2>1, <2>2, <3>1, <3>2 DEF TypeInv, DevType
  <2>4. \A i \in 0..(copied'[s] - 1) : buf'[i] = Cell(frame[s][1], i, frame[s][2])
    <3> SUFFICES ASSUME NEW i \in 0..(copied[s] + k - 1)
                 PROVE  buf'[i] = Cell(frame[s][1], i, frame[s][2])
      BY <2>3
    <3>1. i \in DOMAIN buf
      BY <2>3 DEF TypeInv, SndType
    <3>2. CASE i < copied[s]
      <4>1. buf[i] = Cell(frame[s][1], i, frame[s][2])
        BY <2>1, <2>3, <3>2 DEF CallInv
      <4>2. QED BY <2>2, <2>3, <3>1, <3>2, <4>1
    <3>3. CASE copied[s] <= i
      BY <2>2, <2>3, <3>1, <3>3
    <3>4. QED BY <2>3, <3>2, <3>3
  <2>5. CallInv(s)'
    BY <2>1, <2>3, <2>4 DEF CallInv
  <2>6. QED BY <2>1, <2>5, QuietPipe
<1>4. ASSUME USBD_CDC_ECM_SetTxBuffer(s)
      PROVE  CallInv(s)' /\ PipeInv' /\ Moves
  <2>1. /\ pc[s] = "copy" /\ pc'[s] = "check" /\ copied[s] = frame[s][2]
        /\ hcdc[s] = pClassData /\ pClassData # NULL /\ pClassData \in Handles
        /\ in.state = "idle"
    BY <1>4, <1>a, InCall DEF USBD_CDC_ECM_SetTxBuffer
  <2>2. /\ UNCHANGED <<pClassData, txState, total, in, buf, rcv, delivered>>
        /\ UNCHANGED <<teardowns, hcdc, frame, copied, accepted>>
        /\ txLength' = [txLength EXCEPT ![pClassData] = txLength[hcdc[s]]]
    BY <1>4, <2>1 DEF USBD_CDC_ECM_SetTxBuffer, host
  <2>3. txLength'[hcdc[s]] = txLength[hcdc[s]]
    BY <2>1, <2>2 DEF TypeInv, DevType
  <2>4. CallInv(s)'
    BY <2>1, <2>2, <2>3 DEF CallInv
  <2>5. QED BY <2>2, <2>4, QuietPipe
<1>5. ASSUME transmit_check(s)
      PROVE  CallInv(s)' /\ PipeInv' /\ Moves
  <2>1. /\ pc[s] = "check" /\ hcdc[s] = pClassData /\ pClassData \in Handles
    BY <1>5, InCall DEF transmit_check
  <2>2. /\ UNCHANGED <<pClassData, txState, txLength, total, in, buf, rcv, delivered>>
        /\ UNCHANGED <<teardowns, frame, copied, accepted>>
        /\ hcdc'[s] = hcdc[s] /\ pc'[s] \in {"idle", "set"}
    BY <1>5, <1>a, <2>1 DEF transmit_check, dev, host
  <2>3. CallInv(s)'
    BY <2>1, <2>2 DEF CallInv
  <2>4. QED BY <2>2, <2>3, QuietPipe
<1>6. ASSUME transmit_set(s)
      PROVE  CallInv(s)' /\ PipeInv' /\ Moves
  <2>1. /\ pc[s] = "set" /\ hcdc[s] = pClassData /\ pClassData \in Handles /\ in.state = "idle"
        /\ pc'[s] = "arm" /\ txState' = [txState EXCEPT ![hcdc[s]] = 1]
        /\ UNCHANGED <<pClassData, txLength, total, in, buf, rcv, delivered>>
        /\ UNCHANGED <<teardowns, hcdc, frame, copied, accepted>>
    BY <1>6, <1>a, InCall DEF transmit_set, host
  <2>2. txState'[hcdc[s]] = 1 /\ pClassData # NULL
    BY <2>1, Null DEF TypeInv, DevType
  <2>3. CallInv(s)'
    BY <2>1, <2>2 DEF CallInv
  <2>4. QED BY <2>1, <2>3, QuietPipe
<1>7. ASSUME transmit_arm(s)
      PROVE  CallInv(s)' /\ PipeInv' /\ Moves
  <2> PICK f \in Nat, n \in Nat : f = frame[s][1] /\ n = frame[s][2]
    BY <1>a
  <2>1. /\ pc[s] = "arm" /\ hcdc[s] = pClassData /\ pClassData \in Handles /\ in.state = "idle"
        /\ pc'[s] = "idle" /\ copied[s] = n /\ txLength[hcdc[s]] = n
        /\ \A i \in 0..(n - 1) : buf[i] = Cell(f, i, n)
        /\ f \in 1..MaxFrames /\ n \in Lengths
    BY <1>7, <1>a, InCall DEF transmit_arm, CallInv
  <2>2. /\ UNCHANGED <<pClassData, txState, txLength, buf, rcv, delivered>>
        /\ UNCHANGED <<teardowns, hcdc, frame, copied>>
        /\ total' = txLength[hcdc[s]] /\ in' = Transfer(txLength[hcdc[s]])
        /\ accepted' = Append(accepted, f)
    BY <1>7 DEF transmit_arm, host
  <2>3. accepted = delivered /\ rcv = <<>>
    BY <2>1, IdlePipe
  <2>4. n > 0
    BY <2>1, EcmTxAssumption
  <2>5. Whole(0)
    <3>1. 0 = 0 * MaxPcktLen
      BY EcmTxAssumption
    <3>2. QED BY <3>1 DEF Whole
  <2>6. Sending(f, n)'
    <3>1. /\ in'.state = "armed" /\ in'.len = n /\ total' = n /\ in'.count = 0 /\ buf' = buf
          /\ rcv' = Cells(f, n, 0)
      BY <2>1, <2>2, <2>3, <2>4, NoCells DEF Transfer
    <3>2. QED BY <2>1, <2>4, <2>5, <3>1 DEF Sending
  <2>7. PipeInv' /\ Moves
    BY <2>1, <2>2, <2>3, <2>6 DEF PipeInv, Moves
  <2>8. CallInv(s)'
    <3>1. txState'[pClassData] = 1 /\ pClassData # NULL
      BY <2>1, <2>2, Null DEF CallInv
    <3>2. QED BY <2>1, <2>2, <3>1 DEF CallInv
  <2>9. QED BY <2>7, <2>8
<1>8. QED BY <1>1, <1>2, <1>3, <1>4, <1>5, <1>6, <1>7 DEF ll_output_cb

\* And every step.
LEMMA NextPipe ==
  ASSUME NEW s \in Senders, Senders = {s}, MaxTeardowns = 0,
         CtlInv, TypeInv, CallInv(s), PipeInv, [Next]_vars
  PROVE  CallInv(s)' /\ PipeInv' /\ Moves
<1>1. ASSUME NEW n \in Lengths, call(s, n)
      PROVE  CallInv(s)' /\ PipeInv' /\ Moves
  <2>1. /\ pc[s] = "idle" /\ pc'[s] = "spin" /\ hcdc'[s] = pClassData /\ copied'[s] = 0
        /\ frame'[s] = <<calls + 1, n>> /\ calls < MaxFrames /\ calls \in Nat
        /\ UNCHANGED <<pClassData, txState, txLength, total, in, buf, rcv, delivered>>
        /\ UNCHANGED <<teardowns, accepted>>
    BY <1>1 DEF call, At, Goto, TypeInv, SndType, dev, host
  <2>2. frame'[s] \in (1..MaxFrames) \X Lengths
    BY <2>1, EcmTxAssumption
  <2>3. CallInv(s)'
    BY <2>1, <2>2 DEF CallInv
  <2>4. QED BY <2>1, <2>3, QuietPipe
<1>2. CASE UNCHANGED vars
  <2>1. UNCHANGED <<dev, in, buf, host, teardowns, snd>>
    BY <1>2 DEF vars
  <2>2. CallInv(s)'
    BY <2>1 DEF CallInv, dev, snd
  <2>3. QED BY <2>1, <2>2, QuietPipe DEF dev, host, snd
<1>3. QED BY <1>1, <1>2, IsrPipe, SenderPipe DEF Next

\* What the pipe holds: nothing, or the last frame that was accepted.
LEMMA EmptyPipe ==
  ASSUME NEW q \in Seq(Nat)
  PROVE  SubSeq(q, Len(q) + 1, Len(q)) = <<>>
BY LenProperties, SubSeqEmpty

LEMMA FullPipe ==
  ASSUME NEW q \in Seq(Nat), NEW f \in Nat
  PROVE  SubSeq(Append(q, f), Len(q) + 1, Len(Append(q, f))) = <<f>>
<1> DEFINE a == Append(q, f)
           m == Len(q) + 1
           t == SubSeq(a, m, m)
<1>1. a \in Seq(Nat) /\ Len(a) = m /\ a[m] = f /\ m \in Int
  BY AppendProperties, LenProperties
<1> HIDE DEF a, m
<1>2. t \in Seq(Nat) /\ Len(t) = 1 /\ t[1] = f
  <2>1. \A i \in m..m : a[i] \in Nat
    BY <1>1
  <2>2. /\ t \in Seq(Nat) /\ Len(t) = IF m <= m THEN m - m + 1 ELSE 0
        /\ \A i \in 1..(m - m + 1) : t[i] = a[m + i - 1]
    BY <1>1, <2>1, SubSeqProperties
  <2> HIDE DEF t
  <2>3. 1 \in 1..(m - m + 1) /\ m + 1 - 1 = m
    BY <1>1
  <2>4. QED BY <1>1, <2>2, <2>3
<1> HIDE DEF t
<1>3. t = <<f>>
  BY <1>2, SeqEqual
<1>4. QED BY <1>1, <1>3 DEF t, a, m

\* A frame that is accepted goes into the pipe, one that is delivered leaves it.
LEMMA MovesInPipe ==
  ASSUME accepted \in Seq(Nat), delivered \in Seq(Nat), Moves
  PROVE  [Pipe!Next]_(Pipe!vars)
<1> DEFINE pipe == SubSeq(accepted, Len(delivered) + 1, Len(accepted))
<1>1. CASE UNCHANGED <<accepted, delivered>>
  BY <1>1 DEF Pipe!vars
<1>2. ASSUME accepted = delivered, delivered' = delivered,
             NEW f \in 1..MaxFrames, accepted' = Append(accepted, f)
      PROVE  Pipe!Accept
  <2>1. pipe = <<>>
    BY <1>2, EmptyPipe
  <2>2. pipe' = <<f>>
    <3>1. f \in Nat
      OBVIOUS
    <3>2. QED BY <1>2, <3>1, FullPipe
  <2>3. QED BY <1>2, <2>1, <2>2 DEF Pipe!Accept
<1>3. ASSUME delivered' = accepted, accepted' = accepted,
             NEW f \in 1..MaxFrames, accepted = Append(delivered, f)
      PROVE  Pipe!Deliver
  <2>1. pipe = <<f>> /\ f \in Nat
    BY <1>3, FullPipe
  <2>2. pipe' = <<>>
    BY <1>3, EmptyPipe
  <2>3. delivered' = delivered \o <<f>>
    BY <1>3, <2>1, AppendIsConcat
  <2>4. <<f>> # <<>>
    OBVIOUS
  <2>5. QED BY <2>1, <2>2, <2>3, <2>4 DEF Pipe!Deliver
<1>4. QED BY <1>1, <1>2, <1>3 DEF Moves, Pipe!Next

\* One sender and a host that stays: what the transmit path does is what a pipe
\* for one frame does.  Frames reach the host whole, once and in order, and the
\* buffer is not written while it is sent, for every packet length and frame
\* length (net.c:40-70).
THEOREM PipeImplemented ==
  ASSUME NEW s \in Senders, Senders = {s}, MaxTeardowns = 0
  PROVE  Spec => PipeSpec
<1> DEFINE I == CtlInv /\ NeverStuck /\ TypeInv /\ CallInv(s) /\ PipeInv
<1>1. Init => I
  BY InitIInv, InitType, InitSession DEF IInv
<1>2. I /\ [Next]_vars => I'
  BY NextIInv, NextType, NextPipe DEF IInv
<1>3. I /\ [Next]_vars => [Pipe!Next]_(Pipe!vars)
  BY NextPipe, MovesInPipe DEF TypeInv, DevType, SndType
<1>4. Init => Pipe!Init
  BY DEF Init, Pipe!Init
<1>5. QED BY <1>1, <1>2, <1>3, <1>4, PTL DEF Spec, PipeSpec, Pipe!Spec

\* One sender and a host that stays: the transmit buffer is written only while no
\* transfer reads it.  With a second sender it is not (run tx_two_senders): what
\* TxState lacks is exclusion between senders (net.c:47-50), not more.
THEOREM CopyWhenFreeAlone ==
  ASSUME NEW s \in Senders, Senders = {s}, MaxTeardowns = 0
  PROVE  Spec => []CopyWhenFree
<1> DEFINE I == CtlInv /\ NeverStuck /\ TypeInv /\ CallInv(s) /\ PipeInv
<1>1. Init => I
  BY InitIInv, InitType, InitSession DEF IInv
<1>2. I /\ [Next]_vars => I'
  BY NextIInv, NextType, NextPipe DEF IInv
<1>3. I => CopyWhenFree
  BY InCall DEF CopyWhenFree
<1>4. QED BY <1>1, <1>2, <1>3, PTL DEF Spec
=============================================================================
