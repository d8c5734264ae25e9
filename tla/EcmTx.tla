------------------------------- MODULE EcmTx -------------------------------
(***************************************************************************)
(* The transmit path of the firmware: Ethernet frames that lwIP sends      *)
(* reach the USB host through                                              *)
(*                                                                         *)
(*   ll_output_cb -> USBD_CDC_ECM_TransmitPacket -> USBD_LL_Transmit       *)
(*     -> OTG_FS interrupt (FIFO refill) -> USBD_CDC_ECM_DataIn            *)
(*                                                                         *)
(* ll_output_cb runs in whichever thread lwIP happens to send from: the    *)
(* tcpip_thread, but also the application's threads, which call the raw    *)
(* API without the core lock, and lwip_input, whose netif_set_link_up      *)
(* sends a gratuitous ARP.  A sender can be preempted by the interrupt and *)
(* by another sender between any two accesses to what they share.          *)
(***************************************************************************)
EXTENDS Integers, Sequences

CONSTANTS
  Senders,      \* threads that send
  Handles,      \* heap blocks USBD_malloc can return for the class handle
  NULL,         \* the null pointer
  MaxPcktLen,   \* maxpacket of the IN endpoint (64)
  Lengths,      \* bound: lengths of the frames lwIP sends
  TxBufSize,    \* sizeof UserTxBuffer (CDC_ECM_ETH_MAX_SEGSZE + 100)
  Tries,        \* the spin limit of ll_output_cb (1000000)
  MaxFrames,    \* bound: calls of ll_output_cb
  MaxTeardowns  \* bound: times the host tears the configuration down

ASSUME EcmTxAssumption ==
  /\ NULL \notin Handles
  /\ MaxPcktLen \in Nat \ {0}
  /\ TxBufSize \in Nat
  /\ Lengths \subseteq 1..TxBufSize
  /\ Tries \in Nat \ {0}
  /\ MaxFrames \in Nat
  /\ MaxTeardowns \in Nat

VARIABLES
  pClassData,  \* USBD_Device.pClassData
  txState,     \* hcdc->TxState of every block
  txLength,    \* hcdc->TxLength of every block
  total,       \* ep_in[CDC_ECM_IN_EP].total_length
  in,          \* the IN endpoint: state, length and bytes sent of its transfer
  buf,         \* UserTxBuffer
  rcv,         \* the host: bytes received since the last short packet
  delivered,   \* history: frames the host received
  teardowns,   \* history: times a configured class was deinitialised
  pc,          \* of every sender: where it is in ll_output_cb
  hcdc,        \* its local hcdc
  try,         \* its local try
  frame,       \* the frame it was called with, and that frame's length
  copied,      \* bytes it has copied: pdata - hcdc->TxBuffer
  calls,       \* history: calls of ll_output_cb
  accepted,    \* history: frames handed to the endpoint
  fault        \* the CPU is in the HardFault loop

dev == <<pClassData, txState, txLength, total>>
host == <<rcv, delivered>>
snd == <<pc, hcdc, try, frame, copied, calls, accepted>>
vars == <<dev, in, buf, host, teardowns, snd, fault>>

Garbled == 0
Blank == <<0, 0, 0>>
Cell(f, i, n) == <<f, i, n>>

\* The frame that the bytes b are, all of it and nothing else, or Garbled.
FrameOf(b) ==
  IF Len(b) > 0 /\ \A i \in 1..Len(b) : b[i] = Cell(b[1][1], i - 1, Len(b))
  THEN b[1][1]
  ELSE Garbled

Idle == [state |-> "idle", len |-> 0, count |-> 0]

\* USBD_LL_Transmit: record the length, start a transfer.
Transfer(n) == [state |-> "armed", len |-> n, count |-> 0]

-----------------------------------------------------------------------------
(* The USB device side, in the OTG_FS interrupt. *)

\* Slip: the new session inherits TxState from the block's last user.
USBD_CDC_ECM_Init_stale(h) ==
  /\ pClassData = NULL
  /\ pClassData' = h
  /\ txLength' = [txLength EXCEPT ![h] = 0]
  /\ in' \in {in, Idle}
  /\ UNCHANGED <<txState, total, buf, host, teardowns, snd, fault>>

\* USBD_CDC_ECM_Init with the block h: the IN endpoint opens.  What a transfer
\* that was started on the closed endpoint does then is up to the hardware.
USBD_CDC_ECM_Init(h) ==
  /\ pClassData = NULL
  /\ pClassData' = h
  /\ txState' = [txState EXCEPT ![h] = 0]
  /\ txLength' = [txLength EXCEPT ![h] = 0]
  /\ in' \in {in, Idle}
  /\ UNCHANGED <<total, buf, host, teardowns, snd, fault>>

\* USBD_CDC_ECM_DeInit: the endpoint closes, its transfer is lost; the freed
\* block keeps its contents.
USBD_CDC_ECM_DeInit ==
  /\ pClassData # NULL
  /\ teardowns < MaxTeardowns
  /\ pClassData' = NULL
  /\ in' = Idle
  /\ rcv' = <<>>
  /\ teardowns' = teardowns + 1
  /\ UNCHANGED <<txState, txLength, total, buf, delivered, snd, fault>>

\* Byte i after the start of the transmit buffer; what lies past its end is
\* read as well when two senders added up their lengths.
Byte(i) == IF i < TxBufSize THEN buf[i] ELSE Blank

\* Length of the next packet of the transfer.
PacketLen ==
  IF in.len - in.count < MaxPcktLen THEN in.len - in.count ELSE MaxPcktLen

\* Slip: the refill starts from the beginning of the buffer.
PCD_WriteEmptyTxFifo_rewound ==
  /\ pClassData # NULL
  /\ in.state = "armed"
  /\ LET k == PacketLen
         data == rcv \o [i \in 1..k |-> Byte(i - 1)]
     IN  /\ in' = [state |-> IF in.count + k = in.len THEN "complete" ELSE "armed",
                   len |-> in.len, count |-> in.count + k]
         /\ IF k < MaxPcktLen
            THEN delivered' = Append(delivered, FrameOf(data)) /\ rcv' = <<>>
            ELSE rcv' = data /\ UNCHANGED delivered
  /\ UNCHANGED <<dev, buf, teardowns, snd, fault>>

\* PCD_WriteEmptyTxFifo: the next packet is read from the buffer and goes to
\* the host; a short packet ends the frame there.
PCD_WriteEmptyTxFifo ==
  /\ pClassData # NULL
  /\ in.state = "armed"
  /\ LET k == PacketLen
         data == rcv \o [i \in 1..k |-> Byte(in.count + i - 1)]
     IN  /\ in' = [state |-> IF in.count + k = in.len THEN "complete" ELSE "armed",
                   len |-> in.len, count |-> in.count + k]
         /\ IF k < MaxPcktLen
            THEN delivered' = Append(delivered, FrameOf(data)) /\ rcv' = <<>>
            ELSE rcv' = data /\ UNCHANGED delivered
  /\ UNCHANGED <<dev, buf, teardowns, snd, fault>>

\* Slip: no zero-length packet after a frame of full packets.
USBD_CDC_ECM_DataIn_nozlp ==
  /\ pClassData # NULL
  /\ in.state = "complete"
  /\ txState' = [txState EXCEPT ![pClassData] = 0]
  /\ in' = Idle
  /\ UNCHANGED <<pClassData, txLength, total, buf, host, teardowns, snd, fault>>

\* USBD_CDC_ECM_DataIn, the transfer is complete: a frame of full packets is
\* ended by a zero-length packet, else the transmitter is free.
USBD_CDC_ECM_DataIn ==
  /\ pClassData # NULL
  /\ in.state = "complete"
  /\ IF total > 0 /\ total % MaxPcktLen = 0
     THEN /\ total' = 0
          /\ in' = Transfer(0)
          /\ UNCHANGED txState
     ELSE /\ txState' = [txState EXCEPT ![pClassData] = 0]
          /\ in' = Idle
          /\ UNCHANGED total
  /\ UNCHANGED <<pClassData, txLength, buf, host, teardowns, snd, fault>>

Hardware == PCD_WriteEmptyTxFifo \/ USBD_CDC_ECM_DataIn

Isr ==
  /\ ~fault
  /\ \/ \E h \in Handles : USBD_CDC_ECM_Init(h)
     \/ USBD_CDC_ECM_DeInit
     \/ Hardware

-----------------------------------------------------------------------------
(* ll_output_cb in the sender s. *)

At(s, l) == ~fault /\ pc[s] = l
Goto(s, l) == pc' = [pc EXCEPT ![s] = l]

\* lwIP sends a frame of n bytes: the handle and its buffer are loaded.
call(s, n) ==
  /\ At(s, "idle")
  /\ calls < MaxFrames
  /\ calls' = calls + 1
  /\ frame' = [frame EXCEPT ![s] = <<calls + 1, n>>]
  /\ hcdc' = [hcdc EXCEPT ![s] = pClassData]
  /\ try' = [try EXCEPT ![s] = Tries]
  /\ copied' = [copied EXCEPT ![s] = 0]
  /\ Goto(s, "spin")
  /\ UNCHANGED <<dev, in, buf, host, teardowns, accepted, fault>>

\* There is no handle, at boot or between two sessions: TxState and TxBuffer
\* are whatever is read through NULL.  The transmitter seems busy until the
\* tries are used up or refuses at the end, or a store faults.
no_handle(s) ==
  /\ At(s, "spin")
  /\ hcdc[s] = NULL
  /\ \/ Goto(s, "idle") /\ UNCHANGED fault
     \/ fault' = TRUE /\ UNCHANGED pc
  /\ UNCHANGED <<dev, in, buf, host, teardowns, hcdc, try, frame, copied, calls, accepted>>

\* Slip: the wait has no limit.
spin_forever(s) ==
  /\ At(s, "spin")
  /\ hcdc[s] # NULL
  /\ txState[hcdc[s]] # 0
  /\ UNCHANGED <<dev, in, buf, host, teardowns, pc, hcdc, try, frame, copied, calls, accepted, fault>>

\* Slip: the test of the tries is forgotten.
spin_untested(s) ==
  /\ At(s, "spin")
  /\ hcdc[s] # NULL
  /\ txState[hcdc[s]] # 0
  /\ try' = [try EXCEPT ![s] = @ - 1]
  /\ UNCHANGED <<dev, in, buf, host, teardowns, pc, hcdc, frame, copied, calls, accepted, fault>>

\* Busy, and tries are left.
spin(s) ==
  /\ At(s, "spin")
  /\ hcdc[s] # NULL
  /\ txState[hcdc[s]] # 0
  /\ try[s] > 0
  /\ try' = [try EXCEPT ![s] = @ - 1]
  /\ UNCHANGED <<dev, in, buf, host, teardowns, pc, hcdc, frame, copied, calls, accepted, fault>>

\* The tries are used up: ERR_USE, even if the transmitter just became free.
give_up(s) ==
  /\ At(s, "spin")
  /\ hcdc[s] # NULL
  /\ try[s] = 0
  /\ Goto(s, "idle")
  /\ UNCHANGED <<dev, in, buf, host, teardowns, hcdc, try, frame, copied, calls, accepted, fault>>

\* Free: hcdc->TxLength = 0.
begin(s) ==
  /\ At(s, "spin")
  /\ hcdc[s] # NULL
  /\ txState[hcdc[s]] = 0
  /\ try[s] > 0
  /\ txLength' = [txLength EXCEPT ![hcdc[s]] = 0]
  /\ Goto(s, "copy")
  /\ UNCHANGED <<pClassData, txState, total, in, buf, host, teardowns,
                 hcdc, try, frame, copied, calls, accepted, fault>>

\* The next pbuf of the chain, k bytes, goes into the transmit buffer.
copy(s) ==
  /\ At(s, "copy")
  /\ copied[s] < frame[s][2]
  /\ \E k \in 1..(frame[s][2] - copied[s]) :
       /\ buf' = [i \in DOMAIN buf |->
                    IF copied[s] <= i /\ i < copied[s] + k
                    THEN Cell(frame[s][1], i, frame[s][2])
                    ELSE buf[i]]
       /\ copied' = [copied EXCEPT ![s] = @ + k]
       /\ txLength' = [txLength EXCEPT ![hcdc[s]] = @ + k]
  /\ UNCHANGED <<pClassData, txState, total, in, host, teardowns,
                 pc, hcdc, try, frame, calls, accepted, fault>>

\* USBD_CDC_ECM_SetTxBuffer stores the length in whatever is the handle now;
\* a store through NULL is dropped or faults.
USBD_CDC_ECM_SetTxBuffer(s) ==
  /\ At(s, "copy")
  /\ copied[s] = frame[s][2]
  /\ IF pClassData # NULL
     THEN /\ txLength' = [txLength EXCEPT ![pClassData] = txLength[hcdc[s]]]
          /\ UNCHANGED fault
     ELSE /\ fault' \in BOOLEAN
          /\ UNCHANGED txLength
  /\ Goto(s, "check")
  /\ UNCHANGED <<pClassData, txState, total, in, buf, host, teardowns,
                 hcdc, try, frame, copied, calls, accepted>>

\* USBD_CDC_ECM_TransmitPacket: load the handle again, test TxState; without a
\* handle or busy, ll_output_cb returns ERR_USE.
transmit_check(s) ==
  /\ At(s, "check")
  /\ IF pClassData # NULL /\ txState[pClassData] = 0
     THEN hcdc' = [hcdc EXCEPT ![s] = pClassData] /\ Goto(s, "set")
     ELSE Goto(s, "idle") /\ UNCHANGED hcdc
  /\ UNCHANGED <<dev, in, buf, host, teardowns, try, frame, copied, calls, accepted, fault>>

\* hcdc->TxState = 1.
transmit_set(s) ==
  /\ At(s, "set")
  /\ txState' = [txState EXCEPT ![hcdc[s]] = 1]
  /\ Goto(s, "arm")
  /\ UNCHANGED <<pClassData, txLength, total, in, buf, host, teardowns,
                 hcdc, try, frame, copied, calls, accepted, fault>>

\* total_length = hcdc->TxLength; USBD_LL_Transmit; ll_output_cb returns ERR_OK.
transmit_arm(s) ==
  /\ At(s, "arm")
  /\ total' = txLength[hcdc[s]]
  /\ in' = Transfer(txLength[hcdc[s]])
  /\ accepted' = Append(accepted, frame[s][1])
  /\ Goto(s, "idle")
  /\ UNCHANGED <<pClassData, txState, txLength, buf, host, teardowns,
                 hcdc, try, frame, copied, calls, fault>>

\* Every step of a call but its start.
ll_output_cb(s) ==
  \/ no_handle(s) \/ spin(s) \/ give_up(s) \/ begin(s) \/ copy(s)
  \/ USBD_CDC_ECM_SetTxBuffer(s)
  \/ transmit_check(s) \/ transmit_set(s) \/ transmit_arm(s)

-----------------------------------------------------------------------------
Init ==
  /\ pClassData = NULL
  /\ txState = [h \in Handles |-> 0]
  /\ txLength = [h \in Handles |-> 0]
  /\ total = 0
  /\ in = Idle
  /\ buf = [i \in 0..(TxBufSize - 1) |-> Blank]
  /\ rcv = <<>>
  /\ delivered = <<>>
  /\ teardowns = 0
  /\ pc = [s \in Senders |-> "idle"]
  /\ hcdc = [s \in Senders |-> NULL]
  /\ try = [s \in Senders |-> 0]
  /\ frame = [s \in Senders |-> <<0, 0>>]
  /\ copied = [s \in Senders |-> 0]
  /\ calls = 0
  /\ accepted = <<>>
  /\ fault = FALSE

Next ==
  \/ Isr
  \/ \E s \in Senders : \E n \in Lengths : call(s, n)
  \/ \E s \in Senders : ll_output_cb(s)

Spec == Init /\ [][Next]_vars

\* The senders are scheduled.  The host owes nothing.
FairSpec == Spec /\ \A s \in Senders : WF_vars(ll_output_cb(s))

\* The host polls the IN endpoint as long as the device is configured.
PollingSpec == FairSpec /\ WF_vars(Hardware /\ ~fault)
-----------------------------------------------------------------------------
(* Properties. *)

Pointers == Handles \cup {NULL}
Labels == {"idle", "spin", "copy", "check", "set", "arm"}
Xfer == [state : {"idle", "armed", "complete"}, len : Nat, count : Nat]

\* The type of every variable.
TypeOK ==
  /\ pClassData \in Pointers
  /\ txState \in [Handles -> {0, 1}]
  /\ txLength \in [Handles -> Nat]
  /\ total \in Nat
  /\ in \in Xfer
  /\ buf \in [0..(TxBufSize - 1) -> Nat \X Nat \X Nat]
  /\ rcv \in Seq(Nat \X Nat \X Nat)
  /\ delivered \in Seq(Nat)
  /\ teardowns \in Nat
  /\ pc \in [Senders -> Labels]
  /\ hcdc \in [Senders -> Pointers]
  /\ try \in [Senders -> 0..Tries]
  /\ frame \in [Senders -> Nat \X Nat]
  /\ copied \in [Senders -> Nat]
  /\ calls \in Nat
  /\ accepted \in Seq(Nat)
  /\ fault \in BOOLEAN

\* The transmitter is never left busy with nothing under way: while TxState of
\* the current handle is set, the endpoint has a transfer, or a sender that has
\* set it is about to start one.  However many threads send and whatever the
\* host tears down, no session begins or ends up unable to send.
NeverStuck ==
  pClassData # NULL /\ txState[pClassData] = 1
    => in.state # "idle" \/ \E s \in Senders : pc[s] = "arm"

\* The transmit buffer is written only while no transfer reads it: that is what
\* ll_output_cb tests TxState for.
CopyWhenFree == \A s \in Senders : pc[s] = "copy" => in.state = "idle"

\* Every call of ll_output_cb returns, whatever the host does.
CallsReturn == \A s \in Senders : pc[s] # "idle" ~> (pc[s] = "idle" \/ fault)

\* A frame that was accepted reaches the host when it polls, unless it tears
\* the configuration down.
AcceptedDelivered ==
  \A f \in 1..MaxFrames :
    (\E i \in 1..Len(accepted) : accepted[i] = f)
      ~> ((\E i \in 1..Len(delivered) : delivered[i] = f) \/ teardowns > 0 \/ fault)

\* What the transmit path promises: a one-frame pipe.
Pipe == INSTANCE TxPipe WITH
  Frames <- 1..MaxFrames,
  pipe <- SubSeq(accepted, Len(delivered) + 1, Len(accepted)),
  got <- delivered

PipeSpec == Pipe!Spec
=============================================================================
