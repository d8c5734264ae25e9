-------------------------------- MODULE Usbd --------------------------------
(***************************************************************************)
(* The USB device library with the CDC-ECM class's control interface:      *)
(*                                                                         *)
(*   host -> HAL_PCD_IRQHandler -> USBD_LL_SetupStage / DataOutStage /     *)
(*     DataInStage / Suspend / Resume / Reset -> USBD_StdDevReq, ...       *)
(*     -> USBD_CDC_ECM_Setup -> CDC_ECM_Itf_Control -> SendNotification    *)
(*                                                                         *)
(* Three actors: the host, the OTG controller, which moves one packet at a *)
(* time and latches an interrupt flag for it, and the interrupt handler.   *)
(* One invocation of the handler looks at the OUT endpoint flags, then at  *)
(* the IN endpoint flags, then at the bus flags, and the host can go on    *)
(* while it does; each library callback is one step.                       *)
(*                                                                         *)
(* The bulk endpoints' data is modelled by EcmRx and EcmTx.                *)
(***************************************************************************)
EXTENDS Integers, Sequences

CONSTANTS
  Mps,          \* USB_MAX_EP0_SIZE (64)
  DescLengths,  \* bound: lengths of the descriptors
  WLengths,     \* bound: values of wLength
  Eps           \* bound: endpoints the host halts, CDC_ECM_CMD_EP included

CMD_EP == "CDC_ECM_CMD_EP"
EP0 == "EP0"

ASSUME UsbdAssumption ==
  /\ Mps \in Nat \ {0}
  /\ DescLengths \subseteq Nat \ {0}
  /\ WLengths \subseteq Nat
  /\ CMD_EP \in Eps
  /\ EP0 \notin Eps
  /\ Eps \cap {"device", "interface", "class"} = {}  \* recipients differ

VARIABLES
  devState,  \* pdev->dev_state
  oldState,  \* pdev->dev_old_state; "DEFAULT" when nothing will read it
  hcdc,      \* pdev->pClassData: none, or the handle's control fields
  ep0,       \* endpoint 0: its state in pdev and in the controller
  isStall,   \* ep->is_stall of the other endpoints
  hwStall,   \* the STALL bit of their control registers
  cmdIn,     \* the notification armed on CDC_ECM_CMD_EP, or NoPacket
  seen,      \* history: notifications the host received in this session
  pend,      \* interrupt flags that are latched
  irq,       \* which flags the handler looks at: "out" or "in"
  bus,       \* "active" or "suspended" (DSTS.SUSPSTS)
  host,      \* the host: its control transfer and the configuration it set
  xfer       \* history of the control transfer in the device

dev == <<devState, oldState, hcdc>>
halts == <<isStall, hwStall>>
notif == <<cmdIn, seen>>
vars == <<dev, ep0, halts, notif, pend, irq, bus, host, xfer>>

NoPacket == "none"
NoHandle == [up |-> FALSE]
Unknown == -1

\* The least of two numbers (MIN).
Lesser(a, b) == IF a < b THEN a ELSE b

-----------------------------------------------------------------------------
(* Requests.  v is what the handler makes of wValue: the length of the     *)
(* descriptor (0: there is none), an address, a configuration, or whether  *)
(* the feature is the one that the recipient knows.                        *)

Request(to, b, v, w) == [to |-> to, b |-> b, v |-> v, w |-> w]

DeviceRequests ==
  {Request("device", "GET_DESCRIPTOR", n, w) : n \in DescLengths \cup {0}, w \in WLengths}
    \cup {Request("device", "SET_ADDRESS", a, 0) : a \in 0..1}
    \cup {Request("device", "SET_CONFIGURATION", c, 0) : c \in 0..2}
    \cup {Request("device", "GET_CONFIGURATION", 0, w) : w \in 1..2}
    \cup {Request("device", "GET_STATUS", 0, w) : w \in 1..2}
    \cup {Request("device", b, v, 0) : b \in {"SET_FEATURE", "CLEAR_FEATURE"}, v \in 0..1}
    \cup {Request("device", "SYNCH_FRAME", 0, 0)}

InterfaceRequests ==
  {Request("interface", "GET_STATUS", 0, 2), Request("interface", "GET_INTERFACE", 0, 1)}
    \cup {Request("interface", b, 0, 0) : b \in {"SET_INTERFACE", "CLEAR_FEATURE", "SET_FEATURE"}}

ClassRequests ==
  {Request("class", "SET_ETH_PACKET_FILTER", 0, 0)}
    \cup {Request("class", b, 0, w) :
            b \in {"GET_ENCAPSULATED_RESPONSE", "SET_ETH_MULTICAST_FILTERS"},
            w \in WLengths \ {0}}

EndpointRequests ==
  [to : Eps \cup {EP0}, b : {"SET_FEATURE", "CLEAR_FEATURE"}, v : 0..1, w : {0}]
    \cup [to : Eps \cup {EP0}, b : {"GET_STATUS"}, v : {0}, w : {2}]

Requests == DeviceRequests \cup InterfaceRequests \cup ClassRequests \cup EndpointRequests

\* bmRequest & 0x80: the data stage is from the device to the host.
DeviceToHost(r) ==
  r.b \in {"GET_DESCRIPTOR", "GET_CONFIGURATION", "GET_STATUS", "GET_INTERFACE",
           "GET_ENCAPSULATED_RESPONSE"}

-----------------------------------------------------------------------------
(* Endpoint 0.  c is its record: state is pdev->ep0_state, dataLen          *)
(* ep0_data_len, rem, total and remOut the lengths of ep_in[0] and          *)
(* ep_out[0]; ptr and src the driver's xfer_buff: its offset in the reply   *)
(* and whether the reply lies in a static object or in a stack frame; in,   *)
(* out, stallIn and stallOut are the controller's: length of the armed IN   *)
(* packet (-1: none), OUT armed, STALL bits.                                *)

StallIn(c) == [c EXCEPT !.stallIn = TRUE]

USBD_CtlError(c) == [c EXCEPT !.stallIn = TRUE, !.stallOut = TRUE, !.refused = TRUE]

\* Slip: the driver arms the whole transfer.
USBD_LL_Transmit_whole(c, src, pos, n) ==
  [c EXCEPT !.total = n, !.in = n, !.ptr = pos, !.src = src]

\* USBD_LL_Transmit on endpoint 0 from offset pos of the reply: the driver arms
\* one packet, whatever n is.
USBD_LL_Transmit(c, src, pos, n) ==
  [c EXCEPT !.total = n, !.in = Lesser(n, Mps), !.ptr = pos, !.src = src]

USBD_LL_PrepareReceive(c) == [c EXCEPT !.out = TRUE]

USBD_CtlSendData(c, src, n) ==
  USBD_LL_Transmit([c EXCEPT !.state = "DATA_IN", !.rem = n], src, 0, n)

USBD_CtlPrepareRx(c, n) ==
  USBD_LL_PrepareReceive([c EXCEPT !.state = "DATA_OUT", !.remOut = n])

USBD_CtlSendStatus(c) ==
  USBD_LL_Transmit([c EXCEPT !.state = "STATUS_IN"], "static", 0, 0)

\* Slip: the OUT endpoint is not armed for the status stage.
USBD_CtlReceiveStatus_unarmed(c) == [c EXCEPT !.state = "STATUS_OUT"]

USBD_CtlReceiveStatus(c) ==
  USBD_LL_PrepareReceive([c EXCEPT !.state = "STATUS_OUT"])

\* Slip: a reply of full packets is not ended by a zero-length packet.
NeedsZlp_never(c) == FALSE

\* The last packet was full, and shorter than what the host asked for.
NeedsZlp(c) == c.rem = Mps /\ c.total >= Mps /\ c.total < c.dataLen

\* Slip: the next packet starts at the beginning of the reply again.
EP0_DataInStage_restart(c) ==
  IF c.state # "DATA_IN" THEN c
  ELSE IF c.rem > Mps
       THEN USBD_LL_PrepareReceive(
              USBD_LL_Transmit([c EXCEPT !.rem = @ - Mps], c.src, 0, c.rem - Mps))
  ELSE IF NeedsZlp(c)
       THEN USBD_LL_PrepareReceive(
              USBD_LL_Transmit([c EXCEPT !.dataLen = 0], "static", c.ptr, 0))
       ELSE USBD_CtlReceiveStatus(StallIn(c))

\* USBD_LL_DataInStage for endpoint 0.
EP0_DataInStage(c) ==
  IF c.state # "DATA_IN" THEN c
  ELSE IF c.rem > Mps
       THEN USBD_LL_PrepareReceive(
              USBD_LL_Transmit([c EXCEPT !.rem = @ - Mps], c.src, c.ptr, c.rem - Mps))
  ELSE IF NeedsZlp(c)
       THEN USBD_LL_PrepareReceive(
              USBD_LL_Transmit([c EXCEPT !.dataLen = 0], "static", c.ptr, 0))
       ELSE USBD_CtlReceiveStatus(StallIn(c))

-----------------------------------------------------------------------------
(* The class: handle and notifications. *)

Handle == [up |-> TRUE, link |-> 0, notification |-> 0, cmd |-> "none"]

\* USBD_CDC_ECM_Init.  The command endpoint opens; its halt bit stays.
USBD_CDC_ECM_Init ==
  /\ hcdc' = Handle
  /\ cmdIn' = NoPacket
  /\ seen' = <<>>

\* USBD_CDC_ECM_DeInit: the endpoints close, what is armed is lost; a handle is
\* freed.
USBD_CDC_ECM_DeInit ==
  /\ hcdc' = NoHandle
  /\ cmdIn' = NoPacket
  /\ seen' = <<>>

\* CDC_ECM_Itf_Control: the first packet filter request of a session announces
\* the network connection.
CDC_ECM_Itf_Control(b) ==
  IF b = "SET_ETH_PACKET_FILTER" /\ hcdc.link = 0
  THEN IF hcdc.notification = 0
       THEN /\ hcdc' = [hcdc EXCEPT !.link = 1, !.notification = 1]
            /\ cmdIn' = "NETWORK_CONNECTION"
       ELSE /\ hcdc' = [hcdc EXCEPT !.link = 1]
            /\ UNCHANGED cmdIn
  ELSE UNCHANGED <<hcdc, cmdIn>>

\* USBD_CDC_ECM_Setup for a class request; USBD_StdItfReq sends the status of a
\* request without data.
ClassSetup(c, r) ==
  \/ /\ r.w = 0
     /\ CDC_ECM_Itf_Control(r.b)
     /\ ep0' = USBD_CtlSendStatus(c)
  \/ /\ r.w # 0
     /\ DeviceToHost(r)
     /\ CDC_ECM_Itf_Control(r.b)
     /\ ep0' = USBD_CtlSendData(c, "static", r.w)
  \/ /\ r.w # 0
     /\ ~DeviceToHost(r)
     /\ hcdc' = [hcdc EXCEPT !.cmd = r.b]
     /\ ep0' = USBD_CtlPrepareRx(c, r.w)
     /\ UNCHANGED cmdIn

\* USBD_CDC_ECM_Setup for a standard request, which the interface gets in every
\* state but SUSPENDED.  Two replies are local variables of the function.
InterfaceReply(c, r) ==
  IF devState = "SUSPENDED" THEN USBD_CtlError(c)
  ELSE CASE r.b = "GET_STATUS" /\ devState = "CONFIGURED" -> USBD_CtlSendData(c, "stack", 2)
         [] r.b = "GET_INTERFACE" /\ devState = "CONFIGURED" -> USBD_CtlSendData(c, "stack", 1)
         [] r.b = "SET_INTERFACE" /\ devState = "CONFIGURED" -> USBD_CtlSendStatus(c)
         [] r.b = "CLEAR_FEATURE" -> USBD_CtlSendStatus(c)
         [] OTHER -> USBD_CtlError(c)

-----------------------------------------------------------------------------
(* Standard requests to the device. *)

USBD_GetDescriptor(c, r) ==
  IF r.v = 0 THEN USBD_CtlError(c)
  ELSE IF r.w = 0 THEN USBD_CtlSendStatus(c)
  ELSE USBD_CtlSendData(c, "static", Lesser(r.v, r.w))

\* The replies that change nothing outside endpoint 0.
DeviceReply(c, r) ==
  CASE r.b = "GET_DESCRIPTOR" -> USBD_GetDescriptor(c, r)
    [] r.b = "GET_CONFIGURATION" /\ r.w = 1 /\ devState # "SUSPENDED" ->
         USBD_CtlSendData(c, "static", 1)
    [] r.b = "GET_STATUS" /\ r.w = 2 /\ devState # "SUSPENDED" ->
         USBD_CtlSendData(c, "static", 2)
    [] r.b = "SET_FEATURE" -> IF r.v = 1 THEN USBD_CtlSendStatus(c) ELSE c
    [] r.b = "CLEAR_FEATURE" /\ devState # "SUSPENDED" ->
         IF r.v = 1 THEN USBD_CtlSendStatus(c) ELSE c
    [] OTHER -> USBD_CtlError(c)

USBD_SetAddress(c, r) ==
  /\ IF devState = "CONFIGURED"
     THEN /\ ep0' = USBD_CtlError(c)
          /\ UNCHANGED devState
     ELSE /\ devState' = IF r.v # 0 THEN "ADDRESSED" ELSE "DEFAULT"
          /\ ep0' = USBD_CtlSendStatus(c)
  /\ UNCHANGED <<hcdc, notif>>

\* Slip: the device counts as configured although the class did not come up.
USBD_SetConfig_hasty(c, r) ==
  \/ /\ r.v = 1
     /\ devState = "ADDRESSED"
     /\ devState' = "CONFIGURED"
     /\ ep0' = USBD_CtlSendStatus(c)
     /\ \/ USBD_CDC_ECM_Init
        \/ UNCHANGED <<hcdc, notif>>
  \/ /\ r.v # 1 \/ devState # "ADDRESSED"
     /\ ep0' = USBD_CtlError(c)
     /\ UNCHANGED <<devState, hcdc, notif>>

\* USBD_SetConfig with one configuration: in CONFIGURED the only other value is
\* 0.  USBD_malloc may fail.
USBD_SetConfig(c, r) ==
  \/ /\ r.v > 1
     /\ ep0' = USBD_CtlError(c)
     /\ UNCHANGED <<devState, hcdc, notif>>
  \/ /\ r.v = 1
     /\ devState = "ADDRESSED"
     /\ \/ /\ USBD_CDC_ECM_Init
           /\ devState' = "CONFIGURED"
           /\ ep0' = USBD_CtlSendStatus(c)
        \/ /\ ep0' = USBD_CtlError(c)
           /\ UNCHANGED <<devState, hcdc, notif>>
  \/ /\ r.v = 0
     /\ devState = "CONFIGURED"
     /\ devState' = "ADDRESSED"
     /\ USBD_CDC_ECM_DeInit
     /\ ep0' = USBD_CtlSendStatus(c)
  \/ /\ \/ r.v = 0 /\ devState = "ADDRESSED"
        \/ r.v = 1 /\ devState = "CONFIGURED"
     /\ ep0' = USBD_CtlSendStatus(c)
     /\ UNCHANGED <<devState, hcdc, notif>>
  \/ /\ r.v <= 1
     /\ devState = "DEFAULT"
     /\ USBD_CDC_ECM_DeInit
     /\ ep0' = USBD_CtlError(c)
     /\ UNCHANGED devState

USBD_StdDevReq(c, r) ==
  /\ \/ r.b = "SET_ADDRESS" /\ USBD_SetAddress(c, r)
     \/ r.b = "SET_CONFIGURATION" /\ USBD_SetConfig(c, r)
     \/ /\ r.b \notin {"SET_ADDRESS", "SET_CONFIGURATION"}
        /\ ep0' = DeviceReply(c, r)
        /\ UNCHANGED <<devState, hcdc, notif>>
  /\ UNCHANGED <<oldState, halts>>

USBD_StdItfReq(c, r) ==
  /\ \/ r.to = "class" /\ ClassSetup(c, r) /\ UNCHANGED seen
     \/ /\ r.to = "interface"
        /\ ep0' = InterfaceReply(c, r)
        /\ UNCHANGED <<hcdc, notif>>
  /\ UNCHANGED <<devState, oldState, halts>>

\* HAL_PCD_EP_SetStall and HAL_PCD_EP_ClrStall of an endpoint other than 0.
SetStall(e) ==
  /\ isStall' = isStall \cup {e}
  /\ hwStall' = hwStall \cup {e}

\* Slip: clearing a halt leaves the STALL bit.
ClrStall_sticky(e) ==
  /\ isStall' = isStall \ {e}
  /\ UNCHANGED hwStall

ClrStall(e) ==
  /\ isStall' = isStall \ {e}
  /\ hwStall' = hwStall \ {e}

\* USBD_StdEPReq.  An addressed device halts the endpoint and answers STALL; a
\* configured one answers a CLEAR_FEATURE of another feature not at all.
USBD_StdEPReq(c, r) ==
  /\ \/ /\ devState = "ADDRESSED"
        /\ r.b \in {"SET_FEATURE", "CLEAR_FEATURE"}
        /\ IF r.to # EP0
           THEN SetStall(r.to) /\ ep0' = [StallIn(c) EXCEPT !.refused = TRUE]
           ELSE ep0' = USBD_CtlError(c) /\ UNCHANGED halts
     \/ /\ devState = "CONFIGURED"
        /\ r.b = "SET_FEATURE"
        /\ IF r.v = 1 /\ r.to # EP0 THEN SetStall(r.to) ELSE UNCHANGED halts
        /\ ep0' = USBD_CtlSendStatus(c)
     \/ /\ devState = "CONFIGURED"
        /\ r.b = "CLEAR_FEATURE"
        /\ IF r.v = 1 /\ r.to # EP0 THEN ClrStall(r.to) ELSE UNCHANGED halts
        /\ ep0' = IF r.v = 1 THEN USBD_CtlSendStatus(c) ELSE c
     \/ /\ r.b = "GET_STATUS"
        /\ ep0' = IF devState = "CONFIGURED" \/ (devState = "ADDRESSED" /\ r.to = EP0)
                  THEN USBD_CtlSendData(c, "static", 2)
                  ELSE USBD_CtlError(c)
        /\ UNCHANGED halts
     \/ /\ devState \notin {"ADDRESSED", "CONFIGURED"}
        /\ r.b # "GET_STATUS"
        /\ ep0' = USBD_CtlError(c)
        /\ UNCHANGED halts
  /\ UNCHANGED <<dev, notif>>

-----------------------------------------------------------------------------
(* HAL_PCD_IRQHandler. *)

\* The IN flags that are not masked: the command endpoint's while it is open.
InFlags == pend \cap ({"IN0"} \cup IF hcdc.up THEN {"CMD"} ELSE {})
OutFlags == pend \cap {"OUT0", "STUP"}

\* The handler looks at a group of flags when the ones before it are done.
AtOut == irq = "out"
AtIn == irq = "in" \/ OutFlags = {}
AtBus == AtIn /\ InFlags = {}

\* Slip: the class gets every packet of the command.
USBD_LL_DataOutStage_each ==
  /\ AtOut
  /\ "OUT0" \in pend
  /\ pend' = pend \ {"OUT0"}
  /\ irq' = IF "STUP" \in pend THEN "out" ELSE "in"
  /\ IF ep0.state # "DATA_OUT"
     THEN UNCHANGED <<ep0, hcdc, cmdIn, xfer>>
     ELSE /\ ep0' = IF ep0.remOut > Mps
                    THEN USBD_LL_PrepareReceive([ep0 EXCEPT !.remOut = @ - Mps])
                    ELSE USBD_CtlSendStatus(ep0)
          /\ xfer' = [xfer EXCEPT !.controls = @ + 1]
          /\ UNCHANGED <<hcdc, cmdIn>>
  /\ UNCHANGED <<devState, oldState, halts, seen, bus, host>>

\* USBD_LL_DataOutStage for endpoint 0: the next packet, or the command is
\* complete and its status is sent.
USBD_LL_DataOutStage ==
  /\ AtOut
  /\ "OUT0" \in pend
  /\ pend' = pend \ {"OUT0"}
  /\ irq' = IF "STUP" \in pend THEN "out" ELSE "in"
  /\ IF ep0.state # "DATA_OUT"
     THEN UNCHANGED <<ep0, hcdc, cmdIn, xfer>>
     ELSE IF ep0.remOut > Mps
     THEN /\ ep0' = USBD_LL_PrepareReceive([ep0 EXCEPT !.remOut = @ - Mps])
          /\ UNCHANGED <<hcdc, cmdIn, xfer>>
     ELSE /\ ep0' = USBD_CtlSendStatus(ep0)
          /\ IF devState = "CONFIGURED" /\ hcdc.cmd # "none"
             THEN /\ hcdc' = [hcdc EXCEPT !.cmd = "none"]
                  /\ xfer' = [xfer EXCEPT !.controls = @ + 1]
             ELSE UNCHANGED <<hcdc, xfer>>
          /\ UNCHANGED cmdIn
  /\ UNCHANGED <<devState, oldState, halts, seen, bus, host>>

\* USBD_LL_SetupStage.  A flag of the last transfer's IN packet that is still
\* latched is looked at after the SETUP packet.  Lengths that nothing reads
\* before they are set again count as zero.
USBD_LL_SetupStage ==
  /\ AtOut
  /\ "OUT0" \notin pend
  /\ "STUP" \in pend
  /\ pend' = pend \ {"STUP"}
  /\ irq' = "in"
  /\ LET r == host.req
         c == [ep0 EXCEPT !.state = "SETUP", !.dataLen = r.w, !.refused = FALSE,
                          !.rem = 0, !.total = 0, !.remOut = 0, !.ptr = 0]
     IN  \/ r.to = "device" /\ USBD_StdDevReq(c, r)
         \/ r.to \in {"class", "interface"} /\ USBD_StdItfReq(c, r)
         \/ r.to \in Eps \cup {EP0} /\ USBD_StdEPReq(c, r)
  /\ UNCHANGED <<bus, host, xfer>>

\* USBD_LL_DataInStage for endpoint 0.
USBD_LL_DataInStage ==
  /\ AtIn
  /\ "IN0" \in pend
  /\ pend' = pend \ {"IN0"}
  /\ irq' = "in"
  /\ ep0' = EP0_DataInStage(ep0)
  /\ UNCHANGED <<dev, halts, notif, bus, host, xfer>>

\* Slip: the second notification is not ticked off.
USBD_CDC_ECM_DataIn_again ==
  /\ AtIn
  /\ "CMD" \in InFlags
  /\ pend' = pend \ {"CMD"}
  /\ irq' = "in"
  /\ IF devState = "CONFIGURED" /\ hcdc.notification # 0
     THEN cmdIn' = "CONNECTION_SPEED_CHANGE"
     ELSE UNCHANGED cmdIn
  /\ UNCHANGED <<dev, ep0, halts, seen, bus, host, xfer>>

\* Slip: the request is ticked off before it is looked at.
USBD_CDC_ECM_DataIn_dropped ==
  /\ AtIn
  /\ "CMD" \in InFlags
  /\ pend' = pend \ {"CMD"}
  /\ irq' = "in"
  /\ hcdc' = [hcdc EXCEPT !.notification = 0]
  /\ UNCHANGED <<devState, oldState, ep0, halts, notif, bus, host, xfer>>

\* USBD_CDC_ECM_DataIn for the command endpoint: the connection was announced,
\* its speed follows.
USBD_CDC_ECM_DataIn ==
  /\ AtIn
  /\ "CMD" \in InFlags
  /\ pend' = pend \ {"CMD"}
  /\ irq' = "in"
  /\ IF devState = "CONFIGURED" /\ hcdc.notification # 0
     THEN /\ cmdIn' = "CONNECTION_SPEED_CHANGE"
          /\ hcdc' = [hcdc EXCEPT !.notification = 0]
     ELSE UNCHANGED <<cmdIn, hcdc>>
  /\ UNCHANGED <<devState, oldState, ep0, halts, seen, bus, host, xfer>>

USBD_LL_Resume ==
  /\ AtBus
  /\ "WKUP" \in pend
  /\ pend' = pend \ {"WKUP"}
  /\ irq' = "in"
  /\ devState' = IF devState = "SUSPENDED" THEN oldState ELSE devState
  /\ oldState' = "DEFAULT"
  /\ UNCHANGED <<hcdc, ep0, halts, notif, bus, host, xfer>>

\* Slip: the handler does not ask whether the bus is still suspended.
USBD_LL_Suspend_blind ==
  /\ AtBus
  /\ "WKUP" \notin pend
  /\ "SUSP" \in pend
  /\ pend' = pend \ {"SUSP"}
  /\ irq' = "in"
  /\ oldState' = devState
  /\ devState' = "SUSPENDED"
  /\ UNCHANGED <<hcdc, ep0, halts, notif, bus, host, xfer>>

USBD_LL_Suspend ==
  /\ AtBus
  /\ "WKUP" \notin pend
  /\ "SUSP" \in pend
  /\ pend' = pend \ {"SUSP"}
  /\ irq' = "in"
  /\ IF bus = "suspended"
     THEN oldState' = devState /\ devState' = "SUSPENDED"
     ELSE UNCHANGED <<oldState, devState>>
  /\ UNCHANGED <<hcdc, ep0, halts, notif, bus, host, xfer>>

\* Slip: the class survives a bus reset.
USBD_LL_Reset_keeping ==
  /\ AtBus
  /\ "RST" \in pend
  /\ pend' = {}
  /\ irq' = "in"
  /\ devState' = "DEFAULT"
  /\ ep0' = [ep0 EXCEPT !.state = "IDLE", !.in = -1, !.out = FALSE,
                        !.stallIn = FALSE, !.stallOut = FALSE]
  /\ hwStall' = {}
  /\ UNCHANGED <<oldState, hcdc, isStall, notif, bus, host, xfer>>

\* USBRST and ENUMDNE (stm32f4xx_hal_pcd.c 1287-1357): flags, packets and STALL
\* bits are cleared, then USBD_LL_Reset deinitialises a class that has a handle.
USBD_LL_Reset ==
  /\ AtBus
  /\ pend \cap {"WKUP", "SUSP"} = {}
  /\ "RST" \in pend
  /\ pend' = {}
  /\ irq' = "in"
  /\ devState' = "DEFAULT"
  /\ ep0' = [ep0 EXCEPT !.state = "IDLE", !.in = -1, !.out = FALSE,
                        !.stallIn = FALSE, !.stallOut = FALSE]
  /\ hwStall' = {}
  /\ IF hcdc.up THEN USBD_CDC_ECM_DeInit ELSE UNCHANGED <<hcdc, notif>>
  /\ UNCHANGED <<oldState, isStall, bus, host, xfer>>

\* The handler returns.
irq_return ==
  /\ irq = "in"
  /\ InFlags = {}
  /\ pend \cap {"WKUP", "SUSP", "RST"} = {}
  /\ irq' = "out"
  /\ UNCHANGED <<dev, ep0, halts, notif, pend, bus, host, xfer>>

HAL_PCD_IRQHandler ==
  \/ USBD_LL_DataOutStage \/ USBD_LL_SetupStage
  \/ USBD_LL_DataInStage \/ USBD_CDC_ECM_DataIn
  \/ USBD_LL_Resume \/ USBD_LL_Suspend \/ USBD_LL_Reset
  \/ irq_return

-----------------------------------------------------------------------------
(* The host and the controller. *)

Active == {"dataIn", "dataOut", "statusIn", "statusOut"}
Ended == {"idle", "done", "stalled", "abandoned"}
BusFlags == {"WKUP", "SUSP", "RST"}

\* The handler has yet to look at a packet that it will act on.
Unhandled == "IN0" \in pend \/ ("OUT0" \in pend /\ ep0.state = "DATA_OUT")

\* A SETUP packet: the controller takes it in any state, clears the STALL bits
\* of endpoint 0 and answers NAK until a packet is armed again.  The host
\* sends class requests to a device that it has configured.  When it asks for a
\* configuration so early that the answer may be the last transfer's, what it
\* makes of the answer is not followed.
HostSetup(r) ==
  /\ host.phase \in Ended
  /\ bus = "active"
  /\ pend \cap BusFlags = {}
  /\ r.to = "class" => host.cfg = 1
  /\ host' = [host EXCEPT
                !.req = r, !.got = 0, !.intact = TRUE, !.inOrder = TRUE,
                !.cfg = IF r.b = "SET_CONFIGURATION" /\ Unhandled THEN Unknown ELSE @,
                !.phase = IF r.w = 0 THEN "statusIn"
                          ELSE IF DeviceToHost(r) THEN "dataIn" ELSE "dataOut"]
  /\ ep0' = [ep0 EXCEPT !.in = -1, !.out = FALSE, !.stallIn = FALSE, !.stallOut = FALSE]
  /\ pend' = pend \cup {"STUP"}
  /\ xfer' = [overtaken |-> Unhandled, controls |-> 0]
  /\ UNCHANGED <<dev, halts, notif, irq, bus>>

\* An IN packet of the data stage.  What a dead stack frame holds by then is
\* anybody's guess.
HostDataIn ==
  /\ host.phase = "dataIn"
  /\ ep0.in >= 0
  /\ ~ep0.stallIn
  /\ \E intact \in BOOLEAN :
       /\ ep0.src = "static" => intact
       /\ LET got == host.got + ep0.in
          IN  host' = [host EXCEPT
                         !.got = got,
                         !.intact = @ /\ intact,
                         !.inOrder = @ /\ (ep0.in > 0 => host.got = ep0.ptr),
                         !.phase = IF ep0.in < Mps \/ got >= host.req.w
                                   THEN "statusOut" ELSE "dataIn"]
  /\ ep0' = [ep0 EXCEPT !.in = -1, !.ptr = @ + ep0.in]
  /\ pend' = pend \cup {"IN0"}
  /\ UNCHANGED <<dev, halts, notif, irq, bus, xfer>>

\* An OUT packet of the data stage; got counts the bytes sent.
HostDataOut ==
  /\ host.phase = "dataOut"
  /\ ep0.out
  /\ ~ep0.stallOut
  /\ LET sent == host.got + Lesser(Mps, host.req.w - host.got)
     IN  host' = [host EXCEPT
                    !.got = sent,
                    !.phase = IF sent = host.req.w THEN "statusIn" ELSE "dataOut"]
  /\ ep0' = [ep0 EXCEPT !.out = FALSE]
  /\ pend' = pend \cup {"OUT0"}
  /\ UNCHANGED <<dev, halts, notif, irq, bus, xfer>>

\* The empty IN packet of the status stage; it completes SET_CONFIGURATION.
HostStatusIn ==
  /\ host.phase = "statusIn"
  /\ ep0.in = 0
  /\ ~ep0.stallIn
  /\ host' = [host EXCEPT
                !.phase = "done",
                !.cfg = IF host.req.b = "SET_CONFIGURATION" /\ ~xfer.overtaken
                        THEN host.req.v ELSE @]
  /\ ep0' = [ep0 EXCEPT !.in = -1]
  /\ pend' = pend \cup {"IN0"}
  /\ UNCHANGED <<dev, halts, notif, irq, bus, xfer>>

\* The empty OUT packet of the status stage.
HostStatusOut ==
  /\ host.phase = "statusOut"
  /\ ep0.out
  /\ ~ep0.stallOut
  /\ host' = [host EXCEPT !.phase = "done"]
  /\ ep0' = [ep0 EXCEPT !.out = FALSE]
  /\ pend' = pend \cup {"OUT0"}
  /\ UNCHANGED <<dev, halts, notif, irq, bus, xfer>>

\* Endpoint 0 answers STALL in the stage that the host is in.
Stalled ==
  \/ host.phase \in {"dataIn", "statusIn"} /\ ep0.stallIn
  \/ host.phase \in {"dataOut", "statusOut"} /\ ep0.stallOut

HostStalled ==
  /\ Stalled
  /\ host' = [host EXCEPT !.phase = "stalled"]
  /\ UNCHANGED <<dev, ep0, halts, notif, pend, irq, bus, xfer>>

\* Endpoint 0 answers with the packet that the host's stage calls for, or STALL.
Served ==
  \/ Stalled
  \/ host.phase = "dataIn" /\ ep0.in >= 0
  \/ host.phase = "statusIn" /\ ep0.in = 0
  \/ host.phase \in {"dataOut", "statusOut"} /\ ep0.out

\* The device has nothing left to do and does not answer: the host gives up.
HostGivesUp ==
  /\ host.phase \in Active
  /\ pend = {}
  /\ ~Served
  /\ host' = [host EXCEPT !.phase = "abandoned"]
  /\ UNCHANGED <<dev, ep0, halts, notif, pend, irq, bus, xfer>>

\* The host polls the command endpoint of a device that it has configured.
HostPollsCmd ==
  /\ host.cfg = 1
  /\ bus = "active"
  /\ pend \cap BusFlags = {}
  /\ hcdc.up
  /\ cmdIn # NoPacket
  /\ CMD_EP \notin hwStall
  /\ seen' = Append(seen, cmdIn)
  /\ cmdIn' = NoPacket
  /\ pend' = pend \cup {"CMD"}
  /\ UNCHANGED <<dev, ep0, halts, irq, bus, host, xfer>>

\* Three milliseconds without traffic: the handler has had its time.
HostSuspends ==
  /\ host.phase \in Ended
  /\ bus = "active"
  /\ pend = {}
  /\ irq = "out"
  /\ bus' = "suspended"
  /\ pend' = pend \cup {"SUSP"}
  /\ UNCHANGED <<dev, ep0, halts, notif, irq, host, xfer>>

HostResumes ==
  /\ bus = "suspended"
  /\ bus' = "active"
  /\ pend' = pend \cup {"WKUP"}
  /\ UNCHANGED <<dev, ep0, halts, notif, irq, host, xfer>>

\* A bus reset, or the cable is plugged in again; it wakes a suspended device.
HostResets ==
  /\ "RST" \notin pend
  /\ pend' = pend \cup {"RST"} \cup IF bus = "suspended" THEN {"WKUP"} ELSE {}
  /\ bus' = "active"
  /\ host' = [host EXCEPT !.phase = "idle", !.cfg = 0]
  /\ UNCHANGED <<dev, ep0, halts, notif, irq, xfer>>

Host ==
  \/ \E r \in Requests : HostSetup(r)
  \/ HostDataIn \/ HostDataOut \/ HostStatusIn \/ HostStatusOut
  \/ HostStalled \/ HostGivesUp \/ HostPollsCmd
  \/ HostSuspends \/ HostResumes \/ HostResets

-----------------------------------------------------------------------------
\* After usb_ecm_init: the device waits for its first bus reset.
Init ==
  /\ devState = "DEFAULT"
  /\ oldState = "DEFAULT"
  /\ hcdc = NoHandle
  /\ ep0 = [state |-> "IDLE", dataLen |-> 0, rem |-> 0, total |-> 0, remOut |-> 0,
            ptr |-> 0, src |-> "static", in |-> -1, out |-> FALSE,
            stallIn |-> FALSE, stallOut |-> FALSE, refused |-> FALSE]
  /\ isStall = {}
  /\ hwStall = {}
  /\ cmdIn = NoPacket
  /\ seen = <<>>
  /\ pend = {"RST"}
  /\ irq = "out"
  /\ bus = "active"
  /\ host = [phase |-> "idle", req |-> Request("device", "GET_STATUS", 0, 2), got |-> 0,
             cfg |-> 0, intact |-> TRUE, inOrder |-> TRUE]
  /\ xfer = [overtaken |-> FALSE, controls |-> 0]

Next == HAL_PCD_IRQHandler \/ Host

Spec == Init /\ [][Next]_vars

-----------------------------------------------------------------------------
(* Properties. *)

DevStates == {"DEFAULT", "ADDRESSED", "CONFIGURED", "SUSPENDED"}
Notifications == {"NETWORK_CONNECTION", "CONNECTION_SPEED_CHANGE"}

\* The type of every variable.
TypeOK ==
  /\ devState \in DevStates
  /\ oldState \in DevStates
  /\ hcdc = NoHandle \/ hcdc \in [up : {TRUE}, link : 0..1, notification : 0..1,
                                  cmd : {"none", "SET_ETH_MULTICAST_FILTERS"}]
  /\ ep0 \in [state : {"IDLE", "SETUP", "DATA_IN", "DATA_OUT", "STATUS_IN", "STATUS_OUT"},
              dataLen : Nat, rem : Nat, total : Nat, remOut : Nat, ptr : Nat,
              src : {"static", "stack"}, in : -1..Mps, out : BOOLEAN,
              stallIn : BOOLEAN, stallOut : BOOLEAN, refused : BOOLEAN]
  /\ isStall \subseteq Eps
  /\ hwStall \subseteq Eps
  /\ cmdIn \in Notifications \cup {NoPacket}
  /\ seen \in Seq(Notifications)
  /\ pend \subseteq {"OUT0", "STUP", "IN0", "CMD", "WKUP", "SUSP", "RST"}
  /\ irq \in {"out", "in"}
  /\ bus \in {"active", "suspended"}
  /\ host \in [phase : Active \cup Ended, req : Requests, got : Nat, cfg : {0, 1, Unknown},
               intact : BOOLEAN, inOrder : BOOLEAN]
  /\ xfer \in [overtaken : BOOLEAN, controls : Nat]

\* What the class and the network code rely on, suspends left out.
Device == INSTANCE UsbDevice WITH
  state <- IF devState = "SUSPENDED" THEN oldState ELSE devState,
  up <- hcdc.up

DeviceSpec == Device!Spec

\* With no flag left to handle, the device counts as suspended exactly while
\* the bus is: no order of suspend, wake-up and reset leaves it stuck.
SuspendMatchesBus == pend = {} => (devState = "SUSPENDED" <=> bus = "suspended")

\* With no transfer and no flag under way, the host's view of the
\* configuration and the class's agree.
ConfigAgreed ==
  host.phase \in Ended /\ pend = {} /\ host.cfg # Unknown => (host.cfg = 1 <=> hcdc.up)

\* What the device has to say to request r: that many bytes.
Reply(r) ==
  CASE r.b = "GET_DESCRIPTOR" -> r.v
    [] r.b = "GET_ENCAPSULATED_RESPONSE" -> r.w
    [] r.b = "GET_STATUS" -> 2
    [] OTHER -> 1

\* A control read that completes has returned the whole reply, cut at wLength,
\* each byte once and in order, unless its SETUP packet overtook the handler:
\* a packet of the transfer before was still to be acted on.
ReplyComplete ==
  host.phase = "done" /\ DeviceToHost(host.req) /\ host.req.w > 0 /\ ~xfer.overtaken
    => host.got = Lesser(Reply(host.req), host.req.w) /\ host.inOrder

\* The host sees STALL exactly for the requests that the device refuses, with
\* the same exception.
StallMeansRefused ==
  /\ host.phase = "stalled" /\ ~xfer.overtaken => ep0.refused
  /\ host.phase = "done" /\ ~xfer.overtaken /\ pend = {} => ~ep0.refused

\* The requests that the library leaves without any answer: features that the
\* recipient does not know.
NeverAnswered(r) ==
  \/ r.to = "device" /\ r.b \in {"SET_FEATURE", "CLEAR_FEATURE"} /\ r.v = 0
  \/ r.to \in Eps \cup {EP0} /\ r.b = "CLEAR_FEATURE" /\ r.v = 0

\* When the handler has nothing left to do, endpoint 0 is ready for the stage
\* that the host's transfer is in: no other request hangs.
Answered ==
  pend = {} /\ host.phase \in Active /\ ~NeverAnswered(host.req) /\ ~xfer.overtaken
    => Served

\* A class command with data that completes has been handed to the interface
\* exactly once, with the same exception.
ControlOnce ==
  host.phase = "done" /\ host.req.b = "SET_ETH_MULTICAST_FILTERS" /\ ~xfer.overtaken
    => xfer.controls = 1

\* In a session the host hears of the connection once, and of its speed once,
\* after it.
NotificationsInOrder ==
  seen \in {<<>>, <<"NETWORK_CONNECTION">>,
            <<"NETWORK_CONNECTION", "CONNECTION_SPEED_CHANGE">>}

\* Once the interface has announced the link, the rest of the announcement is
\* under way until the host has heard all of it: no flag of an earlier session
\* or transfer swallows it.
NotificationUnderWay ==
  hcdc.up /\ hcdc.link = 1
    => Len(seen) = 2 \/ cmdIn # NoPacket \/ "CMD" \in pend

\* An endpoint that answers STALL is one that GET_STATUS reports as halted.
HaltTracked == hwStall \subseteq isStall

\* Nothing is left armed for the host when its transfer is over: the condition
\* of the zero-length packet compares the reply's length with wLength.
NoLeftover == host.phase = "done" /\ pend = {} => ep0.in = -1

\* The host receives the bytes that the handler of its request wrote.
ReplyIntact == host.intact

=============================================================================
