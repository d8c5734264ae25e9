----------------------------- MODULE Usbd_proofs -----------------------------
(***************************************************************************)
(* Proofs about Usbd for every value of the constants: suspend never gets  *)
(* stuck, the library implements the device of UsbDevice, the link is      *)
(* announced once and in order, the host and the class agree on the        *)
(* configuration, and a control transfer that overtakes no packet of the   *)
(* one before is answered, in full and once.                               *)
(***************************************************************************)
EXTENDS Usbd, TLAPS, SequenceTheorems

AwakeStates == {"DEFAULT", "ADDRESSED", "CONFIGURED"}

\* The device with suspends left out.
AbsState == IF devState = "SUSPENDED" THEN oldState ELSE devState

\* hcdc has a field up; what else it has does not matter here.
HandleInv == "up" \in DOMAIN hcdc /\ hcdc.up \in BOOLEAN

\* The class is up exactly while the device, suspended or not, is configured.
ClassInv ==
  /\ devState \in DevStates
  /\ AbsState \in AwakeStates
  /\ HandleInv
  /\ hcdc.up <=> AbsState = "CONFIGURED"

\* Where a suspended bus and a suspended device can be: with no transfer and
\* only these flags.  A device that sleeps on an active bus has a wake-up flag
\* to come; an awake device on a suspended bus has a suspend flag to come.
SuspendInv ==
  /\ bus \in {"active", "suspended"}
  /\ bus = "suspended" =>
       /\ host.phase \in Ended
       /\ pend \subseteq {"SUSP"}
       /\ "SUSP" \in pend \/ devState = "SUSPENDED"
  /\ devState = "SUSPENDED" =>
       /\ host.phase \in Ended
       /\ pend \subseteq {"WKUP", "RST"}
       /\ bus = "active" => "WKUP" \in pend

IInv == ClassInv /\ SuspendInv

LEMMA InitIInv == Init => IInv
BY DEF Init, IInv, ClassInv, SuspendInv, DevStates, AbsState, AwakeStates, HandleInv, NoHandle

-----------------------------------------------------------------------------
(* What a request does to the device and the class. *)

\* A step of the abstract device by a library that is not suspended.
AwakeStep ==
  /\ devState' \in AwakeStates
  /\ oldState' = oldState
  /\ HandleInv'
  /\ hcdc'.up <=> devState' = "CONFIGURED"
  /\ \/ devState' = devState
     \/ devState # "CONFIGURED" /\ devState' \in {"DEFAULT", "ADDRESSED"}
     \/ devState = "ADDRESSED" /\ devState' = "CONFIGURED"
     \/ devState = "CONFIGURED" /\ devState' = "ADDRESSED"

Awake == devState \in AwakeStates /\ HandleInv /\ (hcdc.up <=> devState = "CONFIGURED")

\* Changing another field of the handle leaves up alone.
LEMMA FieldKept ==
  ASSUME NEW h, "up" \in DOMAIN h, NEW f \in {"link", "notification", "cmd"}, NEW x
  PROVE  /\ "up" \in DOMAIN [h EXCEPT ![f] = x]
         /\ [h EXCEPT ![f] = x].up = h.up
OBVIOUS

LEMMA StdDevReqStep ==
  ASSUME Awake, NEW c, NEW r, USBD_StdDevReq(c, r)
  PROVE  AwakeStep
<1>1. CASE USBD_SetAddress(c, r)
  BY <1>1 DEF USBD_StdDevReq, USBD_SetAddress, Awake, AwakeStep, AwakeStates, HandleInv
<1>2. CASE USBD_SetConfig(c, r)
  <2>1. Handle.up = TRUE /\ "up" \in DOMAIN Handle /\ NoHandle.up = FALSE /\ "up" \in DOMAIN NoHandle
    BY DEF Handle, NoHandle
  <2>2. QED
    BY <1>2, <2>1
       DEF USBD_StdDevReq, USBD_SetConfig, USBD_CDC_ECM_Init, USBD_CDC_ECM_DeInit,
           Awake, AwakeStep, AwakeStates, HandleInv
<1>3. CASE UNCHANGED <<devState, hcdc>>
  BY <1>3 DEF USBD_StdDevReq, Awake, AwakeStep, HandleInv
<1>4. QED BY <1>1, <1>2, <1>3 DEF USBD_StdDevReq

LEMMA ItfControlKeepsUp ==
  ASSUME HandleInv, NEW b, CDC_ECM_Itf_Control(b)
  PROVE  HandleInv' /\ hcdc'.up = hcdc.up
<1>1. CASE hcdc' = hcdc
  BY <1>1 DEF HandleInv
<1>2. CASE hcdc' = [hcdc EXCEPT !.link = 1]
  BY <1>2, FieldKept DEF HandleInv
<1>3. CASE hcdc' = [hcdc EXCEPT !.link = 1, !.notification = 1]
  <2>1. hcdc' = [[hcdc EXCEPT !.link = 1] EXCEPT !.notification = 1]
    BY <1>3
  <2>2. QED BY <2>1, FieldKept DEF HandleInv
<1>4. QED BY <1>1, <1>2, <1>3 DEF CDC_ECM_Itf_Control

LEMMA StdItfReqStep ==
  ASSUME Awake, NEW c, NEW r, USBD_StdItfReq(c, r)
  PROVE  AwakeStep
<1>1. HandleInv' /\ hcdc'.up = hcdc.up
  <2>1. CASE UNCHANGED hcdc
    BY <2>1 DEF Awake, HandleInv
  <2>2. CASE CDC_ECM_Itf_Control(r.b)
    BY <2>2, ItfControlKeepsUp DEF Awake
  <2>3. CASE hcdc' = [hcdc EXCEPT !.cmd = r.b]
    BY <2>3, FieldKept DEF Awake, HandleInv
  <2>4. QED BY <2>1, <2>2, <2>3 DEF USBD_StdItfReq, ClassSetup
<1>2. QED BY <1>1 DEF USBD_StdItfReq, Awake, AwakeStep

LEMMA StdEPReqStep ==
  ASSUME Awake, NEW c, NEW r, USBD_StdEPReq(c, r)
  PROVE  AwakeStep
BY DEF USBD_StdEPReq, dev, Awake, AwakeStep, HandleInv

LEMMA SetupStageStep ==
  ASSUME IInv, USBD_LL_SetupStage
  PROVE  Awake /\ AwakeStep
<1>1. Awake
  BY DEF IInv, ClassInv, SuspendInv, USBD_LL_SetupStage, Awake, AbsState, DevStates, AwakeStates
<1>2. QED BY <1>1, StdDevReqStep, StdItfReqStep, StdEPReqStep DEF USBD_LL_SetupStage

-----------------------------------------------------------------------------
(* Every step of the system is a step of the abstract device, or a stutter. *)

DeviceStep == [Device!Next]_(Device!vars)

\* A step that leaves the device's state and the field up alone.
LEMMA QuietStep ==
  ASSUME ClassInv, devState' = devState, oldState' = oldState,
         HandleInv', hcdc'.up = hcdc.up
  PROVE  ClassInv' /\ DeviceStep
BY DEF ClassInv, AbsState, DeviceStep, Device!vars

LEMMA NextClassInv ==
  ASSUME IInv, [Next]_vars
  PROVE  ClassInv' /\ DeviceStep
<1>a. ClassInv /\ SuspendInv /\ HandleInv
  BY DEF IInv, ClassInv
<1>1. CASE USBD_LL_SetupStage
  <2>1. Awake /\ AwakeStep
    BY <1>1, SetupStageStep
  <2>2. ClassInv'
    BY <2>1 DEF AwakeStep, AwakeStates, ClassInv, AbsState, DevStates
  <2>3. DeviceStep
    BY <2>1
       DEF Awake, AwakeStep, AwakeStates, HandleInv, DeviceStep, Device!Next, Device!Address,
           Device!Configure, Device!Deconfigure, Device!vars
  <2>4. QED BY <2>2, <2>3
<1>2. CASE USBD_LL_DataOutStage
  <2>1. HandleInv' /\ hcdc'.up = hcdc.up
    <3>1. CASE hcdc' = hcdc
      BY <3>1, <1>a DEF HandleInv
    <3>2. CASE hcdc' = [hcdc EXCEPT !.cmd = "none"]
      BY <3>2, <1>a, FieldKept DEF HandleInv
    <3>3. QED BY <1>2, <3>1, <3>2 DEF USBD_LL_DataOutStage
  <2>2. QED BY <1>2, <1>a, <2>1, QuietStep DEF USBD_LL_DataOutStage
<1>3. CASE USBD_CDC_ECM_DataIn
  <2>1. HandleInv' /\ hcdc'.up = hcdc.up
    <3>1. CASE hcdc' = hcdc
      BY <3>1, <1>a DEF HandleInv
    <3>2. CASE hcdc' = [hcdc EXCEPT !.notification = 0]
      BY <3>2, <1>a, FieldKept DEF HandleInv
    <3>3. QED BY <1>3, <3>1, <3>2 DEF USBD_CDC_ECM_DataIn
  <2>2. QED BY <1>3, <1>a, <2>1, QuietStep DEF USBD_CDC_ECM_DataIn
<1>4. CASE USBD_LL_Resume
  BY <1>4, <1>a
     DEF USBD_LL_Resume, ClassInv, HandleInv, AbsState, AwakeStates, DevStates,
         DeviceStep, Device!vars
<1>5. CASE USBD_LL_Suspend
  <2>1. devState # "SUSPENDED"
    BY <1>5, <1>a DEF USBD_LL_Suspend, SuspendInv
  <2>2. QED
    BY <1>5, <1>a, <2>1
       DEF USBD_LL_Suspend, ClassInv, HandleInv, AbsState, AwakeStates, DevStates,
           DeviceStep, Device!vars
<1>6. CASE USBD_LL_Reset
  <2>1. devState' = "DEFAULT" /\ HandleInv' /\ hcdc'.up = FALSE
    <3>1. NoHandle.up = FALSE /\ "up" \in DOMAIN NoHandle
      BY DEF NoHandle
    <3>2. CASE hcdc.up
      <4>1. devState' = "DEFAULT" /\ hcdc' = NoHandle
        BY <1>6, <3>2 DEF USBD_LL_Reset, USBD_CDC_ECM_DeInit
      <4>2. QED BY <3>1, <4>1 DEF HandleInv
    <3>3. CASE ~hcdc.up
      <4>1. devState' = "DEFAULT" /\ hcdc' = hcdc
        BY <1>6, <3>3 DEF USBD_LL_Reset
      <4>2. QED BY <1>a, <3>3, <4>1 DEF HandleInv
    <3>4. QED BY <3>2, <3>3
  <2>2. QED
    BY <2>1 DEF ClassInv, AbsState, AwakeStates, DevStates, DeviceStep, Device!Next, Device!Reset
<1>7. CASE UNCHANGED dev
  <2>1. devState' = devState /\ oldState' = oldState /\ HandleInv' /\ hcdc'.up = hcdc.up
    BY <1>7, <1>a DEF dev, HandleInv
  <2>2. QED BY <2>1, <1>a, QuietStep
<1>8. QED
  BY <1>1, <1>2, <1>3, <1>4, <1>5, <1>6, <1>7
     DEF Next, vars, HAL_PCD_IRQHandler, USBD_LL_DataInStage, irq_return, Host, HostSetup,
         HostDataIn, HostDataOut, HostStatusIn, HostStatusOut, HostStalled, HostGivesUp,
         HostPollsCmd, HostSuspends, HostResumes, HostResets

-----------------------------------------------------------------------------
(* Suspend and wake-up. *)

\* A step that moves neither the bus nor the host's stage nor the device's sleep,
\* and latches no flag.
LEMMA SleepKept ==
  ASSUME SuspendInv, UNCHANGED <<bus, host>>, devState = "SUSPENDED" <=> devState' = "SUSPENDED",
         pend' \subseteq pend, pend' \cap BusFlags = pend \cap BusFlags
  PROVE  SuspendInv'
BY DEF SuspendInv, BusFlags

LEMMA NextSuspendInv ==
  ASSUME IInv, [Next]_vars
  PROVE  SuspendInv'
<1>a. SuspendInv
  BY DEF IInv
<1>1. CASE HAL_PCD_IRQHandler
  <2>1. CASE USBD_LL_SetupStage
    <3>1. Awake /\ AwakeStep
      BY <2>1, SetupStageStep
    <3>2. (devState = "SUSPENDED" <=> devState' = "SUSPENDED") /\ pend' = pend \ {"STUP"}
      BY <2>1, <3>1 DEF USBD_LL_SetupStage, Awake, AwakeStep, AwakeStates
    <3>3. UNCHANGED <<bus, host>>
      BY <2>1 DEF USBD_LL_SetupStage
    <3>4. QED BY <1>a, <3>2, <3>3, SleepKept DEF BusFlags
  <2>2. CASE USBD_LL_DataOutStage
    BY <1>a, <2>2, SleepKept DEF USBD_LL_DataOutStage, BusFlags
  <2>3. CASE USBD_LL_DataInStage
    BY <1>a, <2>3, SleepKept DEF USBD_LL_DataInStage, BusFlags, dev
  <2>4. CASE USBD_CDC_ECM_DataIn
    BY <1>a, <2>4, SleepKept DEF USBD_CDC_ECM_DataIn, BusFlags
  <2>5. CASE irq_return
    BY <1>a, <2>5, SleepKept DEF irq_return, dev
  <2>6. CASE USBD_LL_Resume
    <3>1. oldState # "SUSPENDED" \/ devState # "SUSPENDED"
      BY DEF IInv, ClassInv, AbsState, AwakeStates
    <3>2. devState' # "SUSPENDED"
      BY <2>6, <3>1 DEF USBD_LL_Resume
    <3>3. bus = "active"
      BY <1>a, <2>6 DEF USBD_LL_Resume, SuspendInv
    <3>4. QED BY <1>a, <2>6, <3>2, <3>3 DEF USBD_LL_Resume, SuspendInv
  <2>7. CASE USBD_LL_Suspend
    BY <1>a, <2>7 DEF USBD_LL_Suspend, SuspendInv
  <2>8. CASE USBD_LL_Reset
    BY <1>a, <2>8 DEF USBD_LL_Reset, SuspendInv
  <2>9. QED
    BY <1>1, <2>1, <2>2, <2>3, <2>4, <2>5, <2>6, <2>7, <2>8 DEF HAL_PCD_IRQHandler
<1>2. CASE Host
  <2>1. ASSUME NEW r \in Requests, HostSetup(r)
        PROVE  SuspendInv'
    BY <1>a, <2>1 DEF HostSetup, SuspendInv, dev, BusFlags
  <2>2. CASE HostDataIn \/ HostDataOut \/ HostStatusIn \/ HostStatusOut \/ HostStalled \/ HostGivesUp
    <3>1. host.phase \in Active
      BY <2>2 DEF HostDataIn, HostDataOut, HostStatusIn, HostStatusOut, HostStalled, Stalled,
                  HostGivesUp, Active
    <3>2. bus = "active" /\ devState # "SUSPENDED"
      BY <1>a, <3>1 DEF SuspendInv, Active, Ended
    <3>3. UNCHANGED <<bus, devState>>
      BY <2>2 DEF HostDataIn, HostDataOut, HostStatusIn, HostStatusOut, HostStalled,
                  HostGivesUp, dev
    <3>4. QED BY <3>2, <3>3 DEF SuspendInv
  <2>3. CASE HostPollsCmd
    BY <1>a, <2>3 DEF HostPollsCmd, SuspendInv, dev, BusFlags
  <2>4. CASE HostSuspends
    BY <1>a, <2>4 DEF HostSuspends, SuspendInv, dev
  <2>5. CASE HostResumes
    BY <1>a, <2>5 DEF HostResumes, SuspendInv, dev
  <2>6. CASE HostResets
    <3>1. host'.phase = "idle" \/ devState # "SUSPENDED"
      BY <2>6 DEF HostResets
    <3>2. QED BY <1>a, <2>6, <3>1 DEF HostResets, SuspendInv, dev, Ended
  <2>7. QED BY <1>2, <2>1, <2>2, <2>3, <2>4, <2>5, <2>6 DEF Host
<1>3. CASE UNCHANGED vars
  BY <1>a, <1>3, SleepKept DEF vars, dev
<1>4. QED BY <1>1, <1>2, <1>3 DEF Next

-----------------------------------------------------------------------------
(* Halts: only SetStall and ClrStall touch both, a bus reset only the STALL bits. *)

LEMMA NextHaltTracked ==
  ASSUME HaltTracked, [Next]_vars
  PROVE  HaltTracked'
<1>1. ASSUME NEW e, SetStall(e)
      PROVE  HaltTracked'
  BY <1>1 DEF SetStall, HaltTracked
<1>2. ASSUME NEW e, ClrStall(e)
      PROVE  HaltTracked'
  BY <1>2 DEF ClrStall, HaltTracked
<1>3. CASE hwStall' = {}
  BY <1>3 DEF HaltTracked
<1>4. CASE UNCHANGED halts
  BY <1>4 DEF halts, HaltTracked
<1>5. CASE USBD_LL_SetupStage
  <2>1. ASSUME NEW c, NEW r, USBD_StdEPReq(c, r)
        PROVE  HaltTracked'
    BY <2>1, <1>1, <1>2, <1>4 DEF USBD_StdEPReq
  <2>2. QED BY <1>5, <1>4, <2>1 DEF USBD_LL_SetupStage, USBD_StdDevReq, USBD_StdItfReq
<1>6. QED
  BY <1>3, <1>4, <1>5
     DEF Next, vars, HAL_PCD_IRQHandler, USBD_LL_DataOutStage, USBD_LL_DataInStage,
         USBD_CDC_ECM_DataIn, USBD_LL_Resume, USBD_LL_Suspend, USBD_LL_Reset, irq_return,
         Host, HostSetup, HostDataIn, HostDataOut, HostStatusIn, HostStatusOut, HostStalled,
         HostGivesUp, HostPollsCmd, HostSuspends, HostResumes, HostResets

-----------------------------------------------------------------------------
(* The theorems. *)

\* IInv holds in every state of the system.
THEOREM Inductive == Spec => []IInv
<1>1. IInv /\ [Next]_vars => IInv'
  BY NextClassInv, NextSuspendInv DEF IInv
<1>2. QED BY InitIInv, <1>1, PTL DEF Spec

\* With no flag left to handle the device counts as suspended exactly while the
\* bus is, in whatever order suspends, wake-ups and resets came.
THEOREM SuspendIsTracked == Spec => []SuspendMatchesBus
<1>1. IInv => SuspendMatchesBus
  BY DEF IInv, SuspendInv, SuspendMatchesBus
<1>2. QED BY <1>1, Inductive, PTL

\* An endpoint that answers STALL is one that the library knows to be halted.
THEOREM HaltsAreTracked == Spec => []HaltTracked
<1>1. Init => HaltTracked
  BY DEF Init, HaltTracked
<1>2. HaltTracked /\ [Next]_vars => HaltTracked'
  BY NextHaltTracked
<1>3. QED BY <1>1, <1>2, PTL DEF Spec

\* The control pipe, the class and suspend together implement the device that
\* the receive path relies on.
THEOREM DeviceImplemented == Spec => DeviceSpec
<1>1. Init => Device!Init
  BY DEF Init, NoHandle, Device!Init
<1>2. IInv /\ [Next]_vars => [Device!Next]_(Device!vars)
  BY NextClassInv DEF DeviceStep
<1>3. QED BY <1>1, <1>2, Inductive, PTL DEF Spec, DeviceSpec, Device!Spec

-----------------------------------------------------------------------------
(* The announcement of the link. *)

Announced(n, c, s, f) ==
  hcdc.notification = n /\ cmdIn = c /\ seen = s /\ ("CMD" \in pend => f)

\* How far the announcement has come in a session, and where the flag of the
\* command endpoint can come from: before the packet filter request it is the
\* last session's, and the handler takes it before it returns, that is before it
\* takes the request.
NotifInv ==
  IF ~hcdc.up THEN seen = <<>>
  ELSE
    /\ {"link", "notification"} \subseteq DOMAIN hcdc
    /\ \/ hcdc.link = 0 /\ Announced(0, NoPacket, <<>>, irq = "in")
       \/ hcdc.link = 1 /\ Announced(1, "NETWORK_CONNECTION", <<>>, FALSE)
       \/ /\ hcdc.link = 1 /\ Announced(1, NoPacket, <<"NETWORK_CONNECTION">>, TRUE)
          /\ "CMD" \in pend
       \/ /\ hcdc.link = 1
          /\ Announced(0, "CONNECTION_SPEED_CHANGE", <<"NETWORK_CONNECTION">>, FALSE)
       \/ /\ hcdc.link = 1
          /\ Announced(0, NoPacket, <<"NETWORK_CONNECTION", "CONNECTION_SPEED_CHANGE">>, TRUE)

\* A sequence of one, continued.
LEMMA AppendPair ==
  ASSUME NEW a, NEW b
  PROVE  Append(<<a>>, b) = <<a, b>>
<1> DEFINE S == {a, b}
           s == Append(<<a>>, b)
           t == <<a, b>>
<1>1. <<a>> \in Seq(S) /\ t \in Seq(S) /\ Len(<<a>>) = 1 /\ Len(t) = 2 /\ t[1] = a /\ t[2] = b
  OBVIOUS
<1>2. s \in Seq(S) /\ Len(s) = 2 /\ s[1] = a /\ s[2] = b
  BY <1>1, AppendProperties
<1> HIDE DEF s, t, S
<1>3. s = t
  BY <1>1, <1>2, SeqEqual
<1>4. QED BY <1>3 DEF s, t

\* A step that leaves the class alone, latches no flag of the command endpoint
\* and takes none, and does not make the handler return to that flag.
LEMMA NotifKept ==
  ASSUME NotifInv, UNCHANGED <<hcdc, cmdIn, seen>>,
         "CMD" \in pend' <=> "CMD" \in pend,
         irq' = irq \/ irq' = "in" \/ "CMD" \notin pend \/ irq = "out"
  PROVE  NotifInv'
BY DEF NotifInv, Announced

\* A new handle: nothing was announced.
LEMMA NotifInit ==
  ASSUME USBD_CDC_ECM_Init, irq' = "in"
  PROVE  NotifInv'
BY DEF USBD_CDC_ECM_Init, NotifInv, Announced, Handle

\* No handle: nothing was announced.
LEMMA NotifDeInit ==
  ASSUME USBD_CDC_ECM_DeInit
  PROVE  NotifInv'
BY DEF USBD_CDC_ECM_DeInit, NotifInv, NoHandle

\* A request.
LEMMA SetupNotif ==
  ASSUME IInv, NotifInv, USBD_LL_SetupStage
  PROVE  NotifInv'
<1>1. irq = "out" /\ irq' = "in" /\ pend' = pend \ {"STUP"}
  BY DEF USBD_LL_SetupStage, AtOut
<1>2. CASE UNCHANGED <<hcdc, cmdIn, seen>>
  BY <1>1, <1>2, NotifKept
<1>3. ASSUME NEW c, NEW r, USBD_StdDevReq(c, r)
      PROVE  NotifInv'
  BY <1>1, <1>2, <1>3, NotifInit, NotifDeInit
     DEF USBD_StdDevReq, USBD_SetAddress, USBD_SetConfig, notif
<1>4. ASSUME NEW c, NEW r, ClassSetup(c, r), UNCHANGED seen
      PROVE  NotifInv'
  <2>1. CASE hcdc' = [hcdc EXCEPT !.cmd = r.b] /\ UNCHANGED cmdIn
    BY <1>1, <1>4, <2>1 DEF NotifInv, Announced
  <2>2. ASSUME CDC_ECM_Itf_Control(r.b), hcdc.up, hcdc.link = 0
        PROVE  NotifInv'
    <3>1. hcdc.notification = 0 /\ seen = <<>> /\ "CMD" \notin pend
          /\ {"link", "notification"} \subseteq DOMAIN hcdc
      BY <1>1, <2>2 DEF NotifInv, Announced
    <3>2. CASE UNCHANGED <<hcdc, cmdIn>>
      BY <1>2, <1>4, <3>2
    <3>3. CASE hcdc' = [hcdc EXCEPT !.link = 1, !.notification = 1] /\ cmdIn' = "NETWORK_CONNECTION"
      <4>1. hcdc'.link = 1 /\ hcdc'.notification = 1 /\ DOMAIN hcdc' = DOMAIN hcdc
        BY <3>1, <3>3
      <4>2. QED BY <1>1, <1>4, <3>1, <3>3, <4>1 DEF NotifInv, Announced
    <3>4. QED BY <2>2, <3>1, <3>2, <3>3 DEF CDC_ECM_Itf_Control
  <2>3. ASSUME CDC_ECM_Itf_Control(r.b), hcdc.up, hcdc.link # 0
        PROVE  NotifInv'
    BY <1>2, <1>4, <2>3 DEF CDC_ECM_Itf_Control
  <2>4. ASSUME CDC_ECM_Itf_Control(r.b), ~hcdc.up
        PROVE  NotifInv'
    BY <1>4, <2>4, ItfControlKeepsUp DEF IInv, ClassInv, NotifInv
  <2>5. QED BY <1>4, <2>1, <2>2, <2>3, <2>4 DEF ClassSetup
<1>5. ASSUME NEW c, NEW r, USBD_StdItfReq(c, r)
      PROVE  NotifInv'
  BY <1>2, <1>4, <1>5 DEF USBD_StdItfReq, notif
<1>6. ASSUME NEW c, NEW r, USBD_StdEPReq(c, r)
      PROVE  NotifInv'
  BY <1>2, <1>6 DEF USBD_StdEPReq, dev, notif
<1>7. QED BY <1>3, <1>5, <1>6 DEF USBD_LL_SetupStage

\* Every step keeps the stage of the announcement: one case per action.
LEMMA NextNotifInv ==
  ASSUME IInv, NotifInv, [Next]_vars
  PROVE  NotifInv'
<1>a. ClassInv /\ SuspendInv /\ HandleInv
  BY DEF IInv, ClassInv
<1>1. CASE USBD_LL_DataOutStage
  <2>1. irq = "out" /\ pend' = pend \ {"OUT0"} /\ UNCHANGED <<cmdIn, seen>>
    BY <1>1 DEF USBD_LL_DataOutStage, AtOut
  <2>2. CASE UNCHANGED hcdc
    BY <2>1, <2>2, NotifKept
  <2>3. CASE hcdc' = [hcdc EXCEPT !.cmd = "none"]
    BY <2>1, <2>3, <1>a DEF NotifInv, Announced, HandleInv
  <2>4. QED BY <1>1, <2>2, <2>3 DEF USBD_LL_DataOutStage
<1>2. CASE USBD_CDC_ECM_DataIn
  <2>1. hcdc.up /\ "CMD" \in pend /\ pend' = pend \ {"CMD"} /\ irq' = "in" /\ UNCHANGED seen
    BY <1>2, <1>a DEF USBD_CDC_ECM_DataIn, InFlags, HandleInv
  <2>2. devState = "CONFIGURED"
    BY <1>a, <2>1 DEF ClassInv, SuspendInv, AbsState
  <2>3. CASE hcdc.notification # 0
    <3>1. hcdc.link = 1 /\ seen = <<"NETWORK_CONNECTION">> /\ cmdIn = NoPacket
      BY <2>1, <2>3 DEF NotifInv, Announced
    <3>2. cmdIn' = "CONNECTION_SPEED_CHANGE" /\ hcdc' = [hcdc EXCEPT !.notification = 0]
      BY <1>2, <2>2, <2>3 DEF USBD_CDC_ECM_DataIn
    <3>3. hcdc'.link = 1 /\ hcdc'.notification = 0 /\ DOMAIN hcdc' = DOMAIN hcdc
          /\ {"link", "notification"} \subseteq DOMAIN hcdc
      BY <2>1, <3>1, <3>2 DEF NotifInv
    <3>4. QED BY <2>1, <3>1, <3>2, <3>3 DEF NotifInv, Announced
  <2>4. CASE hcdc.notification = 0
    <3>1. UNCHANGED <<hcdc, cmdIn>>
      BY <1>2, <2>4 DEF USBD_CDC_ECM_DataIn
    <3>2. QED BY <2>1, <2>4, <3>1 DEF NotifInv, Announced
  <2>5. QED BY <2>3, <2>4
<1>3. CASE USBD_LL_Reset
  <2>1. CASE hcdc.up
    BY <1>3, <2>1, NotifDeInit DEF USBD_LL_Reset
  <2>2. CASE ~hcdc.up
    BY <1>3, <2>2 DEF USBD_LL_Reset, NotifInv, notif
  <2>3. QED BY <2>1, <2>2
<1>4. CASE HostPollsCmd
  <2>1. /\ hcdc.up /\ cmdIn # NoPacket /\ seen' = Append(seen, cmdIn) /\ cmdIn' = NoPacket
        /\ pend' = pend \cup {"CMD"} /\ hcdc' = hcdc
    BY <1>4 DEF HostPollsCmd, dev
  <2>2. CASE Announced(1, "NETWORK_CONNECTION", <<>>, FALSE)
    <3>1. seen' = <<"NETWORK_CONNECTION">> /\ hcdc.link = 1
      BY <2>1, <2>2 DEF Announced, NotifInv
    <3>2. QED BY <2>1, <2>2, <3>1 DEF NotifInv, Announced
  <2>3. CASE Announced(0, "CONNECTION_SPEED_CHANGE", <<"NETWORK_CONNECTION">>, FALSE)
    <3>1. seen' = <<"NETWORK_CONNECTION", "CONNECTION_SPEED_CHANGE">> /\ hcdc.link = 1
      <4>1. seen' = Append(<<"NETWORK_CONNECTION">>, "CONNECTION_SPEED_CHANGE") /\ hcdc.link = 1
        BY <2>1, <2>3 DEF Announced, NotifInv
      <4>2. QED BY <4>1, AppendPair
    <3>2. QED BY <2>1, <2>3, <3>1 DEF NotifInv, Announced
  <2>4. QED BY <2>1, <2>2, <2>3 DEF NotifInv, Announced
<1>5. CASE irq_return
  <2>1. /\ UNCHANGED <<hcdc, cmdIn, seen, pend>>
        /\ hcdc.up => "CMD" \notin pend
    BY <1>5, <1>a DEF irq_return, dev, notif, InFlags, HandleInv
  <2>2. QED BY <2>1 DEF NotifInv, Announced
<1>6. ASSUME UNCHANGED <<hcdc, cmdIn, seen>>, "CMD" \in pend' <=> "CMD" \in pend,
             irq' = irq \/ irq' = "in"
      PROVE  NotifInv'
  BY <1>6, NotifKept
<1>7. CASE USBD_LL_DataInStage \/ USBD_LL_Resume \/ USBD_LL_Suspend
  BY <1>6, <1>7 DEF USBD_LL_DataInStage, USBD_LL_Resume, USBD_LL_Suspend, dev, notif
<1>8. CASE \E r \in Requests : HostSetup(r)
  BY <1>6, <1>8 DEF HostSetup, dev, notif
<1>b. CASE HostDataIn \/ HostDataOut \/ HostStatusIn \/ HostStatusOut
  <2>1. /\ UNCHANGED <<hcdc, cmdIn, seen, irq>>
        /\ pend' = pend \cup {"IN0"} \/ pend' = pend \cup {"OUT0"}
    BY <1>b DEF HostDataIn, HostDataOut, HostStatusIn, HostStatusOut, dev, notif
  <2>2. QED BY <1>6, <2>1
<1>c. CASE HostStalled \/ HostGivesUp \/ HostSuspends \/ HostResumes \/ HostResets \/ UNCHANGED vars
  BY <1>6, <1>c
     DEF HostStalled, HostGivesUp, HostSuspends, HostResumes, HostResets, vars, dev, notif
<1>9. QED
  BY <1>1, <1>2, <1>3, <1>4, <1>5, <1>7, <1>8, <1>b, <1>c, SetupNotif DEF Next, HAL_PCD_IRQHandler, Host

\* The stage of the announcement is known in every state.
LEMMA Notif == Spec => []NotifInv
<1>1. Init => NotifInv
  BY DEF Init, NotifInv, NoHandle
<1>2. QED BY <1>1, NextNotifInv, Inductive, PTL DEF Spec

\* In a session the host hears of the connection once and then of its speed once
\* (usbd_cdc_ecm_if.c:48-96, usbd_cdc_ecm.c:695-738).
THEOREM AnnouncedOnce == Spec => []NotificationsInOrder
<1>1. NotifInv => NotificationsInOrder
  BY DEF NotifInv, Announced, NotificationsInOrder
<1>2. QED BY <1>1, Notif, PTL

\* And the announcement, once begun, is under way until the host has heard it: the
\* flag of an earlier session's notification never swallows it.
THEOREM AnnouncementGoesOn == Spec => []NotificationUnderWay
<1>1. Len(<<"NETWORK_CONNECTION", "CONNECTION_SPEED_CHANGE">>) = 2
  OBVIOUS
<1>2. NotifInv => NotificationUnderWay
  BY <1>1 DEF NotifInv, Announced, NotificationUnderWay, NoPacket
<1>3. QED BY <1>2, Notif, PTL

-----------------------------------------------------------------------------
(* Types. *)

\* What TypeOK says of endpoint 0.
Ctl ==
  [state : {"IDLE", "SETUP", "DATA_IN", "DATA_OUT", "STATUS_IN", "STATUS_OUT"},
   dataLen : Nat, rem : Nat, total : Nat, remOut : Nat, ptr : Nat,
   src : {"static", "stack"}, in : -1..Mps, out : BOOLEAN,
   stallIn : BOOLEAN, stallOut : BOOLEAN, refused : BOOLEAN]

\* What TypeOK says of the handle.
UpHandles ==
  [up : {TRUE}, link : 0..1, notification : 0..1, cmd : {"none", "SET_ETH_MULTICAST_FILTERS"}]

Handles == {NoHandle} \cup UpHandles

\* What the requests have in common.
LEMMA RequestFacts ==
  ASSUME NEW r \in Requests
  PROVE  /\ r.w \in Nat /\ r.v \in Nat
         /\ r.b = "SET_CONFIGURATION" => r.w = 0 /\ r.to = "device"
         /\ r.w # 0 /\ ~DeviceToHost(r) => r.b = "SET_ETH_MULTICAST_FILTERS"
<1> USE UsbdAssumption DEF Request, DeviceToHost
<1>1. CASE r \in DeviceRequests
  BY <1>1 DEF DeviceRequests
<1>2. CASE r \in InterfaceRequests
  BY <1>2 DEF InterfaceRequests
<1>3. CASE r \in ClassRequests
  BY <1>3 DEF ClassRequests
<1>4. CASE r \in EndpointRequests
  BY <1>4 DEF EndpointRequests
<1>5. QED BY <1>1, <1>2, <1>3, <1>4 DEF Requests

\* Every operation on endpoint 0 keeps its type.
LEMMA TransmitType ==
  ASSUME NEW c \in Ctl, NEW src \in {"static", "stack"}, NEW pos \in Nat, NEW n \in Nat
  PROVE  USBD_LL_Transmit(c, src, pos, n) \in Ctl
<1>1. Lesser(n, Mps) \in -1..Mps
  BY UsbdAssumption DEF Lesser
<1>2. QED BY <1>1 DEF Ctl, USBD_LL_Transmit

\* So does every way to answer.
LEMMA ReplyTypes ==
  ASSUME NEW c \in Ctl
  PROVE  /\ StallIn(c) \in Ctl /\ USBD_CtlError(c) \in Ctl
         /\ [StallIn(c) EXCEPT !.refused = TRUE] \in Ctl
         /\ USBD_LL_PrepareReceive(c) \in Ctl
         /\ USBD_CtlSendStatus(c) \in Ctl /\ USBD_CtlReceiveStatus(c) \in Ctl
         /\ \A n \in Nat : USBD_CtlPrepareRx(c, n) \in Ctl
         /\ \A n \in Nat : \A src \in {"static", "stack"} : USBD_CtlSendData(c, src, n) \in Ctl
<1>1. StallIn(c) \in Ctl /\ USBD_CtlError(c) \in Ctl /\ USBD_LL_PrepareReceive(c) \in Ctl
  BY DEF Ctl, StallIn, USBD_CtlError, USBD_LL_PrepareReceive
<1>2. [StallIn(c) EXCEPT !.refused = TRUE] \in Ctl
  BY DEF Ctl, StallIn
<1>3. USBD_CtlSendStatus(c) \in Ctl
  <2>1. [c EXCEPT !.state = "STATUS_IN"] \in Ctl
    BY DEF Ctl
  <2>2. QED BY <2>1, TransmitType DEF USBD_CtlSendStatus
<1>4. USBD_CtlReceiveStatus(c) \in Ctl
  BY DEF Ctl, USBD_CtlReceiveStatus, USBD_LL_PrepareReceive
<1>5. ASSUME NEW n \in Nat PROVE USBD_CtlPrepareRx(c, n) \in Ctl
  BY DEF Ctl, USBD_CtlPrepareRx, USBD_LL_PrepareReceive
<1>6. ASSUME NEW n \in Nat, NEW src \in {"static", "stack"}
      PROVE  USBD_CtlSendData(c, src, n) \in Ctl
  <2>1. [c EXCEPT !.state = "DATA_IN", !.rem = n] \in Ctl
    BY DEF Ctl
  <2>2. QED BY <2>1, TransmitType DEF USBD_CtlSendData
<1>7. QED BY <1>1, <1>2, <1>3, <1>4, <1>5, <1>6

\* The data stage goes on with an endpoint 0.
LEMMA DataInStageType ==
  ASSUME NEW c \in Ctl
  PROVE  EP0_DataInStage(c) \in Ctl
<1>a. c.rem \in Nat /\ c.ptr \in Nat /\ c.src \in {"static", "stack"} /\ Mps \in Nat
  BY UsbdAssumption DEF Ctl
<1>1. CASE c.rem > Mps
  <2>1. c.rem - Mps \in Nat
    BY <1>a, <1>1
  <2>2. [c EXCEPT !.rem = @ - Mps] \in Ctl
    BY <2>1 DEF Ctl
  <2>3. QED BY <1>a, <1>1, <2>1, <2>2, TransmitType, ReplyTypes DEF EP0_DataInStage
<1>2. CASE ~(c.rem > Mps) /\ NeedsZlp(c)
  <2>1. [c EXCEPT !.dataLen = 0] \in Ctl
    BY DEF Ctl
  <2>2. QED BY <1>a, <1>2, <2>1, TransmitType, ReplyTypes DEF EP0_DataInStage
<1>3. CASE ~(c.rem > Mps) /\ ~NeedsZlp(c)
  BY <1>3, ReplyTypes DEF EP0_DataInStage
<1>4. QED BY <1>1, <1>2, <1>3

\* What a request leaves in endpoint 0 before its handler answers.
Fresh(c, r) ==
  [c EXCEPT !.state = "SETUP", !.dataLen = r.w, !.refused = FALSE,
            !.rem = 0, !.total = 0, !.remOut = 0, !.ptr = 0]

\* It is an endpoint 0 still.
LEMMA FreshType == ASSUME NEW c \in Ctl, NEW r, r.w \in Nat PROVE Fresh(c, r) \in Ctl
BY DEF Fresh, Ctl

\* Every answer to a request is one.
LEMMA SetupCtlType ==
  ASSUME ep0 \in Ctl, host.req \in Requests, USBD_LL_SetupStage
  PROVE  ep0' \in Ctl
<1> DEFINE r == host.req
           c == Fresh(ep0, r)
<1>1. r.w \in Nat /\ r.v \in Nat /\ c \in Ctl
  BY RequestFacts, FreshType
<1>2. \/ r.to = "device" /\ USBD_StdDevReq(c, r)
      \/ r.to \in {"class", "interface"} /\ USBD_StdItfReq(c, r)
      \/ r.to \in Eps \cup {EP0} /\ USBD_StdEPReq(c, r)
  BY DEF USBD_LL_SetupStage, Fresh
<1> HIDE DEF c, r
<1>3. CASE USBD_StdDevReq(c, r)
  <2>1. Lesser(r.v, r.w) \in Nat
    BY <1>1 DEF Lesser
  <2>2. DeviceReply(c, r) \in Ctl
    BY <1>1, <2>1, ReplyTypes DEF DeviceReply, USBD_GetDescriptor
  <2>3. QED BY <1>1, <1>3, <2>2, ReplyTypes DEF USBD_StdDevReq, USBD_SetAddress, USBD_SetConfig
<1>4. CASE USBD_StdItfReq(c, r)
  <2>1. InterfaceReply(c, r) \in Ctl
    BY <1>1, ReplyTypes DEF InterfaceReply
  <2>2. QED BY <1>1, <1>4, <2>1, ReplyTypes DEF USBD_StdItfReq, ClassSetup
<1>5. CASE USBD_StdEPReq(c, r)
  BY <1>1, <1>5, ReplyTypes DEF USBD_StdEPReq
<1>6. QED BY <1>2, <1>3, <1>4, <1>5

\* The host, but for which configurations it can hold.
Hosts ==
  [phase : Active \cup Ended, req : Requests, got : Nat, cfg : Int,
   intact : BOOLEAN, inOrder : BOOLEAN]

\* The parts of TypeOK that IInv does not give, and what HostDataOut relies on:
\* the host has not yet sent what it said it would.
HostType ==
  /\ host \in Hosts
  /\ host.phase = "dataOut" => host.got < host.req.w

BusType ==
  /\ oldState \in DevStates
  /\ hcdc \in Handles
  /\ cmdIn \in Notifications \cup {NoPacket}
  /\ pend \subseteq {"OUT0", "STUP", "IN0", "CMD", "WKUP", "SUSP", "RST"}
  /\ irq \in {"out", "in"}
  /\ xfer \in [overtaken : BOOLEAN, controls : Nat]

HaltType == isStall \subseteq Eps /\ hwStall \subseteq Eps

TypeInv == HostType /\ BusType /\ HaltType /\ ep0 \in Ctl

\* What the host and the controller do to endpoint 0 keeps its type.
LEMMA PacketType ==
  ASSUME NEW c \in Ctl, NEW p \in Nat
  PROVE  /\ [c EXCEPT !.in = -1] \in Ctl
         /\ [c EXCEPT !.in = -1, !.ptr = p] \in Ctl
         /\ [c EXCEPT !.out = FALSE] \in Ctl
         /\ [c EXCEPT !.in = -1, !.out = FALSE, !.stallIn = FALSE, !.stallOut = FALSE] \in Ctl
         /\ [c EXCEPT !.state = "IDLE", !.in = -1, !.out = FALSE,
                      !.stallIn = FALSE, !.stallOut = FALSE] \in Ctl
<1>1. -1 \in -1..Mps
  BY UsbdAssumption
<1>2. [c EXCEPT !.in = -1] \in Ctl
  BY <1>1 DEF Ctl
<1>3. [c EXCEPT !.in = -1, !.ptr = p] \in Ctl
  BY <1>1 DEF Ctl
<1>4. [c EXCEPT !.out = FALSE] \in Ctl
  BY DEF Ctl
<1>5. [c EXCEPT !.in = -1, !.out = FALSE, !.stallIn = FALSE, !.stallOut = FALSE] \in Ctl
  BY <1>1 DEF Ctl
<1>6. [c EXCEPT !.state = "IDLE", !.in = -1, !.out = FALSE,
                !.stallIn = FALSE, !.stallOut = FALSE] \in Ctl
  BY <1>1 DEF Ctl
<1>7. QED BY <1>2, <1>3, <1>4, <1>5, <1>6

\* The same of the host.
LEMMA TransferType ==
  ASSUME NEW h \in Hosts, NEW p \in Active \cup Ended, NEW k \in Int, NEW n \in Nat,
         NEW i \in BOOLEAN, NEW j \in BOOLEAN, NEW r \in Requests
  PROVE  /\ [h EXCEPT !.phase = p] \in Hosts
         /\ [h EXCEPT !.phase = p, !.cfg = k] \in Hosts
         /\ [h EXCEPT !.got = n, !.phase = p] \in Hosts
         /\ [h EXCEPT !.got = n, !.intact = i, !.inOrder = j, !.phase = p] \in Hosts
         /\ [h EXCEPT !.req = r, !.got = 0, !.intact = TRUE, !.inOrder = TRUE,
                      !.cfg = k, !.phase = p] \in Hosts
<1>1. [h EXCEPT !.phase = p] \in Hosts
  BY DEF Hosts
<1>2. [h EXCEPT !.phase = p, !.cfg = k] \in Hosts
  BY DEF Hosts
<1>3. [h EXCEPT !.got = n, !.phase = p] \in Hosts
  BY DEF Hosts
<1>4. [h EXCEPT !.got = n, !.intact = i, !.inOrder = j, !.phase = p] \in Hosts
  BY DEF Hosts
<1>5. [h EXCEPT !.req = r, !.got = 0, !.intact = TRUE, !.inOrder = TRUE,
                !.cfg = k, !.phase = p] \in Hosts
  BY DEF Hosts
<1>6. QED BY <1>1, <1>2, <1>3, <1>4, <1>5

\* The initial state has these types.
LEMMA InitType == Init => TypeInv
<1> SUFFICES ASSUME Init PROVE TypeInv
  OBVIOUS
<1>1. Request("device", "GET_STATUS", 0, 2) \in Requests
  BY DEF Requests, DeviceRequests
<1>2. HostType
  BY <1>1 DEF Init, HostType, Hosts, Active, Ended
<1>3. BusType
  BY DEF Init, BusType, DevStates, Handles
<1>4. ep0 \in Ctl
  BY UsbdAssumption DEF Init, Ctl
<1>5. QED BY <1>2, <1>3, <1>4 DEF TypeInv, HaltType, Init

\* Steps keep the handle's type.
LEMMA HandleType ==
  ASSUME NEW h \in Handles,
         NEW x \in 0..1, NEW y \in {"none", "SET_ETH_MULTICAST_FILTERS"}
  PROVE  /\ [h EXCEPT !.link = x] \in Handles /\ [h EXCEPT !.notification = x] \in Handles
         /\ [h EXCEPT !.cmd = y] \in Handles
         /\ [h EXCEPT !.link = 1, !.notification = 1] \in Handles
<1>1. CASE h = NoHandle
  <2>1. \A z : [h EXCEPT !.link = z] = h /\ [h EXCEPT !.notification = z] = h /\ [h EXCEPT !.cmd = z] = h
    BY <1>1 DEF NoHandle
  <2>2. [h EXCEPT !.link = 1, !.notification = 1] = h
    BY <1>1 DEF NoHandle
  <2>3. QED BY <2>1, <2>2
<1>2. CASE h # NoHandle
  <2>1. h \in UpHandles
    BY <1>2 DEF Handles
  <2>2. [h EXCEPT !.link = x] \in UpHandles
    BY <2>1 DEF UpHandles
  <2>3. [h EXCEPT !.notification = x] \in UpHandles
    BY <2>1 DEF UpHandles
  <2>4. [h EXCEPT !.cmd = y] \in UpHandles
    BY <2>1 DEF UpHandles
  <2>5. [h EXCEPT !.link = 1, !.notification = 1] \in UpHandles
    <3>1. PICK a \in 0..1 : a = 1
      OBVIOUS
    <3>2. [h EXCEPT !.link = a] \in UpHandles
      BY <2>1 DEF UpHandles
    <3>3. [[h EXCEPT !.link = a] EXCEPT !.notification = a] \in UpHandles
      BY <3>2 DEF UpHandles
    <3>4. QED BY <3>1, <3>3
  <2>6. QED BY <2>2, <2>3, <2>4, <2>5 DEF Handles
<1>3. QED BY <1>1, <1>2

\* A request keeps the types of the bus side: one case per recipient.
LEMMA SetupBusType ==
  ASSUME TypeInv, USBD_LL_SetupStage
  PROVE  BusType' /\ HaltType'
<1> DEFINE r == host.req
<1>1. r \in Requests
  BY DEF TypeInv, HostType, Hosts
<1>2. /\ pend' = pend \ {"STUP"} /\ irq' = "in" /\ xfer' = xfer
  BY DEF USBD_LL_SetupStage
<1>3. Handle \in Handles /\ NoHandle \in Handles
  BY DEF Handles, UpHandles, Handle
<1>4. PICK c : \/ r.to = "device" /\ USBD_StdDevReq(c, r)
               \/ r.to \in {"class", "interface"} /\ USBD_StdItfReq(c, r)
               \/ r.to \in Eps \cup {EP0} /\ USBD_StdEPReq(c, r)
  BY DEF USBD_LL_SetupStage
<1>5. ASSUME CDC_ECM_Itf_Control(r.b)
      PROVE  hcdc' \in Handles /\ cmdIn' \in Notifications \cup {NoPacket}
  <2>1. hcdc \in Handles /\ cmdIn \in Notifications \cup {NoPacket}
    BY DEF TypeInv, BusType
  <2>2. 1 \in 0..1 /\ "none" \in {"none", "SET_ETH_MULTICAST_FILTERS"}
    OBVIOUS
  <2>3. [hcdc EXCEPT !.link = 1] \in Handles /\ [hcdc EXCEPT !.link = 1, !.notification = 1] \in Handles
    BY <2>1, <2>2, HandleType
  <2>4. QED BY <1>5, <2>1, <2>3 DEF CDC_ECM_Itf_Control, Notifications
<1> HIDE DEF r
<1>6. CASE USBD_StdDevReq(c, r)
  BY <1>2, <1>3, <1>6
     DEF USBD_StdDevReq, USBD_SetAddress, USBD_SetConfig, USBD_CDC_ECM_Init, USBD_CDC_ECM_DeInit,
         notif, halts, TypeInv, BusType, HaltType
<1>7. CASE USBD_StdItfReq(c, r)
  <2>1. hcdc' \in Handles /\ cmdIn' \in Notifications \cup {NoPacket}
    <3>1. CASE ClassSetup(c, r)
      <4>1. CASE CDC_ECM_Itf_Control(r.b)
        BY <1>5, <4>1 DEF r
      <4>2. CASE r.w # 0 /\ ~DeviceToHost(r) /\ hcdc' = [hcdc EXCEPT !.cmd = r.b] /\ UNCHANGED cmdIn
        <5>1. r.b = "SET_ETH_MULTICAST_FILTERS"
          BY <1>1, <4>2, RequestFacts DEF r
        <5>2. /\ hcdc \in Handles /\ 1 \in 0..1
              /\ r.b \in {"none", "SET_ETH_MULTICAST_FILTERS"}
          BY <5>1 DEF TypeInv, BusType
        <5>3. [hcdc EXCEPT !.cmd = r.b] \in Handles
          BY <5>2, HandleType
        <5>4. QED BY <4>2, <5>3 DEF TypeInv, BusType
      <4>3. QED BY <3>1, <4>1, <4>2 DEF ClassSetup
    <3>2. CASE UNCHANGED <<hcdc, notif>>
      BY <3>2 DEF TypeInv, BusType, notif
    <3>3. QED BY <1>7, <3>1, <3>2 DEF USBD_StdItfReq
  <2>2. QED BY <1>2, <1>7, <2>1 DEF USBD_StdItfReq, halts, TypeInv, BusType, HaltType
<1>8. CASE r.to \in Eps \cup {EP0} /\ USBD_StdEPReq(c, r)
  BY <1>2, <1>8
     DEF USBD_StdEPReq, SetStall, ClrStall, dev, notif, halts, TypeInv, BusType, HaltType
<1>9. QED BY <1>4, <1>6, <1>7, <1>8 DEF r

\* Every step of the handler keeps the types,
LEMMA IrqType ==
  ASSUME IInv, TypeInv, HAL_PCD_IRQHandler
  PROVE  TypeInv'
<1>1. CASE USBD_LL_SetupStage
  <2>1. ep0' \in Ctl /\ BusType' /\ HaltType'
    BY <1>1, SetupCtlType, SetupBusType DEF TypeInv, HostType, Hosts
  <2>2. HostType'
    BY <1>1 DEF USBD_LL_SetupStage, TypeInv, HostType
  <2>3. QED BY <2>1, <2>2 DEF TypeInv
<1>2. CASE USBD_LL_DataOutStage
  <2>1. HostType' /\ HaltType'
    BY <1>2 DEF USBD_LL_DataOutStage, TypeInv, HostType, HaltType, halts
  <2>2. BusType'
    <3>1. CASE UNCHANGED <<hcdc, xfer>>
      BY <1>2, <3>1 DEF USBD_LL_DataOutStage, TypeInv, BusType
    <3>2. CASE hcdc' = [hcdc EXCEPT !.cmd = "none"] /\ xfer' = [xfer EXCEPT !.controls = @ + 1]
      <4>1. /\ hcdc \in Handles /\ 1 \in 0..1 /\ "none" \in {"none", "SET_ETH_MULTICAST_FILTERS"}
            /\ xfer \in [overtaken : BOOLEAN, controls : Nat]
        BY DEF TypeInv, BusType
      <4>2. hcdc' \in Handles
        BY <3>2, <4>1, HandleType
      <4>3. xfer' \in [overtaken : BOOLEAN, controls : Nat]
        BY <3>2, <4>1
      <4>4. QED BY <1>2, <4>2, <4>3 DEF USBD_LL_DataOutStage, TypeInv, BusType
    <3>3. QED BY <1>2, <3>1, <3>2 DEF USBD_LL_DataOutStage
  <2>3. ep0' \in Ctl
    <3>1. CASE ep0.remOut > Mps
      <4>1. ep0.remOut - Mps \in Nat
        BY <3>1, UsbdAssumption DEF TypeInv, Ctl
      <4>2. [ep0 EXCEPT !.remOut = @ - Mps] \in Ctl
        BY <4>1 DEF TypeInv, Ctl
      <4>3. QED BY <1>2, <3>1, <4>2, ReplyTypes DEF USBD_LL_DataOutStage, TypeInv
    <3>2. CASE ~(ep0.remOut > Mps)
      BY <1>2, <3>2, ReplyTypes DEF USBD_LL_DataOutStage, TypeInv
    <3>3. QED BY <3>1, <3>2
  <2>4. QED BY <2>1, <2>2, <2>3 DEF TypeInv
<1>3. CASE USBD_LL_DataInStage
  BY <1>3, DataInStageType
     DEF USBD_LL_DataInStage, TypeInv, HostType, BusType, HaltType, dev, halts, notif
<1>4. CASE USBD_CDC_ECM_DataIn
  <2>1. hcdc \in Handles /\ 0 \in 0..1 /\ "none" \in {"none", "SET_ETH_MULTICAST_FILTERS"}
    BY DEF TypeInv, BusType
  <2>2. [hcdc EXCEPT !.notification = 0] \in Handles
    BY <2>1, HandleType
  <2>3. QED BY <1>4, <2>2
        DEF USBD_CDC_ECM_DataIn, TypeInv, HostType, BusType, HaltType, halts, Notifications
<1>5. CASE USBD_LL_Resume \/ USBD_LL_Suspend \/ irq_return
  BY <1>5
     DEF USBD_LL_Resume, USBD_LL_Suspend, irq_return, IInv, ClassInv, TypeInv, HostType, BusType,
         HaltType, dev, halts, notif, DevStates
<1>6. CASE USBD_LL_Reset
  <2>1. ep0' \in Ctl
    <3>1. ep0' = [ep0 EXCEPT !.state = "IDLE", !.in = -1, !.out = FALSE,
                             !.stallIn = FALSE, !.stallOut = FALSE]
      BY <1>6 DEF USBD_LL_Reset
    <3>2. ep0 \in Ctl /\ 0 \in Nat
      BY DEF TypeInv
    <3>3. QED BY <3>1, <3>2, PacketType
  <2>2. HostType' /\ HaltType'
    BY <1>6 DEF USBD_LL_Reset, TypeInv, HostType, HaltType
  <2>3. BusType'
    BY <1>6
       DEF USBD_LL_Reset, USBD_CDC_ECM_DeInit, TypeInv, BusType, Handles, notif
  <2>4. QED BY <2>1, <2>2, <2>3 DEF TypeInv
<1>7. QED BY <1>1, <1>2, <1>3, <1>4, <1>5, <1>6 DEF HAL_PCD_IRQHandler

\* and so does every step of the host.
LEMMA HostTypes ==
  ASSUME TypeInv, Host
  PROVE  TypeInv'
<1>a. ep0 \in Ctl /\ host \in Hosts /\ (host.phase = "dataOut" => host.got < host.req.w)
  BY DEF TypeInv, HostType
<1>b. /\ host.req \in Requests /\ host.got \in Nat /\ host.cfg \in Int
      /\ host.intact \in BOOLEAN /\ host.inOrder \in BOOLEAN
      /\ ep0.ptr \in Nat /\ ep0.in \in Int
      /\ host.req.w \in Nat /\ host.req.v \in Nat
      /\ Mps \in Nat /\ 0 \in Nat /\ 0 \in Int /\ -1 \in Int
  BY <1>a, RequestFacts, UsbdAssumption DEF Hosts, Ctl
<1>c. TRUE \in BOOLEAN /\ \A p \in Active \cup Ended : p \in Active \cup Ended
  OBVIOUS
<1>1. ASSUME NEW r \in Requests, HostSetup(r)
      PROVE  TypeInv'
  <2>1. PICK k \in Int, p \in {"statusIn", "dataIn", "dataOut"} :
          host' = [host EXCEPT !.req = r, !.got = 0, !.intact = TRUE, !.inOrder = TRUE,
                               !.cfg = k, !.phase = p]
    BY <1>1, <1>b DEF HostSetup, Unknown
  <2>2a. host'.phase = "dataOut" => r.w # 0
    BY <1>1, <1>a DEF HostSetup, Hosts
  <2>2. p \in Active \cup Ended
    BY DEF Active
  <2>3. host' \in Hosts
    BY <1>a, <1>b, <1>c, <2>1, <2>2, TransferType
  <2>4. host'.got = 0 /\ host'.req = r
    BY <1>a, <2>1 DEF Hosts
  <2>5. HostType'
    BY <2>3, <2>4, <2>2a, RequestFacts DEF HostType
  <2>6. ep0' \in Ctl
    BY <1>1, <1>a, <1>b, PacketType DEF HostSetup
  <2>7. BusType' /\ HaltType'
    BY <1>1 DEF HostSetup, TypeInv, BusType, HaltType, Unhandled, dev, halts, notif
  <2>8. QED BY <2>5, <2>6, <2>7 DEF TypeInv
<1>2. ASSUME BusType', HaltType', ep0' \in Ctl, HostType'
      PROVE  TypeInv'
  BY <1>2 DEF TypeInv
<1>3. CASE HostDataIn
  <2>1. ep0.in \in Nat /\ ep0.ptr + ep0.in \in Nat /\ host.got + ep0.in \in Nat
    BY <1>3, <1>b DEF HostDataIn
  <2>2. ep0' \in Ctl
    BY <1>3, <1>a, <2>1, PacketType DEF HostDataIn
  <2>3. PICK i \in BOOLEAN, ph \in {"statusOut", "dataIn"}, o \in BOOLEAN :
          host' = [host EXCEPT !.got = host.got + ep0.in, !.intact = i, !.inOrder = o, !.phase = ph]
    BY <1>3, <1>b DEF HostDataIn
  <2>4. ph \in Active \cup Ended
    BY DEF Active
  <2>5. host' \in Hosts
    BY <1>a, <1>b, <2>1, <2>3, <2>4, TransferType
  <2>6. host'.phase = ph
    BY <1>a, <2>3 DEF Hosts
  <2>7. HostType'
    BY <2>5, <2>6 DEF HostType
  <2>8. QED BY <1>2, <1>3, <2>2, <2>7 DEF HostDataIn, TypeInv, BusType, HaltType, dev, halts, notif
<1>4. CASE HostDataOut
  <2> DEFINE sent == host.got + Lesser(Mps, host.req.w - host.got)
             ph == IF sent = host.req.w THEN "statusIn" ELSE "dataOut"
  <2>1. sent \in Nat /\ sent <= host.req.w
    BY <1>4, <1>a, <1>b DEF HostDataOut, Lesser
  <2>2. host' = [host EXCEPT !.got = sent, !.phase = ph]
    BY <1>4 DEF HostDataOut
  <2>3. ph \in Active \cup Ended
    BY DEF Active
  <2> HIDE DEF sent, ph
  <2>4. host' \in Hosts
    BY <1>a, <1>b, <1>c, <2>1, <2>2, <2>3, TransferType
  <2>5. /\ host'.got = sent /\ host'.req = host.req
        /\ host'.phase = "dataOut" => sent # host.req.w
    BY <1>a, <2>2 DEF Hosts, ph
  <2>6. HostType'
    BY <1>b, <2>1, <2>4, <2>5 DEF HostType
  <2>7. ep0' \in Ctl
    BY <1>4, <1>a, <1>b, PacketType DEF HostDataOut
  <2>8. QED BY <1>2, <1>4, <2>6, <2>7 DEF HostDataOut, TypeInv, BusType, HaltType, dev, halts, notif
<1>5. ASSUME NEW p \in Ended, NEW k \in Int,
             \/ host' = [host EXCEPT !.phase = p]
             \/ host' = [host EXCEPT !.phase = p, !.cfg = k]
      PROVE  HostType'
  <2>1. p \in Active \cup Ended
    OBVIOUS
  <2>2. [host EXCEPT !.phase = p] \in Hosts /\ [host EXCEPT !.phase = p, !.cfg = k] \in Hosts
    BY <1>a, <2>1 DEF Hosts
  <2>3. host'.phase = p
    BY <1>5, <1>a DEF Hosts
  <2>4. host' \in Hosts
    BY <1>5, <2>2
  <2>5. QED BY <2>3, <2>4 DEF HostType, Ended
<1>6. CASE HostStatusIn \/ HostStatusOut
  <2>1. ep0' \in Ctl
    BY <1>6, <1>a, <1>b, PacketType DEF HostStatusIn, HostStatusOut
  <2>2. HostType'
    <3>1. "done" \in Ended
      BY DEF Ended
    <3>2. CASE HostStatusIn
      <4> DEFINE k == IF host.req.b = "SET_CONFIGURATION" /\ ~xfer.overtaken
                      THEN host.req.v ELSE host.cfg
      <4>1. k \in Int
        BY <1>b
      <4>2. host' = [host EXCEPT !.phase = "done", !.cfg = k]
        BY <3>2 DEF HostStatusIn
      <4> HIDE DEF k
      <4>3. QED BY <1>5, <3>1, <4>1, <4>2
    <3>3. CASE HostStatusOut
      BY <1>5, <1>b, <3>1, <3>3 DEF HostStatusOut
    <3>4. QED BY <1>6, <3>2, <3>3
  <2>3. QED BY <1>2, <1>6, <2>1, <2>2
        DEF HostStatusIn, HostStatusOut, TypeInv, BusType, HaltType, dev, halts, notif
<1>7. CASE HostStalled \/ HostGivesUp \/ HostResets
  <2>1. "stalled" \in Ended /\ "abandoned" \in Ended /\ "idle" \in Ended
    BY DEF Ended
  <2>2. HostType'
    BY <1>5, <1>7, <1>b, <2>1 DEF HostStalled, HostGivesUp, HostResets
  <2>3. QED BY <1>2, <1>7, <2>2
        DEF HostStalled, HostGivesUp, HostResets, TypeInv, BusType, HaltType, dev, halts, notif
<1>8. CASE HostPollsCmd \/ HostSuspends \/ HostResumes
  BY <1>2, <1>8
     DEF HostPollsCmd, HostSuspends, HostResumes, TypeInv, BusType, HaltType, HostType, dev, halts,
         notif
<1>9. QED BY <1>1, <1>3, <1>4, <1>6, <1>7, <1>8 DEF Host

\* So every step does.
LEMMA NextType ==
  ASSUME IInv, TypeInv, [Next]_vars
  PROVE  TypeInv'
<1>1. CASE UNCHANGED vars
  <2>1. UNCHANGED <<dev, ep0, halts, notif>> /\ UNCHANGED <<pend, irq, bus, host, xfer>>
    BY <1>1 DEF vars
  <2>2. QED BY <2>1 DEF dev, halts, notif, TypeInv, HostType, BusType, HaltType
<1>2. QED BY <1>1, IrqType, HostTypes DEF Next

-----------------------------------------------------------------------------
(* What the host and the class make of a request for a configuration. *)

\* A request that the handler has not looked at, and no packet of the transfer
\* before it that it would act on: endpoint 0 answers nothing until then.
FreshInv ==
  "STUP" \in pend /\ ~xfer.overtaken =>
    /\ ep0.in = -1 /\ ~ep0.out /\ ~ep0.stallIn /\ ~ep0.stallOut
    /\ "IN0" \notin pend
    /\ "OUT0" \in pend => ep0.state # "DATA_OUT"
    /\ host.req.w = 0 => "RST" \in pend \/ host.phase = "statusIn"

\* The request for a configuration was handled and the host has not heard of it.
Pending ==
  /\ host.req.b = "SET_CONFIGURATION" /\ host.phase = "statusIn"
  /\ ~xfer.overtaken /\ "STUP" \notin pend

\* The host and the class agree on the configuration.
Agree == host.cfg # Unknown => (host.cfg = 1 <=> hcdc.up)

\* What endpoint 0 will tell the host.
Answer ==
  /\ ep0.state \in {"SETUP", "STATUS_IN"}
  /\ IF ep0.stallIn THEN Agree
     ELSE ep0.in = 0 /\ host.req.v \in 0..1 /\ (host.req.v = 1 <=> hcdc.up)

\* Both sides agree, but for an answer and a reset that are under way.
AgreeInv ==
  /\ host.cfg \in {0, 1, Unknown}
  /\ "RST" \in pend => host.phase \in Ended /\ host.cfg = 0
  /\ "RST" \notin pend => IF Pending THEN Answer ELSE Agree
  /\ "STUP" \in pend /\ xfer.overtaken /\ host.req.b = "SET_CONFIGURATION"
       => host.cfg = Unknown \/ "RST" \in pend

ConfigInv == FreshInv /\ AgreeInv

\* At first nothing is configured and a reset waits.
LEMMA InitConfig == Init => ConfigInv
BY DEF Init, ConfigInv, FreshInv, AgreeInv, Pending, Request, Ended

\* A request for a configuration that the handler looks at in time.
LEMMA SetConfigAnswer ==
  ASSUME TypeInv, IInv, Agree,
         NEW c \in Ctl, c.state = "SETUP", ~c.stallIn,
         NEW r \in Requests, r.b = "SET_CONFIGURATION", USBD_SetConfig(c, r)
  PROVE  /\ ep0'.state \in {"SETUP", "STATUS_IN"}
         /\ IF ep0'.stallIn THEN hcdc'.up = hcdc.up
            ELSE ep0'.in = 0 /\ r.v \in 0..1 /\ (r.v = 1 <=> hcdc'.up)
<1>1. /\ USBD_CtlError(c).stallIn /\ USBD_CtlError(c).state = "SETUP"
  BY DEF Ctl, USBD_CtlError
<1>2. /\ ~USBD_CtlSendStatus(c).stallIn /\ USBD_CtlSendStatus(c).state = "STATUS_IN"
      /\ USBD_CtlSendStatus(c).in = 0
  BY UsbdAssumption DEF Ctl, USBD_CtlSendStatus, USBD_LL_Transmit, Lesser
<1>3. r.v \in Nat
  BY RequestFacts
<1>4. Handle.up = TRUE /\ NoHandle.up = FALSE
  BY DEF Handle, NoHandle
<1>5. devState # "SUSPENDED" => (hcdc.up <=> devState = "CONFIGURED") /\ hcdc.up \in BOOLEAN
  BY DEF IInv, ClassInv, AbsState, HandleInv
<1> USE <1>1, <1>2, <1>3, <1>4, <1>5
<1>6. CASE ep0' = USBD_CtlError(c) /\ UNCHANGED hcdc
  BY <1>6
<1>7. CASE r.v = 1 /\ USBD_CDC_ECM_Init /\ ep0' = USBD_CtlSendStatus(c)
  BY <1>7 DEF USBD_CDC_ECM_Init
<1>8. CASE r.v = 0 /\ USBD_CDC_ECM_DeInit /\ ep0' = USBD_CtlSendStatus(c)
  BY <1>8 DEF USBD_CDC_ECM_DeInit
<1>9. CASE /\ \/ r.v = 0 /\ devState = "ADDRESSED"
              \/ r.v = 1 /\ devState = "CONFIGURED"
           /\ ep0' = USBD_CtlSendStatus(c) /\ UNCHANGED hcdc
  BY <1>9
<1>10. CASE devState = "DEFAULT" /\ USBD_CDC_ECM_DeInit /\ ep0' = USBD_CtlError(c)
  BY <1>10 DEF USBD_CDC_ECM_DeInit
<1>11. QED BY <1>6, <1>7, <1>8, <1>9, <1>10 DEF USBD_SetConfig

\* Only requests for a configuration, and resets, change whether the class is up.
LEMMA OtherRequests ==
  ASSUME TypeInv, IInv, USBD_LL_SetupStage, host.req.b # "SET_CONFIGURATION"
  PROVE  hcdc'.up = hcdc.up
<1> DEFINE r == host.req
<1>1. PICK c : \/ r.to = "device" /\ USBD_StdDevReq(c, r)
               \/ r.to \in {"class", "interface"} /\ USBD_StdItfReq(c, r)
               \/ r.to \in Eps \cup {EP0} /\ USBD_StdEPReq(c, r)
  BY DEF USBD_LL_SetupStage
<1>2. HandleInv
  BY DEF IInv, ClassInv
<1>3. CASE USBD_StdDevReq(c, r)
  BY <1>3 DEF USBD_StdDevReq, USBD_SetAddress
<1>4. CASE USBD_StdEPReq(c, r)
  BY <1>4 DEF USBD_StdEPReq, dev
<1>5. CASE USBD_StdItfReq(c, r)
  <2>1. CASE CDC_ECM_Itf_Control(r.b)
    BY <1>2, <2>1, ItfControlKeepsUp
  <2>2. CASE hcdc' = [hcdc EXCEPT !.cmd = r.b]
    BY <1>2, <2>2 DEF HandleInv
  <2>3. CASE UNCHANGED hcdc
    BY <2>3
  <2>4. QED BY <1>5, <2>1, <2>2, <2>3 DEF USBD_StdItfReq, ClassSetup
<1>6. QED BY <1>1, <1>3, <1>4, <1>5

\* A request keeps the invariant: what answers one for a configuration, in time or
\* overtaken, and every other request.
LEMMA SetupConfig ==
  ASSUME TypeInv, IInv, ConfigInv, USBD_LL_SetupStage
  PROVE  ConfigInv'
<1> DEFINE r == host.req
           c == Fresh(ep0, r)
<1>1. /\ "STUP" \in pend /\ pend' = pend \ {"STUP"} /\ UNCHANGED <<host, xfer>>
      /\ \/ r.to = "device" /\ USBD_StdDevReq(c, r)
         \/ r.to \in {"class", "interface"} /\ USBD_StdItfReq(c, r)
         \/ r.to \in Eps \cup {EP0} /\ USBD_StdEPReq(c, r)
  BY DEF USBD_LL_SetupStage, Fresh
<1>2. r \in Requests /\ r.w \in Nat /\ ep0 \in Ctl /\ c \in Ctl
  BY RequestFacts, FreshType DEF TypeInv, HostType, Hosts
<1>3. c.state = "SETUP" /\ c.stallIn = ep0.stallIn
  BY <1>2 DEF Fresh, Ctl
<1>4. FreshInv'
  BY <1>1 DEF FreshInv
<1>5. CASE "RST" \in pend
  BY <1>1, <1>4, <1>5 DEF ConfigInv, AgreeInv
<1>6. CASE "RST" \notin pend /\ r.b # "SET_CONFIGURATION"
  <2>1. hcdc'.up = hcdc.up
    BY <1>6, OtherRequests
  <2>2. QED BY <1>1, <1>4, <1>6, <2>1 DEF ConfigInv, AgreeInv, Agree, Pending
<1>7. CASE "RST" \notin pend /\ r.b = "SET_CONFIGURATION" /\ xfer.overtaken
  BY <1>1, <1>4, <1>7 DEF ConfigInv, AgreeInv, Agree, Pending
<1>8. CASE "RST" \notin pend /\ r.b = "SET_CONFIGURATION" /\ ~xfer.overtaken
  <2>1. ~ep0.stallIn /\ host.phase = "statusIn"
    BY <1>1, <1>2, <1>8, RequestFacts DEF ConfigInv, FreshInv
  <2>2. Agree /\ host.cfg \in {0, 1, Unknown}
    BY <1>1, <1>8 DEF ConfigInv, AgreeInv, Pending
  <2>3. Answer'
    <3>1. CASE USBD_SetConfig(c, r)
      <4> HIDE DEF c
      <4>1. /\ ep0'.state \in {"SETUP", "STATUS_IN"}
            /\ IF ep0'.stallIn THEN hcdc'.up = hcdc.up
               ELSE ep0'.in = 0 /\ r.v \in 0..1 /\ (r.v = 1 <=> hcdc'.up)
        BY <1>2, <1>3, <1>8, <2>1, <2>2, <3>1, SetConfigAnswer
      <4>2. QED BY <1>1, <2>2, <4>1 DEF Answer, Agree
    <3>2. CASE ep0' = USBD_CtlError(c) /\ UNCHANGED hcdc
      <4> HIDE DEF c
      <4>1. ep0'.state = "SETUP" /\ ep0'.stallIn
        BY <1>2, <1>3, <3>2 DEF USBD_CtlError, Ctl
      <4>2. QED BY <1>1, <2>2, <3>2, <4>1 DEF Answer, Agree
    <3>3. r.to = "device"
      BY <1>2, <1>8, RequestFacts
    <3>4. CASE USBD_StdDevReq(c, r)
      <4> HIDE DEF c
      <4>1. QED BY <1>8, <3>1, <3>4 DEF USBD_StdDevReq
    <3>5. CASE USBD_StdEPReq(c, r)
      <4> HIDE DEF c
      <4>1. QED BY <1>8, <3>2, <3>5 DEF USBD_StdEPReq, dev
    <3>6. QED BY <1>1, <3>3, <3>4, <3>5
  <2>4. Pending'
    BY <1>1, <1>8, <2>1 DEF Pending
  <2>5. QED BY <1>1, <1>4, <1>8, <2>2, <2>3, <2>4 DEF ConfigInv, AgreeInv
<1>9. QED BY <1>5, <1>6, <1>7, <1>8

\* The rest of the handler.
LEMMA IrqConfig ==
  ASSUME TypeInv, IInv, ConfigInv, HAL_PCD_IRQHandler
  PROVE  ConfigInv'
<1>1. CASE USBD_LL_SetupStage
  BY <1>1, SetupConfig
<1>2. ASSUME NEW f, f \notin {"STUP", "RST"}, pend' = pend \ {f}, UNCHANGED <<host, xfer>>,
             hcdc'.up = hcdc.up,
             ep0' = ep0
      PROVE  ConfigInv'
  BY <1>2 DEF ConfigInv, FreshInv, AgreeInv, Answer, Agree, Pending
<1>3. CASE USBD_LL_DataOutStage
  <2>1. "OUT0" \in pend /\ pend' = pend \ {"OUT0"} /\ UNCHANGED host
    BY <1>3 DEF USBD_LL_DataOutStage
  <2>2. CASE ep0.state # "DATA_OUT"
    BY <1>2, <1>3, <2>1, <2>2 DEF USBD_LL_DataOutStage
  <2>3. CASE ep0.state = "DATA_OUT"
    <3>1. "STUP" \in pend => xfer.overtaken
      BY <2>1, <2>3 DEF ConfigInv, FreshInv
    <3>2. Pending => "RST" \in pend
      BY <2>3 DEF ConfigInv, AgreeInv, Answer
    <3>3. hcdc'.up = hcdc.up
      BY <1>3, <2>3 DEF USBD_LL_DataOutStage, IInv, ClassInv, HandleInv
    <3>4. xfer'.overtaken = xfer.overtaken
      BY <1>3, <2>3 DEF USBD_LL_DataOutStage, TypeInv, BusType
    <3>5. QED BY <2>1, <3>1, <3>2, <3>3, <3>4
          DEF ConfigInv, FreshInv, AgreeInv, Agree, Pending
  <2>4. QED BY <2>2, <2>3
<1>4. CASE USBD_LL_DataInStage
  <2>1. "IN0" \in pend /\ pend' = pend \ {"IN0"} /\ UNCHANGED <<host, xfer, dev>>
    BY <1>4 DEF USBD_LL_DataInStage
  <2>2. "STUP" \in pend => xfer.overtaken
    BY <2>1 DEF ConfigInv, FreshInv
  <2>3. Pending /\ "RST" \notin pend => ep0' = ep0
    BY <1>4 DEF USBD_LL_DataInStage, EP0_DataInStage, ConfigInv, AgreeInv, Answer
  <2>4. QED BY <2>1, <2>2, <2>3
        DEF ConfigInv, FreshInv, AgreeInv, Answer, Agree, Pending, dev
<1>5. CASE USBD_CDC_ECM_DataIn
  <2>1. hcdc'.up = hcdc.up
    BY <1>5 DEF USBD_CDC_ECM_DataIn, IInv, ClassInv, HandleInv
  <2>2. QED BY <1>2, <1>5, <2>1 DEF USBD_CDC_ECM_DataIn
<1>6. CASE USBD_LL_Resume
  BY <1>2, <1>6 DEF USBD_LL_Resume
<1>7. CASE USBD_LL_Suspend
  BY <1>2, <1>7 DEF USBD_LL_Suspend
<1>8. CASE USBD_LL_Reset
  <2>1. ~hcdc'.up
    BY <1>8 DEF USBD_LL_Reset, USBD_CDC_ECM_DeInit, NoHandle
  <2>2. pend' = {} /\ UNCHANGED <<host, xfer>> /\ "RST" \in pend
    BY <1>8 DEF USBD_LL_Reset
  <2>3. host.phase \in Ended /\ host.cfg = 0
    BY <2>2 DEF ConfigInv, AgreeInv
  <2>4. QED BY <2>1, <2>2, <2>3 DEF ConfigInv, FreshInv, AgreeInv, Agree, Pending, Ended
<1>9. CASE irq_return
  BY <1>2, <1>9 DEF irq_return, dev, ConfigInv, FreshInv, AgreeInv, Answer, Agree, Pending
<1>10. QED BY <1>1, <1>3, <1>4, <1>5, <1>6, <1>7, <1>8, <1>9 DEF HAL_PCD_IRQHandler

\* The host: what it asks for, what it takes and what makes it end a transfer.
LEMMA HostConfig ==
  ASSUME TypeInv, IInv, ConfigInv, Host
  PROVE  ConfigInv'
<1>a. /\ ep0 \in Ctl /\ host \in Hosts
      /\ host.req \in Requests /\ xfer \in [overtaken : BOOLEAN, controls : Nat]
  BY DEF TypeInv, HostType, Hosts, BusType
<1>1. ASSUME NEW r \in Requests, HostSetup(r)
      PROVE  ConfigInv'
  <2>1. /\ host'.req = r /\ host'.phase \in {"statusIn", "dataIn", "dataOut"}
        /\ r.w = 0 => host'.phase = "statusIn"
        /\ host'.cfg = IF r.b = "SET_CONFIGURATION" /\ Unhandled THEN Unknown ELSE host.cfg
    BY <1>1, <1>a DEF HostSetup, Hosts
  <2>2. /\ ep0'.in = -1 /\ ~ep0'.out /\ ~ep0'.stallIn /\ ~ep0'.stallOut
        /\ ep0'.state = ep0.state
    BY <1>1, <1>a DEF HostSetup, Ctl
  <2>3. /\ "RST" \notin pend /\ pend' = pend \cup {"STUP"} /\ host.phase \in Ended
        /\ xfer'.overtaken = Unhandled /\ UNCHANGED hcdc
    BY <1>1 DEF HostSetup, BusFlags, dev
  <2>4. FreshInv'
    BY <2>1, <2>2, <2>3 DEF FreshInv, Unhandled
  <2>5. Agree /\ host.cfg \in {0, 1, Unknown}
    BY <2>3 DEF ConfigInv, AgreeInv, Pending, Ended
  <2>6. AgreeInv'
    BY <2>1, <2>3, <2>5 DEF AgreeInv, Agree, Pending
  <2>7. QED BY <2>4, <2>6 DEF ConfigInv
<1>2. ASSUME host'.req = host.req, host'.cfg = host.cfg, UNCHANGED <<hcdc, xfer>>,
             "STUP" \in pend' <=> "STUP" \in pend, "RST" \in pend' <=> "RST" \in pend,
             "STUP" \in pend => xfer.overtaken,
             host.phase \notin Ended \/ host'.phase \in Ended,
             "RST" \notin pend => ~Pending /\ ~Pending'
      PROVE  ConfigInv'
  BY <1>2 DEF ConfigInv, FreshInv, AgreeInv, Agree
<1>3. CASE HostDataIn
  <2>1. /\ host'.req = host.req /\ host'.cfg = host.cfg /\ host.phase = "dataIn"
        /\ host'.phase \in {"dataIn", "statusOut"}
    BY <1>3, <1>a DEF HostDataIn, Hosts
  <2>2. "STUP" \in pend => xfer.overtaken
    BY <1>3 DEF HostDataIn, ConfigInv, FreshInv
  <2>3. QED BY <1>2, <1>3, <2>1, <2>2 DEF HostDataIn, dev, Pending, Ended
<1>4. CASE HostDataOut
  <2>1. /\ host'.req = host.req /\ host'.cfg = host.cfg /\ host.phase = "dataOut"
        /\ host'.phase \in {"statusIn", "dataOut"}
    BY <1>4, <1>a DEF HostDataOut, Hosts
  <2>2. "STUP" \in pend => xfer.overtaken
    BY <1>4 DEF HostDataOut, ConfigInv, FreshInv
  <2>3. host.req.b # "SET_CONFIGURATION"
    BY <1>a, <2>1, RequestFacts DEF TypeInv, HostType, Hosts
  <2>4. QED BY <1>2, <1>4, <2>1, <2>2, <2>3 DEF HostDataOut, dev, Pending, Ended
<1>5. CASE HostStatusIn
  <2>1. /\ host'.req = host.req /\ host.phase = "statusIn" /\ host'.phase = "done"
        /\ host'.cfg = IF host.req.b = "SET_CONFIGURATION" /\ ~xfer.overtaken
                       THEN host.req.v ELSE host.cfg
        /\ ep0.in = 0 /\ ~ep0.stallIn
        /\ pend' = pend \cup {"IN0"} /\ UNCHANGED <<hcdc, xfer>>
    BY <1>5, <1>a DEF HostStatusIn, Hosts, dev
  <2>2. ("STUP" \in pend => xfer.overtaken) /\ "RST" \notin pend
    BY <2>1 DEF ConfigInv, FreshInv, AgreeInv, Ended
  <2>3. CASE Pending
    <3>1. host.req.v \in 0..1 /\ (host.req.v = 1 <=> hcdc.up)
      BY <2>1, <2>2, <2>3 DEF ConfigInv, AgreeInv, Answer
    <3>2. QED BY <2>1, <2>2, <2>3, <3>1 DEF ConfigInv, FreshInv, AgreeInv, Agree, Pending
  <2>4. CASE ~Pending
    BY <2>1, <2>2, <2>4 DEF ConfigInv, FreshInv, AgreeInv, Agree, Pending
  <2>5. QED BY <2>3, <2>4
<1>6. CASE HostStatusOut
  <2>1. /\ host'.req = host.req /\ host'.cfg = host.cfg /\ host.phase = "statusOut"
        /\ host'.phase = "done"
    BY <1>6, <1>a DEF HostStatusOut, Hosts
  <2>2. "STUP" \in pend => xfer.overtaken
    BY <1>6 DEF HostStatusOut, ConfigInv, FreshInv
  <2>3. QED BY <1>2, <1>6, <2>1, <2>2 DEF HostStatusOut, dev, Pending, Ended
<1>7. CASE HostStalled \/ HostGivesUp
  <2>1. /\ host'.req = host.req /\ host'.cfg = host.cfg /\ host.phase \in Active
        /\ host'.phase \in {"stalled", "abandoned"}
        /\ UNCHANGED <<ep0, pend, xfer, hcdc>>
    BY <1>7, <1>a DEF HostStalled, HostGivesUp, Stalled, Hosts, dev, Active
  <2>2. ("STUP" \in pend => xfer.overtaken) /\ "RST" \notin pend
    BY <1>7, <2>1 DEF HostStalled, HostGivesUp, Stalled, ConfigInv, FreshInv, AgreeInv, Ended, Active
  <2>3. Pending => Agree
    <3>1. CASE HostStalled
      BY <2>2, <3>1 DEF HostStalled, Stalled, Pending, ConfigInv, AgreeInv, Answer
    <3>2. CASE HostGivesUp
      BY <2>2, <3>2 DEF HostGivesUp, Served, Stalled, Pending, ConfigInv, AgreeInv, Answer
    <3>3. QED BY <1>7, <3>1, <3>2
  <2>4. QED BY <2>1, <2>2, <2>3 DEF ConfigInv, FreshInv, AgreeInv, Agree, Pending
<1>8. CASE HostResets
  <2>1. host'.req = host.req /\ host'.cfg = 0 /\ host'.phase = "idle"
    BY <1>8, <1>a DEF HostResets, Hosts
  <2>2. /\ UNCHANGED <<ep0, xfer>> /\ "RST" \in pend'
        /\ \A f \in {"STUP", "IN0", "OUT0"} : f \in pend' <=> f \in pend
    BY <1>8 DEF HostResets
  <2>3. QED BY <2>1, <2>2 DEF ConfigInv, FreshInv, AgreeInv, Ended
<1>9. CASE HostPollsCmd \/ HostSuspends \/ HostResumes
  <2>1. /\ UNCHANGED <<ep0, host, xfer, hcdc>>
        /\ \A f \in {"STUP", "IN0", "OUT0", "RST"} : f \in pend' <=> f \in pend
    BY <1>9 DEF HostPollsCmd, HostSuspends, HostResumes, dev
  <2>2. QED BY <2>1 DEF ConfigInv, FreshInv, AgreeInv, Answer, Agree, Pending
<1>10. QED BY <1>1, <1>3, <1>4, <1>5, <1>6, <1>7, <1>8, <1>9 DEF Host

\* Every step keeps it.
LEMMA NextConfig ==
  ASSUME TypeInv, IInv, ConfigInv, [Next]_vars
  PROVE  ConfigInv'
<1>1. CASE UNCHANGED vars
  BY <1>1 DEF vars, dev, ConfigInv, FreshInv, AgreeInv, Answer, Agree, Pending
<1>2. QED BY <1>1, IrqConfig, HostConfig DEF Next

\* The types and the agreement hold in every state.
LEMMA Strong == Spec => [](TypeInv /\ ConfigInv)
BY Inductive, InitType, NextType, InitConfig, NextConfig, PTL DEF Spec

\* Every variable keeps its type, for every packet size and every set of lengths;
\* the host holds no configuration but the device's one, none, or one that it does
\* not know (usbd_ctlreq.c, usbd_core.c).
THEOREM TypeCorrect == Spec => []TypeOK
<1>1. IInv /\ TypeInv /\ ConfigInv /\ NotifInv => TypeOK
  <2> SUFFICES ASSUME IInv, TypeInv, ConfigInv, NotifInv PROVE TypeOK
    OBVIOUS
  <2>1. host \in [phase : Active \cup Ended, req : Requests, got : Nat, cfg : {0, 1, Unknown},
                  intact : BOOLEAN, inOrder : BOOLEAN]
    BY DEF TypeInv, HostType, Hosts, ConfigInv, AgreeInv
  <2>2. seen \in Seq(Notifications)
    <3>1. "NETWORK_CONNECTION" \in Notifications /\ "CONNECTION_SPEED_CHANGE" \in Notifications
      BY DEF Notifications
    <3>2. <<>> \in Seq(Notifications)
      OBVIOUS
    <3>3. \A a, b \in Notifications : <<a>> \in Seq(Notifications) /\ <<a, b>> \in Seq(Notifications)
      OBVIOUS
    <3>4. QED BY <3>1, <3>2, <3>3 DEF NotifInv, Announced
  <2>3. bus \in {"active", "suspended"} /\ devState \in DevStates
    BY DEF IInv, ClassInv, SuspendInv
  <2>4. QED BY <2>1, <2>2, <2>3
        DEF TypeOK, TypeInv, BusType, HaltType, Handles, UpHandles, Ctl
<1>2. QED BY <1>1, Inductive, Strong, Notif, PTL

\* With no transfer and no flag under way the host and the class agree on the
\* configuration, whatever failed allocation, refused request, lost answer or reset
\* came before (USBD_SetConfig, usbd_ctlreq.c; USBD_LL_Reset, usbd_core.c).
THEOREM ConfigurationAgreed == Spec => []ConfigAgreed
<1>1. ConfigInv => ConfigAgreed
  BY DEF ConfigInv, AgreeInv, Agree, Pending, ConfigAgreed, Ended
<1>2. QED BY <1>1, Strong, PTL

-----------------------------------------------------------------------------
(* The stages of a control transfer. *)

\* How much of the reply the host gets.
Want(r) == Lesser(Reply(r), r.w)

\* The host's first stage after the SETUP packet.
First(r) == IF r.w = 0 THEN "statusIn" ELSE IF DeviceToHost(r) THEN "dataIn" ELSE "dataOut"

\* The handler has not looked at the request.
Unseen ==
  /\ host.got = 0 /\ host.inOrder /\ xfer.controls = 0
  /\ \/ host.phase = "idle"
     \/ /\ host.phase = First(host.req)
        /\ host.req.to = "class" => host.cfg = 1

\* It was refused,
Refusing ==
  /\ host.phase \in {"statusIn", "dataIn"}
  /\ ep0.state = "SETUP" /\ ep0.stallIn /\ ep0.refused

\* or left without an answer,
Ignoring ==
  /\ NeverAnswered(host.req) /\ host.req.w = 0 /\ host.phase = "statusIn"
  /\ ep0.state = "SETUP" /\ ~ep0.stallIn /\ ~ep0.refused

\* or it is complete but for the host's taking the status.
Acking ==
  /\ host.phase = "statusIn"
  /\ ep0.state = "STATUS_IN" /\ ep0.in = 0 /\ ~ep0.stallIn /\ ~ep0.refused
  /\ host.req.w = 0 \/ (~DeviceToHost(host.req) /\ xfer.controls = 1)

\* A packet of the reply waits for the host: what it starts with is what the host
\* lacks.
Armed ==
  /\ ep0.state = "DATA_IN" /\ host.phase = "dataIn" /\ "IN0" \notin pend
  /\ ep0.in = Lesser(ep0.rem, Mps) /\ ep0.rem > 0
  /\ ep0.total = ep0.rem /\ ep0.dataLen = host.req.w /\ ep0.ptr = host.got
  /\ host.got + ep0.rem = Want(host.req)

\* The host has it, the handler does not know yet.  The host goes on reading
\* after a last packet that was full, if it asked for more.
Taken ==
  /\ ep0.state = "DATA_IN" /\ "IN0" \in pend /\ ep0.in = -1 /\ ep0.rem > 0
  /\ ep0.total = ep0.rem /\ ep0.dataLen = host.req.w /\ ep0.ptr = host.got
  /\ IF ep0.rem > Mps
     THEN host.phase = "dataIn" /\ host.got + ep0.rem = Want(host.req) + Mps
     ELSE /\ host.got = Want(host.req) /\ host.got >= ep0.rem
          /\ host.phase = IF ep0.rem = Mps /\ host.got < host.req.w THEN "dataIn" ELSE "statusOut"

\* The zero-length packet: armed, or taken and not looked at yet.
Padding ==
  /\ ep0.state = "DATA_IN" /\ ep0.rem = Mps /\ ep0.total = 0 /\ ep0.out
  /\ host.got = Want(host.req)
  /\ IF "IN0" \in pend THEN host.phase = "statusOut" ELSE ep0.in = 0

\* The reply is through.
Closing ==
  /\ ep0.state = "STATUS_OUT" /\ ep0.out
  /\ host.phase = "statusOut" /\ host.got = Want(host.req)

\* A control read between its SETUP packet and its status.
Reading ==
  /\ DeviceToHost(host.req) /\ host.req.w > 0 /\ host.inOrder
  /\ host.phase \in {"dataIn", "statusOut"}
  /\ ~ep0.refused /\ ~ep0.stallOut /\ (host.phase = "dataIn" => ~ep0.stallIn)
  /\ Armed \/ Taken \/ Padding \/ Closing

\* The class waits for the data of a command.
Commanded == devState = "CONFIGURED" /\ hcdc.up /\ hcdc.cmd # "none"

\* A control write until the handler has its last packet.
Writing ==
  /\ ~DeviceToHost(host.req) /\ host.req.w > 0 /\ xfer.controls = 0 /\ Commanded
  /\ ep0.state = "DATA_OUT" /\ ep0.in = -1
  /\ ~ep0.refused /\ ~ep0.stallOut /\ ~ep0.stallIn
  /\ IF "OUT0" \notin pend
     THEN host.phase = "dataOut" /\ ep0.out /\ ep0.remOut > 0 /\ host.got + ep0.remOut = host.req.w
     ELSE IF ep0.remOut > Mps
     THEN host.phase = "dataOut" /\ ~ep0.out /\ host.got + ep0.remOut = host.req.w + Mps
     ELSE host.phase = "statusIn"

\* The transfer succeeded.
Over ==
  /\ ~ep0.refused
  /\ host.req.w > 0 =>
       IF DeviceToHost(host.req) THEN host.got = Want(host.req) /\ host.inOrder
       ELSE xfer.controls = 1 /\ ep0.state # "DATA_OUT"

\* What a transfer that no packet of the one before disturbs is known by.
StageOK ==
  IF "STUP" \in pend THEN Unseen
  ELSE /\ host.phase \in Active => Refusing \/ Ignoring \/ Acking \/ Reading \/ Writing
       /\ host.phase = "done" => Over
       /\ host.phase = "stalled" => ep0.refused

\* A transfer under way keeps resets and suspends out.
Quiet == host.phase \in Active => pend \cap BusFlags = {}

StageInv == Quiet /\ (~xfer.overtaken => StageOK)

\* There is no transfer at first.
LEMMA InitStage == Init => StageInv
BY DEF Init, StageInv, Quiet, StageOK, Active

\* What the requests to each recipient have in common.
LEMMA RequestLengths ==
  ASSUME NEW r \in Requests
  PROVE  /\ r.w \in Nat /\ r.v \in Nat /\ Want(r) \in Nat /\ Want(r) <= r.w
         /\ r.b = "SET_ETH_MULTICAST_FILTERS" => r.w # 0 /\ ~DeviceToHost(r)
         /\ NeverAnswered(r) => r.w = 0 /\ ~DeviceToHost(r)
         /\ r.to = "class" => r \in ClassRequests
         /\ r.to = "device" => r \in DeviceRequests
         /\ r.to = "interface" => r \in InterfaceRequests
         /\ r.to \in Eps \cup {EP0} => r \in EndpointRequests
<1> USE UsbdAssumption DEF Request, DeviceToHost, EP0
<1>1. r.w \in Nat /\ r.v \in Nat
  BY RequestFacts
<1>2. Want(r) \in Nat /\ Want(r) <= r.w
  <2>1. Reply(r) \in Nat
    BY <1>1 DEF Reply
  <2>2. QED BY <1>1, <2>1 DEF Want, Lesser
<1>3. CASE r \in DeviceRequests
  <2>1. r.to = "device" /\ r.b # "SET_ETH_MULTICAST_FILTERS"
    BY <1>3 DEF DeviceRequests
  <2>2. r.b \in {"SET_FEATURE", "CLEAR_FEATURE"} => r.w = 0
    BY <1>3 DEF DeviceRequests
  <2>3. QED BY <1>1, <1>2, <1>3, <2>1, <2>2 DEF NeverAnswered
<1>4. CASE r \in InterfaceRequests
  <2>1. r.to = "interface" /\ r.b # "SET_ETH_MULTICAST_FILTERS"
    BY <1>4 DEF InterfaceRequests
  <2>2. QED BY <1>1, <1>2, <1>4, <2>1 DEF NeverAnswered
<1>5. CASE r \in ClassRequests
  <2>1. /\ r.to = "class"
        /\ r.b = "SET_ETH_MULTICAST_FILTERS" => r.w # 0
    BY <1>5 DEF ClassRequests
  <2>2. QED BY <1>1, <1>2, <1>5, <2>1 DEF NeverAnswered
<1>6. CASE r \in EndpointRequests
  <2>1. /\ r.to \in Eps \cup {EP0} /\ r.b # "SET_ETH_MULTICAST_FILTERS"
        /\ r.b \in {"SET_FEATURE", "CLEAR_FEATURE"} => r.w = 0
    BY <1>6 DEF EndpointRequests
  <2>2. QED BY <1>1, <1>2, <1>6, <2>1 DEF NeverAnswered
<1>7. QED BY <1>3, <1>4, <1>5, <1>6 DEF Requests

\* How the handler of request r leaves endpoint 0, which was c: refused, complete,
\* with the reply armed, waiting for the data of a command, or without an answer.
Answers(c, r) ==
  \/ /\ r.w = 0 \/ DeviceToHost(r)
     /\ ep0' \in {USBD_CtlError(c), [StallIn(c) EXCEPT !.refused = TRUE]}
  \/ r.w = 0 /\ ep0' = USBD_CtlSendStatus(c)
  \/ /\ r.w > 0 /\ DeviceToHost(r) /\ Want(r) > 0
     /\ \E src \in {"static", "stack"} : ep0' = USBD_CtlSendData(c, src, Want(r))
  \/ /\ r.w > 0 /\ ~DeviceToHost(r) /\ r.to = "class"
     /\ ep0' = USBD_CtlPrepareRx(c, r.w)
     /\ devState' = devState /\ hcdc' = [hcdc EXCEPT !.cmd = r.b]
  \/ r.w = 0 /\ NeverAnswered(r) /\ ep0' = c

\* A request to the device,
LEMMA DeviceAnswers ==
  ASSUME NEW c, NEW r \in Requests, r.to = "device", USBD_StdDevReq(c, r)
  PROVE  Answers(c, r)
<1>1. r \in DeviceRequests /\ r.w \in Nat /\ r.v \in Nat
  BY RequestLengths
<1>2. /\ r.b \in {"SET_ADDRESS", "SET_CONFIGURATION", "SET_FEATURE", "CLEAR_FEATURE", "SYNCH_FRAME"} =>
           r.w = 0 /\ ~DeviceToHost(r)
      /\ r.b \in {"GET_DESCRIPTOR", "GET_CONFIGURATION", "GET_STATUS", "SET_ADDRESS",
                  "SET_CONFIGURATION", "SET_FEATURE", "CLEAR_FEATURE", "SYNCH_FRAME"}
      /\ r.b \in {"SET_FEATURE", "CLEAR_FEATURE"} => r.v \in 0..1
  BY <1>1 DEF DeviceRequests, Request, DeviceToHost
<1>3. r.b \in {"GET_DESCRIPTOR", "GET_CONFIGURATION", "GET_STATUS"} => DeviceToHost(r)
  BY DEF DeviceToHost
<1>4. CASE r.b = "SET_ADDRESS"
  BY <1>2, <1>4 DEF USBD_StdDevReq, USBD_SetAddress, Answers
<1>5. CASE r.b = "SET_CONFIGURATION"
  BY <1>2, <1>5 DEF USBD_StdDevReq, USBD_SetConfig, Answers
<1>6. CASE r.b = "GET_DESCRIPTOR"
  <2>1. ep0' = USBD_GetDescriptor(c, r)
    BY <1>6 DEF USBD_StdDevReq, DeviceReply
  <2>2. Want(r) = Lesser(r.v, r.w)
    BY <1>6 DEF Want, Reply
  <2>3. r.v # 0 /\ r.w # 0 => Want(r) > 0
    BY <1>1, <2>2 DEF Lesser
  <2>4. QED BY <1>1, <1>3, <1>6, <2>1, <2>2, <2>3 DEF USBD_GetDescriptor, Answers
<1>7. CASE r.b \in {"GET_CONFIGURATION", "GET_STATUS"}
  <2>1. CASE ep0' = USBD_CtlError(c)
    BY <1>3, <1>7, <2>1 DEF Answers
  <2>2. CASE r.b = "GET_CONFIGURATION" /\ r.w = 1 /\ ep0' = USBD_CtlSendData(c, "static", 1)
    <3>1. Want(r) = 1
      BY <2>2 DEF Want, Reply, Lesser
    <3>2. QED BY <1>3, <2>2, <3>1 DEF Answers
  <2>3. CASE r.b = "GET_STATUS" /\ r.w = 2 /\ ep0' = USBD_CtlSendData(c, "static", 2)
    <3>1. Want(r) = 2
      BY <2>3 DEF Want, Reply, Lesser
    <3>2. QED BY <1>3, <2>3, <3>1 DEF Answers
  <2>4. QED BY <1>7, <2>1, <2>2, <2>3 DEF USBD_StdDevReq, DeviceReply
<1>8. CASE r.b \in {"SET_FEATURE", "CLEAR_FEATURE"}
  <2>1. r.v # 1 => NeverAnswered(r)
    BY <1>2, <1>8 DEF NeverAnswered
  <2>2. ep0' \in {USBD_CtlError(c), USBD_CtlSendStatus(c)} \/ (r.v # 1 /\ ep0' = c)
    BY <1>8 DEF USBD_StdDevReq, DeviceReply
  <2>3. QED BY <1>2, <1>8, <2>1, <2>2 DEF Answers
<1>9. CASE r.b = "SYNCH_FRAME"
  BY <1>2, <1>9 DEF USBD_StdDevReq, DeviceReply, Answers
<1>10. QED BY <1>2, <1>4, <1>5, <1>6, <1>7, <1>8, <1>9

\* to the interface or the class behind it,
LEMMA InterfaceAnswers ==
  ASSUME NEW c, NEW r \in Requests, r.to \in {"class", "interface"}, USBD_StdItfReq(c, r)
  PROVE  Answers(c, r)
<1>1. CASE r.to = "interface"
  <2>1. r \in InterfaceRequests
    BY <1>1, RequestLengths
  <2>2. /\ r.b \in {"SET_INTERFACE", "CLEAR_FEATURE", "SET_FEATURE"} => r.w = 0
        /\ r.b = "GET_STATUS" => r.w = 2
        /\ r.b = "GET_INTERFACE" => r.w = 1
        /\ r.b \in {"SET_INTERFACE", "CLEAR_FEATURE", "SET_FEATURE", "GET_STATUS", "GET_INTERFACE"}
    BY <2>1 DEF InterfaceRequests, Request
  <2>3. /\ r.b = "GET_STATUS" => Want(r) = 2
        /\ r.b = "GET_INTERFACE" => Want(r) = 1
    BY <2>2 DEF Want, Reply, Lesser
  <2>4. /\ r.b \in {"GET_STATUS", "GET_INTERFACE"} => DeviceToHost(r)
        /\ r.b \in {"SET_INTERFACE", "CLEAR_FEATURE", "SET_FEATURE"} => ~DeviceToHost(r)
    BY DEF DeviceToHost
  <2>5. ep0' = InterfaceReply(c, r)
    BY <1>1 DEF USBD_StdItfReq
  <2>6. \/ ep0' = USBD_CtlError(c)
        \/ r.b = "GET_STATUS" /\ ep0' = USBD_CtlSendData(c, "stack", 2)
        \/ r.b = "GET_INTERFACE" /\ ep0' = USBD_CtlSendData(c, "stack", 1)
        \/ r.b \in {"SET_INTERFACE", "CLEAR_FEATURE"} /\ ep0' = USBD_CtlSendStatus(c)
    BY <2>2, <2>5 DEF InterfaceReply
  <2>7. QED BY <2>2, <2>3, <2>4, <2>6 DEF Answers
<1>2. CASE r.to = "class"
  <2>1. r \in ClassRequests /\ r.w \in Nat /\ ClassSetup(c, r) /\ devState' = devState
    BY <1>2, RequestLengths DEF USBD_StdItfReq
  <2>2. r.w # 0 /\ DeviceToHost(r) => Want(r) = r.w
    <3>1. r.w # 0 /\ DeviceToHost(r) => r.b = "GET_ENCAPSULATED_RESPONSE"
      BY <2>1 DEF ClassRequests, Request, DeviceToHost
    <3>2. QED BY <2>1, <3>1 DEF Want, Reply, Lesser
  <2>3. QED BY <1>2, <2>1, <2>2 DEF ClassSetup, Answers
<1>3. QED BY <1>1, <1>2

\* and to an endpoint.
LEMMA EndpointAnswers ==
  ASSUME NEW c, NEW r \in Requests, r.to \in Eps \cup {EP0}, USBD_StdEPReq(c, r)
  PROVE  Answers(c, r)
<1>1. r \in EndpointRequests
  BY RequestLengths
<1>2. /\ r.b \in {"SET_FEATURE", "CLEAR_FEATURE"} => r.w = 0 /\ r.v \in 0..1
      /\ r.b = "GET_STATUS" => r.w = 2
      /\ r.b \in {"SET_FEATURE", "CLEAR_FEATURE", "GET_STATUS"}
  BY <1>1 DEF EndpointRequests
<1>3. CASE r.b = "GET_STATUS"
  <2>1. Want(r) = 2 /\ DeviceToHost(r)
    BY <1>2, <1>3 DEF Want, Reply, Lesser, DeviceToHost
  <2>2. ep0' \in {USBD_CtlSendData(c, "static", 2), USBD_CtlError(c)}
    BY <1>3 DEF USBD_StdEPReq
  <2>3. QED BY <1>2, <1>3, <2>1, <2>2 DEF Answers
<1>4. CASE r.b # "GET_STATUS"
  <2>1. r.b = "CLEAR_FEATURE" /\ r.v # 1 => NeverAnswered(r)
    BY <1>2 DEF NeverAnswered
  <2>2. \/ ep0' \in {USBD_CtlError(c), [StallIn(c) EXCEPT !.refused = TRUE], USBD_CtlSendStatus(c)}
        \/ r.b = "CLEAR_FEATURE" /\ r.v # 1 /\ ep0' = c
    BY <1>4 DEF USBD_StdEPReq
  <2>3. QED BY <1>2, <1>4, <2>1, <2>2 DEF Answers
<1>5. QED BY <1>3, <1>4

\* It gives the four properties of control transfers.
LEMMA StageGives ==
  ASSUME TypeInv, ConfigInv, StageInv
  PROVE  ReplyComplete /\ StallMeansRefused /\ Answered /\ ControlOnce
<1>1. host \in Hosts /\ host.req \in Requests /\ ep0 \in Ctl /\ Mps \in Nat \ {0}
  BY UsbdAssumption DEF TypeInv, HostType, Hosts
<1>2. host.phase \in {"done", "stalled"} => "STUP" \notin pend \/ xfer.overtaken
  BY DEF StageInv, StageOK, Unseen, First
<1>3. ReplyComplete
  BY <1>2 DEF ReplyComplete, StageInv, StageOK, Over, Want
<1>4. StallMeansRefused
  BY <1>2 DEF StallMeansRefused, StageInv, StageOK, Over
<1>5. ControlOnce
  <2>1. host.req.b = "SET_ETH_MULTICAST_FILTERS" => host.req.w > 0 /\ ~DeviceToHost(host.req)
    BY <1>1, RequestLengths
  <2>2. QED BY <1>2, <2>1 DEF ControlOnce, StageInv, StageOK, Over
<1>6. Answered
  <2> SUFFICES ASSUME pend = {}, host.phase \in Active, ~NeverAnswered(host.req), ~xfer.overtaken
               PROVE  Served
    BY DEF Answered
  <2>1. Refusing \/ Acking \/ Reading \/ Writing
    BY DEF StageInv, StageOK, Ignoring
  <2>2. CASE Refusing
    BY <2>2 DEF Refusing, Served, Stalled
  <2>3. CASE Acking
    BY <2>3 DEF Acking, Served
  <2>4. CASE Reading
    <3>1. CASE Armed
      <4>1. Lesser(ep0.rem, Mps) >= 0
        BY <1>1 DEF Lesser, Ctl
      <4>2. QED BY <3>1, <4>1 DEF Armed, Served
    <3>2. CASE Padding
      BY <2>4, <3>2 DEF Padding, Reading, Served
    <3>3. CASE Closing
      BY <3>3 DEF Closing, Served
    <3>4. QED BY <2>4, <3>1, <3>2, <3>3 DEF Reading, Taken
  <2>5. CASE Writing
    BY <2>5 DEF Writing, Served
  <2>6. QED BY <2>1, <2>2, <2>3, <2>4, <2>5
<1>7. QED BY <1>3, <1>4, <1>5, <1>6

\* A step that moves no packet and touches no command leaves the transfer where it was.
LEMMA StageKept ==
  ASSUME StageInv, UNCHANGED <<ep0, host, xfer>>,
         \A f \in {"STUP", "IN0", "OUT0"} : f \in pend' <=> f \in pend,
         host.phase \in Active => pend' \cap BusFlags \subseteq pend \cap BusFlags,
         (host.phase \in Active /\ Commanded) => Commanded'
  PROVE  StageInv'
<1>1. Quiet'
  BY DEF StageInv, Quiet
<1>2. /\ Unseen => Unseen'
      /\ Refusing => Refusing'
      /\ Ignoring => Ignoring'
      /\ Acking => Acking'
      /\ Over => Over'
  BY DEF Unseen, Refusing, Ignoring, Acking, Over
<1>3. Reading => Reading'
  BY DEF Reading, Armed, Taken, Padding, Closing
<1>4. Writing => Writing'
  BY DEF Writing, Active
<1>5. QED BY <1>1, <1>2, <1>3, <1>4 DEF StageInv, StageOK

\* The fields of endpoint 0 after an answer to a request that found it silent.
LEMMA AnswerFields ==
  ASSUME NEW e \in Ctl, e.in = -1, ~e.out, ~e.stallIn, ~e.stallOut,
         NEW r, r.w \in Nat, NEW c, c = Fresh(e, r), NEW n \in Nat, NEW src \in {"static", "stack"}
  PROVE  /\ c.state = "SETUP" /\ ~c.refused /\ ~c.stallIn /\ ~c.stallOut
         /\ \A d \in {USBD_CtlError(c), [StallIn(c) EXCEPT !.refused = TRUE]} :
              d.state = "SETUP" /\ d.stallIn /\ d.refused
         /\ LET d == USBD_CtlSendStatus(c)
            IN  d.state = "STATUS_IN" /\ d.in = 0 /\ ~d.stallIn /\ ~d.refused
         /\ LET d == USBD_CtlSendData(c, src, n)
            IN  /\ d.state = "DATA_IN" /\ d.in = Lesser(n, Mps) /\ d.rem = n /\ d.total = n
                /\ d.dataLen = r.w /\ d.ptr = 0 /\ ~d.refused /\ ~d.stallIn /\ ~d.stallOut
         /\ LET d == USBD_CtlPrepareRx(c, n)
            IN  /\ d.state = "DATA_OUT" /\ d.out /\ d.remOut = n /\ d.in = -1
                /\ ~d.refused /\ ~d.stallIn /\ ~d.stallOut
<1>1. c \in Ctl /\ c.state = "SETUP" /\ ~c.refused /\ ~c.stallIn /\ ~c.stallOut /\ c.in = -1
      /\ c.dataLen = r.w
  BY FreshType DEF Fresh, Ctl
<1>2. USBD_CtlError(c).state = "SETUP" /\ USBD_CtlError(c).stallIn /\ USBD_CtlError(c).refused
  BY <1>1 DEF USBD_CtlError, Ctl
<1>3. LET d == [StallIn(c) EXCEPT !.refused = TRUE]
      IN  d.state = "SETUP" /\ d.stallIn /\ d.refused
  BY <1>1 DEF StallIn, Ctl
<1>4. LET d == USBD_CtlSendStatus(c)
      IN  d.state = "STATUS_IN" /\ d.in = 0 /\ ~d.stallIn /\ ~d.refused
  BY <1>1, UsbdAssumption DEF USBD_CtlSendStatus, USBD_LL_Transmit, Lesser, Ctl
<1>5. LET d == USBD_CtlSendData(c, src, n)
      IN  /\ d.state = "DATA_IN" /\ d.in = Lesser(n, Mps) /\ d.rem = n /\ d.total = n
          /\ d.dataLen = r.w /\ d.ptr = 0 /\ ~d.refused /\ ~d.stallIn /\ ~d.stallOut
  BY <1>1 DEF USBD_CtlSendData, USBD_LL_Transmit, Ctl
<1>6. LET d == USBD_CtlPrepareRx(c, n)
      IN  /\ d.state = "DATA_OUT" /\ d.out /\ d.remOut = n /\ d.in = -1
          /\ ~d.refused /\ ~d.stallIn /\ ~d.stallOut
  BY <1>1 DEF USBD_CtlPrepareRx, USBD_LL_PrepareReceive, Ctl
<1>7. QED BY <1>1, <1>2, <1>3, <1>4, <1>5, <1>6

\* The handler looks at the request.
LEMMA SetupStaged ==
  ASSUME TypeInv, IInv, ConfigInv, StageInv, USBD_LL_SetupStage
  PROVE  StageInv'
<1> DEFINE r == host.req
           c == Fresh(ep0, r)
<1>1. /\ "STUP" \in pend /\ "OUT0" \notin pend /\ pend' = pend \ {"STUP"} /\ UNCHANGED <<host, xfer>>
      /\ \/ r.to = "device" /\ USBD_StdDevReq(c, r)
         \/ r.to \in {"class", "interface"} /\ USBD_StdItfReq(c, r)
         \/ r.to \in Eps \cup {EP0} /\ USBD_StdEPReq(c, r)
  BY DEF USBD_LL_SetupStage, AtOut, Fresh
<1>2. r \in Requests /\ r.w \in Nat /\ ep0 \in Ctl /\ host \in Hosts /\ Want(r) \in Nat
  BY RequestLengths DEF TypeInv, HostType, Hosts
<1>3. Answers(c, r)
  <2> HIDE DEF c, r
  <2>1. QED BY <1>1, <1>2, DeviceAnswers, InterfaceAnswers, EndpointAnswers
<1>4. Quiet'
  BY <1>1 DEF StageInv, Quiet
<1>5. CASE xfer.overtaken
  BY <1>1, <1>4, <1>5 DEF StageInv
<1>6. CASE ~xfer.overtaken /\ host.phase = "idle"
  BY <1>1, <1>4, <1>6 DEF StageInv, StageOK, Active
<1>7. CASE ~xfer.overtaken /\ host.phase # "idle"
  <2>1. /\ host.got = 0 /\ host.inOrder /\ xfer.controls = 0
        /\ host.phase = First(r) /\ host.phase \in Active
        /\ r.to = "class" => host.cfg = 1
    BY <1>1, <1>7 DEF StageInv, StageOK, Unseen, First, Active
  <2>2. ep0.in = -1 /\ ~ep0.out /\ ~ep0.stallIn /\ ~ep0.stallOut /\ "IN0" \notin pend
    BY <1>1, <1>7 DEF ConfigInv, FreshInv
  <2> HIDE DEF c
  <2>3. c = Fresh(ep0, r)
    BY DEF c
  <2> HIDE DEF r
  <2>4. /\ host'.phase = First(r) /\ host'.got = 0 /\ host'.inOrder /\ host'.req = r
        /\ "STUP" \notin pend' /\ "IN0" \notin pend' /\ "OUT0" \notin pend'
        /\ xfer'.controls = 0
    BY <1>1, <2>1, <2>2 DEF r
  <2>5. /\ c.state = "SETUP" /\ ~c.refused /\ ~c.stallIn
        /\ \A d \in {USBD_CtlError(c), [StallIn(c) EXCEPT !.refused = TRUE]} :
             d.state = "SETUP" /\ d.stallIn /\ d.refused
        /\ LET d == USBD_CtlSendStatus(c)
           IN  d.state = "STATUS_IN" /\ d.in = 0 /\ ~d.stallIn /\ ~d.refused
    BY <1>2, <2>2, <2>3, AnswerFields
  <2>6. CASE /\ r.w = 0 \/ DeviceToHost(r)
             /\ ep0' \in {USBD_CtlError(c), [StallIn(c) EXCEPT !.refused = TRUE]}
    <3>1. Refusing'
      BY <2>4, <2>5, <2>6 DEF Refusing, First
    <3>2. QED BY <1>4, <2>4, <3>1 DEF StageInv, StageOK, Refusing
  <2>7. CASE r.w = 0 /\ ep0' = USBD_CtlSendStatus(c)
    <3>1. Acking'
      BY <2>4, <2>5, <2>7 DEF Acking, First
    <3>2. QED BY <1>4, <2>4, <3>1 DEF StageInv, StageOK, Acking
  <2>8. CASE r.w > 0 /\ DeviceToHost(r) /\ Want(r) > 0
             /\ \E src \in {"static", "stack"} : ep0' = USBD_CtlSendData(c, src, Want(r))
    <3>1. /\ ep0'.state = "DATA_IN" /\ ep0'.in = Lesser(Want(r), Mps)
          /\ ep0'.rem = Want(r) /\ ep0'.total = Want(r)
          /\ ep0'.dataLen = r.w /\ ep0'.ptr = 0 /\ ~ep0'.refused /\ ~ep0'.stallIn /\ ~ep0'.stallOut
      BY <1>2, <2>2, <2>3, <2>8, AnswerFields
    <3>2. host'.phase = "dataIn"
      BY <1>2, <2>4, <2>8 DEF First
    <3>3. Armed'
      BY <1>2, <2>4, <2>8, <3>1, <3>2 DEF Armed
    <3>4. Reading'
      BY <2>4, <2>8, <3>1, <3>2, <3>3 DEF Reading
    <3>5. QED BY <1>4, <2>4, <3>2, <3>4 DEF StageInv, StageOK
  <2>9. CASE /\ r.w > 0 /\ ~DeviceToHost(r) /\ r.to = "class"
             /\ ep0' = USBD_CtlPrepareRx(c, r.w)
             /\ devState' = devState /\ hcdc' = [hcdc EXCEPT !.cmd = r.b]
    <3>1. /\ ep0'.state = "DATA_OUT" /\ ep0'.out /\ ep0'.remOut = r.w /\ ep0'.in = -1
          /\ ~ep0'.refused /\ ~ep0'.stallIn /\ ~ep0'.stallOut
      BY <1>2, <2>2, <2>3, <2>9, AnswerFields
    <3>2. host'.phase = "dataOut"
      BY <1>2, <2>4, <2>9 DEF First
    <3>3. r.b = "SET_ETH_MULTICAST_FILTERS"
      BY <1>2, <2>9, RequestFacts
    <3>4. hcdc.up
      <4>1. "RST" \notin pend /\ ~Pending
        BY <1>1, <2>1 DEF ConfigInv, AgreeInv, Active, Ended, Pending
      <4>2. QED BY <2>1, <2>9, <4>1 DEF ConfigInv, AgreeInv, Agree, Unknown, r
    <3>5. devState = "CONFIGURED"
      BY <2>1, <3>4 DEF IInv, ClassInv, SuspendInv, AbsState, Active, Ended
    <3>6. hcdc \in UpHandles
      BY <3>4 DEF TypeInv, BusType, Handles, NoHandle
    <3>7. hcdc'.up /\ hcdc'.cmd # "none"
      BY <2>9, <3>3, <3>6 DEF UpHandles
    <3>8. Writing'
      BY <1>2, <2>4, <2>9, <3>1, <3>2, <3>5, <3>7 DEF Writing, Commanded
    <3>9. QED BY <1>4, <2>4, <3>2, <3>8 DEF StageInv, StageOK
  <2>10. CASE r.w = 0 /\ NeverAnswered(r) /\ ep0' = c
    <3>1. Ignoring'
      BY <2>4, <2>5, <2>10 DEF Ignoring, First
    <3>2. QED BY <1>4, <2>4, <3>1 DEF StageInv, StageOK, Ignoring
  <2>11. QED BY <1>3, <2>6, <2>7, <2>8, <2>9, <2>10 DEF Answers
<1>8. QED BY <1>5, <1>6, <1>7

\* The handler looks at a packet from the host: more of a command, its end, or
\* nothing it waits for.
LEMMA DataOutStaged ==
  ASSUME TypeInv, ConfigInv, StageInv, USBD_LL_DataOutStage
  PROVE  StageInv'
<1>1. /\ "OUT0" \in pend /\ pend' = pend \ {"OUT0"} /\ UNCHANGED <<host, devState>>
  BY DEF USBD_LL_DataOutStage
<1>2. ep0 \in Ctl /\ host \in Hosts /\ Mps \in Nat \ {0}
  BY UsbdAssumption DEF TypeInv, HostType
<1>3. Quiet'
  BY <1>1 DEF StageInv, Quiet
<1>4. CASE ep0.state # "DATA_OUT"
  <2>1. UNCHANGED <<ep0, hcdc, xfer>>
    BY <1>4 DEF USBD_LL_DataOutStage
  <2>2. /\ Unseen => Unseen'
        /\ Refusing => Refusing'
        /\ Ignoring => Ignoring'
        /\ Acking => Acking'
        /\ Over => Over'
    BY <1>1, <2>1 DEF Unseen, Refusing, Ignoring, Acking, Over
  <2>3. Reading => Reading'
    BY <1>1, <2>1 DEF Reading, Armed, Taken, Padding, Closing
  <2>4. ~Writing
    BY <1>4 DEF Writing
  <2>5. QED BY <1>1, <1>3, <2>1, <2>2, <2>3, <2>4 DEF StageInv, StageOK
<1>5. CASE ep0.state = "DATA_OUT"
  <2>1. "STUP" \in pend => xfer.overtaken
    BY <1>1, <1>5 DEF ConfigInv, FreshInv
  <2>2. /\ ep0' = IF ep0.remOut > Mps THEN USBD_LL_PrepareReceive([ep0 EXCEPT !.remOut = @ - Mps])
                  ELSE USBD_CtlSendStatus(ep0)
        /\ IF ep0.remOut <= Mps /\ devState = "CONFIGURED" /\ hcdc.cmd # "none"
           THEN xfer' = [xfer EXCEPT !.controls = @ + 1] ELSE UNCHANGED <<hcdc, xfer>>
    BY <1>2, <1>5 DEF USBD_LL_DataOutStage, Ctl
  <2>3. xfer'.overtaken = xfer.overtaken
    BY <2>2 DEF TypeInv, BusType
  <2>4. ep0.remOut > Mps =>
          /\ ep0'.state = "DATA_OUT" /\ ep0'.out /\ ep0'.remOut = ep0.remOut - Mps
          /\ ep0'.in = ep0.in /\ ep0'.refused = ep0.refused
          /\ ep0'.stallIn = ep0.stallIn /\ ep0'.stallOut = ep0.stallOut
    BY <1>2, <1>5, <2>2 DEF USBD_LL_PrepareReceive, Ctl
  <2>5. ep0.remOut <= Mps =>
          /\ ep0'.state = "STATUS_IN" /\ ep0'.in = 0
          /\ ep0'.refused = ep0.refused /\ ep0'.stallIn = ep0.stallIn
    <3>1. ep0.remOut <= Mps => ep0' = USBD_CtlSendStatus(ep0)
      BY <1>2, <2>2 DEF Ctl
    <3>2. LET d == USBD_CtlSendStatus(ep0)
          IN  d.state = "STATUS_IN" /\ d.in = 0 /\ d.refused = ep0.refused /\ d.stallIn = ep0.stallIn
      BY <1>2 DEF USBD_CtlSendStatus, USBD_LL_Transmit, Lesser, Ctl
    <3>3. QED BY <3>1, <3>2
  <2>6. /\ ep0.remOut \in Nat
        /\ host.got \in Nat /\ host.req.w \in Nat
    BY <1>2, RequestFacts DEF Ctl, Hosts
  <2>7. ASSUME ~xfer.overtaken PROVE StageOK'
    <3>1. "STUP" \notin pend /\ "STUP" \notin pend' /\ StageOK
      BY <1>1, <2>1, <2>7 DEF StageInv
    <3>2. host.phase \in Active => Writing
      BY <1>5, <3>1 DEF StageOK, Refusing, Ignoring, Acking, Reading, Armed, Taken, Padding, Closing
    <3>3. ep0'.refused = ep0.refused
      BY <2>4, <2>5, <2>6, <1>2
    <3>4. host.phase = "done" => Over'
      <4>1. CASE host.req.w > 0 /\ ~DeviceToHost(host.req)
        BY <1>5, <3>1, <4>1 DEF StageOK, Over
      <4>2. CASE ~(host.req.w > 0 /\ ~DeviceToHost(host.req))
        BY <1>1, <3>1, <3>3, <4>2 DEF StageOK, Over
      <4>3. QED BY <4>1, <4>2
    <3>5. CASE host.phase \in Active /\ ep0.remOut > Mps
      <4>1. Writing /\ xfer' = xfer /\ hcdc' = hcdc
        BY <1>2, <2>2, <2>6, <3>2, <3>5
      <4>2. host.got + ep0.remOut = host.req.w + Mps /\ host.phase = "dataOut"
        BY <1>1, <3>5, <4>1 DEF Writing
      <4>3. ep0'.remOut > 0 /\ host.got + ep0'.remOut = host.req.w
        <5>1. ep0'.remOut = ep0.remOut - Mps
          BY <2>4, <3>5
        <5>2. QED BY <1>2, <2>6, <3>5, <4>2, <5>1
      <4>4. Writing'
        BY <1>1, <2>4, <3>5, <4>1, <4>2, <4>3 DEF Writing, Commanded
      <4>5. QED BY <1>1, <3>1, <4>2, <4>4 DEF StageOK
    <3>6. CASE host.phase \in Active /\ ~(ep0.remOut > Mps)
      <4>1. Writing /\ host.phase = "statusIn" /\ ep0.remOut <= Mps
        BY <1>1, <1>2, <2>6, <3>2, <3>6 DEF Writing
      <4>2. xfer' = [xfer EXCEPT !.controls = @ + 1] /\ xfer.controls = 0
        BY <2>2, <4>1 DEF Writing, Commanded
      <4>3. xfer'.controls = 1
        BY <4>2 DEF TypeInv, BusType
      <4>4. Acking'
        BY <1>1, <2>5, <4>1, <4>3 DEF Acking, Writing
      <4>5. QED BY <1>1, <3>1, <4>1, <4>4 DEF StageOK
    <3>7. CASE host.phase \notin Active
      BY <1>1, <3>1, <3>3, <3>4, <3>7 DEF StageOK
    <3>8. QED BY <3>5, <3>6, <3>7
  <2>8. QED BY <1>3, <2>3, <2>7 DEF StageInv
<1>6. QED BY <1>4, <1>5

\* What becomes of endpoint 0 when the handler finds that the host took a packet of a
\* reply.
LEMMA DataInFields ==
  ASSUME NEW c \in Ctl, c.state = "DATA_IN", NEW d, d = EP0_DataInStage(c)
  PROVE  /\ d.refused = c.refused /\ d.stallOut = c.stallOut /\ d.out
         /\ IF c.rem > Mps
            THEN /\ d.state = "DATA_IN" /\ d.rem = c.rem - Mps /\ d.total = c.rem - Mps
                 /\ d.in = Lesser(c.rem - Mps, Mps) /\ d.ptr = c.ptr
                 /\ d.dataLen = c.dataLen /\ d.stallIn = c.stallIn
            ELSE IF NeedsZlp(c)
            THEN /\ d.state = "DATA_IN" /\ d.rem = c.rem /\ d.total = 0 /\ d.in = 0
                 /\ d.stallIn = c.stallIn
            ELSE d.state = "STATUS_OUT"
<1>1. CASE c.rem > Mps
  <2>1. d = USBD_LL_PrepareReceive(
              USBD_LL_Transmit([c EXCEPT !.rem = @ - Mps], c.src, c.ptr, c.rem - Mps))
    BY <1>1 DEF EP0_DataInStage
  <2>2. QED BY <1>1, <2>1 DEF USBD_LL_PrepareReceive, USBD_LL_Transmit, Ctl
<1>2. CASE ~(c.rem > Mps) /\ NeedsZlp(c)
  <2>1. d = USBD_LL_PrepareReceive(
              USBD_LL_Transmit([c EXCEPT !.dataLen = 0], "static", c.ptr, 0))
    BY <1>2 DEF EP0_DataInStage
  <2>2. Lesser(0, Mps) = 0
    BY UsbdAssumption DEF Lesser
  <2>3. QED BY <1>2, <2>1, <2>2 DEF USBD_LL_PrepareReceive, USBD_LL_Transmit, Ctl
<1>3. CASE ~(c.rem > Mps) /\ ~NeedsZlp(c)
  <2>1. d = USBD_CtlReceiveStatus(StallIn(c))
    BY <1>3 DEF EP0_DataInStage
  <2>2. QED BY <1>3, <2>1 DEF USBD_CtlReceiveStatus, StallIn, USBD_LL_PrepareReceive, Ctl
<1>4. QED BY <1>1, <1>2, <1>3

\* The handler arms the next packet of a reply, the zero-length packet or the status
\* stage; a packet of the status stage is nothing to it.
LEMMA DataInStaged ==
  ASSUME TypeInv, ConfigInv, StageInv, USBD_LL_DataInStage
  PROVE  StageInv'
<1>1. /\ "IN0" \in pend /\ pend' = pend \ {"IN0"} /\ UNCHANGED <<host, xfer, devState, hcdc>>
      /\ ep0' = EP0_DataInStage(ep0)
  BY DEF USBD_LL_DataInStage, dev
<1>2. /\ ep0 \in Ctl /\ host \in Hosts /\ Mps \in Nat \ {0}
      /\ host.req \in Requests /\ host.req.w \in Nat /\ host.got \in Nat /\ Want(host.req) \in Nat
      /\ ep0.rem \in Nat
  BY UsbdAssumption, RequestLengths DEF TypeInv, HostType, Hosts, Ctl
<1>3. Quiet'
  BY <1>1 DEF StageInv, Quiet
<1>4. "STUP" \in pend => xfer.overtaken
  BY <1>1 DEF ConfigInv, FreshInv
<1>5. CASE xfer.overtaken
  BY <1>1, <1>3, <1>5 DEF StageInv
<1>6. CASE ~xfer.overtaken /\ ep0.state # "DATA_IN"
  <2>1. ep0' = ep0
    BY <1>1, <1>6 DEF EP0_DataInStage
  <2>2. /\ Refusing => Refusing'
        /\ Ignoring => Ignoring'
        /\ Acking => Acking'
        /\ Over => Over'
    BY <1>1, <2>1 DEF Refusing, Ignoring, Acking, Over
  <2>3. Reading => Reading'
    BY <1>1, <1>6, <2>1 DEF Reading, Armed, Taken, Padding, Closing
  <2>4. Writing => Writing'
    BY <1>1, <2>1 DEF Writing, Commanded
  <2>5. QED BY <1>1, <1>3, <1>4, <1>6, <2>1, <2>2, <2>3, <2>4 DEF StageInv, StageOK
<1>7. CASE ~xfer.overtaken /\ ep0.state = "DATA_IN"
  <2>1. /\ ep0'.refused = ep0.refused /\ ep0'.stallOut = ep0.stallOut /\ ep0'.out
        /\ ep0'.state \in {"DATA_IN", "STATUS_OUT"}
    BY <1>1, <1>2, <1>7, DataInFields
  <2>2. "STUP" \notin pend /\ "STUP" \notin pend' /\ StageOK
    BY <1>1, <1>4, <1>7 DEF StageInv
  <2>3. Over => Over'
    BY <1>1, <2>1 DEF Over
  <2>4. CASE host.phase \notin Active
    BY <1>1, <1>3, <1>7, <2>1, <2>2, <2>3, <2>4 DEF StageInv, StageOK
  <2>5. CASE host.phase \in Active
    <3>1. Reading /\ (Taken \/ (Padding /\ host.phase = "statusOut"))
      BY <1>1, <1>7, <2>2, <2>5
         DEF StageOK, Refusing, Ignoring, Acking, Reading, Writing, Armed, Padding, Closing
    <3>2. ASSUME Armed' \/ Padding' \/ Closing', host.phase = "dataIn" => ep0'.stallIn = ep0.stallIn
          PROVE  StageInv'
      <4>1. Reading'
        BY <1>1, <2>1, <3>1, <3>2 DEF Reading
      <4>2. QED BY <1>1, <1>3, <2>2, <3>1, <4>1 DEF StageInv, StageOK, Reading
    <3>3. CASE Taken /\ ep0.rem > Mps
      <4>1. /\ ep0'.state = "DATA_IN" /\ ep0'.rem = ep0.rem - Mps /\ ep0'.total = ep0.rem - Mps
            /\ ep0'.in = Lesser(ep0.rem - Mps, Mps) /\ ep0'.ptr = ep0.ptr
            /\ ep0'.dataLen = ep0.dataLen /\ ep0'.stallIn = ep0.stallIn
        BY <1>1, <1>2, <1>7, <3>3, DataInFields
      <4>2. host.got + (ep0.rem - Mps) = Want(host.req) /\ ep0.rem - Mps > 0
        BY <1>2, <3>3 DEF Taken
      <4>3. Armed'
        BY <1>1, <3>3, <4>1, <4>2 DEF Armed, Taken
      <4>4. QED BY <3>2, <4>1, <4>3
    <3>4. CASE Taken /\ ~(ep0.rem > Mps) /\ NeedsZlp(ep0)
      <4>1. /\ ep0'.state = "DATA_IN" /\ ep0'.rem = ep0.rem /\ ep0'.total = 0 /\ ep0'.in = 0
            /\ ep0'.stallIn = ep0.stallIn
        BY <1>1, <1>2, <1>7, <3>4, DataInFields
      <4>2. Padding'
        BY <1>1, <2>1, <3>4, <4>1 DEF Padding, Taken, NeedsZlp
      <4>3. QED BY <3>2, <4>1, <4>2
    <3>5. CASE Taken /\ ~(ep0.rem > Mps) /\ ~NeedsZlp(ep0)
      <4>1. ep0'.state = "STATUS_OUT"
        BY <1>1, <1>2, <1>7, <3>5, DataInFields
      <4>2. ~(ep0.rem = Mps /\ host.got < host.req.w)
        BY <1>2, <3>5 DEF Taken, NeedsZlp
      <4>3. Closing' /\ host.phase = "statusOut"
        BY <1>1, <2>1, <3>5, <4>1, <4>2 DEF Closing, Taken
      <4>4. QED BY <3>2, <4>3
    <3>6. CASE Padding /\ host.phase = "statusOut"
      <4>1. ~(ep0.rem > Mps) /\ ~NeedsZlp(ep0)
        BY <1>2, <3>6 DEF Padding, NeedsZlp
      <4>2. ep0'.state = "STATUS_OUT"
        BY <1>1, <1>2, <1>7, <4>1, DataInFields
      <4>3. Closing'
        BY <1>1, <2>1, <3>6, <4>2 DEF Closing, Padding
      <4>4. QED BY <3>2, <3>6, <4>3
    <3>7. QED BY <3>1, <3>3, <3>4, <3>5, <3>6
  <2>6. QED BY <2>4, <2>5
<1>8. QED BY <1>5, <1>6, <1>7

\* The handler keeps the stages.
LEMMA IrqStaged ==
  ASSUME TypeInv, IInv, ConfigInv, StageInv, HAL_PCD_IRQHandler
  PROVE  StageInv'
<1>1. CASE USBD_LL_SetupStage
  BY <1>1, SetupStaged
<1>2. CASE USBD_LL_DataOutStage
  BY <1>2, DataOutStaged
<1>3. CASE USBD_LL_DataInStage
  BY <1>3, DataInStaged
<1>4. CASE USBD_CDC_ECM_DataIn
  <2>1. Commanded => Commanded'
    <3>1. Commanded => hcdc \in UpHandles
      BY DEF Commanded, TypeInv, BusType, Handles, NoHandle
    <3>2. hcdc' = hcdc \/ hcdc' = [hcdc EXCEPT !.notification = 0]
      BY <1>4 DEF USBD_CDC_ECM_DataIn
    <3>3. Commanded => hcdc'.up /\ hcdc'.cmd # "none"
      BY <3>1, <3>2 DEF UpHandles, Commanded
    <3>4. QED BY <1>4, <3>3 DEF USBD_CDC_ECM_DataIn, Commanded
  <2>2. /\ UNCHANGED <<ep0, host, xfer>>
        /\ \A f \in {"STUP", "IN0", "OUT0"} : f \in pend' <=> f \in pend
        /\ pend' \subseteq pend
    BY <1>4 DEF USBD_CDC_ECM_DataIn
  <2>3. QED BY <2>1, <2>2, StageKept
<1>5. CASE USBD_LL_Resume \/ USBD_LL_Suspend
  <2>1. /\ UNCHANGED <<ep0, host, xfer>>
        /\ \A f \in {"STUP", "IN0", "OUT0"} : f \in pend' <=> f \in pend
        /\ pend' \subseteq pend
        /\ host.phase \notin Active
    BY <1>5 DEF USBD_LL_Resume, USBD_LL_Suspend, StageInv, Quiet, BusFlags
  <2>2. QED BY <2>1, StageKept
<1>6. CASE irq_return
  <2>1. UNCHANGED <<ep0, host, xfer, pend, devState, hcdc>>
    BY <1>6 DEF irq_return, dev
  <2>2. Commanded => Commanded'
    BY <2>1 DEF Commanded
  <2>3. QED BY <2>1, <2>2, StageKept
<1>7. CASE USBD_LL_Reset
  <2>1. /\ "RST" \in pend /\ pend' = {} /\ UNCHANGED <<host, xfer>>
        /\ ep0' = [ep0 EXCEPT !.state = "IDLE", !.in = -1, !.out = FALSE,
                              !.stallIn = FALSE, !.stallOut = FALSE]
    BY <1>7 DEF USBD_LL_Reset
  <2>2. host.phase \notin Active
    BY <2>1 DEF StageInv, Quiet, BusFlags
  <2>3. ep0'.refused = ep0.refused /\ ep0'.state = "IDLE"
    BY <2>1 DEF TypeInv, Ctl
  <2>4. ~xfer.overtaken /\ "STUP" \in pend => host.phase = "idle"
    BY <2>2 DEF StageInv, StageOK, Unseen, First, Active
  <2>5. Over => Over'
    BY <2>1, <2>3 DEF Over
  <2>6. QED BY <2>1, <2>2, <2>3, <2>4, <2>5 DEF StageInv, StageOK, Quiet
<1>8. QED BY <1>1, <1>2, <1>3, <1>4, <1>5, <1>6, <1>7 DEF HAL_PCD_IRQHandler

\* The host takes a packet of the reply.
LEMMA DataTaken ==
  ASSUME TypeInv, ConfigInv, StageInv, HostDataIn
  PROVE  StageInv'
<1>1. /\ host.phase = "dataIn" /\ ep0.in >= 0 /\ ~ep0.stallIn
      /\ ep0' = [ep0 EXCEPT !.in = -1, !.ptr = @ + ep0.in]
      /\ pend' = pend \cup {"IN0"} /\ UNCHANGED xfer
  BY DEF HostDataIn
<1>2. /\ ep0 \in Ctl /\ host \in Hosts /\ Mps \in Nat \ {0}
      /\ host.req \in Requests /\ host.req.w \in Nat /\ host.got \in Nat
      /\ Want(host.req) \in Nat /\ Want(host.req) <= host.req.w
      /\ ep0.rem \in Nat /\ ep0.ptr \in Nat /\ ep0.in \in Int
  BY UsbdAssumption, RequestLengths DEF TypeInv, HostType, Hosts, Ctl
<1>3. /\ ep0'.in = -1 /\ ep0'.ptr = ep0.ptr + ep0.in
      /\ ep0'.state = ep0.state /\ ep0'.rem = ep0.rem /\ ep0'.total = ep0.total
      /\ ep0'.dataLen = ep0.dataLen /\ ep0'.out = ep0.out /\ ep0'.refused = ep0.refused
      /\ ep0'.stallIn = ep0.stallIn /\ ep0'.stallOut = ep0.stallOut
  BY <1>1, <1>2 DEF Ctl
<1>4. /\ host'.got = host.got + ep0.in /\ host'.req = host.req
      /\ host.inOrder /\ (ep0.in > 0 => host.got = ep0.ptr) => host'.inOrder
      /\ host'.phase = IF ep0.in < Mps \/ host.got + ep0.in >= host.req.w
                       THEN "statusOut" ELSE "dataIn"
  BY <1>2 DEF HostDataIn, Hosts
<1>5. Quiet'
  BY <1>1 DEF StageInv, Quiet, Active, BusFlags
<1>6. "STUP" \in pend => xfer.overtaken
  BY <1>1 DEF ConfigInv, FreshInv
<1>7. ASSUME ~xfer.overtaken PROVE StageOK'
  <2>1. "STUP" \notin pend /\ "STUP" \notin pend' /\ StageOK
    BY <1>1, <1>6, <1>7 DEF StageInv
  <2>2. Reading /\ (Armed \/ (Padding /\ "IN0" \notin pend))
    BY <1>1, <2>1 DEF StageOK, Active, Refusing, Ignoring, Acking, Writing, Reading, Taken, Padding, Closing
  <2>3. ASSUME Taken' \/ Padding', ep0.in > 0 => host.got = ep0.ptr
        PROVE  StageOK'
    <3>1. Reading'
      BY <1>1, <1>3, <1>4, <2>2, <2>3 DEF Reading
    <3>2. QED BY <2>1, <3>1 DEF StageOK, Reading
  <2>4. CASE Armed /\ ep0.rem > Mps
    <3>1. ep0.in = Mps
      BY <1>2, <2>4 DEF Armed, Lesser
    <3>2. host'.got + ep0.rem = Want(host.req) + Mps /\ host'.phase = "dataIn"
          /\ ep0.ptr + ep0.in = host'.got
      <4>1. host.got + ep0.rem = Want(host.req) /\ ep0.ptr = host.got
        BY <2>4 DEF Armed
      <4>2. ~(host.got + ep0.in >= host.req.w) /\ ~(ep0.in < Mps)
        BY <1>2, <2>4, <3>1, <4>1
      <4>3. QED BY <1>2, <1>4, <3>1, <4>1, <4>2
    <3>3. Taken'
      BY <1>1, <1>3, <1>4, <2>4, <3>2 DEF Taken, Armed
    <3>4. QED BY <2>3, <2>4, <3>3 DEF Armed
  <2>5. CASE Armed /\ ~(ep0.rem > Mps)
    <3>1. ep0.in = ep0.rem /\ ep0.rem <= Mps
      BY <1>2, <2>5 DEF Armed, Lesser
    <3>2. /\ host'.got = Want(host.req) /\ host'.got >= ep0.rem /\ ep0.ptr + ep0.in = host'.got
          /\ host'.phase = IF ep0.rem = Mps /\ host'.got < host.req.w THEN "dataIn" ELSE "statusOut"
      <4>1. host.got + ep0.rem = Want(host.req) /\ ep0.ptr = host.got
        BY <2>5 DEF Armed
      <4>2. QED BY <1>2, <1>4, <3>1, <4>1
    <3>3. Taken'
      BY <1>1, <1>3, <1>4, <2>5, <3>2 DEF Taken, Armed
    <3>4. QED BY <2>3, <2>5, <3>3 DEF Armed
  <2>6. CASE Padding /\ "IN0" \notin pend
    <3>1. ep0.in = 0
      BY <2>6 DEF Padding
    <3>2. host'.got = host.got /\ host'.phase = "statusOut"
      BY <1>2, <1>4, <3>1
    <3>3. Padding'
      BY <1>1, <1>3, <1>4, <2>6, <3>2 DEF Padding
    <3>4. QED BY <2>3, <3>1, <3>3
  <2>7. QED BY <2>2, <2>4, <2>5, <2>6
<1>8. QED BY <1>1, <1>5, <1>7 DEF StageInv

\* It sends a packet of a command.
LEMMA DataSent ==
  ASSUME TypeInv, ConfigInv, StageInv, HostDataOut
  PROVE  StageInv'
<1>1. /\ host.phase = "dataOut" /\ ep0.out
      /\ ep0' = [ep0 EXCEPT !.out = FALSE]
      /\ pend' = pend \cup {"OUT0"} /\ UNCHANGED <<xfer, devState, hcdc>>
  BY DEF HostDataOut, dev
<1>2. /\ ep0 \in Ctl /\ host \in Hosts /\ Mps \in Nat \ {0}
      /\ host.req.w \in Nat /\ host.got \in Nat /\ ep0.remOut \in Nat
  BY UsbdAssumption, RequestLengths DEF TypeInv, HostType, Hosts, Ctl
<1>3. /\ ~ep0'.out /\ ep0'.in = ep0.in /\ ep0'.state = ep0.state /\ ep0'.remOut = ep0.remOut
      /\ ep0'.refused = ep0.refused /\ ep0'.stallIn = ep0.stallIn /\ ep0'.stallOut = ep0.stallOut
  BY <1>1, <1>2 DEF Ctl
<1>4. LET sent == host.got + Lesser(Mps, host.req.w - host.got)
      IN  /\ host'.got = sent /\ host'.req = host.req
          /\ host'.phase = IF sent = host.req.w THEN "statusIn" ELSE "dataOut"
  BY <1>2 DEF HostDataOut, Hosts
<1>5. Quiet'
  BY <1>1 DEF StageInv, Quiet, Active, BusFlags
<1>6. "STUP" \in pend => xfer.overtaken
  BY <1>1 DEF ConfigInv, FreshInv
<1>7. ASSUME ~xfer.overtaken PROVE StageOK'
  <2>1. "STUP" \notin pend /\ "STUP" \notin pend' /\ StageOK
    BY <1>1, <1>6, <1>7 DEF StageInv
  <2>2. Writing /\ "OUT0" \notin pend
    BY <1>1, <2>1 DEF StageOK, Active, Refusing, Ignoring, Acking, Writing, Reading
  <2>3. ep0.remOut > 0 /\ host.got + ep0.remOut = host.req.w
    BY <2>2 DEF Writing
  <2>4. IF ep0.remOut > Mps THEN host'.phase = "dataOut" /\ host'.got + ep0.remOut = host.req.w + Mps
        ELSE host'.phase = "statusIn"
    <3>1. Lesser(Mps, host.req.w - host.got) = IF ep0.remOut > Mps THEN Mps ELSE ep0.remOut
      BY <1>2, <2>3 DEF Lesser
    <3>2. QED BY <1>2, <1>4, <2>3, <3>1
  <2>5. Writing'
    BY <1>1, <1>3, <1>4, <2>2, <2>4 DEF Writing, Commanded
  <2>6. QED BY <2>1, <2>4, <2>5 DEF StageOK
<1>8. QED BY <1>1, <1>5, <1>7 DEF StageInv

\* The host keeps the stages.
LEMMA HostStaged ==
  ASSUME TypeInv, IInv, ConfigInv, StageInv, Host
  PROVE  StageInv'
<1>a. ep0 \in Ctl /\ host \in Hosts /\ xfer \in [overtaken : BOOLEAN, controls : Nat]
  BY DEF TypeInv, HostType, BusType
<1>1. ASSUME NEW r \in Requests, HostSetup(r)
      PROVE  StageInv'
  <2>1. /\ host'.req = r /\ host'.got = 0 /\ host'.inOrder /\ host'.phase = First(r)
        /\ host'.cfg = IF r.b = "SET_CONFIGURATION" /\ Unhandled THEN Unknown ELSE host.cfg
    BY <1>1, <1>a DEF HostSetup, Hosts, First
  <2>2. /\ pend' = pend \cup {"STUP"} /\ pend \cap BusFlags = {}
        /\ xfer'.overtaken = Unhandled /\ xfer'.controls = 0
        /\ r.to = "class" => host.cfg = 1
    BY <1>1 DEF HostSetup
  <2>3. Quiet'
    BY <2>2 DEF Quiet, BusFlags
  <2>4. ~Unhandled => Unseen'
    BY <2>1, <2>2 DEF Unseen
  <2>5. QED BY <2>2, <2>3, <2>4 DEF StageInv, StageOK
<1>2. CASE HostDataIn
  BY <1>2, DataTaken
<1>3. CASE HostDataOut
  BY <1>3, DataSent
<1>4. CASE HostStatusIn \/ HostStatusOut \/ HostStalled \/ HostGivesUp
  <2>1. /\ host'.req = host.req /\ host'.got = host.got /\ host'.inOrder = host.inOrder
        /\ host'.phase \in {"done", "stalled", "abandoned"}
        /\ HostStatusIn \/ HostStatusOut => host'.phase = "done"
        /\ HostStalled => host'.phase = "stalled"
        /\ HostGivesUp => host'.phase = "abandoned"
    BY <1>4, <1>a DEF HostStatusIn, HostStatusOut, HostStalled, HostGivesUp, Hosts
  <2>2. /\ ep0'.state = ep0.state /\ ep0'.refused = ep0.refused /\ UNCHANGED xfer
        /\ "STUP" \in pend' <=> "STUP" \in pend
    BY <1>4, <1>a DEF HostStatusIn, HostStatusOut, HostStalled, HostGivesUp, Ctl
  <2>3. ("STUP" \in pend => xfer.overtaken) /\ host.phase \in Active
    BY <1>4 DEF HostStatusIn, HostStatusOut, HostStalled, HostGivesUp, Stalled, Active,
                ConfigInv, FreshInv
  <2>4. Quiet'
    BY <2>1 DEF Quiet, Active
  <2>5. ASSUME ~xfer.overtaken PROVE StageOK'
    <3>1. /\ "STUP" \notin pend /\ "STUP" \notin pend'
          /\ Refusing \/ Ignoring \/ Acking \/ Reading \/ Writing
      BY <2>2, <2>3, <2>5 DEF StageInv, StageOK
    <3>2. HostStatusIn => Over'
      <4>1. CASE HostStatusIn
        <5>1. Ignoring \/ Acking
          BY <3>1, <4>1 DEF HostStatusIn, Refusing, Reading, Writing
        <5>2. QED BY <2>1, <2>2, <5>1 DEF Ignoring, Acking, Over
      <4>2. QED BY <4>1
    <3>3. HostStatusOut => Over'
      <4>1. CASE HostStatusOut
        <5>1. Reading /\ host.phase = "statusOut"
          BY <3>1, <4>1 DEF HostStatusOut, Refusing, Ignoring, Acking, Writing
        <5>2. host.got = Want(host.req)
          BY <5>1 DEF Reading, Armed, Taken, Padding, Closing
        <5>3. QED BY <2>1, <2>2, <5>1, <5>2 DEF Reading, Over
      <4>2. QED BY <4>1
    <3>4. HostStalled => ep0'.refused
      <4>1. CASE HostStalled
        BY <2>2, <3>1, <4>1
           DEF HostStalled, Stalled, Refusing, Ignoring, Acking, Reading, Writing
      <4>2. QED BY <4>1
    <3>5. QED BY <1>4, <2>1, <3>1, <3>2, <3>3, <3>4 DEF StageOK, Active
  <2>6. QED BY <2>2, <2>4, <2>5 DEF StageInv
<1>5. CASE HostPollsCmd
  <2>1. /\ UNCHANGED <<ep0, host, xfer, devState, hcdc>>
        /\ \A f \in {"STUP", "IN0", "OUT0"} : f \in pend' <=> f \in pend
        /\ pend' \cap BusFlags = pend \cap BusFlags
    BY <1>5 DEF HostPollsCmd, dev, BusFlags
  <2>2. QED BY <2>1, StageKept DEF Commanded
<1>6. CASE HostSuspends \/ HostResumes
  <2>1. /\ UNCHANGED <<ep0, host, xfer>>
        /\ \A f \in {"STUP", "IN0", "OUT0"} : f \in pend' <=> f \in pend
        /\ host.phase \notin Active
    BY <1>6 DEF HostSuspends, HostResumes, IInv, SuspendInv, Active, Ended
  <2>2. QED BY <2>1, StageKept
<1>7. CASE HostResets
  <2>1. /\ host'.phase = "idle" /\ host'.got = host.got /\ host'.inOrder = host.inOrder
        /\ UNCHANGED xfer /\ ("STUP" \in pend' <=> "STUP" \in pend)
    BY <1>7, <1>a DEF HostResets, Hosts
  <2>2. QED BY <2>1 DEF StageInv, StageOK, Quiet, Unseen, Active
<1>8. QED BY <1>1, <1>2, <1>3, <1>4, <1>5, <1>6, <1>7 DEF Host

\* Every step keeps them.
LEMMA NextStage ==
  ASSUME TypeInv, IInv, ConfigInv, StageInv, [Next]_vars
  PROVE  StageInv'
<1>1. CASE UNCHANGED vars
  <2>1. UNCHANGED <<ep0, host, xfer, pend, devState, hcdc>>
    BY <1>1 DEF vars, dev
  <2>2. QED BY <2>1, StageKept DEF Commanded
<1>2. QED BY <1>1, IrqStaged, HostStaged DEF Next

\* Of a transfer whose SETUP packet overtook no packet, the stage is known in every state.
LEMMA Stages == Spec => [](TypeInv /\ ConfigInv /\ StageInv)
BY Inductive, Strong, InitStage, NextStage, PTL DEF Spec

\* A control read that completes has returned the whole reply, cut at wLength, each
\* byte once and in order, for every packet size and length: the zero-length packet
\* comes where the host waits for one and adds nothing (USBD_LL_DataInStage,
\* usbd_core.c; USBD_CtlSendData, usbd_ioreq.c).
THEOREM RepliesComplete == Spec => []ReplyComplete
BY Stages, StageGives, PTL

\* The host sees STALL exactly for the requests that the device refuses
\* (USBD_CtlError, usbd_ctlreq.c; USBD_StdEPReq, usbd_ctlreq.c).
THEOREM StallsAreRefusals == Spec => []StallMeansRefused
BY Stages, StageGives, PTL

\* When the handler has nothing left to do, endpoint 0 is ready for the stage that the
\* host's transfer is in, unless it asked for a feature that nobody knows
\* (USBD_LL_SetupStage, USBD_LL_DataOutStage and USBD_LL_DataInStage, usbd_core.c).
THEOREM RequestsAnswered == Spec => []Answered
BY Stages, StageGives, PTL

\* The interface gets a command with data exactly once, however many packets carry it
\* (USBD_CDC_ECM_EP0_RxReady, usbd_cdc_ecm.c; USBD_LL_DataOutStage, usbd_core.c).
THEOREM CommandsOnce == Spec => []ControlOnce
BY Stages, StageGives, PTL

===============================================================================
