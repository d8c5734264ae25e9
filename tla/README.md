# TLA+ models of mqtt-accelero

mqtt-accelero is the firmware of an STM32F407 board. It is a USB network adapter
(CDC-ECM) to its host, runs lwIP over that link, and publishes accelerometer readings
to an MQTT broker on the host. This directory holds TLA+ modules of its core, the TLC
configurations that check them and TLAPS proofs of what holds for every value of the
constants. `PROJECT.json` lists components, runs, mutants, hazards and theorems, and
maps every definition to the source lines it models.

    tlc -workers 2 -config rx_sessions.cfg MCEcmRx
    tlapm EcmRx_proofs.tla

Paths below are under `src/`.

## 1. The system

### Components

| component | state | operations |
|---|---|---|
| Network event loop, `system/net.c` | notification flags of the thread `lwip_input`, its local `hcdc`, the link flag of `main_netif` | `net_notify` (from the USB interrupt), `net_event_loop`, `ll_input`, `ll_output_cb` (in whichever thread lwIP sends from) |
| CDC-ECM class, `usb/class/cdc_ecm/` | heap block `hcdc` behind `USBD_Device.pClassData`: buffers, `RxLength`, `RxState`, `TxLength`, `TxState`, `LinkStatus`, `NotificationStatus`, `CmdOpCode` | `Init`, `DeInit`, `Setup`, `DataIn`, `DataOut`, `EP0_RxReady`, `SetTxBuffer`, `TransmitPacket`, `SendNotification`, the callbacks of `usbd_cdc_ecm_if.c` |
| USB device library, `usb/core/` | `dev_state`, `dev_old_state`, `ep0_state`, `ep0_data_len`, lengths of endpoint 0 | setup, data-in and data-out stage, standard requests, suspend, resume, reset |
| Driver glue and controller driver, `usb/usbd_conf.c`, `hal/st-hal/stm32f4xx_hal_pcd.c` | endpoint records (`xfer_len`, `xfer_count`, `is_stall`), interrupt flags, STALL bits | `HAL_PCD_IRQHandler`, `PCD_WriteEmptyTxFifo`, `HAL_PCD_EP_*` |
| lwIP's tcpip thread, `3rdparty/lwip/src/api/tcpip.c` | mailbox, recursive core mutex, pbuf pool | fetch, handle a message, timers |
| OS abstraction, `osal/` | FreeRTOS objects | notifications, semaphores, mutexes, threads |
| MQTT telemetry, `app/mqtt_client.c` over lwIP's `mqtt.c` | connection state, request table, output ring, the semaphore `conn_successfull` | connect, wait 5 s for CONNACK, publish every 100 ms, TCP callbacks, cyclic timer |
| SPI and accelerometer, `system/spi.c`, `system/accelero.c`, `drivers/lis3dsh.c` | HAL handle with its lock and counts, chip select | polled transfers, reads of xyz and tilt |
| UART and console, `system/uart.c`, `system/dbgio.c` | HAL handle, console mutex, `rx_sem` | locked and unlocked prints, blocking getchar |
| Clock, `system/uptimer.c`, `system/timer.c`, `app/retarget.c` | `sec`, timer counter | update in TIM5's interrupt, read of seconds then milliseconds |
| Shell, `app/shell/`, `system/cmd_line.c` | microrl line | help, hello, rtc, mqtt, ping, lis |
| Start-up, `app/main.c`, `system/usb_ecm.c` | the threads that exist | `app`, `main`, `usb_ecm_init` |
| GPIO, RTC, CPU helpers; FreeRTOS, lwIP protocols, microrl, tiny-printf, vendor HAL | | third-party, or single register accesses |

### How they interact

    host -> controller -> OTG_FS interrupt -> USBD_LL_* -> class callbacks
                                                             | net_notify (flags)
                                                             v
    app threads --raw API--> lwIP core <--mailbox-- lwip_input (net_event_loop)
                               |  ^ core mutex          | PrepareReceive
                 ll_output_cb  v  |                      v
                       IN endpoint, UserTxBuffer     OUT endpoint, UserRxBuffer

The USB interrupt and the threads share `USBD_Device.pClassData`, the fields of the
block it points to, the endpoint records, and the two static frame buffers. Nothing
protects them: the protocol is that the OUT endpoint answers NAK while a thread reads
the receive buffer, and that `TxState` is 1 while the endpoint reads the transmit
buffer. The block is allocated and freed *in the interrupt*, at SET_CONFIGURATION and
at reset, while threads keep copies of the pointer.

### What is hard, and what makes each part correct

* **Sessions end at any time.** A bus reset or SET_CONFIGURATION 0 frees the handle
  between any two instructions of a thread, and a new session may get the same block.
  Correct: no store past the receive buffer, no pbuf lost, the transmitter of the new
  session is not stuck, the link ends up in the right state.
* **Notifications are merged.** Flags that arrive before the thread wakes up are one
  value, and `net_event_loop` handles LINK_UP before LINK_DOWN.
* **Failure paths of `net_event_loop`.** No pbuf, mailbox full. Correct: the core mutex
  is released, the endpoint is armed again, the pbuf is freed once.
* **Several senders.** `TxState` is tested at one place and set at another. Correct: an
  accepted frame arrives whole, once, in order; every call returns.
* **Endpoint 0.** Replies of several packets, a last packet that is full, requests
  refused or not answered, the host going on while the handler still looks at flags of
  the transfer before. Correct: the host gets the whole reply, STALL means refused, and
  no request hangs.
* **Suspend, wake-up and reset** in any order. Correct: the device is never stuck in
  SUSPENDED.
* **MQTT.** The telemetry thread uses the raw API outside the core lock, so it walks
  the request queue and fills the output ring while the tcpip_thread does the same;
  requests are answered, time out or are dropped with the connection; the ring and the
  table run full; messages are cut in two. Correct: a request leaves the table once and
  in time, the bytes TCP gets are those that were appended, nothing stays pending.
* **SPI.** Two threads use one handle without a lock. Correct: whatever a collision does
  to the two reads, it leaves nothing behind that makes later reads fail.
* **Console.** Prints with and without the mutex, a forced UART state, and one HAL lock
  for both directions. Correct: a text under the mutex comes out whole, and the shell
  does not wait for a character that nobody will signal.
* **Clock.** Seconds and counter are read apart. Correct: the error has a bound.

`PROJECT.json` lists each hazard at its line, with the properties that cover it.

## 2. Modules

    EcmRx   ---- implements ----> UsbDevice <---- implements ---- Usbd
    EcmTx   ---- implements ----> TxPipe
    MqttClient -- implements ---> RequestTable
    SpiBus, Console, Uptime: no abstract specification of their own
    MCEcmRx, MCEcmTx, MCUsbd: symmetry sets for TLC
    MCThreads: one run for MqttClient, SpiBus, Console and Uptime
    *_proofs: theorems

### EcmRx: receive path and link events

Three actors. The **interrupt** (`Isr`, `WildStore`) is atomic: no thread runs before it
returns, so everything a callback does is one action, for instance
`DataOutStage` = store the packet, `USBD_CDC_ECM_DataOut`, and the notification if it
was the last. **lwip_input** (`net_event_loop`) is cut at each access to state that the
interrupt or the other thread also accesses: `notify_wait`, `handle_link_up`,
`handle_link_down`, `lock_core`, `ll_input_alloc`, `ll_input_copy`, `netif_input`,
`unlock_core`, `reset_length`, `reset_state`, `prepare_receive`. **tcpip_thread** is
`mbox_fetch`, `tcpip_lock`, `handle_msg`.

`memcpy` in `ll_input` is one step: what matters is whether the interrupt stored into
the buffer before it, and a store during the copy implies an armed endpoint, which
`NackedTillDone` looks at. `pClassData` and `hcdc` are addresses from `Handles`; a freed
block keeps its contents and may be handed out again. `ll_input_undefined` and
`reset_length` give what reading or writing through NULL or copying more than a pool
pbuf holds can lead to: a value that makes the test false, a store that is dropped, or
the HardFault loop (`fault`, after which nothing moves). Bytes are `Cell(frame, index,
length)`, so a buffer holds a frame exactly if `FrameIn` says so. The lwIP core keeps
any number of pbufs up to `MaxHeld`. Suspend is left out; it is in `Usbd`.

### EcmTx: transmit path

`ll_output_cb` of each sender is cut at its accesses to `TxState`, `TxLength`, the
buffer and the endpoint: `call`, `spin`/`give_up`, `begin`, `copy` (one pbuf of the
chain, any split), `USBD_CDC_ECM_SetTxBuffer`, `transmit_check`, `transmit_set`,
`transmit_arm`. `no_handle` is the call without a handle, at boot or between sessions.
The interrupt refills the FIFO packet by packet *from the buffer*
(`PCD_WriteEmptyTxFifo`) and completes the transfer (`USBD_CDC_ECM_DataIn`, with the
zero-length packet). `rcv` and `delivered` are what the host makes of the packets.
`TxPipe` is the promise to lwIP: a pipe that holds at most one frame, refined by
`pipe <- ` the accepted frames that are not delivered yet.

### Usbd: device library, control interface, interrupt order

The host and the controller move one packet at a time and latch a flag for it in
`pend`; one invocation of `HAL_PCD_IRQHandler` looks at OUT flags, then IN flags, then
wake-up, suspend and reset (`irq`, `AtOut`, `AtIn`, `AtBus`), and every callback into the
library is one action. Endpoint 0 is a record that the operators of `usbd_ioreq.c` and
`usbd_ctlreq.c` map to a record (`USBD_CtlSendData`, `USBD_CtlError`, ...), so a request
handler is a composition of them as in the code. `hcdc` keeps the control fields of the
class handle. Requests are records: recipient, request, what the handler makes of
wValue (a descriptor length, an address, a configuration, whether the feature is known)
and wLength. Data content is not modelled except for two facts about a reply: at which
offset a packet was read (`ptr`) and whether the reply lies in a static object or in a
stack frame that is gone (`src`).

*Overtaken transfers.* The host may send the next SETUP packet while the flag of the
previous transfer's last IN packet is still latched; since OUT flags are looked at
first, `USBD_LL_DataInStage` then acts on the new transfer with the completion of the
old one. `xfer.overtaken` marks such a transfer (`Unhandled`). `ReplyComplete`,
`StallMeansRefused`, `Answered` and `ControlOnce` exempt it, and `host.cfg` becomes
`Unknown` for a SET_CONFIGURATION that was overtaken. Everything else holds for it too.

*Suspend.* A suspended bus means three milliseconds of silence, so `HostSuspends` needs
every flag handled. `vbus_sensing_enable` is off, so the disconnect callback never
comes: pulling the cable is a suspend, plugging it in again a reset.

*Simplifications.* One configuration, so the code's branch for a change between two
configurations is dead. Lengths that nothing reads before they are set again are
zeroed in `USBD_LL_SetupStage`, and `oldState` is "DEFAULT" when nothing will read it.
`USBD_malloc` may fail. The host sends class requests only to a device that it has
configured. `seen` is cleared with the session.

### UsbDevice

Four steps: reset, address, configure, deconfigure; the class is up in exactly one
state. `EcmRx` contains a reduced device (no endpoint 0, no suspend), `Usbd` the full
one. That both implement `UsbDevice` - proved for both - is what ties them together:
the sessions that `EcmRx` lets happen are those that the library can produce.

### MqttClient: the telemetry client

Two actors of equal priority. **srv_conn** (`srv.pc`) is cut wherever it reads or writes
what the tcpip_thread also uses: `SrvConnect` up to `altcp_connect`, `SrvSetErr`,
`SrvSetState`, then a message part by part (`SrvAppend`), the walk of
`mqtt_append_request` item by item (`SrvWalk`, `SrvLink`) and `mqtt_output_send` in two
steps (`SrvSend` writes, `SrvAdvance` moves the ring's index). The **tcpip_thread** runs
one handler at a time (`Idle`); a handler is one action except where it leaves something
half done for srv_conn to see: `TpAdvance` after a write, `TpUnchain` and `TpFinish`
of a request that was answered. `CyclicTimer` is `mqtt_cyclic_timer` with its three
cases. The broker and TCP are external: an answer may come at once, late or not at all,
a message may be cut inside its header (`RecvCut`), the connection may be refused, reset
or closed.

The request table is the code's: a list threaded through a fixed array, a free slot
points to itself, times are kept as 16-bit differences to the predecessor. `Reach(t, x)`
is what a walk from x meets, defined as the least set closed under `next`, so it has a
meaning also for a list that a race has turned into a ring. A message is one or two
cells, which is enough for it to be cut, to be written half, and to fill the ring
exactly; the ring is written as seen from `get`.

*Races.* `raced` records which state the two threads have changed under each other:
"table", "ring", or "state" (the connection changes inside `mqtt_client_connect` or
`mqtt_publish`). The code does race, and after it most things can go wrong; each property
says which races it survives. `WalksEnd` and `TableSpec` survive all of them.

`RequestTable` is what a caller is promised: a request stays pending until its callback
is called once, with success only if the broker answered, or until it is dropped with
the connection.

### SpiBus, Console, Uptime: the peripherals

`SpiBus` is `read_write` of any number of readers, down to the test and the store of
`__HAL_LOCK`, `hspi->State`, `RxXferCount` and `pRxBuffPtr`, and a sensor that answers
with whose address it was sent. `Console` is any number of writers, some of which take
the mutex, each character one call of `uart_write_polling` with its forced second
attempt, down to the lock and `TxXferCount`; the shell in `uart_read_interrupt`; and the
UART with RXNE, ORE and an interrupt handler that reads SR and DR in two steps. Threads
run between interrupts (`Running`). A writer without the mutex stands for the unlocked
macros, in threads and in interrupts; that it may be interrupted in turn is more than an
interrupt may, and only adds behaviours. `Uptime` is TIM5, its interrupt and
`_gettimeofday`.

## 3. Runs

| run | module, bounds | what it shows |
|---|---|---|
| `rx_sessions` | EcmRx: 2 blocks (symmetric), packets of 2, frames of 1 to 3 bytes, 3 frames, pool 3, mailbox 1, 2 teardowns | all safety of the receive path |
| `rx_progress` | EcmRx, fair threads: 2 frames, pool 4, 1 held, 1 teardown | reception goes on, packets are handled, events taken |
| `tx_pipe` | EcmTx, polling host: 1 sender, frames of 1 to 4 bytes, 3 calls | the one-frame pipe, delivery |
| `tx_sessions` | EcmTx, fair senders: 2 senders, 2 blocks, 1 teardown | never stuck, every call returns |
| `usb_control` | Usbd: packets of 2, descriptors of 2 and 4, wLength 0, 3, 5 | endpoint 0, notifications, halts, suspend |
| `threads` | MqttClient, SpiBus, Console, Uptime, fair where section 4 says: seven parts, below | the telemetry client, the bus, the console, the clock |
| `rx_nack`, `rx_core_lock`, `rx_pool`, `tx_two_senders`, `usb_zlp`, `usb_stack_reply` | small instances of the same modules | a counterexample each, see below |

*Why the bounds are enough.* With packets of two bytes a frame of three is a full and a
short packet and ends exactly at `MaxSegSize`; lengths 2 and 4 need a zero-length
packet; length 1 is a single short one. `RxBufSize` is `MaxSegSize + MaxPcktLen`, as
tight as the assumption on the constants allows (the code has 1614 = 1514 + 100 for
packets of 64). A pool of 3 with a mailbox of 1 can run dry, and it is also large enough
for the condition of `MutexReleasedWhileWaiting` (3 > 1 + 0 + 1). Two teardowns and two
blocks give a session in a new block, in the old block, and one more after either. On
endpoint 0, descriptors of one and two full packets with wLength 3 and 5 give replies
that are cut, that are exact, and that need or do not need a zero-length packet; an OUT
command of 3 or 5 bytes takes two or three packets. Nothing in the code depends on more
than the previous packet, frame or session.

*The parts of `threads`.* The four modules share no state, so a behaviour moves one of
them, and `part` says which and how much its environment does:

| part | instance |
|---|---|
| requests | one publication, a broker that only answers: the subscription and the publication, timeouts, cuts, resets, every race of the table |
| stream | one publication, one message of the broker or one PINGREQ, no answers to requests: the ring under both threads |
| full | two publications, no answers, no races: a table of 2 with the subscription in it, a ring of 4 cells |
| bus | 2 readers, readings of 2 bytes, counts modulo 3 |
| prints | 3 writers, 2 of them with the mutex, texts of 2 characters |
| keys | the writer without the mutex, the shell, 3 characters typed |
| clock | 3 counts to a second, 4 seconds |

A request times out after two ticks of the timer and the connection attempt after one;
the broker may be silent for a tick before the watchdog closes. Two slots make a first
and a second item of the queue, which is where differences are inherited and where
removing the head and removing another differ; a ring of 4 is filled exactly by a
CONNECT and a PUBLISH that TCP has no room for. A send buffer of 2 cells splits what
the ring holds over two writes. Exploration stops where the two threads have been inside
the same half of the ring at once, and the guards of `MqttStep` only leave out
behaviours; a larger instance of the client alone (2 publications and a message of the
broker in one part, races included) was checked once and holds: 3.45 million states.
Three characters are one in the receiver, one that overruns it, and one after the
overrun was seen. Modulo 3 makes a count that goes below zero wrap to a value that the
loop goes on with.

What cannot happen in this instance: a subscription that finds no slot or space, a
CONNACK outside the connection attempt, a timer tick that leaves the attempt going
(`ConnectTimeout` is one tick), a PUBACK that finds no space. The actions have these
branches; other values of the constants reach them.

The counter bounds (`MaxFrames`, `MaxTeardowns`, calls) are in the guards of host
actions only. `CHECK_DEADLOCK FALSE` in the EcmRx and EcmTx configurations: the host may
stop, the frame bound is reached, and after a fault or with the leaked mutex the
firmware really stands still. In `threads` the telemetry thread ends, prints and keys are
used up and the clock reaches its bound. `usb_control` checks deadlock.

### Properties worth a comment

* `RxStoreInBounds` is the reason the buffer is 100 bytes longer than a frame. It holds
  in every session, stale pointers and double arming included.
* `NackedTillDone`, `FramesIntact`, `NoFaultInFirstSession` and
  `MutexReleasedWhileWaiting` hold *until the first teardown*. After it the code does
  violate them (`rx_nack` shows the first step); the modules do not hide that, the
  properties say where it starts.
* `LinkLostOnlyByMerge` names the only way to a configured device with its link down.
* `EventsTaken` allows a leaked mutex but not a blocked `lwip_input`: the mutex is
  recursive and the leaking thread is the one that takes it again. It is the
  tcpip_thread that stands still, which is what `PacketsHandled` conditions away.
* `NeverStuck` needs no lock between senders; `CopyWhenFree` does.
* `Answered` excludes SET_FEATURE and CLEAR_FEATURE of features that the recipient does
  not know: `USBD_SetFeature`, `USBD_ClrFeature` and `USBD_StdEPReq` answer those with
  nothing (`NeverAnswered`).
* `HaltTracked` is one direction only. A bus reset clears the STALL bits
  (`stm32f4xx_hal_pcd.c:1287-1299`) but not `is_stall` (1904, 1947), so GET_STATUS may
  report a halt that is over.

* `TableSound` is about the differences: each queued request expires `ReqTimeout` after it
  was queued, whatever was removed before it. It is claimed until a table race;
  `WalksEnd`, that the tcpip_thread never meets a freed item, is claimed always. Only
  srv_conn's own walk can hang (`srv.pc = "spin"` is reached).
* `StreamIntact` ends where the ring was filled exactly (`lost`): `put` then equals `get`
  and the code takes the ring for empty.
* `Settled` exempts the order of `mqtt.c:1411-1412`: a connection that is refused before
  `altcp_err`, or open before `conn_state = TCP_CONNECTING`, leaves the client waiting
  for ever.
* `LoneRead` is about what collisions leave behind. After one, a read that is alone may
  fail once, because a refused receive leaves `State` at BUSY_RX; that read repairs it.
* `TextIntact` has gaps: the shell's receive and a print take the same HAL lock, and a
  character that finds it taken twice is given up.
* `WaiterArmed` has one exception, `late`: a character lost between the reads of SR and DR
  leaves ORE set, and the next receive is ended by it without a signal.
* `TimeRead`: the update that `HAL_TIM_Base_Init` generates is counted as a second, and a
  torn read is up to a second behind; the bounds are exact.

### Disagreements found

| run | statement in the repository | what the code does |
|---|---|---|
| `rx_nack` | `usbd_cdc_ecm.c:768` "NACKed till the end of the application Xfer" | a re-enumeration arms the endpoint while the thread still reads the buffer |
| `rx_core_lock` | lwIP `main_page.h:328` raw functions only from the core thread | `netif_set_link_up/down` in lwip_input without the core lock |
| `rx_pool` | lwIP `opt.h:792` PBUF_POOL_SIZE > IP_REASS_MAX_PBUFS | 8 against 10; the empty pool leaks the core mutex (`net.c:156`) |
| `tx_two_senders` | `net.c:46` "Check if the TX State is not busy" | test and set are apart; two senders share the buffer |
| `usb_zlp` | `usbd_core.c:430` ZLP after a last full packet, if the reply is shorter than wLength | `total_length` is overwritten at each continuation (`usbd_conf.c:533`): a ZLP nobody asks for |
| `usb_stack_reply` | `usbd_ioreq.c:82-95` the buffer is sent by a transfer that is only started | locals of `USBD_CDC_ECM_Setup` are passed |

## 4. Fairness

* EcmRx `FairSpec`: weak fairness of both threads (equal FreeRTOS priorities, time
  slicing), and strong fairness of taking the mutex: a FreeRTOS mutex queues its
  waiters, so a thread that waits again and again gets it. The host and the interrupt
  owe nothing.
* EcmTx `FairSpec`: weak fairness of each sender. The spin needs no help: its tries
  are bounded. `PollingSpec` adds that the host polls the IN endpoint while the device
  is configured, as a USB host does; only `AcceptedDelivered` relies on it.
* MqttClient `MqttFairness`: weak fairness of srv_conn and of a handler that is inside
  (equal priorities, time slicing); strong fairness of the timer, which `tcpip_thread`
  serves between messages however many there are; and a connection attempt is answered,
  refused or given up, as TCP's own timers see to. An open connection may stay silent
  for ever: the broker, the network and the reset owe nothing. `Settled` relies on all
  four.
* SpiBus, Console and Uptime have no liveness property; `QuietBus` and `WaiterArmed` say
  as invariants that nothing is left behind that would make a thread wait for ever.
* Usbd has no liveness property: `Answered` and `NotificationUnderWay` say as
  invariants that something is ready whenever the handler has nothing left to do.

## 5. Proofs

Each `*_proofs` module fixes an inductive invariant, proves Init => it, one lemma per
actor with one step per action and one per conjunct the action disturbs, and derives
the theorems. Assumptions: only those named in the modules
(`EcmRxAssumption`, `EcmTxAssumption`, `UsbdAssumption`, `MqttAssumption` and so on),
which TLC evaluates in every run.

**EcmRx_proofs.** `IInv == TypeOK /\ HandleIffConfigured /\ LockInv /\ RxStoreInBounds
/\ PoolConserved`, and beside it `HostInv` about the host's frame. `LockInv` ties
program counters to what the threads hold: inside the packet section lwip_input owns the
mutex; it holds a pbuf exactly from allocation to input; the tcpip_thread owns the mutex
exactly while it runs. `CoreExclusive` follows from it although the mutex may be leaked.
`HandleIffConfigured` is needed because the callbacks index `rxLength[pClassData]`.
`RxStoreInBounds` is inductive without saying anything about `rxLength` between actions,
because `USBD_CDC_ECM_DataOut` arms again only below `MaxSegSize` and every other action
arms at 0: that is why stale pointers cannot break it. `HostInv` bounds packet lengths.
`DeviceImplemented` is the refinement: each action is a step of `UsbDevice` or a stutter.
`LinkInv` follows the link events: a LINK_UP and a LINK_DOWN that wait agree with the
handle, and with no handle after a teardown a LINK_DOWN waits, is in hand, or was handled
after the last LINK_UP. `LinkUpOnlyWithClass` and `LinkLostOnlyByMerge` follow.

`FirstInv == SessionInv /\ BufInv /\ OrderInv /\ MutexInv` is claimed while `teardowns = 0`
and gives the properties of the first session. `SessionInv`: one frame is handed over at a
time and the endpoint waits for it. `BufInv`: the bytes in front of the endpoint are those
of the host's frame. It needs that an unfinished frame has been sent in full packets, so a
frame of `MaxSegSize`, which is not a multiple of `MaxPcktLen`, ends with a short packet
like every other and never by its length alone. `OrderInv`: the mailbox holds older frames
only, in order. `MutexInv` rests on `PoolConserved`: `lwip_input` leaves by its error path
only when the pool is empty, and a pool larger than all its holders together never is.

**EcmTx_proofs.** `IInv == CtlInv /\ NeverStuck`; a sender past `begin` has a real
handle, and whoever clears the endpoint clears `TxState` of the current handle or is
ending the session. `TypeCorrect` is separate. The rest is for one sender and no
teardown. `CallInv` follows the sender through its call: what it has copied is the frame so
far, it sets `TxState` before it arms, and the endpoint is idle while `TxState` is 0 or the
sender is about to arm, so `CopyWhenFreeAlone` follows. `PipeInv` says that what was
accepted is what was delivered and at most one frame more, which is being sent or, with all
its bytes out in full packets, owes its zero-length packet. It needs that a transfer under
way has sent a whole number of packets, so that a remainder always ends in a short one.
`PipeImplemented` follows: arming fills the pipe, the packet that ends the frame empties it.

**Usbd_proofs.** `ClassInv`: the class is up exactly while the device, suspends left out,
is configured. `SuspendInv`: a sleeping bus has no transfer and no flag but SUSP; a
sleeping device on an active bus has a wake-up to come. Together they give
`SuspendMatchesBus` and the refinement of `UsbDevice`; `HaltsAreTracked` is separate.
`NotifInv` lists the stages of an announcement: what the handle says is to be announced,
which packet is armed, what the host has heard, and whether a flag of the command endpoint
waits. Before the packet filter request such a flag is the last session's, and then the
handler is inside, so it takes the flag before it takes the request; `AnnouncedOnce` and
`AnnouncementGoesOn` follow. `ConfigInv` carries `ConfigurationAgreed`: until a request that
overtook nothing is looked at, endpoint 0 answers nothing (`FreshInv`), so the host cannot
complete it with another request's answer; then endpoint 0 holds STALL, with the class as
it was, or the status of exactly what the class now is (`Answer`); with a reset under way
the host counts on no configuration. `TypeCorrect` needs it too, for what the host holds.
`StageInv` is about one control transfer that was not overtaken: in which stage the device
is and, for each, what the host has seen. The SETUP packet is not looked at yet, or the
request was refused, ignored, acknowledged at once, or is in its data stage (reading: what
the device has still to send and what the host has got make up `Want`; writing: what it
still expects), or it is over. `Quiet` keeps resets and suspends out of it. From the stages
follow `RepliesComplete`, `StallsAreRefusals`, `RequestsAnswered` and `CommandsOnce`. The
stages are told apart by the recipient, so `UsbdAssumption` says that no endpoint is called
like another recipient.

**Uptime_proofs.** `UptimeInv`: the interrupt counts exactly the updates that are not
pending, so `sec` is the second of `now`, one more for the update of the start, less one
for a pending update; a reading that has begun lies between then and now.

**SpiBus_proofs.** `OwnedInv` says who can have left the lock or the chip select: a
reader past its store of the lock is still inside, so with everyone out the bus is free
(`QuietBusCorrect`). `AloneInv` follows a reader that has been the only one inside since
it began (`Alone(t)`) from place to place: what state, count and destination the handle
has there, how many bytes of its buffer are its own. It says nothing of readers that
collided but that they are inside. Both hold for any number of readers and size of a
reading.

**Console_proofs.** `ArmedInv` follows the shell: unless it is signalled or a character
was lost late, a shell that arms or waits has `RxState` BUSY_RX, and one that waits has
its interrupt enabled; an overrun comes with a character to read, but for the late one.
`MutexInv` says that the holder of the mutex is the one locking writer that is not
outside. `TextInv` says, while no print overlaps, that everyone else is outside the
UART's loop and that the line is what the holder has printed up to its place.

**MqttTable_proofs.** What the operations on the request table do to a walk of it. A walk
from x meets what is in every set that contains x and is closed under `next` (`Reach`),
so that "the walk ends" needs no count of steps and no induction: each lemma names a
closed set. `Sound` is a table whose queue ends. Taking an item out, expiring a prefix
and clearing leave a table with at most the old walks (`Shrinks`); creating puts a slot
in no list; linking adds one item at an end, even if that end is an item that was taken
or freed meanwhile.

**MqttClient_proofs.** `WalksInv == Locals /\ EarlyInv /\ Sound(reqs) /\ TakenInv /\
HeldInv` is inductive with both threads at any point, raced or not. `HeldInv`: the slot
srv_conn fills is in no list, ends there, is not what its own walk leads to, and what
that walk left as the last item ends or was freed; without it, `Link` could tie a knot.
`TakenInv`: what the tcpip_thread takes is in the queue where it says, and once out it is
not met any more; nothing else can free it, because only handlers do. `EarlyInv`: before
CONNACK srv_conn publishes nothing, so that the subscription made in the callback finds
no slot half filled. `WalksEndCorrect` follows.
`RequestsKept` is the refinement of `RequestTable` and needs three more invariants.
`ReqInv`: a queued request is pending and queued once, one being filled is not pending
yet, one taken was answered and is pending still, acknowledgements on the way are of
answered requests, and no identifier above `pktIdSeq` was used. `SeqInv`: identifiers
are in range, and none is used before CONNACK. `StreamTypes`: only cells reach the
broker, so what it answers is an identifier or 0.
`StreamIntactCorrect` rests on `StreamInv`: while only one thread at a time has put into the
ring or taken from it, and it was never filled exactly, what the threads have written and
not yet advanced by (`srv.k + tp.k`) is at the front of the ring, and the wire with the rest
of the ring is what the broker is owed. `Holds` says that cell by cell, so that no step
needs more of sequences than an index.
`TableSoundCorrect` rests on `DueInv`. `Due` is what the history (`age`) leaves of each
queued request's time, and `Timed` says that the differences chain it: the first item's is
its own, each other one's is its predecessor's and its own. That needs no sum and no
induction; `RemainingIs` shows that a chained time is what `Remaining` adds up. Between the
two steps of mqtt_take_request the successor is owed the difference of what was taken
(`Diffs`); while srv_conn walks, what it has added up is the time of the item it has come to
(`WalkSum`). Nothing is cut off by the 16 bits because a queued request is due within
ReqTimeout, which `MqttAssumption` has below `DiffMod` (30 s and 2^16 in the code).
`MqttTypeCorrect` needs no such condition: raced or not, every variable keeps its type
(`RestTypes` has what the other invariants leave out). The hard part is the timer, which
subtracts the interval from the difference of the first request that stays: the walk must
end even after a race, so the table has times (`TimesExist`, the smallest set of pairs that
the chain allows), and what is left of the first is not negative. This type invariant is
proved only; the runs spend their time on the properties.

**Model-checked only.** Liveness (`RxRearmed`, `PacketsHandled`, `EventsTaken`,
`CallsReturn`, `AcceptedDelivered`, `Settled`) is out of the prover's reach. Every
invariant and every refinement that a passing run checks is proved; those of the first
session, of one sender, or of the time before a race say so in their statement.

## 6. Plan

Done: 1. EcmRx with proofs. 2. EcmTx and TxPipe with the proof of `NeverStuck`. 3. Usbd
and UsbDevice with proofs of suspend, halts and the refinement. 4. MqttClient and
RequestTable. 5. SpiBus, 6. Console and 7. Uptime, each with its proofs. 8. Proofs that
the walks of MqttClient's table end and that it implements RequestTable. 9. Proofs of the
link events and of the first session of EcmRx. 10. Proofs of EcmTx's types, of `CopyWhenFree`
for one sender, of the refinement of `TxPipe`, and of Usbd's types, the announcement of the link and the
configuration both sides agree on. 11. Proofs of the stages of a control transfer, of the stream to the broker and of
the times in the request table.

Next: the shell's test commands as a second MQTT client.

## 7. Not modelled

Third-party code (FreeRTOS, lwIP's protocols, microrl, tiny-printf, vendor HAL) except
where named above; hardware configuration; descriptors' contents; console output; LEDs;
GPIO, RTC and CPU helpers; the shell's command tables and test commands (a reader and a
waiter for characters stand for the shell's thread); USB test mode, the remote wake-up flag and high speed; a
class request to a device that is not configured, which would dereference a NULL handle
in `USBD_CDC_ECM_Setup` and which a host does not send.

Of the MQTT client: disconnect, unsubscribe and QoS 0 and 2, which the program does not
use; the parsing of topics and payloads; a second connection attempt, which the program
does not make. Of the bus: the interrupt transfer, which nothing calls; a thread that is
kept from the CPU for 500 ms in the polling loop, which would make any read fail;
`lis3dsh_get_id`, which reads `sizeof` a pointer into one byte at start-up. Of the
console: that RXNE without a receive under way makes the handler enter again and again,
which starves the threads on one core while it lasts; read-modify-write races on CR1.

Most of the repository's lines are vendor and third-party code (the STM32 HAL with its
headers, FreeRTOS, lwIP), of which the program uses a small part. What is modelled of
it is what the program's own code runs through: the request table, ring and callbacks
of `mqtt.c`, the loop of `tcpip.c`, and the HAL functions for USB, SPI, UART and timer
that are called. A larger share would be a model of code that is not built or never
reached.
