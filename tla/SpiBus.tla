------------------------------- MODULE SpiBus -------------------------------
(***************************************************************************)
(* Reads of the accelerometer.  The telemetry thread and the shell command *)
(* lis both call read_write (system/accelero.c), which selects the chip,   *)
(* sends a register address and receives ReadSize bytes by polling.  Nothing *)
(* keeps the two apart but the HAL's own lock, which is tested and set in  *)
(* two steps and is not held between the address and the data.             *)
(***************************************************************************)
EXTENDS Integers

CONSTANTS
  Readers,   \* the threads that read
  ReadSize,  \* bytes of a reading (6)
  CountMod   \* the transfer counts are computed modulo 2^16

ASSUME SpiAssumption ==
  /\ ReadSize \in Nat \ {0}
  /\ CountMod \in Nat /\ CountMod > ReadSize
  /\ {"none", "start", "old"} \cap Readers = {}   \* no buffer, no address, no data

VARIABLES
  rpc,      \* of every reader: where it is in read_write
  locked,   \* hspi->Lock
  state,    \* hspi->State
  count,    \* hspi->RxXferCount
  dest,     \* hspi->pRxBuffPtr: whose buffer, "none" if NULL, and the place in it
  selected, \* chip select is low
  talk,     \* the sensor: "none", "start" of a transfer, or whose address it got
  data,     \* of every reader: whose answer each byte of its buffer is
  result,   \* of every reader: what its read has returned so far
  lone,     \* history: of every reader: nobody else was inside during its read
  stale     \* history: of every reader: its read began alone, with a busy handle

spiVars == <<rpc, locked, state, count, dest, selected, talk, data, result, lone, stale>>

Inside == {t \in Readers : rpc[t] # "out"}

SpiInit ==
  /\ rpc = [t \in Readers |-> "out"]
  /\ locked = FALSE /\ state = "READY" /\ count = 0
  /\ dest = <<"none", 1>>
  /\ selected = FALSE /\ talk = "none"
  /\ data = [t \in Readers |-> [n \in 1..ReadSize |-> "old"]]
  /\ result = [t \in Readers |-> "none"]
  /\ lone = [t \in Readers |-> TRUE]
  /\ stale = [t \in Readers |-> FALSE]

Step(t, from, to) == rpc[t] = from /\ rpc' = [rpc EXCEPT ![t] = to]
Fail(t) == result' = [result EXCEPT ![t] = "error"]

\* spi_cs_enable: its falling edge, if it makes one, begins a transfer.
CsEnable(t) ==
  /\ Step(t, "out", "tx_test")
  /\ selected' = TRUE
  /\ talk' = IF selected THEN talk ELSE "start"
  /\ lone' = [u \in Readers |-> IF u = t THEN Inside = {}
                                ELSE lone[u] /\ rpc[u] = "out"]
  /\ stale' = [stale EXCEPT ![t] = (Inside = {} /\ state # "READY")]
  /\ UNCHANGED <<locked, state, count, dest, data, result>>

\* __HAL_LOCK, its test and its store: of HAL_SPI_Transmit ...
TxTest(t) ==
  /\ rpc[t] = "tx_test"
  /\ IF locked THEN Step(t, "tx_test", "cs_off") /\ Fail(t)
     ELSE Step(t, "tx_test", "tx_lock") /\ UNCHANGED result
  /\ UNCHANGED <<locked, state, count, dest, selected, talk, data, lone, stale>>

\* ... and of HAL_SPI_TransmitReceive, entered with the state already changed.
RxTest(t) ==
  /\ rpc[t] = "rx_test"
  /\ IF locked THEN Step(t, "rx_test", "cs_off") /\ Fail(t)
     ELSE Step(t, "rx_test", "rx_lock") /\ UNCHANGED result
  /\ UNCHANGED <<locked, state, count, dest, selected, talk, data, lone, stale>>

Lock(t) ==
  /\ Step(t, "tx_lock", "tx_state") \/ Step(t, "rx_lock", "rx_state")
  /\ locked' = TRUE
  /\ UNCHANGED <<state, count, dest, selected, talk, data, result, lone, stale>>

\* HAL_SPI_Transmit: refused unless the handle is ready.  It sets up the whole
\* handle, also the receiving half: pRxBuffPtr = NULL, RxXferCount = 0.
TxState(t) ==
  /\ rpc[t] = "tx_state"
  /\ IF state # "READY"
     THEN /\ Step(t, "tx_state", "ready") /\ Fail(t)
          /\ UNCHANGED <<state, count, dest>>
     ELSE /\ Step(t, "tx_state", "tx_byte")
          /\ state' = "BUSY_TX" /\ count' = 0 /\ dest' = <<"none", 1>>
          /\ UNCHANGED result
  /\ UNCHANGED <<locked, selected, talk, data, lone, stale>>

\* The address goes out; the sensor takes the first byte of a transfer for one.
\* A wait that another thread disturbs may end in the 500 ms timeout.
TxByte(t) ==
  /\ Step(t, "tx_byte", "ready")
  /\ talk' = IF talk = "start" THEN t ELSE talk
  /\ \/ result' = [result EXCEPT ![t] = "sent"]
     \/ ~lone[t] /\ Fail(t)
  /\ UNCHANGED <<locked, state, count, dest, selected, data, lone, stale>>

\* The end of both transfers: State = READY, then __HAL_UNLOCK.
Ready(t) ==
  /\ Step(t, "ready", "unlock")
  /\ state' = "READY"
  /\ UNCHANGED <<locked, count, dest, selected, talk, data, result, lone, stale>>

\* Slip: a transfer that fails returns without unlocking.
Unlock_success(t) ==
  /\ IF result[t] = "sent" THEN Step(t, "unlock", "rx_mark") ELSE Step(t, "unlock", "cs_off")
  /\ locked' = (result[t] = "error")
  /\ UNCHANGED <<state, count, dest, selected, talk, data, result, lone, stale>>

Unlock(t) ==
  /\ IF result[t] = "sent" THEN Step(t, "unlock", "rx_mark") ELSE Step(t, "unlock", "cs_off")
  /\ locked' = FALSE
  /\ UNCHANGED <<state, count, dest, selected, talk, data, result, lone, stale>>

\* HAL_SPI_Receive: State = BUSY_RX, before the lock is even tested.
RxMark(t) ==
  /\ Step(t, "rx_mark", "rx_test")
  /\ state' = "BUSY_RX"
  /\ UNCHANGED <<locked, count, dest, selected, talk, data, result, lone, stale>>

\* Slip: the state that HAL_SPI_Receive has just set is not let through.
RxState_ready(t) ==
  /\ rpc[t] = "rx_state"
  /\ IF state # "READY"
     THEN /\ Step(t, "rx_state", "ready") /\ Fail(t)
          /\ UNCHANGED <<state, count, dest>>
     ELSE /\ Step(t, "rx_state", "rx_loop")
          /\ state' = "BUSY_TX_RX"
          /\ count' = ReadSize /\ dest' = <<t, 1>>
          /\ UNCHANGED result
  /\ UNCHANGED <<locked, selected, talk, data, lone, stale>>

RxState(t) ==
  /\ rpc[t] = "rx_state"
  /\ IF state \notin {"READY", "BUSY_RX"}
     THEN /\ Step(t, "rx_state", "ready") /\ Fail(t)
          /\ UNCHANGED <<state, count, dest>>
     ELSE /\ Step(t, "rx_state", "rx_loop")
          /\ state' = IF state = "BUSY_RX" THEN state ELSE "BUSY_TX_RX"
          /\ count' = ReadSize /\ dest' = <<t, 1>>
          /\ UNCHANGED result
  /\ UNCHANGED <<locked, selected, talk, data, lone, stale>>

\* The loop: the count is tested here and counted down in the next step.
RxLoop(t) ==
  /\ rpc[t] = "rx_loop"
  /\ \/ count > 0 /\ Step(t, "rx_loop", "rx_byte") /\ UNCHANGED result
     \/ count = 0 /\ Step(t, "rx_loop", "ready") /\ result' = [result EXCEPT ![t] = "ok"]
     \/ ~lone[t] /\ Step(t, "rx_loop", "ready") /\ Fail(t)
  /\ UNCHANGED <<locked, state, count, dest, selected, talk, data, lone, stale>>

\* A byte is exchanged and stored where the handle points, which may be past
\* the end once two threads have counted the same byte.
RxByte(t) ==
  /\ Step(t, "rx_byte", "rx_loop")
  /\ count' = IF count = 0 THEN CountMod - 1 ELSE count - 1
  /\ data' = IF dest[1] \in Readers /\ dest[2] <= ReadSize
             THEN [data EXCEPT ![dest[1]][dest[2]] = talk] ELSE data
  /\ dest' = <<dest[1], IF dest[2] > ReadSize THEN dest[2] ELSE dest[2] + 1>>
  /\ UNCHANGED <<locked, state, selected, talk, result, lone, stale>>

\* spi_cs_disable: also the end of a transfer another thread is in the middle of.
\* The reader's buffer and histories are those of its next read from here on.
CsDisable(t) ==
  /\ Step(t, "cs_off", "out")
  /\ selected' = FALSE /\ talk' = "none"
  /\ data' = [data EXCEPT ![t] = [n \in 1..ReadSize |-> "old"]]
  /\ result' = [result EXCEPT ![t] = "none"]
  /\ lone' = [lone EXCEPT ![t] = TRUE]
  /\ stale' = [stale EXCEPT ![t] = FALSE]
  /\ UNCHANGED <<locked, state, count, dest>>

Reads(t) == \/ CsEnable(t) \/ TxTest(t) \/ Lock(t) \/ TxState(t) \/ TxByte(t) \/ Ready(t)
            \/ Unlock(t) \/ RxMark(t) \/ RxTest(t) \/ RxState(t) \/ RxLoop(t) \/ RxByte(t)
            \/ CsDisable(t)

SpiNext == \E t \in Readers : Reads(t)

SpiSpec == SpiInit /\ [][SpiNext]_spiVars

-----------------------------------------------------------------------------
Places == {"out", "tx_test", "tx_lock", "tx_state", "tx_byte", "ready", "unlock", "rx_mark",
           "rx_test", "rx_lock", "rx_state", "rx_loop", "rx_byte", "cs_off"}

SpiTypeOK ==
  /\ rpc \in [Readers -> Places]
  /\ locked \in BOOLEAN /\ selected \in BOOLEAN
  /\ state \in {"READY", "BUSY_TX", "BUSY_RX", "BUSY_TX_RX"}
  /\ count \in 0..(CountMod - 1)
  /\ dest \in (Readers \cup {"none"}) \X (1..(ReadSize + 1))
  /\ talk \in Readers \cup {"none", "start"}
  /\ data \in [Readers -> [1..ReadSize -> Readers \cup {"old", "none", "start"}]]
  /\ result \in [Readers -> {"none", "error", "sent", "ok"}]
  /\ lone \in [Readers -> BOOLEAN] /\ stale \in [Readers -> BOOLEAN]

\* Whatever collisions there were, when no thread is inside read_write the lock
\* is free, the chip is not selected, and the handle is ready, or at worst
\* marked as receiving: by HAL_SPI_Receive, which marks it before it is
\* refused.  A lock or a busy state left behind would end all reading.
QuietBus ==
  Inside = {} => /\ ~locked /\ ~selected /\ talk = "none"
                 /\ state \in {"READY", "BUSY_RX"}

\* A read that nobody else was inside of either returns its own data, whole,
\* or fails because a refused receive had left the handle marked; in both
\* cases it leaves the handle ready: only one read in a row fails like that.
\* (A thread kept from the CPU for 500 ms in the polling loop is not modelled.)
LoneRead ==
  \A t \in Readers :
    (rpc[t] = "cs_off" /\ lone[t]) =>
      /\ state = "READY" /\ ~locked
      /\ (result[t] = "ok" => \A n \in 1..ReadSize : data[t][n] = t)
      /\ (result[t] # "ok" => stale[t])
=============================================================================
