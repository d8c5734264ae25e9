---------------------------- MODULE SpiBus_proofs ----------------------------
(***************************************************************************)
(* The accelerometer's bus: its types, QuietBus and LoneRead, for every    *)
(* number of readers and every size of a reading.                          *)
(***************************************************************************)
EXTENDS SpiBus, TLAPS

-----------------------------------------------------------------------------
\* Where a transfer starts: its count and its pointer.
LEMMA Starts ==
  /\ 0 \in 0..(CountMod - 1) /\ ReadSize \in 0..(CountMod - 1)
  /\ \A d \in Readers \cup {"none"} : <<d, 1>> \in (Readers \cup {"none"}) \X (1..(ReadSize + 1))
    BY SpiAssumption

\* Every step keeps the types.
LEMMA SpiTypeStep == SpiTypeOK /\ [SpiNext]_spiVars => SpiTypeOK'
<1> SUFFICES ASSUME SpiTypeOK, [SpiNext]_spiVars PROVE SpiTypeOK'
    OBVIOUS
<1> USE SpiAssumption DEF SpiTypeOK, Places, Step, Fail
<1>1. ASSUME NEW t \in Readers, Reads(t) PROVE SpiTypeOK'
  <2>1. CASE CsEnable(t)
      BY <2>1 DEF CsEnable, Inside
  <2>2. CASE TxTest(t) \/ RxTest(t)
      BY <2>2 DEF TxTest, RxTest
  <2>3. CASE Lock(t) \/ Ready(t) \/ RxMark(t)
      BY <2>3 DEF Lock, Ready, RxMark
  <2>4. CASE TxState(t)
    <3>1. <<"none", 1>> \in (Readers \cup {"none"}) \X (1..(ReadSize + 1))
        BY Starts
    <3>2. count' \in 0..(CountMod - 1) /\ dest' \in (Readers \cup {"none"}) \X (1..(ReadSize + 1))
        BY <2>4, <3>1, Starts DEF TxState
    <3>3. /\ state' \in {"READY", "BUSY_TX", "BUSY_RX", "BUSY_TX_RX"}
          /\ result' \in [Readers -> {"none", "error", "sent", "ok"}]
        BY <2>4 DEF TxState
    <3>4. rpc' \in [Readers -> Places]
        BY <2>4 DEF TxState
    <3> QED
        BY <2>4, <3>2, <3>3, <3>4 DEF TxState
  <2>5. CASE TxByte(t)
      BY <2>5 DEF TxByte
  <2>6. CASE Unlock(t)
      BY <2>6 DEF Unlock
  <2>7. CASE RxState(t)
    <3>1. <<t, 1>> \in (Readers \cup {"none"}) \X (1..(ReadSize + 1))
        BY Starts
    <3>2. count' \in 0..(CountMod - 1) /\ dest' \in (Readers \cup {"none"}) \X (1..(ReadSize + 1))
        BY <2>7, <3>1, Starts DEF RxState
    <3>3. /\ state' \in {"READY", "BUSY_TX", "BUSY_RX", "BUSY_TX_RX"}
          /\ result' \in [Readers -> {"none", "error", "sent", "ok"}]
        BY <2>7 DEF RxState
    <3>4. rpc' \in [Readers -> Places]
      <4>1. CASE state \notin {"READY", "BUSY_RX"}
        <5>1. rpc' = [rpc EXCEPT ![t] = "ready"]
            BY <2>7, <4>1 DEF RxState
        <5> QED
            BY <5>1
      <4>2. CASE state \in {"READY", "BUSY_RX"}
        <5>1. rpc' = [rpc EXCEPT ![t] = "rx_loop"]
            BY <2>7, <4>2 DEF RxState
        <5> QED
            BY <5>1
      <4> QED
          BY <4>1, <4>2
    <3> QED
        BY <2>7, <3>2, <3>3, <3>4 DEF RxState
  <2>8. CASE RxLoop(t)
      BY <2>8 DEF RxLoop
  <2>9. CASE RxByte(t)
      BY <2>9 DEF RxByte
  <2>10. CASE CsDisable(t)
      BY <2>10 DEF CsDisable
  <2> QED
      BY <1>1, <2>1, <2>2, <2>3, <2>4, <2>5, <2>6, <2>7, <2>8, <2>9, <2>10 DEF Reads
<1>2. CASE UNCHANGED spiVars
    BY <1>2 DEF spiVars
<1> QED
    BY <1>1, <1>2 DEF SpiNext

LEMMA SpiTypeInit == SpiInit => SpiTypeOK
<1>1. <<"none", 1>> \in (Readers \cup {"none"}) \X (1..(ReadSize + 1))
    BY Starts
<1>2. SpiInit => data \in [Readers -> [1..ReadSize -> Readers \cup {"old", "none", "start"}]]
    BY DEF SpiInit
<1> QED
    BY <1>1, <1>2, Starts DEF SpiInit, SpiTypeOK, Places

\* The bus's variables keep their types.
THEOREM SpiTypeCorrect == SpiSpec => []SpiTypeOK
    BY SpiTypeInit, SpiTypeStep, PTL DEF SpiSpec

-----------------------------------------------------------------------------
(* QuietBus.  What a thread leaves set it clears on its way out.           *)

Locks == {"tx_state", "tx_byte", "ready", "unlock", "rx_state", "rx_loop", "rx_byte"}
Busies == {"tx_byte", "ready", "rx_loop", "rx_byte"}

\* A lock that is set and a busy state have a thread on its way to clear them,
\* and so have the chip select and the sensor that waits for a transfer's end.
OwnedInv ==
  /\ locked => \E t \in Readers : rpc[t] \in Locks
  /\ state \in {"BUSY_TX", "BUSY_TX_RX"} => \E t \in Readers : rpc[t] \in Busies
  /\ selected \/ talk # "none" => \E t \in Readers : rpc[t] # "out"

\* A step of one thread does not take away the thread that is to clear.
LEMMA OwnedStep == SpiTypeOK /\ OwnedInv /\ [SpiNext]_spiVars => OwnedInv'
<1> SUFFICES ASSUME SpiTypeOK, OwnedInv, [SpiNext]_spiVars PROVE OwnedInv'
    OBVIOUS
<1> USE DEF OwnedInv, Step, Locks, Busies
<1>0. rpc \in [Readers -> Places]
    BY DEF SpiTypeOK
<1>1. ASSUME NEW t \in Readers, Reads(t) PROVE OwnedInv'
  <2>1. CASE CsEnable(t)
      BY <2>1, <1>0 DEF CsEnable
  <2>2. CASE TxTest(t) \/ RxTest(t)
      BY <2>2, <1>0 DEF TxTest, RxTest
  <2>3. CASE Lock(t) \/ Ready(t) \/ RxMark(t)
      BY <2>3, <1>0 DEF Lock, Ready, RxMark
  <2>4. CASE TxState(t)
      BY <2>4, <1>0 DEF TxState
  <2>5. CASE TxByte(t)
      BY <2>5, <1>0 DEF TxByte
  <2>6. CASE Unlock(t)
      BY <2>6, <1>0 DEF Unlock
  <2>7. CASE RxState(t)
      BY <2>7, <1>0 DEF RxState
  <2>8. CASE RxLoop(t)
      BY <2>8, <1>0 DEF RxLoop
  <2>9. CASE RxByte(t)
      BY <2>9, <1>0 DEF RxByte
  <2>10. CASE CsDisable(t)
      BY <2>10, <1>0 DEF CsDisable
  <2> QED
      BY <1>1, <2>1, <2>2, <2>3, <2>4, <2>5, <2>6, <2>7, <2>8, <2>9, <2>10 DEF Reads
<1>2. CASE UNCHANGED spiVars
    BY <1>2 DEF spiVars
<1> QED
    BY <1>1, <1>2 DEF SpiNext

LEMMA OwnedInvariant == SpiSpec => [](SpiTypeOK /\ OwnedInv)
<1>1. SpiInit => SpiTypeOK /\ OwnedInv
    BY SpiTypeInit DEF SpiInit, OwnedInv
<1> QED
    BY <1>1, SpiTypeStep, OwnedStep, PTL DEF SpiSpec

LEMMA OwnedIsQuiet == SpiTypeOK /\ OwnedInv => QuietBus
    BY DEF SpiTypeOK, OwnedInv, QuietBus, Inside, Locks, Busies

\* Whatever collisions there were, the last thread to leave read_write leaves
\* the bus unlocked and unselected (accelero.c:9, stm32f4xx_hal_spi.c:922, 1349).
THEOREM QuietBusCorrect == SpiSpec => []QuietBus
    BY OwnedInvariant, OwnedIsQuiet, PTL

-----------------------------------------------------------------------------
(* LoneRead.  A thread that is alone finds the handle as it left it.       *)

Whole(t) == \A n \in 1..ReadSize : data[t][n] = t

\* Where a reader that is alone is, and what it finds there.
Alone(t) ==
  /\ \A u \in Readers : u # t => rpc[u] = "out"
  /\ rpc[t] \in {"tx_test", "tx_lock", "tx_state", "tx_byte"} =>
       talk = "start" /\ result[t] = "none"
  /\ rpc[t] \in {"tx_test", "tx_lock", "tx_state"} => state = "READY" \/ stale[t]
  /\ rpc[t] \in {"tx_test", "tx_lock", "rx_mark", "rx_test", "rx_lock", "cs_off"} => ~locked
  /\ rpc[t] \in {"unlock", "rx_mark", "cs_off"} => state = "READY"
  /\ rpc[t] \in {"rx_mark", "rx_test", "rx_lock", "rx_state", "rx_loop", "rx_byte"} =>
       talk = t /\ result[t] = "sent"
  /\ rpc[t] \in {"rx_test", "rx_lock", "rx_state"} => state = "BUSY_RX"
  /\ rpc[t] \in {"rx_loop", "rx_byte"} =>
       /\ count <= ReadSize /\ dest = <<t, ReadSize - count + 1>>
       /\ \A n \in 1..(ReadSize - count) : data[t][n] = t
  /\ rpc[t] = "rx_byte" => count > 0
  /\ rpc[t] \in {"ready", "unlock", "cs_off"} =>
       \/ result[t] = "ok" /\ Whole(t)
       \/ result[t] = "error" /\ stale[t]
       \/ result[t] = "sent" /\ talk = t /\ rpc[t] # "cs_off"

AloneInv ==
  /\ \A t \in Readers : rpc[t] = "out" => result[t] = "none"
  /\ \A t \in Readers : (lone[t] /\ rpc[t] # "out") => Alone(t)

\* What the proofs are about: everything that holds of the bus.
BusInv == SpiTypeOK /\ OwnedInv /\ AloneInv

\* A thread that is alone stays so only while nobody else moves.
LEMMA AloneAlone ==
  ASSUME SpiTypeOK, AloneInv,
         NEW t \in Readers, NEW v \in Readers, v # t,
         Reads(t), lone'[v], rpc'[v] # "out"
  PROVE  FALSE
<1>1. rpc'[v] = rpc[v]
    BY DEF Reads, CsEnable, TxTest, Lock, TxState, TxByte, Ready, Unlock, RxMark, RxTest, RxState,
           RxLoop, RxByte, CsDisable, Step, SpiTypeOK
<1>2. CASE rpc[t] = "out"
  <2>1. CsEnable(t)
      BY <1>2 DEF Reads, TxTest, Lock, TxState, TxByte, Ready, Unlock, RxMark, RxTest, RxState,
                  RxLoop, RxByte, CsDisable, Step
  <2>2. lone'[v] = (lone[v] /\ rpc[v] = "out")
      BY <2>1 DEF CsEnable
  <2> QED
      BY <1>1, <2>2
<1>3. CASE rpc[t] # "out"
  <2>1. lone'[v] = lone[v]
    <3>1. CASE CsDisable(t)
        BY <3>1 DEF CsDisable, SpiTypeOK
    <3>2. CASE ~CsDisable(t)
        BY <1>3, <3>2 DEF Reads, CsEnable, TxTest, Lock, TxState, TxByte, Ready, Unlock, RxMark,
                          RxTest, RxState, RxLoop, RxByte, Step
    <3> QED
        BY <3>1, <3>2
  <2>2. Alone(v)
      BY <1>1, <2>1 DEF AloneInv
  <2> QED
      BY <1>3, <2>2 DEF Alone
<1> QED
    BY <1>2, <1>3

\* The sensor's answer goes where the count says, and no byte is skipped.
LEMMA AloneByte ==
  ASSUME SpiTypeOK, NEW t \in Readers, Alone(t), RxByte(t)
  PROVE  /\ count' = count - 1 /\ count' <= ReadSize
         /\ dest' = <<t, ReadSize - count' + 1>>
         /\ \A n \in 1..(ReadSize - count') : data'[t][n] = t
<1> USE SpiAssumption DEF SpiTypeOK
<1>1. /\ count \in 1..ReadSize /\ dest = <<t, ReadSize - count + 1>> /\ talk = t
      /\ \A n \in 1..(ReadSize - count) : data[t][n] = t
    BY DEF RxByte, Step, Alone
<1>2. count' = count - 1
    BY <1>1 DEF RxByte
<1>3. dest[1] = t /\ dest[2] = ReadSize - count + 1 /\ dest[2] \in 1..ReadSize
    BY <1>1
<1>4. dest' = <<t, dest[2] + 1>>
    BY <1>3 DEF RxByte
<1>5. data' = [data EXCEPT ![t][dest[2]] = t]
    BY <1>1, <1>3 DEF RxByte
<1>6. \A n \in 1..ReadSize : data'[t][n] = IF n = dest[2] THEN t ELSE data[t][n]
    BY <1>3, <1>5
<1>7. \A n \in 1..(ReadSize - count') : n \in 1..ReadSize /\ (n = dest[2] \/ n \in 1..(ReadSize - count))
    BY <1>1, <1>2, <1>3
<1>8. \A n \in 1..(ReadSize - count') : data'[t][n] = t
    BY <1>1, <1>6, <1>7
<1>9. dest[2] + 1 = ReadSize - count' + 1 /\ count' <= ReadSize
    BY <1>1, <1>2, <1>3
<1> QED
    BY <1>2, <1>4, <1>8, <1>9

\* A step of the thread that is alone leads to where it finds the handle next.
LEMMA AloneStepOK ==
  ASSUME SpiTypeOK, OwnedInv, AloneInv,
         NEW t \in Readers, Reads(t), lone'[t], rpc'[t] # "out"
  PROVE  Alone(t)'
<1> USE DEF SpiTypeOK, Step, Fail
<1>1. CASE CsEnable(t)
  <2>1. /\ \A u \in Readers : rpc[u] = "out"
        /\ stale'[t] = (state # "READY")
        /\ rpc'[t] = "tx_test" /\ \A u \in Readers : u # t => rpc'[u] = "out"
      BY <1>1 DEF CsEnable, Inside
  <2>2. ~locked /\ ~selected /\ talk = "none"
      BY <2>1 DEF OwnedInv, Locks
  <2>3. talk' = "start" /\ result'[t] = "none" /\ ~locked' /\ state' = state
      BY <1>1, <2>1, <2>2 DEF CsEnable, AloneInv
  <2> QED
      BY <2>1, <2>3 DEF Alone
<1>2. CASE ~CsEnable(t)
  <2>0. rpc[t] # "out"
      BY <1>2 DEF Reads, TxTest, Lock, TxState, TxByte, Ready, Unlock, RxMark, RxTest, RxState,
                  RxLoop, RxByte, CsDisable
  <2>1. lone[t] /\ Alone(t)
    <3>1. lone'[t] = lone[t]
        BY <1>2 DEF Reads, TxTest, Lock, TxState, TxByte, Ready, Unlock, RxMark, RxTest, RxState,
                    RxLoop, RxByte, CsDisable
    <3> QED
        BY <3>1, <2>0 DEF AloneInv
  <2>2. CASE TxTest(t) \/ RxTest(t)
      BY <2>1, <2>2 DEF TxTest, RxTest, Alone
  <2>3. CASE Lock(t)
      BY <2>1, <2>3 DEF Lock, Alone
  <2>4. CASE TxState(t)
      BY <2>1, <2>4 DEF TxState, Alone
  <2>5. CASE TxByte(t)
      BY <2>1, <2>5 DEF TxByte, Alone
  <2>6. CASE Ready(t)
      BY <2>1, <2>6 DEF Ready, Alone, Whole
  <2>7. CASE Unlock(t)
      BY <2>1, <2>7 DEF Unlock, Alone, Whole
  <2>8. CASE RxMark(t)
      BY <2>1, <2>8 DEF RxMark, Alone
  <2>9. CASE RxState(t)
    <3>1. rpc[t] = "rx_state" /\ state = "BUSY_RX"
        BY <2>1, <2>9 DEF RxState, Alone
    <3>2. rpc' = [rpc EXCEPT ![t] = "rx_loop"]
        BY <2>9, <3>1 DEF RxState
    <3>3. /\ state' = state /\ count' = ReadSize /\ dest' = <<t, 1>>
          /\ UNCHANGED <<result, talk, locked, data, stale>>
        BY <2>9, <3>1 DEF RxState
    <3> QED
        BY <2>1, <3>1, <3>2, <3>3, SpiAssumption DEF Alone
  <2>10. CASE RxLoop(t)
    <3>1. /\ UNCHANGED <<locked, state, count, dest, talk, data, stale>>
          /\ rpc[t] = "rx_loop"
        BY <2>10 DEF RxLoop
    <3>2. CASE count > 0 /\ rpc' = [rpc EXCEPT ![t] = "rx_byte"] /\ UNCHANGED result
        BY <2>1, <3>1, <3>2 DEF Alone
    <3>3. CASE count = 0 /\ rpc' = [rpc EXCEPT ![t] = "ready"] /\ result' = [result EXCEPT ![t] = "ok"]
      <4>1. Whole(t)'
          BY <2>1, <3>1, <3>3, SpiAssumption DEF Alone, Whole
      <4> QED
          BY <2>1, <3>1, <3>3, <4>1 DEF Alone
    <3> QED
        BY <2>1, <2>10, <3>2, <3>3 DEF RxLoop
  <2>11. CASE RxByte(t)
    <3>1. rpc[t] = "rx_byte" /\ rpc'[t] = "rx_loop" /\ \A u \in Readers : u # t => rpc'[u] = rpc[u]
        BY <2>11 DEF RxByte
    <3>2. talk' = talk /\ result' = result
        BY <2>11 DEF RxByte
    <3> QED
        BY <2>1, <2>11, <3>1, <3>2, AloneByte DEF Alone
  <2>12. CASE CsDisable(t)
      BY <2>12 DEF CsDisable
  <2> QED
      BY <1>2, <2>2, <2>3, <2>4, <2>5, <2>6, <2>7, <2>8, <2>9, <2>10, <2>11, <2>12 DEF Reads
<1> QED
    BY <1>1, <1>2

LEMMA AloneStep == SpiTypeOK /\ OwnedInv /\ AloneInv /\ [SpiNext]_spiVars => AloneInv'
<1> SUFFICES ASSUME SpiTypeOK, OwnedInv, AloneInv, [SpiNext]_spiVars PROVE AloneInv'
    OBVIOUS
<1>1. ASSUME NEW t \in Readers, Reads(t) PROVE AloneInv'
  <2>1. ASSUME NEW v \in Readers, rpc'[v] = "out" PROVE result'[v] = "none"
      BY <1>1, <2>1 DEF AloneInv, SpiTypeOK, Reads, CsEnable, TxTest, Lock, TxState, TxByte, Ready,
           Unlock, RxMark, RxTest, RxState, RxLoop, RxByte, CsDisable, Step, Fail
  <2>2. ASSUME NEW v \in Readers, lone'[v], rpc'[v] # "out" PROVE Alone(v)'
      BY <1>1, <2>2, AloneAlone, AloneStepOK
  <2> QED
      BY <2>1, <2>2 DEF AloneInv
<1>2. CASE UNCHANGED spiVars
    BY <1>2 DEF spiVars, AloneInv, Alone, Whole
<1> QED
    BY <1>1, <1>2 DEF SpiNext

LEMMA BusInvariant == SpiSpec => []BusInv
<1>1. SpiInit => BusInv
    BY SpiTypeInit DEF SpiInit, BusInv, OwnedInv, AloneInv
<1>2. BusInv /\ [SpiNext]_spiVars => BusInv'
    BY SpiTypeStep, OwnedStep, AloneStep DEF BusInv
<1> QED
    BY <1>1, <1>2, PTL DEF SpiSpec

LEMMA AloneIsLone == BusInv => LoneRead
    BY DEF BusInv, AloneInv, Alone, Whole, LoneRead

\* A read that had the bus to itself returns its own data, or was refused once
\* because of a mark left by another (stm32f4xx_hal_spi.c:945, accelero.c:9).
THEOREM LoneReadCorrect == SpiSpec => []LoneRead
    BY BusInvariant, AloneIsLone, PTL
=============================================================================
