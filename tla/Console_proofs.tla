---------------------------- MODULE Console_proofs ----------------------------
(***************************************************************************)
(* The console: its types, WaiterArmed and TextIntact, for every set of    *)
(* writers, every length of a text and every number of characters typed.   *)
(***************************************************************************)
EXTENDS Console, TLAPS

-----------------------------------------------------------------------------
\* What a text may hold, and how long it grows.
LEMMA Letters ==
  /\ Junk \in Chars /\ Gap \in Chars
  /\ \A w \in Writers, n \in 1..TextLen : <<w, n>> \in Chars
  /\ \A c \in Chars, s \in Seq(Chars) : Append(s, c) \in Seq(Chars)
    BY DEF Chars

\* The next character keeps a writer's types, and so does giving one up.
LEMMA NextCharType ==
  ASSUME NEW w \in Writers, WritersOK, NextChar(w), UNCHANGED prints
  PROVE  WritersOK'
<1>1. again' \in [Writers -> BOOLEAN] /\ past' \in [Writers -> BOOLEAN]
    BY DEF WritersOK, NextChar
<1>2. CASE place[w] < TextLen
  <2>1. place[w] + 1 \in 1..TextLen
      BY <1>2, ConsoleAssumption DEF WritersOK
  <2>2. place' = [place EXCEPT ![w] = place[w] + 1] /\ wpc' = [wpc EXCEPT ![w] = "check"]
      BY <1>2 DEF NextChar
  <2> QED
      BY <1>1, <2>1, <2>2 DEF WritersOK, WriterPlaces
<1>3. CASE ~(place[w] < TextLen)
  <2>1. place' = [place EXCEPT ![w] = 1] /\ wpc' = [wpc EXCEPT ![w] = "release"]
      BY <1>3 DEF NextChar
  <2>2. 1 \in 1..TextLen
      BY ConsoleAssumption
  <2> QED
      BY <1>1, <2>1, <2>2 DEF WritersOK, WriterPlaces
<1> QED
    BY <1>2, <1>3

LEMMA OutType ==
  ASSUME NEW c \in Chars, line \in Seq(Chars), Out(c)
  PROVE  line' \in Seq(Chars)
    BY Letters DEF Out

LEMMA BusyType ==
  ASSUME NEW w \in Writers, WritersOK, line \in Seq(Chars), Busy(w), UNCHANGED prints
  PROVE  WritersOK' /\ line' \in Seq(Chars)
<1>1. CASE again[w]
    BY <1>1, NextCharType, OutType, Letters DEF Busy
<1>2. CASE ~again[w]
    BY <1>2 DEF Busy, WritersOK, WriterPlaces
<1> QED
    BY <1>1, <1>2

\* A step that moves a writer on and leaves its character.
LEMMA FromType ==
  ASSUME NEW w \in Writers, NEW from, NEW to \in WriterPlaces, WritersOK, From(w, from, to)
  PROVE  wpc' \in [Writers -> WriterPlaces]
    BY DEF WritersOK, From

\* Every step of a print keeps the types of the writers ...
LEMMA PrintWriters ==
  ASSUME NEW w \in Writers, WritersOK, line \in Seq(Chars), Printing(w)
  PROVE  WritersOK' /\ line' \in Seq(Chars)
<1> USE DEF WriterPlaces
<1>1. CASE PrintStart(w)
  <2>1. wpc' \in [Writers -> WriterPlaces]
      BY <1>1, FromType DEF PrintStart
  <2>2. prints[w] - 1 \in 0..MaxPrints
      BY <1>1, ConsoleAssumption DEF PrintStart, WritersOK
  <2> QED
      BY <1>1, <2>1, <2>2 DEF PrintStart, WritersOK
<1>2. CASE CheckState(w)
  <2>1. CASE gState = "READY"
    <3>1. wpc' \in [Writers -> WriterPlaces]
        BY <1>2, <2>1, FromType DEF CheckState
    <3> QED
        BY <1>2, <2>1, <3>1 DEF CheckState, WritersOK
  <2>2. CASE gState # "READY"
      BY <1>2, <2>2, BusyType DEF CheckState
  <2> QED
      BY <2>1, <2>2
<1>3. CASE ForceReady(w)
  <2>1. wpc' \in [Writers -> WriterPlaces]
      BY <1>3, FromType DEF ForceReady
  <2> QED
      BY <1>3, <2>1 DEF ForceReady, WritersOK
<1>4. CASE TestLock(w)
  <2>1. CASE uartLock
      BY <1>4, <2>1, BusyType DEF TestLock
  <2>2. CASE ~uartLock
    <3>1. wpc' \in [Writers -> WriterPlaces]
        BY <1>4, <2>2, FromType DEF TestLock
    <3> QED
        BY <1>4, <2>2, <3>1 DEF TestLock, WritersOK
  <2> QED
      BY <2>1, <2>2
<1>5. CASE SetLock(w) \/ TxBegin(w)
  <2>1. wpc' \in [Writers -> WriterPlaces]
      BY <1>5, FromType DEF SetLock, TxBegin
  <2> QED
      BY <1>5, <2>1 DEF SetLock, TxBegin, WritersOK
<1>6. CASE TxLoop(w)
  <2>1. wpc' \in [Writers -> WriterPlaces]
    <3>1. CASE xferCount > 0
        BY <1>6, <3>1 DEF TxLoop, From, WritersOK
    <3>2. CASE ~(xferCount > 0)
        BY <1>6, <3>2 DEF TxLoop, From, WritersOK
    <3> QED
        BY <3>1, <3>2
  <2> QED
      BY <1>6, <2>1 DEF TxLoop, WritersOK
<1>7. CASE TxSend(w)
  <2>1. wpc' \in [Writers -> WriterPlaces]
      BY <1>7, FromType DEF TxSend
  <2>2. line' \in Seq(Chars)
    <3>1. <<w, place[w]>> \in Chars
        BY Letters DEF WritersOK
    <3>2. PICK c \in Chars : Out(c)
        BY <1>7, <3>1, Letters DEF TxSend
    <3> QED
        BY <3>2, OutType
  <2> QED
      BY <1>7, <2>1, <2>2 DEF TxSend, WritersOK
<1>8. CASE TxDone(w)
    BY <1>8, NextCharType DEF TxDone
<1>9. CASE PrintEnd(w)
  <2>1. wpc' \in [Writers -> WriterPlaces]
      BY <1>9, FromType DEF PrintEnd
  <2>2. <<>> \in Seq(Chars)
      OBVIOUS
  <2> QED
      BY <1>9, <2>1, <2>2 DEF PrintEnd, WritersOK
<1> QED
    BY <1>1, <1>2, <1>3, <1>4, <1>5, <1>6, <1>7, <1>8, <1>9 DEF Printing

\* ... and of the transmitter, and leaves the receiver alone.
LEMMA PrintTransmit ==
  ASSUME NEW w \in Writers, WritersOK, TransmitOK, Printing(w)
  PROVE  TransmitOK' /\ UNCHANGED rxVars
<1>1. line' \in Seq(Chars)
    BY PrintWriters DEF TransmitOK
<1>2. holder' \in Locking \cup {"none"} /\ overlap' \in BOOLEAN
    BY DEF TransmitOK, Printing, PrintStart, CheckState, ForceReady, TestLock, SetLock, TxBegin,
           TxLoop, TxSend, TxDone, PrintEnd
<1>3. gState' \in {"READY", "BUSY_TX"} /\ uartLock' \in BOOLEAN
    BY DEF TransmitOK, Printing, PrintStart, CheckState, ForceReady, TestLock, SetLock, TxBegin,
           TxLoop, TxSend, TxDone, PrintEnd
<1>4. xferCount' \in 0..(XferMod - 1)
  <2>1. \/ UNCHANGED xferCount \/ xferCount' = 1
        \/ xferCount' = IF xferCount = 0 THEN XferMod - 1 ELSE xferCount - 1
      BY DEF Printing, PrintStart, CheckState, ForceReady, TestLock, SetLock, TxBegin, TxLoop,
             TxSend, TxDone, PrintEnd
  <2> QED
      BY <2>1, ConsoleAssumption DEF TransmitOK
<1>5. UNCHANGED rxVars
    BY DEF Printing, PrintStart, CheckState, ForceReady, TestLock, SetLock, TxBegin, TxLoop, TxSend,
           TxDone, PrintEnd
<1> QED
    BY <1>1, <1>2, <1>3, <1>4, <1>5 DEF TransmitOK

\* The shell's, the UART's and the handler's steps keep the receiver's types.
LEMMA ReceiveType ==
  ASSUME ConsoleTypeOK, ShellReads \/ KeyTyped \/ IrqFlags \/ IrqBody
  PROVE  ConsoleTypeOK'
<1>1. UNCHANGED txVars
    BY DEF ShellReads, EnableRxne, RxTestLock, RxSetLock, RxBegin, RxArm, RxWait, DisableRxne,
           KeyTyped, IrqFlags, IrqBody
<1>2. uartLock' \in BOOLEAN
    BY DEF ConsoleTypeOK, TransmitOK, ShellReads, EnableRxne, RxTestLock, RxSetLock, RxBegin,
           RxArm, RxWait, DisableRxne, KeyTyped, IrqFlags, IrqBody
<1>3. ReceiveOK'
  <2>1. CASE ShellReads
      BY <2>1 DEF ConsoleTypeOK, ReceiveOK, ShellReads, EnableRxne, RxTestLock, RxSetLock,
                  RxBegin, RxArm, RxWait, DisableRxne, ShellStep
  <2>2. CASE KeyTyped
    <3>1. keys' \in 0..MaxKeys
        BY <2>2, ConsoleAssumption DEF ConsoleTypeOK, ReceiveOK, KeyTyped
    <3>2. rdr' \in BOOLEAN /\ ore' \in BOOLEAN /\ fresh' \in BOOLEAN
        BY <2>2 DEF ConsoleTypeOK, ReceiveOK, KeyTyped
    <3> QED
        BY <2>2, <3>1, <3>2 DEF ConsoleTypeOK, ReceiveOK, KeyTyped
  <2>3. CASE IrqFlags
      BY <2>3 DEF ConsoleTypeOK, ReceiveOK, IrqFlags
  <2>4. CASE IrqBody
    <3>1. /\ rdr' \in BOOLEAN /\ ore' \in BOOLEAN /\ fresh' \in BOOLEAN
          /\ rxSem' \in BOOLEAN /\ late' \in BOOLEAN
        BY <2>4, Zenon DEF ConsoleTypeOK, ReceiveOK, IrqBody
    <3>2. rxState' \in {"READY", "BUSY_RX"} /\ rxneie' \in BOOLEAN /\ isr' = "none"
        BY <2>4 DEF ConsoleTypeOK, ReceiveOK, IrqBody
    <3> QED
        BY <2>4, <3>1, <3>2 DEF ConsoleTypeOK, ReceiveOK, IrqBody
  <2> QED
      BY <2>1, <2>2, <2>3, <2>4
<1> QED
    BY <1>1, <1>2, <1>3 DEF ConsoleTypeOK, WritersOK, TransmitOK, txVars

LEMMA ConsoleTypeStep == ConsoleTypeOK /\ [ConsoleNext]_consoleVars => ConsoleTypeOK'
<1> SUFFICES ASSUME ConsoleTypeOK, [ConsoleNext]_consoleVars PROVE ConsoleTypeOK'
    OBVIOUS
<1>1. ASSUME NEW w \in Writers, Printing(w) PROVE ConsoleTypeOK'
  <2>1. WritersOK' /\ TransmitOK' /\ UNCHANGED rxVars
      BY <1>1, PrintWriters, PrintTransmit DEF ConsoleTypeOK, TransmitOK
  <2> QED
      BY <2>1 DEF ConsoleTypeOK, ReceiveOK, rxVars
<1>2. CASE ShellReads \/ KeyTyped \/ IrqFlags \/ IrqBody
    BY <1>2, ReceiveType
<1>3. CASE UNCHANGED consoleVars
    BY <1>3 DEF consoleVars, txVars, rxVars, ConsoleTypeOK, WritersOK, TransmitOK, ReceiveOK
<1> QED
    BY <1>1, <1>2, <1>3 DEF ConsoleNext

LEMMA ConsoleTypeInit == ConsoleInit => ConsoleTypeOK
<1>1. ConsoleInit => WritersOK
    BY ConsoleAssumption DEF ConsoleInit, WritersOK, WriterPlaces
<1>2. ConsoleInit => TransmitOK
  <2>1. 0 \in 0..(XferMod - 1) /\ <<>> \in Seq(Chars)
      BY ConsoleAssumption
  <2> QED
      BY <2>1 DEF ConsoleInit, TransmitOK
<1>3. ConsoleInit => ReceiveOK
    BY DEF ConsoleInit, ReceiveOK
<1> QED
    BY <1>1, <1>2, <1>3 DEF ConsoleTypeOK

\* The console's variables keep their types.
THEOREM ConsoleTypeCorrect == ConsoleSpec => []ConsoleTypeOK
    BY ConsoleTypeInit, ConsoleTypeStep, PTL DEF ConsoleSpec

-----------------------------------------------------------------------------
(* WaiterArmed.  An overrun is remembered as long as its character is      *)
(* there, and a receive that is begun is armed unless it is signalled.     *)

ArmedInv ==
  /\ ~late => (ore => rdr)
  /\ isr = "empty" => late
  /\ (~rxSem /\ ~late) =>
       /\ shell \in {"arm", "wait"} => rxState = "BUSY_RX"
       /\ shell = "wait" => rxneie

LEMMA ArmedStep == ArmedInv /\ [ConsoleNext]_consoleVars => ArmedInv'
<1> SUFFICES ASSUME ArmedInv, [ConsoleNext]_consoleVars PROVE ArmedInv'
    OBVIOUS
<1> USE DEF ArmedInv
<1>1. ASSUME NEW w \in Writers, Printing(w) PROVE ArmedInv'
  <2>1. UNCHANGED rxVars
      BY <1>1 DEF Printing, PrintStart, CheckState, ForceReady, TestLock, SetLock, TxBegin, TxLoop,
                  TxSend, TxDone, PrintEnd
  <2> QED
      BY <2>1 DEF rxVars
<1>2. CASE ShellReads
    BY <1>2 DEF ShellReads, EnableRxne, RxTestLock, RxSetLock, RxBegin, RxArm, RxWait,
                DisableRxne, ShellStep, txVars
<1>3. CASE KeyTyped \/ IrqFlags
    BY <1>3 DEF KeyTyped, IrqFlags, txVars
<1>4. CASE IrqBody
    BY <1>4 DEF IrqBody, txVars
<1>5. CASE UNCHANGED consoleVars
    BY <1>5 DEF consoleVars, rxVars
<1> QED
    BY <1>1, <1>2, <1>3, <1>4, <1>5 DEF ConsoleNext

\* Unless a character is lost between the handler's two reads, a shell that
\* waits has its receive under way and its interrupt enabled (uart.c:67-81,
\* stm32f4xx_hal_uart.c:3202-3224, 3301-3318).
THEOREM WaiterArmedCorrect == ConsoleSpec => []WaiterArmed
<1>1. ConsoleInit => ArmedInv
    BY DEF ConsoleInit, ArmedInv
<1>2. ArmedInv => WaiterArmed
    BY DEF ArmedInv, WaiterArmed
<1> QED
    BY <1>1, <1>2, ArmedStep, PTL DEF ConsoleSpec

-----------------------------------------------------------------------------
(* TextIntact.  The holder of the mutex and the text that went out for it. *)

Beside == {"check", "force", "test_lock", "lock", "begin"}

\* Where the holder w is tells how much of its text is out.
HolderAt(w) ==
  /\ wpc[w] \in Beside => ~past[w] /\ Len(line) = place[w] - 1
  /\ wpc[w] = "loop" => \/ ~past[w] /\ xferCount = 1 /\ Len(line) = place[w] - 1
                        \/ past[w] /\ xferCount = 0 /\ Len(line) = place[w]
  /\ wpc[w] = "send" => ~past[w] /\ xferCount = 1 /\ Len(line) = place[w] - 1
  /\ wpc[w] = "done" => past[w] /\ Len(line) = place[w]
  /\ wpc[w] = "release" => Len(line) = TextLen

\* What is out is the holder's, in order.
Own(w) == \A n \in 1..Len(line) : line[n] \in {<<w, n>>, Gap}

MutexInv ==
  /\ \A u \in Locking : wpc[u] # "out" <=> holder = u
  /\ holder = "none" => line = <<>>
  /\ \A u \in Writers : wpc[u] \in {"out", "release"} => place[u] = 1 /\ ~past[u]
  /\ (holder # "none" /\ ~overlap) => \A u \in Unlocked : wpc[u] = "out"


\* What a step does to the writer that takes it.
LEMMA NextCharAt ==
  ASSUME NEW w \in Writers, WritersOK, NextChar(w)
  PROVE  /\ ~past'[w]
         /\ \/ place[w] < TextLen /\ place'[w] = place[w] + 1 /\ wpc'[w] = "check"
            \/ place[w] = TextLen /\ place'[w] = 1 /\ wpc'[w] = "release"
         /\ \A u \in Writers \ {w} : wpc'[u] = wpc[u] /\ place'[u] = place[u] /\ past'[u] = past[u]
<1>1. place[w] \in 1..TextLen /\ TextLen \in Nat
    BY ConsoleAssumption DEF WritersOK
<1>2. CASE place[w] < TextLen
    BY <1>1, <1>2 DEF NextChar, WritersOK
<1>3. CASE ~(place[w] < TextLen)
    BY <1>1, <1>3 DEF NextChar, WritersOK
<1> QED
    BY <1>2, <1>3

\* Only a print's start and its end take and give the mutex, and no step touches
\* another writer.
LEMMA Others ==
  ASSUME NEW w \in Writers, WritersOK, Printing(w)
  PROVE  \A u \in Writers \ {w} : wpc'[u] = wpc[u] /\ place'[u] = place[u] /\ past'[u] = past[u]
<1>1. CASE PrintStart(w) \/ ForceReady(w) \/ SetLock(w) \/ TxBegin(w) \/ TxLoop(w) \/ PrintEnd(w)
    BY <1>1 DEF WritersOK, PrintStart, ForceReady, SetLock, TxBegin, TxLoop, PrintEnd, From
<1>2. CASE TxSend(w)
    BY <1>2 DEF WritersOK, TxSend, From
<1>3. CASE TxDone(w)
    BY <1>3, NextCharAt DEF TxDone
<1>4. ASSUME Busy(w)
      PROVE  \A u \in Writers \ {w} : wpc'[u] = wpc[u] /\ place'[u] = place[u] /\ past'[u] = past[u]
  <2>1. CASE again[w]
      BY <1>4, <2>1, NextCharAt DEF Busy
  <2>2. CASE ~again[w]
      BY <1>4, <2>2 DEF Busy, WritersOK
  <2> QED
      BY <2>1, <2>2
<1>5. CASE CheckState(w)
    BY <1>4, <1>5 DEF CheckState, From, WritersOK
<1>6. CASE TestLock(w)
    BY <1>4, <1>6 DEF TestLock, From, WritersOK
<1> QED
    BY <1>1, <1>2, <1>3, <1>5, <1>6 DEF Printing

\* A writer inside a print stays inside, and the mutex and the overlap are as
\* they were; where it ends up at the end of the text, it begins anew.
LEMMA Inner ==
  ASSUME NEW w \in Writers, WritersOK, Printing(w), ~PrintStart(w), ~PrintEnd(w)
  PROVE  /\ UNCHANGED <<holder, overlap>>
         /\ wpc[w] \notin {"out", "release"} /\ wpc'[w] # "out"
         /\ wpc'[w] = "release" => place'[w] = 1 /\ ~past'[w]
         /\ holder = "none" => UNCHANGED line
<1>1. CASE ForceReady(w) \/ SetLock(w) \/ TxBegin(w) \/ TxLoop(w) \/ TxSend(w)
    BY <1>1 DEF WritersOK, ForceReady, SetLock, TxBegin, TxLoop, TxSend, From, Out
<1>2. CASE TxDone(w)
    BY <1>2, NextCharAt DEF TxDone
<1>3. ASSUME Busy(w)
      PROVE  /\ wpc'[w] # "out"
             /\ wpc'[w] = "release" => place'[w] = 1 /\ ~past'[w]
             /\ holder = "none" => UNCHANGED line
  <2>1. CASE again[w]
      BY <1>3, <2>1, NextCharAt DEF Busy, Out
  <2>2. CASE ~again[w]
      BY <1>3, <2>2 DEF Busy, WritersOK
  <2> QED
      BY <2>1, <2>2
<1>4. CASE CheckState(w)
    BY <1>3, <1>4 DEF CheckState, From, WritersOK
<1>5. CASE TestLock(w)
    BY <1>3, <1>5 DEF TestLock, From, WritersOK
<1> QED
    BY <1>1, <1>2, <1>4, <1>5 DEF Printing

LEMMA MutexStep ==
  ConsoleTypeOK /\ MutexInv /\ [ConsoleNext]_consoleVars => MutexInv'
<1> SUFFICES ASSUME ConsoleTypeOK, MutexInv, [ConsoleNext]_consoleVars PROVE MutexInv'
    OBVIOUS
<1>1. ASSUME NEW w \in Writers, Printing(w) PROVE MutexInv'
  <2>1. WritersOK /\ holder \in Locking \cup {"none"} /\ "none" \notin Writers
        /\ Locking \subseteq Writers
      BY ConsoleAssumption DEF ConsoleTypeOK, TransmitOK
  <2>2. \A u \in Writers \ {w} : wpc'[u] = wpc[u] /\ place'[u] = place[u] /\ past'[u] = past[u]
      BY <1>1, <2>1, Others
  <2>3. CASE PrintStart(w)
    <3>1. wpc'[w] = "check" /\ wpc[w] = "out" /\ UNCHANGED <<place, past, line>>
        BY <2>1, <2>3 DEF PrintStart, From, WritersOK
    <3>2. CASE w \in Locking
      <4>1. /\ holder = "none" /\ holder' = w
            /\ overlap' = \E u \in Unlocked : wpc[u] # "out"
          BY <2>3, <3>2 DEF PrintStart
      <4> QED
          BY <2>1, <2>2, <3>1, <3>2, <4>1 DEF MutexInv, Unlocked
    <3>3. CASE w \notin Locking
      <4>1. holder' = holder /\ overlap' = (holder # "none")
          BY <2>3, <3>3 DEF PrintStart
      <4> QED
          BY <2>1, <2>2, <3>1, <3>3, <4>1 DEF MutexInv, Unlocked
    <3> QED
        BY <3>2, <3>3
  <2>4. CASE PrintEnd(w)
      BY <2>1, <2>2, <2>4 DEF MutexInv, PrintEnd, From, WritersOK, Unlocked
  <2>5. CASE ~PrintStart(w) /\ ~PrintEnd(w)
      BY <1>1, <2>1, <2>2, <2>5, Inner DEF MutexInv, Unlocked
  <2> QED
      BY <2>3, <2>4, <2>5
<1>2. CASE ShellReads \/ KeyTyped \/ IrqFlags \/ IrqBody
  <2>1. UNCHANGED txVars
      BY <1>2 DEF ShellReads, EnableRxne, RxTestLock, RxSetLock, RxBegin, RxArm, RxWait,
                  DisableRxne, KeyTyped, IrqFlags, IrqBody
  <2> QED
      BY <2>1 DEF MutexInv, txVars
<1>3. CASE UNCHANGED consoleVars
    BY <1>3 DEF MutexInv, consoleVars, txVars
<1> QED
    BY <1>1, <1>2, <1>3 DEF ConsoleNext

TextInv == (holder # "none" /\ ~overlap) => HolderAt(holder) /\ Own(holder)

\* What the holder's text grows by is the holder's.
LEMMA OwnGrows ==
  ASSUME NEW w \in Writers, WritersOK, line \in Seq(Chars), Own(w), Len(line) = place[w] - 1,
         NEW c \in {<<w, place[w]>>, Gap}, line' = Append(line, c)
  PROVE  Own(w)' /\ Len(line') = place[w]
<1>1. place[w] \in Nat /\ Len(line') = Len(line) + 1
    BY DEF WritersOK
<1>2. ASSUME NEW n \in 1..Len(line') PROVE line'[n] \in {<<w, n>>, Gap}
  <2>1. CASE n \in 1..Len(line)
      BY <2>1 DEF Own
  <2>2. CASE n = Len(line) + 1
      BY <1>1, <2>2
  <2> QED
      BY <1>1, <2>1, <2>2
<1> QED
    BY <1>1, <1>2 DEF Own

\* Giving the character up is one of the ways it grows.
LEMMA BusyGrows ==
  ASSUME NEW w \in Writers, WritersOK, line \in Seq(Chars), holder = w, w # "none", ~overlap,
         Own(w), wpc[w] \in Beside, HolderAt(w), Busy(w)
  PROVE  Own(w)' /\ HolderAt(w)'
<1>1. ~past[w] /\ Len(line) = place[w] - 1 /\ place[w] \in 1..TextLen
    BY DEF HolderAt, WritersOK
<1>2. CASE again[w]
  <2>1. NextChar(w) /\ line' = Append(line, Gap)
      BY <1>2 DEF Busy, Out
  <2>2. Own(w)' /\ Len(line') = place[w]
      BY <1>1, <2>1, OwnGrows
  <2> QED
      BY <1>1, <2>1, <2>2, NextCharAt DEF HolderAt, Beside
<1>3. CASE ~again[w]
    BY <1>1, <1>3 DEF Busy, HolderAt, Own, Beside, WritersOK
<1> QED
    BY <1>2, <1>3

\* The holder's steps keep the account of its text.
LEMMA HolderStep ==
  ASSUME NEW w \in Writers, w # "none", ConsoleTypeOK, Printing(w), ~PrintStart(w), ~PrintEnd(w),
         holder = w, ~overlap, Own(w), HolderAt(w)
  PROVE  Own(w)' /\ HolderAt(w)'
<1>0. WritersOK /\ line \in Seq(Chars) /\ place[w] \in 1..TextLen
    BY DEF ConsoleTypeOK, WritersOK, TransmitOK
<1>1. CASE CheckState(w)
  <2>1. CASE gState = "READY"
      BY <1>0, <1>1, <2>1 DEF CheckState, From, WritersOK, HolderAt, Own, Beside
  <2>2. CASE gState # "READY"
      BY <1>0, <1>1, <2>2, BusyGrows DEF CheckState, Beside
  <2> QED
      BY <2>1, <2>2
<1>2. CASE TestLock(w)
  <2>1. CASE ~uartLock
      BY <1>0, <1>2, <2>1 DEF TestLock, From, WritersOK, HolderAt, Own, Beside
  <2>2. CASE uartLock
      BY <1>0, <1>2, <2>2, BusyGrows DEF TestLock, Beside
  <2> QED
      BY <2>1, <2>2
<1>3. CASE ForceReady(w) \/ SetLock(w)
    BY <1>0, <1>3 DEF ForceReady, SetLock, From, WritersOK, HolderAt, Own, Beside
<1>4. CASE TxBegin(w)
    BY <1>0, <1>4 DEF TxBegin, From, WritersOK, HolderAt, Own, Beside
<1>5. CASE TxLoop(w)
    BY <1>0, <1>5 DEF TxLoop, From, WritersOK, HolderAt, Own, Beside
<1>6. CASE TxSend(w)
  <2>1. /\ line' = Append(line, <<w, place[w]>>) /\ Len(line) = place[w] - 1
        /\ xferCount' = 0 /\ past'[w] /\ wpc'[w] = "loop" /\ place' = place
      BY <1>0, <1>6 DEF TxSend, From, HolderAt, Out, WritersOK
  <2>2. Own(w)' /\ Len(line') = place[w]
      BY <1>0, <2>1, OwnGrows
  <2> QED
      BY <2>1, <2>2 DEF HolderAt, Beside
<1>7. CASE TxDone(w)
    BY <1>0, <1>7, NextCharAt DEF TxDone, HolderAt, Own, Beside
<1> QED
    BY <1>1, <1>2, <1>3, <1>4, <1>5, <1>6, <1>7 DEF Printing

LEMMA TextStep ==
  ConsoleTypeOK /\ MutexInv /\ TextInv /\ [ConsoleNext]_consoleVars => TextInv'
<1> SUFFICES ASSUME ConsoleTypeOK, MutexInv, TextInv, [ConsoleNext]_consoleVars,
                    holder' # "none", ~overlap'
             PROVE  HolderAt(holder)' /\ Own(holder)'
    BY DEF TextInv
<1>0. /\ WritersOK /\ holder \in Locking \cup {"none"}
      /\ "none" \notin Writers /\ Locking \subseteq Writers
    BY ConsoleAssumption DEF ConsoleTypeOK, TransmitOK
<1>1. ASSUME NEW w \in Writers, Printing(w) PROVE HolderAt(holder)' /\ Own(holder)'
  <2>1. CASE PrintStart(w)
    <3>1. w \in Locking /\ holder = "none" /\ holder' = w
        BY <1>0, <2>1 DEF PrintStart
    <3>2. line' = <<>> /\ place'[w] = 1 /\ ~past'[w] /\ wpc'[w] = "check"
        BY <1>0, <2>1, <3>1 DEF PrintStart, From, MutexInv, WritersOK
    <3> QED
        BY <3>1, <3>2 DEF HolderAt, Own, Beside
  <2>2. CASE PrintEnd(w)
    <3>1. w \notin Locking /\ holder' = holder /\ overlap' = overlap
        BY <2>2 DEF PrintEnd
    <3>2. wpc[w] # "out"
        BY <2>2 DEF PrintEnd, From
    <3> QED
        BY <3>1, <3>2 DEF MutexInv, Unlocked
  <2>3. CASE ~PrintStart(w) /\ ~PrintEnd(w)
    <3>1. holder' = holder /\ overlap' = overlap /\ wpc[w] # "out"
        BY <1>0, <1>1, <2>3, Inner
    <3>2. w = holder
        BY <1>0, <3>1 DEF MutexInv, Unlocked
    <3>3. Own(w)' /\ HolderAt(w)'
        BY <1>0, <1>1, <2>3, <3>1, <3>2, HolderStep DEF TextInv
    <3> QED
        BY <3>1, <3>2, <3>3 DEF Own, HolderAt
  <2> QED
      BY <2>1, <2>2, <2>3
<1>2. CASE ShellReads \/ KeyTyped \/ IrqFlags \/ IrqBody
  <2>1. UNCHANGED txVars
      BY <1>2 DEF ShellReads, EnableRxne, RxTestLock, RxSetLock, RxBegin, RxArm, RxWait,
                  DisableRxne, KeyTyped, IrqFlags, IrqBody
  <2> QED
      BY <2>1 DEF TextInv, HolderAt, Own, txVars
<1>3. CASE UNCHANGED consoleVars
    BY <1>3 DEF TextInv, HolderAt, Own, consoleVars, txVars
<1> QED
    BY <1>1, <1>2, <1>3 DEF ConsoleNext

LEMMA TextIsIntact == ConsoleTypeOK /\ MutexInv /\ TextInv => TextIntact
    BY ConsoleAssumption DEF ConsoleTypeOK, WritersOK, MutexInv, TextInv, HolderAt, Own, TextIntact

\* A text printed under the mutex, with nobody printing beside it, comes out
\* whole and in order but for the characters given up (dbgio.c:24-88,
\* uart.c:34-56, stm32f4xx_hal_uart.c:1133-1208).
THEOREM TextIntactCorrect == ConsoleSpec => []TextIntact
<1>1. ConsoleInit => ConsoleTypeOK /\ MutexInv /\ TextInv
  <2>1. ConsoleInit => MutexInv /\ TextInv
      BY ConsoleAssumption DEF ConsoleInit, MutexInv, TextInv
  <2> QED
      BY <2>1, ConsoleTypeInit
<1> QED
    BY <1>1, ConsoleTypeStep, MutexStep, TextStep, TextIsIntact, PTL DEF ConsoleSpec
=============================================================================
