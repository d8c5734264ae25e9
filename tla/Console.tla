------------------------------- MODULE Console -------------------------------
(***************************************************************************)
(* The debug console on USART2.  Threads print: CONSOLE_LOG and            *)
(* CONSOLE_OUT under the console mutex, CONSOLE_ERROR, _WARN, _ASSERT,     *)
(* _LOG_ISR and _MEMDUMP without it, and those from interrupts too.  Each  *)
(* character is one call of uart_write_polling, which forces its way when  *)
(* the UART is busy.  The shell waits for characters on an interrupt, and  *)
(* its receive takes the same HAL lock as the transmit.                    *)
(***************************************************************************)
EXTENDS Integers, Sequences

CONSTANTS
  Writers,     \* threads (or interrupts) that print
  Locking,     \* those of them that print under the mutex
  TextLen,     \* characters of a print
  XferMod,     \* TxXferCount is computed modulo 2^16
  MaxKeys,     \* bound: characters typed
  MaxPrints    \* bound: prints of a writer

ASSUME ConsoleAssumption ==
  /\ Locking \subseteq Writers
  /\ {"none", "junk"} \cap Writers = {}   \* nobody, and memory past a buffer
  /\ TextLen \in Nat \ {0}
  /\ XferMod \in Nat /\ XferMod > 1
  /\ MaxKeys \in Nat /\ MaxPrints \in Nat

VARIABLES
  wpc,       \* of every writer: where it is
  place,     \* of every writer: the character it is at
  again,     \* of every writer: it is in uart_write_polling's second attempt
  past,      \* of every writer: its pointer has passed the end of its buffer
  prints,    \* bound: of every writer: the prints still to come
  holder,    \* dbgio.c's mut: the writer that holds it, or "none"
  gState,    \* huart->gState: "READY" or "BUSY_TX"
  uartLock,  \* huart->Lock
  xferCount, \* huart->TxXferCount
  line,      \* history: what went out since the mutex was taken, with a gap where
             \* a character of the holder was given up, until an overlap
  overlap,   \* history: a print without the mutex was under way since then
  shell,     \* where the shell is in uart_read_interrupt
  rxSem,     \* uart->rx_sem is signalled
  rxState,   \* huart->RxState: "READY" or "BUSY_RX"
  rxneie,    \* CR1.RXNEIE: the receive interrupt is enabled
  rdr,       \* the receive register holds a character (SR.RXNE)
  ore,       \* SR.ORE: a character was lost
  fresh,     \* it was lost after the interrupt handler read SR
  isr,       \* the interrupt handler: "none", or the flags it has read
  keys,      \* bound: characters still to be typed
  late       \* history: ORE was left set with nothing to read

txVars == <<wpc, place, again, past, prints, holder, gState, xferCount, line, overlap>>
rxVars == <<shell, rxSem, rxState, rxneie, rdr, ore, fresh, isr, keys, late>>
consoleVars == <<txVars, rxVars, uartLock>>

Junk == <<"junk", 1>>
Gap == <<"none", 1>>
Unlocked == Writers \ Locking

ConsoleInit ==
  /\ wpc = [w \in Writers |-> "out"] /\ place = [w \in Writers |-> 1]
  /\ again = [w \in Writers |-> FALSE] /\ past = [w \in Writers |-> FALSE]
  /\ prints \in [Writers -> 0..MaxPrints]
  /\ holder = "none" /\ gState = "READY" /\ uartLock = FALSE /\ xferCount = 0
  /\ line = <<>> /\ overlap = FALSE
  /\ shell = "call" /\ rxSem = FALSE /\ rxState = "READY" /\ rxneie = FALSE
  /\ rdr = FALSE /\ ore = FALSE /\ fresh = FALSE /\ isr = "none"
  /\ keys \in 0..MaxKeys /\ late = FALSE

\* Threads run between interrupts.
Running == isr = "none"

-----------------------------------------------------------------------------
(* Printing: dbgio_printf, _putchar, uart_write_polling, HAL_UART_Transmit *)

From(w, from, to) == Running /\ wpc[w] = from /\ wpc' = [wpc EXCEPT ![w] = to]

\* Slip: the mutex is taken without waiting for it.
PrintStart_nowait(w) ==
  /\ prints[w] > 0
  /\ From(w, "out", "check")
  /\ prints' = [prints EXCEPT ![w] = @ - 1]
  /\ IF w \in Locking
     THEN /\ holder' = w
          /\ overlap' = \E u \in Unlocked : wpc[u] # "out"
     ELSE /\ overlap' = (holder # "none")
          /\ UNCHANGED holder
  /\ UNCHANGED <<place, again, past, gState, xferCount, line, rxVars, uartLock>>

PrintStart(w) ==
  /\ prints[w] > 0
  /\ From(w, "out", "check")
  /\ prints' = [prints EXCEPT ![w] = @ - 1]
  /\ IF w \in Locking
     THEN /\ holder = "none" /\ holder' = w
          /\ overlap' = \E u \in Unlocked : wpc[u] # "out"
     ELSE /\ overlap' = (holder # "none")
          /\ UNCHANGED holder
  /\ UNCHANGED <<place, again, past, gState, xferCount, line, rxVars, uartLock>>

\* The character was sent, or given up: the next one, or the end of the text.
NextChar(w) ==
  /\ again' = [again EXCEPT ![w] = FALSE]
  /\ past' = [past EXCEPT ![w] = FALSE]
  /\ IF place[w] < TextLen
     THEN place' = [place EXCEPT ![w] = @ + 1] /\ wpc' = [wpc EXCEPT ![w] = "check"]
     ELSE place' = [place EXCEPT ![w] = 1] /\ wpc' = [wpc EXCEPT ![w] = "release"]

Out(c) == line' = IF holder = "none" \/ overlap THEN line ELSE Append(line, c)

\* HAL_BUSY: once gState is forced to READY, the second time the character is
\* given up.
Busy(w) ==
  IF again[w]
  THEN NextChar(w) /\ Out(Gap)
  ELSE /\ wpc' = [wpc EXCEPT ![w] = "force"]
       /\ UNCHANGED <<place, again, past, line>>

CheckState(w) ==
  /\ Running /\ wpc[w] = "check"
  /\ IF gState = "READY"
     THEN /\ From(w, "check", "test_lock")
          /\ UNCHANGED <<place, again, past, line>>
     ELSE Busy(w)
  /\ UNCHANGED <<prints, holder, gState, xferCount, overlap, rxVars, uartLock>>

ForceReady(w) ==
  /\ From(w, "force", "check")
  /\ gState' = "READY"
  /\ again' = [again EXCEPT ![w] = TRUE]
  /\ UNCHANGED <<place, past, prints, holder, xferCount, line, overlap, rxVars, uartLock>>

\* __HAL_LOCK: its test and its store.
TestLock(w) ==
  /\ Running /\ wpc[w] = "test_lock"
  /\ IF uartLock THEN Busy(w)
     ELSE /\ From(w, "test_lock", "lock")
          /\ UNCHANGED <<place, again, past, line>>
  /\ UNCHANGED <<prints, holder, gState, xferCount, overlap, rxVars, uartLock>>

SetLock(w) ==
  /\ From(w, "lock", "begin")
  /\ uartLock' = TRUE
  /\ UNCHANGED <<place, again, past, prints, holder, gState, xferCount, line, overlap, rxVars>>

\* gState = BUSY_TX, TxXferCount = Size, __HAL_UNLOCK
TxBegin(w) ==
  /\ From(w, "begin", "loop")
  /\ gState' = "BUSY_TX" /\ xferCount' = 1
  /\ uartLock' = FALSE
  /\ UNCHANGED <<place, again, past, prints, holder, line, overlap, rxVars>>

\* The loop's test of TxXferCount, and the wait for TC that follows it.
TxLoop(w) ==
  /\ wpc[w] = "loop"
  /\ From(w, "loop", IF xferCount > 0 THEN "send" ELSE "done")
  /\ UNCHANGED <<place, again, past, prints, holder, gState, xferCount, line, overlap,
                 rxVars, uartLock>>

\* A byte goes out and the count goes down, below zero when another print has
\* counted the same byte: then the loop goes on past the buffer.
TxSend(w) ==
  /\ From(w, "send", "loop")
  /\ xferCount' = IF xferCount = 0 THEN XferMod - 1 ELSE xferCount - 1
  /\ Out(IF past[w] THEN Junk ELSE <<w, place[w]>>)
  /\ past' = [past EXCEPT ![w] = TRUE]
  /\ UNCHANGED <<place, again, prints, holder, gState, overlap, rxVars, uartLock>>

TxDone(w) ==
  /\ Running /\ wpc[w] = "done"
  /\ gState' = "READY"
  /\ NextChar(w)
  /\ UNCHANGED <<prints, holder, xferCount, line, overlap, rxVars, uartLock>>

PrintEnd(w) ==
  /\ From(w, "release", "out")
  /\ IF w \in Locking
     THEN holder' = "none" /\ line' = <<>> /\ overlap' = FALSE
     ELSE UNCHANGED <<holder, line, overlap>>
  /\ UNCHANGED <<place, again, past, prints, gState, xferCount, rxVars, uartLock>>

Printing(w) == \/ PrintStart(w) \/ CheckState(w) \/ ForceReady(w) \/ TestLock(w)
               \/ SetLock(w) \/ TxBegin(w) \/ TxLoop(w) \/ TxSend(w) \/ TxDone(w) \/ PrintEnd(w)

-----------------------------------------------------------------------------
(* The shell: dbgio_getchar, uart_read_interrupt, HAL_UART_Receive_IT      *)

ShellStep(from, to) == Running /\ shell = from /\ shell' = to

\* RXNE is enabled before anybody is ready to take the character.
EnableRxne ==
  /\ ShellStep("call", "test_lock")
  /\ rxneie' = TRUE
  /\ UNCHANGED <<rxSem, rxState, rdr, ore, fresh, isr, keys, late, txVars, uartLock>>

\* Refused, dbgio_getchar returns what is on its stack; RXNE stays enabled.
RxTestLock ==
  /\ ShellStep("test_lock", IF rxState # "READY" \/ uartLock THEN "call" ELSE "lock")
  /\ UNCHANGED <<rxSem, rxState, rxneie, rdr, ore, fresh, isr, keys, late, txVars, uartLock>>

RxSetLock ==
  /\ ShellStep("lock", "begin")
  /\ uartLock' = TRUE
  /\ UNCHANGED <<rxSem, rxState, rxneie, rdr, ore, fresh, isr, keys, late, txVars>>

\* UART_Start_Receive_IT: RxState = BUSY_RX, __HAL_UNLOCK ...
RxBegin ==
  /\ ShellStep("begin", "arm")
  /\ rxState' = "BUSY_RX"
  /\ uartLock' = FALSE
  /\ UNCHANGED <<rxSem, rxneie, rdr, ore, fresh, isr, keys, late, txVars>>

\* Slip: uart_read_interrupt's enable is taken to be still in force.
RxArm_assumed ==
  /\ ShellStep("arm", "wait")
  /\ UNCHANGED <<rxSem, rxState, rxneie, rdr, ore, fresh, isr, keys, late, txVars, uartLock>>

\* ... and the interrupts.
RxArm ==
  /\ ShellStep("arm", "wait")
  /\ rxneie' = TRUE
  /\ UNCHANGED <<rxSem, rxState, rdr, ore, fresh, isr, keys, late, txVars, uartLock>>

\* osal_semaphore_wait(rx_sem, OSAL_MAX_TIMEOUT)
RxWait ==
  /\ rxSem
  /\ ShellStep("wait", "disable")
  /\ rxSem' = FALSE
  /\ UNCHANGED <<rxState, rxneie, rdr, ore, fresh, isr, keys, late, txVars, uartLock>>

DisableRxne ==
  /\ ShellStep("disable", "call")
  /\ rxneie' = FALSE
  /\ UNCHANGED <<rxSem, rxState, rdr, ore, fresh, isr, keys, late, txVars, uartLock>>

ShellReads == \/ EnableRxne \/ RxTestLock \/ RxSetLock \/ RxBegin \/ RxArm \/ RxWait
              \/ DisableRxne

-----------------------------------------------------------------------------
(* The UART and USART2_IRQHandler                                          *)

\* A character arrives; if the last one has not been read it is lost.
KeyTyped ==
  /\ keys > 0 /\ keys' = keys - 1
  /\ IF rdr THEN ore' = TRUE /\ fresh' = (isr # "none") /\ UNCHANGED rdr
     ELSE rdr' = TRUE /\ UNCHANGED <<ore, fresh>>
  /\ UNCHANGED <<shell, rxSem, rxState, rxneie, isr, late, txVars, uartLock>>

\* HAL_UART_IRQHandler reads SR: what it does next depends on the flags.
IrqFlags ==
  /\ isr = "none"
  /\ rxneie /\ (rdr \/ ore)
  /\ isr' = CASE ore /\ rdr -> "overrun"
              [] ore /\ ~rdr -> "empty"
              [] OTHER -> "char"
  /\ UNCHANGED <<shell, rxSem, rxState, rxneie, rdr, ore, fresh, keys, late, txVars, uartLock>>

\* UART_Receive_IT, if a receive is under way: reading DR empties it, and clears
\* an overrun that SR already showed.  Then UART_EndRxTransfer after an overrun,
\* which ends the reception and does not signal the semaphore.
IrqBody ==
  LET takes == isr # "empty" /\ rxState = "BUSY_RX"
  IN  /\ isr # "none" /\ isr' = "none"
      /\ rdr' = (rdr /\ ~takes)
      /\ ore' = IF takes THEN ore /\ fresh ELSE ore
      /\ fresh' = FALSE
      /\ rxSem' = (rxSem \/ takes)
      /\ IF takes \/ isr # "char"
         THEN rxState' = "READY" /\ rxneie' = FALSE
         ELSE UNCHANGED <<rxState, rxneie>>
      /\ late' = (late \/ (ore' /\ ~rdr'))
      /\ UNCHANGED <<shell, keys, txVars, uartLock>>

-----------------------------------------------------------------------------
ConsoleNext == (\E w \in Writers : Printing(w)) \/ ShellReads \/ KeyTyped \/ IrqFlags \/ IrqBody

ConsoleSpec == ConsoleInit /\ [][ConsoleNext]_consoleVars

-----------------------------------------------------------------------------
WriterPlaces == {"out", "check", "force", "test_lock", "lock", "begin", "loop", "send", "done",
                 "release"}

\* The pieces of a text.
Chars == (Writers \X (1..TextLen)) \cup {Junk, Gap}

WritersOK ==
  /\ wpc \in [Writers -> WriterPlaces]
  /\ place \in [Writers -> 1..TextLen]
  /\ again \in [Writers -> BOOLEAN] /\ past \in [Writers -> BOOLEAN]
  /\ prints \in [Writers -> 0..MaxPrints]

TransmitOK ==
  /\ holder \in Locking \cup {"none"}
  /\ gState \in {"READY", "BUSY_TX"} /\ uartLock \in BOOLEAN
  /\ xferCount \in 0..(XferMod - 1)
  /\ line \in Seq(Chars)
  /\ overlap \in BOOLEAN

ReceiveOK ==
  /\ shell \in {"call", "test_lock", "lock", "begin", "arm", "wait", "disable"}
  /\ rxSem \in BOOLEAN /\ rxState \in {"READY", "BUSY_RX"} /\ rxneie \in BOOLEAN
  /\ rdr \in BOOLEAN /\ ore \in BOOLEAN /\ fresh \in BOOLEAN /\ late \in BOOLEAN
  /\ isr \in {"none", "char", "overrun", "empty"}
  /\ keys \in 0..MaxKeys

ConsoleTypeOK == WritersOK /\ TransmitOK /\ ReceiveOK

\* The shell never waits for a character nobody will signal: while it waits and
\* has not been signalled, a receive is under way and its interrupt enabled.
\* The one exception is in `late': a character lost between the handler's reads
\* of SR and DR leaves ORE set with nothing to read, and the next receive is
\* ended by it without a signal: the shell is dead (uart.c:77).
WaiterArmed ==
  (shell = "wait" /\ ~rxSem /\ isr = "none" /\ ~late) => rxState = "BUSY_RX" /\ rxneie

\* A text printed under the mutex while nobody prints without it comes out
\* whole, in order and each character once, with nothing of another text and no
\* memory past the buffer; but for gaps, characters that found the HAL lock taken
\* twice, by the shell's receive, and were given up.
TextIntact ==
  \A w \in Locking :
    (wpc[w] = "release" /\ ~overlap) =>
      Len(line) = TextLen /\ \A n \in 1..TextLen : line[n] \in {<<w, n>>, Gap}
=============================================================================
