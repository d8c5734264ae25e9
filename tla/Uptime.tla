------------------------------- MODULE Uptime -------------------------------
(***************************************************************************)
(* The clock of the console's time stamps: TIM5 counts microseconds up to  *)
(* Period and its interrupt counts the seconds (system/uptimer.c).         *)
(* _gettimeofday reads the seconds and then the counter, so the counter    *)
(* may wrap, and the interrupt may come, before, between and after.        *)
(***************************************************************************)
EXTENDS Integers

CONSTANTS
  Period,    \* counts of TIM5 in a second (10^6)
  MaxSec     \* bound: seconds that are counted

ASSUME UptimeAssumption == Period \in Nat \ {0} /\ MaxSec \in Nat

VARIABLES
  now,      \* the time <<second, count>> since the start; TIM5->CNT is now[2]
  update,   \* TIM5's update flag: the interrupt is pending
  sec,      \* uptimer.c's sec
  get,      \* _gettimeofday: "out", "counter" when sec is read, "done"
  tv,       \* what it has read, <<tv_sec, tv_usec>>
  began     \* history: the time at which it read sec

upVars == <<now, update, sec, get, tv, began>>

Times == Nat \X (0..(Period - 1))
Start == <<0, 0>>

Before(a, b) == a[1] < b[1] \/ (a[1] = b[1] /\ a[2] < b[2])
Plus(a, seconds) == <<a[1] + seconds, a[2]>>

\* HAL_TIM_Base_Init generates an update to load the prescaler, and the flag this
\* raises is still set when HAL_TIM_Base_Start_IT enables the interrupt: it is
\* served at once and counts a second that has not passed.
UptimeInit ==
  /\ now = Start /\ update = TRUE /\ sec = 0
  /\ get = "out" /\ tv = Start /\ began = Start

\* The counter counts; as it wraps it raises the update flag.  The interrupt is
\* served within the second.
Count ==
  /\ \/ /\ now[2] < Period - 1
        /\ now' = <<now[1], now[2] + 1>>
        /\ UNCHANGED update
     \/ /\ now[2] = Period - 1 /\ now[1] < MaxSec
        /\ ~update
        /\ now' = <<now[1] + 1, 0>>
        /\ update' = TRUE
  /\ UNCHANGED <<sec, get, tv, began>>

\* Slip: the handler does not clear the flag, and is entered once more.
Tim5Irq_twice ==
  /\ update
  /\ update' \in BOOLEAN
  /\ sec' = sec + 1
  /\ UNCHANGED <<now, get, tv, began>>

\* TIM5_IRQHandler, HAL_TIM_PeriodElapsedCallback, uptimer_update
Tim5Irq ==
  /\ update
  /\ update' = FALSE
  /\ sec' = sec + 1
  /\ UNCHANGED <<now, get, tv, began>>

ReadSec ==
  /\ get = "out"
  /\ get' = "counter"
  /\ tv' = <<sec, 0>>
  /\ began' = now
  /\ UNCHANGED <<now, update, sec>>

ReadCounter ==
  /\ get = "counter"
  /\ get' = "done"
  /\ tv' = <<tv[1], now[2]>>
  /\ UNCHANGED <<now, update, sec, began>>

Return ==
  /\ get = "done"
  /\ get' = "out" /\ tv' = Start /\ began' = Start
  /\ UNCHANGED <<now, update, sec>>

UptimeNext == Count \/ Tim5Irq \/ ReadSec \/ ReadCounter \/ Return

UptimeSpec == UptimeInit /\ [][UptimeNext]_upVars

-----------------------------------------------------------------------------
UptimeTypeOK ==
  /\ now \in Times /\ tv \in Times /\ began \in Times
  /\ sec \in Nat
  /\ update \in BOOLEAN
  /\ get \in {"out", "counter", "done"}

\* The clock runs a second fast from the start, and a time read may be torn: it is
\* never more than that second ahead of the time since the start, and less than
\* a second behind what it was when the read began, that is two seconds behind
\* the clock: one for an interrupt still pending and one for a wrap between the
\* reads.  Two reads in a row may go backwards, but by less than that.
TimeRead ==
  get = "done" => /\ ~Before(Plus(now, 1), tv)
                  /\ Before(began, Plus(tv, 1))
=============================================================================
