---------------------------- MODULE Uptime_proofs ----------------------------
(***************************************************************************)
(* The clock's types and TimeRead, for every Period and number of seconds. *)
(***************************************************************************)
EXTENDS Uptime, TLAPS

\* The seconds counted and the update still pending make the time, plus the
\* second that was counted at the start; and a read that has taken the seconds
\* took those of the time it began, or one more.
UptimeInv ==
  /\ UptimeTypeOK
  /\ sec = IF update THEN now[1] ELSE now[1] + 1
  /\ get # "out" => ~Before(now, began)
  /\ get = "counter" => tv[1] \in {began[1], began[1] + 1}
  /\ TimeRead

\* The steps of the timer and of the reader keep the types, the seconds and
\* what was read in order.
LEMMA UptimeStepOK == UptimeInv /\ [UptimeNext]_upVars => UptimeInv'
<1> SUFFICES ASSUME UptimeInv, [UptimeNext]_upVars PROVE UptimeInv'
    OBVIOUS
<1> USE UptimeAssumption DEF UptimeInv, UptimeTypeOK, Times, Before, Plus, TimeRead
<1>1. CASE Count
  <2>1. UNCHANGED <<sec, get, tv, began>>
      BY <1>1 DEF Count
  <2>2. CASE now[2] < Period - 1 /\ now' = <<now[1], now[2] + 1>> /\ UNCHANGED update
    <3>1. update' <=> update
        BY <2>2
    <3> QED
        BY <2>1, <2>2, <3>1
  <2>3. CASE ~update /\ now' = <<now[1] + 1, 0>> /\ update' = TRUE
    <3>1. update' /\ ~update
        BY <2>3
    <3> QED
        BY <2>1, <2>3, <3>1
  <2> QED
      BY <1>1, <2>2, <2>3 DEF Count
<1>2. CASE Tim5Irq
  <2>1. update /\ ~update' /\ update' \in BOOLEAN
      BY <1>2 DEF Tim5Irq
  <2>2. sec' = now'[1] + 1
      BY <1>2, <2>1 DEF Tim5Irq
  <2> QED
      BY <1>2, <2>1, <2>2 DEF Tim5Irq
<1>3. CASE ReadSec
    BY <1>3 DEF ReadSec
<1>4. CASE ReadCounter
    BY <1>4 DEF ReadCounter
<1>5. CASE Return
    BY <1>5 DEF Return, Start
<1>6. CASE UNCHANGED upVars
    BY <1>6 DEF upVars
<1> QED
    BY <1>1, <1>2, <1>3, <1>4, <1>5, <1>6 DEF UptimeNext

LEMMA UptimeInvariant == UptimeSpec => []UptimeInv
<1>1. UptimeInit => UptimeInv
    BY UptimeAssumption
    DEF UptimeInit, UptimeInv, UptimeTypeOK, Times, Start, Before, TimeRead
<1> QED
    BY <1>1, UptimeStepOK, PTL DEF UptimeSpec

\* The clock's variables keep their types.
THEOREM UptimeTypeCorrect == UptimeSpec => []UptimeTypeOK
<1>1. UptimeInv => UptimeTypeOK
    BY DEF UptimeInv
<1> QED
    BY <1>1, UptimeInvariant, PTL

\* A time read is at most the extra second ahead, and less than a second behind
\* what the time was when the read began (retarget.c:5).
THEOREM TimeReadCorrect == UptimeSpec => []TimeRead
<1>1. UptimeInv => TimeRead
    BY DEF UptimeInv
<1> QED
    BY <1>1, UptimeInvariant, PTL
=============================================================================
