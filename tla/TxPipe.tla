------------------------------- MODULE TxPipe -------------------------------
(***************************************************************************)
(* What the transmit path promises lwIP in one session: a pipe that holds  *)
(* at most one frame.  A frame it accepts comes out exactly once, whole,   *)
(* before the next one goes in.                                            *)
(***************************************************************************)
EXTENDS Sequences

CONSTANT Frames

VARIABLES pipe,  \* the frame in the pipe, or nothing
          got    \* the frames that came out

vars == <<pipe, got>>

Init == pipe = <<>> /\ got = <<>>

Accept == pipe = <<>> /\ pipe' \in {<<f>> : f \in Frames} /\ UNCHANGED got

Deliver == pipe # <<>> /\ got' = got \o pipe /\ pipe' = <<>>

Next == Accept \/ Deliver

Spec == Init /\ [][Next]_vars
=============================================================================
