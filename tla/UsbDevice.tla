----------------------------- MODULE UsbDevice -----------------------------
(***************************************************************************)
(* What the USB device library promises the class and everything above it: *)
(* the states of a device and, in exactly one of them, a class that is up. *)
(***************************************************************************)

VARIABLES state,  \* "DEFAULT", "ADDRESSED" or "CONFIGURED"
          up      \* the class has a handle

vars == <<state, up>>

Init == state = "DEFAULT" /\ up = FALSE

Reset == state' = "DEFAULT" /\ up' = FALSE

Address ==
  /\ state # "CONFIGURED"
  /\ state' \in {"DEFAULT", "ADDRESSED"}
  /\ UNCHANGED up

Configure ==
  /\ state = "ADDRESSED"
  /\ state' = "CONFIGURED"
  /\ up' = TRUE

Deconfigure ==
  /\ state = "CONFIGURED"
  /\ state' = "ADDRESSED"
  /\ up' = FALSE

Next == Reset \/ Address \/ Configure \/ Deconfigure

Spec == Init /\ [][Next]_vars
=============================================================================
