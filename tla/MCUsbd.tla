------------------------------- MODULE MCUsbd -------------------------------
(* Usbd for TLC: two-byte packets; replies of one to three packets. *)
EXTENDS Usbd
=============================================================================
