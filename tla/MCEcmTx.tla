------------------------------ MODULE MCEcmTx ------------------------------
(* EcmTx for TLC: two-byte packets, frames of one to four bytes. *)
EXTENDS EcmTx, TLC

Symmetry == Permutations(Handles) \cup Permutations(Senders)
=============================================================================
