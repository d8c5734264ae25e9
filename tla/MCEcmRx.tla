------------------------------ MODULE MCEcmRx ------------------------------
(* EcmRx for TLC: two heap blocks, two-byte packets, three-byte frames. *)
EXTENDS EcmRx, TLC

Symmetry == Permutations(Handles)
=============================================================================
