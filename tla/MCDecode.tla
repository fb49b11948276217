------------------------------ MODULE MCDecode ------------------------------
(* Decode for TLC. *)
EXTENDS Decode
=============================================================================
