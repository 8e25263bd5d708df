------------------------------ MODULE MCEscort ------------------------------
(* Instances of EscortSystem for TLC. *)
EXTENDS EscortSystem

CONSTANTS vpn, root, d1
=============================================================================
