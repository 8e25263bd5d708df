------------------------- MODULE MCStabilityAssist -------------------------
(* Instances of StabilityAssist for TLC. *)
EXTENDS StabilityAssist

CONSTANTS m1, m2, c1, c2
=============================================================================
