------------------------- MODULE MCHealthEmergency --------------------------
(* Instances of HealthEmergency for TLC. *)
EXTENDS HealthEmergency
=============================================================================
