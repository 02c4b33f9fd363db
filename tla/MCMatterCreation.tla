------------------------- MODULE MCMatterCreation -------------------------
(* Instances of MatterCreation for TLC. *)
EXTENDS MatterCreation, TLC
=============================================================================
