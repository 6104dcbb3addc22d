-------------------------------- MODULE MCFx --------------------------------
(* Instances of Fx for TLC. *)
EXTENDS Fx

CONSTANTS e1, e2
=============================================================================
