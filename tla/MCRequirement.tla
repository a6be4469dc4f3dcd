--------------------------- MODULE MCRequirement ---------------------------
(* Requirement with its bounds given in requirement.cfg.                   *)
EXTENDS Requirement
=============================================================================
