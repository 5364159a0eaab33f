----------------------------- MODULE MCOpenShifts -----------------------------
(* The instance of OpenShifts for TLC; its constants are in the cfg.  No   *)
(* symmetry, as it checks liveness.                                        *)
EXTENDS OpenShifts
===============================================================================
