-------------------------- MODULE MCSystemResource --------------------------
(* Instances of SystemResource for TLC.  The constants are sets of model     *)
(* values, given in the configurations; no symmetry is used, as liveness is  *)
(* checked in both.                                                          *)
EXTENDS SystemResource, TLC
=============================================================================
