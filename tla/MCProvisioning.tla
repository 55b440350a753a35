---------------------------- MODULE MCProvisioning ----------------------------
(* Provisioning for TLC; its configurations give the constants.  Liveness  *)
(* is checked in all of them, so no symmetry is declared.                  *)
EXTENDS Provisioning
===============================================================================
