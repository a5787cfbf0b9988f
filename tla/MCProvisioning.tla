--------------------------- MODULE MCProvisioning ---------------------------
(* The instance of Provisioning for TLC: three starts (model values) of    *)
(* two versions; Provisioning_all.cfg gives the sets.                      *)
EXTENDS Provisioning
=============================================================================
