--------------------------- MODULE MCProvisioning ---------------------------
(* Instance of Provisioning for TLC.                                       *)
EXTENDS Provisioning
=============================================================================
