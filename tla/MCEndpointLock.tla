--------------------------- MODULE MCEndpointLock ---------------------------
(* Instances of EndpointLock for TLC.                                      *)
EXTENDS EndpointLock, TLC

Perms == Permutations(Proc)
=============================================================================
