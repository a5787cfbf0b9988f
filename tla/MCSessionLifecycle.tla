------------------------- MODULE MCSessionLifecycle -------------------------
(* Instances of SessionLifecycle for TLC.                                  *)
EXTENDS SessionLifecycle, TLC

Perms == Permutations(Starter) \cup Permutations(Closer)
           \cup Permutations(Name) \cup Permutations(Port)
=============================================================================
