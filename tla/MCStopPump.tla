----------------------------- MODULE MCStopPump -----------------------------
(* Instances of StopPump for TLC.                                          *)
EXTENDS StopPump, TLC

Perms == Permutations(Cli) \cup Permutations(Child)
=============================================================================
