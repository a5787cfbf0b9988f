---------------------------- MODULE MCDecisions ----------------------------
(* Instances of Decisions for TLC.                                         *)
EXTENDS Decisions
=============================================================================
