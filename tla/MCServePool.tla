----------------------------- MODULE MCServePool -----------------------------
(* Instances of ServePool for TLC.                                         *)
EXTENDS ServePool, TLC

CONSTANTS a1, a2, c1, q1, k1

Calls   == {a1, a2}
Closers == {c1}
Knocks  == {k1}
Probes  == c1 :> q1
=============================================================================
