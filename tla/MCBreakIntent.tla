---------------------------- MODULE MCBreakIntent ----------------------------
(* Instances of BreakIntent for TLC.                                       *)
EXTENDS BreakIntent, TLC

CONSTANTS f1, f2, l1, l2, l3, plain, cond

Perms == Permutations(Cli) \cup Permutations(Child)

NoBreaks == {}
OneKey   == {<<f1, l1, plain>>}
TwoConds == {<<f1, l1, plain>>, <<f1, l1, cond>>}
TwoFiles == {<<f1, l1, plain>>, <<f1, l2, plain>>, <<f2, l3, plain>>}
Armed    == {<<f1, l1, plain>>, <<f2, l3, plain>>}
=============================================================================
