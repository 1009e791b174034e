----------------------------- MODULE MCTriggers -----------------------------
(* Instances of Triggers for TLC.                                              *)
EXTENDS Triggers, TLC

Intervals == <<2, 0>>     \* an interval of two minutes, and a "once"

Symmetry == Permutations(Replica)

=============================================================================
