---- MODULE MCOutbox ----
EXTENDS Outbox, TLC
CONSTANT k
Plain(t, key) == [tier |-> t, approval |-> FALSE, key |-> key]
Kinds == {Plain(0, k), Plain(1, k), [tier |-> 2, approval |-> TRUE, key |-> NoKey]}
Symmetry == Permutations(Replica)
====
