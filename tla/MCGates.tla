------------------------------ MODULE MCGates ------------------------------
(* A worker whose first skill calls a tool that asks, and that has a gate after it. *)
EXTENDS GraphRun

ThePlan == <<"a">>
Needs == [a |-> {}]
Flow  == [a |-> <<"asks", "gate">>]

=============================================================================
