---------------------------- MODULE MCAdmission ----------------------------
(* Instances of Admission for TLC.                                         *)
EXTENDS Admission, TLC

CONSTANTS t1, t2, t3, t4

\* Every task is for a run of its own.
OwnRun == [t \in Task |-> t]

=============================================================================
