---------------------------- MODULE MCEventDrain ----------------------------
(* Instances of EventDrain for TLC.                                        *)
EXTENDS EventDrain, TLC

CONSTANTS p1, p2

=============================================================================
