----------------------------- MODULE RunRecord -----------------------------
(***************************************************************************)
(* What a reader of the runs table may rely on: the status machine of      *)
(* docs/architecture/state-machines.md (Run.status), with the two states   *)
(* the code has added since, queued (admission) and stalled (the reaper).  *)
(* A step moves any number of rows, as a restart or a purge does.          *)
(***************************************************************************)
EXTENDS Naturals

CONSTANT Run
VARIABLE status

Edge == {<<"none", "queued">>, <<"queued", "running">>, <<"running", "paused_hitl">>,
         <<"paused_hitl", "running">>, <<"running", "completed">>, <<"running", "stalled">>}
  \cup ({"queued", "running"} \X {"failed"})
  \cup ({"queued", "running", "paused_hitl"} \X {"cancelled"})
  \cup ({"queued", "running", "paused_hitl", "completed", "failed", "cancelled", "stalled"}
        \X {"deleted"})

Init == status = [r \in Run |-> "none"]

Next == \E Moved \in SUBSET Run :
  /\ Moved # {}
  /\ \A r \in Moved : <<status[r], status'[r]>> \in Edge
  /\ status' = [r \in Run |-> IF r \in Moved THEN status'[r] ELSE status[r]]

Spec == Init /\ [][Next]_status

=============================================================================
