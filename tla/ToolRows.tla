------------------------------ MODULE ToolRows ------------------------------
(***************************************************************************)
(* One row of the tools registry and the two parties that write it: the    *)
(* ingests of every replica (mcp/manager.py, a2a/manager.py, toolschema.py)*)
(* that mirror what the server or the agent's card offers, and the         *)
(* operator (api/tools.py, api/remote_agents.py).                          *)
(***************************************************************************)
EXTENDS Naturals, FiniteSets

CONSTANT Ingester   \* replicas that ingest

VARIABLES
  kind,     \* "mcp", or "a2a" for a skill of a remote agent
  row,      \* the row in the database
  agent,    \* an a2a row's agent: active, inactive, error
  work,     \* Ingester -> its step, the row it read and the schema offered
  held      \* who took the row out of service: none, changed (policy), off (operator), and
            \* away, raced (operator, of a row already away, or that an ingest is about to write)

tvars == <<kind, row, agent, work, held>>

\* No schema: the server no longer offers the tool.
Nothing == 0
Offers  == IF kind = "mcp" THEN 0..2 ELSE 0..1   \* the a2a input schema is a constant
Absent  == [here |-> FALSE, status |-> "inactive", ingest |-> "none", deleted |-> FALSE,
            flag |-> FALSE, hash |-> Nothing]
Rest    == [at |-> "rest", read |-> Absent, offer |-> Nothing]

Init ==
  /\ kind \in {"mcp", "a2a"}
  /\ row = Absent
  /\ agent \in (IF kind = "mcp" THEN {"active"} ELSE {"active", "error"})
  /\ work = [i \in Ingester |-> Rest]
  /\ held = "none"

-----------------------------------------------------------------------------
(* What a listing makes of a row *)

\* apply_schema: a changed schema is flagged; the policy takes a row that is, or
\* would come back, in service out of it
Schemed(r, offer, policy) ==
  LET stops == policy = "quarantine"
               /\ (r.status = "active" \/ (r.ingest = "missing" /\ ~r.deleted))
  IN IF offer = r.hash THEN r
     ELSE IF stops
       THEN [r EXCEPT !.hash = offer, !.flag = TRUE, !.status = "inactive", !.ingest = "changed"]
     ELSE [r EXCEPT !.hash = offer, !.flag = TRUE]

\* the server's return undoes only the server's absence
Offered(r, offer, policy) ==
  LET s    == Schemed(r, offer, policy)
      kept == IF kind = "mcp" THEN "changed" ELSE "agentoff"
  IN [s EXCEPT !.status = IF s.ingest = "missing" /\ ~s.deleted THEN "active" ELSE @,
               !.ingest = IF @ = kept THEN @ ELSE "present"]

\* Mutant of Dropped: whatever is not offered is marked missing.
DropsAll(r) == [r EXCEPT !.status = "inactive", !.ingest = "missing"]

Dropped(r) ==
  IF r.status = "active" THEN [r EXCEPT !.status = "inactive", !.ingest = "missing"]
  ELSE IF r.ingest = "present" THEN [r EXCEPT !.ingest = "none"]
  ELSE r

New(offer) == [here |-> TRUE, status |-> "active", ingest |-> "present", deleted |-> FALSE,
               flag |-> FALSE, hash |-> offer]

-----------------------------------------------------------------------------
(* Ingests *)

\* refresh_agent, up to the fetch of the card
Fetch(i) ==
  /\ kind = "a2a" /\ work[i].at = "rest"
  /\ work' = [work EXCEPT ![i].at = "fetch"]
  /\ UNCHANGED <<kind, row, agent, held>>

FetchFails(i) ==
  /\ work[i].at = "fetch"
  /\ agent' = "error"
  /\ work' = [work EXCEPT ![i] = Rest]
  /\ UNCHANGED <<kind, row, held>>

Fetched(i) ==
  /\ work[i].at = "fetch"
  /\ agent' = IF agent = "error" THEN "active" ELSE agent
  /\ work' = [work EXCEPT ![i].at = "ingest"]
  /\ UNCHANGED <<kind, row, held>>

\* _ingest reads the rows: of an MCP server under its advisory lock
Read(i) ==
  /\ \/ kind = "mcp" /\ work[i].at = "rest" /\ \A j \in Ingester : work[j].at # "write"
     \/ work[i].at = "ingest"
  /\ \E offer \in Offers : work' = [work EXCEPT ![i] = [at |-> "write", read |-> row, offer |-> offer]]
  /\ UNCHANGED <<kind, row, agent, held>>

\* and writes the columns that it changed; an insert that lost the race fails
Write(i) ==
  /\ work[i].at = "write"
  /\ work' = [work EXCEPT ![i] = Rest]
  /\ LET old == work[i].read  offer == work[i].offer IN
     \E policy \in {"warn"} \cup (IF kind = "mcp" THEN {"quarantine"} ELSE {}) :
       LET new == CASE offer = Nothing /\ old.here -> Dropped(old)
                    [] offer # Nothing /\ old.here -> Offered(old, offer, policy)
                    [] offer # Nothing /\ ~old.here /\ ~row.here -> New(offer)
                    [] OTHER -> old
       IN /\ row' = [c \in DOMAIN row |-> IF new[c] # old[c] THEN new[c] ELSE row[c]]
          /\ held' = IF new.ingest = "changed" /\ old.ingest # "changed" /\ row'.status = "inactive"
                       THEN "changed" ELSE held
  /\ UNCHANGED <<kind, agent>>

-----------------------------------------------------------------------------
(* The operator *)

Mid == \E i \in Ingester : work[i].at = "write"

\* patch_tool: a status and nothing else. It leaves the mark of an absence, whose end
\* makes the row active again, and an ingest that has read the row writes over it.
Patch(status) ==
  /\ row.here /\ ~row.deleted
  /\ row' = [row EXCEPT !.status = status]
  /\ held' = IF status = "active" THEN "none"
             ELSE IF held \in {"off", "changed"} THEN held
             ELSE IF row.ingest \in {"missing", "agentoff"} THEN "away"
             ELSE IF Mid THEN "raced" ELSE "off"
  /\ UNCHANGED <<kind, agent, work>>

Delete ==
  /\ row.here /\ ~row.deleted
  /\ row' = [row EXCEPT !.deleted = TRUE]
  /\ UNCHANGED <<kind, agent, work, held>>

Restore ==
  /\ row.deleted
  /\ row' = [row EXCEPT !.deleted = FALSE]
  /\ UNCHANGED <<kind, agent, work, held>>

\* acknowledge_schema_change
Acknowledge ==
  /\ row.here /\ ~row.deleted /\ (row.flag \/ row.ingest = "changed")
  /\ row' = [row EXCEPT !.flag = FALSE,
                        !.ingest = IF @ = "changed" THEN "present" ELSE @,
                        !.status = IF row.ingest = "changed" THEN "active" ELSE @]
  /\ held' = IF row.ingest = "changed" THEN "none" ELSE held
  /\ UNCHANGED <<kind, agent, work>>

\* patch_agent: the agent's tools follow its status
PatchAgent(status) ==
  /\ kind = "a2a"
  /\ agent' = status
  /\ row' = CASE agent = "active" /\ status = "inactive" /\ row.status = "active" /\ ~row.deleted ->
                   [row EXCEPT !.status = "inactive", !.ingest = "agentoff"]
              [] agent # "active" /\ status = "active" /\ row.ingest = "agentoff" /\ ~row.deleted ->
                   [row EXCEPT !.status = "active", !.ingest = "present"]
              [] OTHER -> row
  /\ UNCHANGED <<kind, work, held>>

Next ==
  \/ \E i \in Ingester : Fetch(i) \/ FetchFails(i) \/ Fetched(i) \/ Read(i) \/ Write(i)
  \/ \E s \in {"active", "inactive"} : Patch(s) \/ PatchAgent(s)
  \/ Delete \/ Restore \/ Acknowledge

Spec == Init /\ [][Next]_tvars

-----------------------------------------------------------------------------

\* A tool its operator disabled stays out of service whatever the server drops and
\* offers again and however the agent is switched, and a tool the quarantine took out
\* for a changed schema stays out until the operator has said so, also when it vanished
\* and came back. Claimed for the disable of a tool that was not already away - missing
\* at its server, or off with its agent: that word is undone by the return (_ingest,
\* patch_agent) - and that no ingest had read before and wrote after it.
OutUntilAllowed == held \in {"off", "changed"} => row.status = "inactive"
=============================================================================
