---------------------------- MODULE McpConnection ----------------------------
(***************************************************************************)
(* backend/app/mcp/manager.py and api/mcp_servers.py: one replica's        *)
(* connection to one MCP server, which servers share no state on.          *)
(*                                                                         *)
(* Requests, reconnect loops and the health loop all run _connect_once or  *)
(* _teardown on one entry of _conns, and nothing keeps them apart.         *)
(***************************************************************************)
EXTENDS Naturals, FiniteSets

CONSTANTS
  Request,       \* operators' POST, PATCH and reconnect requests
  Loop,          \* reconnect tasks, each run at most once
  MaxConn,       \* bound: connections opened
  MaxAttempts,   \* mcp_reconnect_max_attempts
  MaxFault       \* bound: database failures, servers that die, pings that fail, switches of the setting

VARIABLES
  server,   \* the row: deleted, status
  current,  \* _conns[server]: 0 when there is none
  conn,     \* each _Connection's task: none, starting, up, over
  breaker,  \* _Breaker: attempts, open, task ("none" or a loop)
  who,      \* the coroutines: step, and the connection waited for
  health,   \* ping_all: step, and the connection it took
  auto,     \* mcp_auto_reconnect_enabled
  fault,    \* faults so far
  excused   \* why nobody may be on the server: "database", "off", "overlooked"

mvars == <<server, current, conn, breaker, who, health, auto, fault, excused>>

Caller == Request \cup Loop
Fresh  == [attempts |-> 0, open |-> FALSE, task |-> "none"]
Rest   == [at |-> "idle", c |-> 0]
Running(c) == conn[c] \in {"starting", "up"}

Init ==
  /\ server = [deleted |-> FALSE, status |-> "inactive"]
  /\ current = 0
  /\ conn = [c \in 1..MaxConn |-> "none"]
  /\ breaker = Fresh
  /\ who = [w \in Caller |-> Rest]
  /\ health = Rest
  /\ auto \in BOOLEAN /\ fault = 0 /\ excused = {}

Fault == fault < MaxFault /\ fault' = fault + 1

-----------------------------------------------------------------------------
(* _teardown: whatever connection is there now is taken out and ended *)

TearDown ==
  /\ conn' = [c \in 1..MaxConn |-> IF c = current THEN "over" ELSE conn[c]]
  /\ current' = 0

Goes(w, at) == who' = [who EXCEPT ![w] = [at |-> at, c |-> 0]]

\* _cancel_reconnect: asleep or at the database a loop ends, its `finally` clearing
\* the breaker; an attempt takes its cancellation for a failure, and goes on.
Cancelled(k) ==
  CASE who[k].at \in {"wait", "ingest"} -> [at |-> "failed", c |-> 0]
    [] who[k].at \in {"tear", "failed"} -> who[k]
    [] OTHER -> [at |-> "over", c |-> 0]

\* connect_server: create, patch, reconnect, start, reconcile
Connect(w) ==
  /\ w \in Request /\ who[w].at = "idle" /\ ~server.deleted
  /\ breaker' = Fresh
  /\ who' = [v \in Caller |-> IF v = w THEN [at |-> "tear", c |-> 0]
                              ELSE IF v = breaker.task THEN Cancelled(v)
                              ELSE who[v]]
  /\ excused' = excused \ {"off"}
  /\ UNCHANGED <<server, current, conn, health, auto, fault>>

\* delete_server, and disconnect_server for a row deleted on another replica
Delete ==
  /\ ~server.deleted
  /\ server' = [server EXCEPT !.deleted = TRUE]
  /\ UNCHANGED <<current, conn, breaker, who, health, auto, fault, excused>>

Disconnect ==
  /\ server.deleted /\ (current # 0 \/ breaker.task # "none")
  /\ TearDown
  /\ breaker' = Fresh
  /\ who' = [v \in Caller |-> IF v = breaker.task THEN Cancelled(v) ELSE who[v]]
  /\ UNCHANGED <<server, health, auto, fault, excused>>

-----------------------------------------------------------------------------
(* _connect_once *)

Tear(w) ==
  /\ who[w].at = "tear"
  /\ TearDown /\ Goes(w, "row")
  /\ UNCHANGED <<server, breaker, health, auto, fault, excused>>

\* a deleted row is no failure; else the connection's task starts
ReadRow(w) ==
  /\ who[w].at = "row"
  /\ IF server.deleted THEN Goes(w, "ok") /\ UNCHANGED <<conn, current>>
     ELSE \E c \in 1..MaxConn :
            /\ conn[c] = "none" /\ \A d \in 1..(c - 1) : conn[d] # "none"
            /\ conn' = [conn EXCEPT ![c] = "starting"] /\ current' = c
            /\ who' = [who EXCEPT ![w] = [at |-> "wait", c |-> c]]
  /\ UNCHANGED <<server, breaker, health, auto, fault, excused>>

\* _run_connection: it comes up or ends in an error
Start(c) ==
  /\ conn[c] = "starting"
  /\ \E s \in {"up", "over"} : conn' = [conn EXCEPT ![c] = s]
  /\ UNCHANGED <<server, current, breaker, who, health, auto, fault, excused>>

\* conn.ready, or the timeout
Ready(w) ==
  /\ who[w].at = "wait"
  /\ CASE conn[who[w].c] = "up" -> Goes(w, "ingest")
       [] OTHER -> Goes(w, "failed")
  /\ UNCHANGED <<server, current, conn, breaker, health, auto, fault, excused>>

\* _ingest lists the tools over the entry's connection, whichever that is.
Ingest(w) ==
  /\ who[w].at = "ingest"
  /\ \/ current # 0 /\ conn[current] = "up" /\ Goes(w, "active")
     \/ Goes(w, "failed")
  /\ UNCHANGED <<server, current, conn, breaker, health, auto, fault, excused>>

Failed(w) ==
  /\ who[w].at = "failed"
  /\ TearDown /\ Goes(w, "error")
  /\ UNCHANGED <<server, breaker, health, auto, fault, excused>>

\* _record_status
Record(w) ==
  /\ who[w].at \in {"active", "error"}
  /\ server' = [server EXCEPT !.status = who[w].at]
  /\ Goes(w, IF who[w].at = "active" THEN "ok" ELSE "no")
  /\ UNCHANGED <<current, conn, breaker, health, auto, fault, excused>>

\* The database fails under a step that needs it: a request or a loop ends there.
DatabaseFails(w) ==
  /\ who[w].at \in {"row", "active", "error"} /\ Fault
  /\ excused' = excused \cup {"database"}
  /\ IF w \in Loop THEN /\ who' = [who EXCEPT ![w] = [at |-> "over", c |-> 0]]
                        /\ breaker' = [breaker EXCEPT !.task = "none"]
                   ELSE who' = [who EXCEPT ![w] = Rest] /\ breaker' = breaker
  /\ UNCHANGED <<server, current, conn, health, auto>>

-----------------------------------------------------------------------------
(* Retries *)

\* _schedule_reconnect, in one go but for the cached settings. A loop that has not
\* ended is taken for one at work, also one that is only reporting its success.
Schedule(others) ==
  \/ breaker.open /\ breaker' = breaker /\ who' = others /\ excused' = excused
  \/ /\ ~breaker.open /\ breaker.task # "none"
     /\ excused' = IF who[breaker.task].at \in {"active", "ok"} THEN excused \cup {"overlooked"}
                   ELSE excused \ {"off"}
     /\ breaker' = breaker /\ who' = others
  \/ /\ ~breaker.open /\ breaker.task = "none" /\ ~auto
     /\ excused' = excused \cup {"off"}
     /\ breaker' = breaker /\ who' = others
  \/ /\ ~breaker.open /\ breaker.task = "none" /\ auto
     /\ excused' = excused \ {"off"}
     /\ \E k \in Loop : /\ who[k].at = "idle"
                        /\ breaker' = [breaker EXCEPT !.task = k]
                        /\ who' = [others EXCEPT ![k].at = "policy"]

Answered(w) ==
  /\ w \in Request /\ who[w].at \in {"ok", "no"}
  /\ LET others == [who EXCEPT ![w] = Rest] IN
     IF who[w].at = "ok" THEN who' = others /\ UNCHANGED <<breaker, excused>> ELSE Schedule(others)
  /\ UNCHANGED <<server, current, conn, health, auto, fault>>

Ends(k, b) == /\ who' = [who EXCEPT ![k] = [at |-> "over", c |-> 0]]
              /\ breaker' = [b EXCEPT !.task = "none"]

\* one more attempt, and the sleep before it; a loop that finds itself switched off ends
Policy(k) ==
  /\ k \in Loop /\ who[k].at = "policy"
  /\ \/ /\ auto /\ Goes(k, "sleep")
        /\ breaker' = [breaker EXCEPT !.attempts = @ + 1] /\ excused' = excused
     \/ ~auto /\ Ends(k, breaker) /\ excused' = excused \cup {"off"}
  /\ UNCHANGED <<server, current, conn, health, auto, fault>>

Wake(k) ==
  /\ who[k].at = "sleep"
  /\ Goes(k, "tear")
  /\ UNCHANGED <<server, current, conn, breaker, health, auto, fault, excused>>

\* Mutant of Attempted: the loop gives up without opening the circuit.
AttemptedQuietly(k) ==
  /\ k \in Loop
  /\ \/ who[k].at = "ok" /\ Ends(k, [breaker EXCEPT !.attempts = 0]) /\ server' = server
     \/ who[k].at = "no" /\ breaker.attempts < MaxAttempts /\ Goes(k, "policy") /\ UNCHANGED <<breaker, server>>
     \/ who[k].at = "no" /\ breaker.attempts >= MaxAttempts /\ Ends(k, breaker)
        /\ server' = [server EXCEPT !.status = "error"]
  /\ UNCHANGED <<current, conn, health, auto, fault, excused>>

\* what the loop makes of an attempt; the open circuit is recorded on the row
Attempted(k) ==
  /\ k \in Loop
  /\ \/ who[k].at = "ok" /\ Ends(k, [breaker EXCEPT !.attempts = 0]) /\ server' = server
     \/ who[k].at = "no" /\ breaker.attempts < MaxAttempts /\ Goes(k, "policy") /\ UNCHANGED <<breaker, server>>
     \/ who[k].at = "no" /\ breaker.attempts >= MaxAttempts /\ Ends(k, [breaker EXCEPT !.open = TRUE])
        /\ server' = [server EXCEPT !.status = "error"]
  /\ UNCHANGED <<current, conn, health, auto, fault, excused>>

-----------------------------------------------------------------------------
(* The health loop *)

\* the server's process goes away, and its connection with it
Die(c) ==
  /\ conn[c] = "up" /\ Fault
  /\ conn' = [conn EXCEPT ![c] = "over"]
  /\ UNCHANGED <<server, current, breaker, who, health, auto, excused>>

Ping ==
  /\ health.at = "idle" /\ current # 0
  /\ health' = [at |-> "ping", c |-> current]
  /\ UNCHANGED <<server, current, conn, breaker, who, auto, fault, excused>>

\* a connection that is up may still not answer
Pong ==
  /\ health.at = "ping"
  /\ \/ conn[health.c] = "up" /\ health' = Rest /\ UNCHANGED <<conn, current, fault>>
     \/ /\ IF conn[health.c] = "up" THEN Fault ELSE fault' = fault
        /\ TearDown /\ health' = [health EXCEPT !.at = "error"]
  /\ UNCHANGED <<server, breaker, who, auto, excused>>

\* the row, and then a reconnect; a database failure ends the pass between them
Unhealthy ==
  /\ health.at = "error"
  /\ health' = Rest
  /\ \/ /\ server' = [server EXCEPT !.status = "error"]
        /\ Schedule(who) /\ fault' = fault
     \/ Fault /\ excused' = excused \cup {"database"} /\ UNCHANGED <<server, breaker, who>>
  /\ UNCHANGED <<current, conn, auto>>

\* the operator switches automatic reconnects on or off
Configure ==
  /\ auto' = ~auto /\ Fault
  /\ UNCHANGED <<server, current, conn, breaker, who, health, excused>>

Next ==
  \/ Delete \/ Disconnect \/ Ping \/ Pong \/ Unhealthy \/ Configure
  \/ \E c \in 1..MaxConn : Start(c) \/ Die(c)
  \/ \E w \in Caller :
       Connect(w) \/ Tear(w) \/ ReadRow(w) \/ Ready(w) \/ Ingest(w) \/ Failed(w) \/ Record(w)
       \/ DatabaseFails(w) \/ Answered(w) \/ Policy(w) \/ Wake(w) \/ Attempted(w)

Spec == Init /\ [][Next]_mvars

-----------------------------------------------------------------------------

Settled == health.at = "idle" /\ \A w \in Caller : who[w].at \in {"idle", "over"}

Tended == Settled /\ ~server.deleted /\ server.status # "inactive" => current # 0 \/ breaker.open

\* A server that has been tried is connected, is being tried, or has its circuit
\* open, however requests, loops and pings beside each other tear down what another
\* has connected, and whoever takes his cancellation for a failure; unless automatic
\* reconnects were off when one was due, the database failed under a step, or a loop
\* that was about to report a success, of a connection torn down meanwhile, kept
\* another from being scheduled (connect_server, _reconnect_loop, ping_all).
NotAbandoned == excused # {} \/ Tended
=============================================================================
