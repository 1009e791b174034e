---------------------------- MODULE RemoteTasks ----------------------------
(***************************************************************************)
(* One call of a remote agent's tool inside a run, and the task it starts  *)
(* at the agent: the proxy (a2a/proxy.py) that sends, waits, asks the run's*)
(* user and parks, the poller of parked tasks (a2a/poller.py), and the task*)
(* drawer of the operator (api/remote_agents.py), all three on one row of  *)
(* a2a_tasks (a2a/tasks.py).                                               *)
(*                                                                         *)
(* External: the agent, and the replay of interrupted code by the graph    *)
(* library, which hands the decisions taken so far to the interrupts in    *)
(* the order they are met.                                                 *)
(***************************************************************************)
EXTENDS Naturals, Sequences

CONSTANTS
  MaxAsk,    \* bound: questions the agent asks
  MaxSend    \* bound: tasks sent

VARIABLES
  remote,     \* the newest task at the agent: state, question asked (a number)
  row,        \* the newest row: state, delivered
  call,       \* the proxy: step, interrupts passed since it (re)started
  decisions,  \* the run's answers
  poll,       \* the poller's pass: idle, the row listed, or what it saw, to deliver and to mark
  drawer,     \* the operator's reply: idle or sent
  cleanup,    \* a detached cancellation is under way
  sends,      \* tasks sent for this call
  told,       \* somebody was given the outcome, or gave the task up
  meddled,    \* the drawer acted on the row
  gone,       \* the agent's row is deleted
  died        \* the call's process has died in it

avars == <<remote, row, call, decisions, poll, drawer, cleanup, sends, told, meddled, gone, died>>

Terminal == {"completed", "failed", "canceled"}
Open     == {"working", "asks", "auth", "parked"}   \* A2A_OPEN_STATES
NoRow    == [state |-> "none", delivered |-> FALSE]
NoPass   == [at |-> "idle", saw |-> "none"]

Init ==
  /\ remote = [state |-> "none", q |-> 0]
  /\ row = NoRow
  /\ call = [at |-> "start", passed |-> 0]
  /\ decisions = <<>>
  /\ poll = NoPass /\ drawer = "idle" /\ cleanup = FALSE
  /\ sends = 0 /\ told = FALSE /\ meddled = FALSE
  /\ gone = FALSE /\ died = FALSE

-----------------------------------------------------------------------------
(* The agent, which works on its own, and may wait to be authorised elsewhere *)

AgentMoves ==
  /\ remote.state \in {"working", "auth"}
  /\ \/ \E s \in {"completed", "failed"} : remote' = [remote EXCEPT !.state = s]
     \/ remote.q < MaxAsk /\ remote' = [state |-> "asks", q |-> remote.q + 1]
     \/ remote' = [remote EXCEPT !.state = "auth"]
  /\ UNCHANGED <<row, call, decisions, poll, drawer, cleanup, sends, told, meddled, gone, died>>

Answered  == remote' = [remote EXCEPT !.state = "working"]
CancelAtAgent == remote' = [remote EXCEPT !.state = IF @ \in {"working", "asks", "auth"} THEN "canceled" ELSE @]

-----------------------------------------------------------------------------
(* The proxy *)

At(s) == call.at = s
To(s) == call' = [call EXCEPT !.at = s]

\* Mutant of Adopts: only a task that is being worked on is found.
AdoptsWorking == row.state = "working"

\* find_open_task
Adopts == row.state \in Open

Lookup ==
  /\ At("start") /\ ~gone
  /\ To(IF Adopts THEN "wait" ELSE "send")
  /\ UNCHANGED <<remote, row, decisions, poll, drawer, cleanup, sends, told, meddled, gone, died>>

\* the tool of an agent that is gone fails before it looks for a task
LookupFails ==
  /\ At("start") /\ gone
  /\ told' = TRUE
  /\ To("over")
  /\ UNCHANGED <<remote, row, decisions, poll, drawer, cleanup, sends, meddled, gone, died>>

\* The task exists at the agent before its first event is recorded here.
Send ==
  /\ At("send") /\ sends < MaxSend
  /\ remote' = [state |-> "working", q |-> remote.q]
  /\ sends' = sends + 1
  /\ To("record")
  /\ UNCHANGED <<row, decisions, poll, drawer, cleanup, told, meddled, gone, died>>

Record ==
  /\ At("record")
  /\ row' = [state |-> "working", delivered |-> FALSE]
  /\ To("wait")
  /\ UNCHANGED <<remote, decisions, poll, drawer, cleanup, sends, told, meddled, gone, died>>

\* _settle: a question, or the end, or a task that waits for an authorisation, which
\* is the tool's error and leaves an open row
Asked ==
  /\ At("wait") /\ remote.state = "asks"
  /\ row' = [row EXCEPT !.state = "asks"]
  /\ To("ask")
  /\ UNCHANGED <<remote, decisions, poll, drawer, cleanup, sends, told, meddled, gone, died>>

Finished ==
  /\ At("wait") /\ remote.state \in Terminal \cup {"auth"}
  /\ row' = [row EXCEPT !.state = remote.state]
  /\ told' = TRUE
  /\ To("over")
  /\ UNCHANGED <<remote, decisions, poll, drawer, cleanup, sends, meddled, gone, died>>

\* any exception of the port is the tool's error, and leaves the row
PortFails ==
  /\ call.at \in {"send", "wait", "reply"}
  /\ told' = TRUE
  /\ To("over")
  /\ UNCHANGED <<remote, row, decisions, poll, drawer, cleanup, sends, meddled, gone, died>>

\* a2a_task_timeout_s: parked, with ambient work on and room, or an error
TimesOut ==
  /\ call.at \in {"send", "record", "wait", "reply"}
  /\ \/ /\ call.at \in {"wait", "reply"}
        /\ row' = [row EXCEPT !.state = "parked"] /\ told' = told
     \/ /\ row' = IF call.at \in {"wait", "reply"} THEN [row EXCEPT !.state = "unknown"] ELSE row
        /\ told' = TRUE
  /\ To("over")
  /\ UNCHANGED <<remote, decisions, poll, drawer, cleanup, sends, meddled, gone, died>>

\* interrupt(): the decisions taken so far are handed out again, in order
Interrupt ==
  /\ At("ask")
  /\ IF call.passed = Len(decisions)
       THEN To("gate") /\ UNCHANGED <<remote, row, told>>
       ELSE LET d == decisions[call.passed + 1] IN
            IF d = "deny"
              THEN /\ CancelAtAgent /\ row' = [row EXCEPT !.state = "canceled"]
                   /\ told' = TRUE /\ To("over")
              ELSE call' = [at |-> "reply", passed |-> call.passed + 1] /\ UNCHANGED <<remote, row, told>>
  /\ UNCHANGED <<decisions, poll, drawer, cleanup, sends, meddled, gone, died>>

\* the run's user decides; the resumed run replays the call
Decide ==
  /\ At("gate")
  /\ \E what \in {"approve", "deny"} :
       decisions' = Append(decisions, what)
  /\ call' = [at |-> "start", passed |-> 0]
  /\ UNCHANGED <<remote, row, poll, drawer, cleanup, sends, told, meddled, gone, died>>

\* the answer goes to whatever the task asks now
Reply ==
  /\ At("reply")
  /\ IF remote.state = "asks"
       THEN /\ Answered /\ To("wait") /\ told' = told
       ELSE remote' = remote /\ To("over") /\ told' = TRUE
  /\ UNCHANGED <<row, decisions, poll, drawer, cleanup, sends, meddled, gone, died>>

\* the run is stopped, at its gate or inside the call, which then cleans up on its own
Stop ==
  /\ ~At("over")
  /\ told' = TRUE
  /\ cleanup' = (cleanup \/ call.at \in {"wait", "ask", "reply"})
  /\ To("over")
  /\ UNCHANGED <<remote, row, decisions, poll, drawer, sends, meddled, gone, died>>

\* _cancel_cleanup, which may fail anywhere
Cleanup ==
  /\ cleanup /\ cleanup' = FALSE
  /\ \/ UNCHANGED <<remote, row>>
     \/ CancelAtAgent /\ row' \in {row, [row EXCEPT !.state = "canceled"]}
  /\ UNCHANGED <<call, decisions, poll, drawer, sends, told, meddled, gone, died>>

-----------------------------------------------------------------------------
(* The poller, on the leader *)

\* parked_tasks lists the rows of a pass. A row without a task at the agent cannot be
\* among them: the call records one when it first sees the task, which has an id.
List ==
  /\ poll.at = "idle" /\ row.state = "parked" /\ ~row.delivered
  /\ poll' = [at |-> "listed", saw |-> "none"]
  /\ UNCHANGED <<remote, row, call, decisions, drawer, cleanup, sends, told, meddled, gone, died>>

\* tasks/get; the task of an agent that is gone is closed, and nobody is told
Recheck ==
  /\ poll.at = "listed"
  /\ \/ ~gone /\ row' = row /\ \E s \in {remote.state, "working"} : poll' = [at |-> "seen", saw |-> s]
     \/ gone /\ row' = [state |-> "canceled", delivered |-> TRUE] /\ poll' = NoPass
  /\ UNCHANGED <<remote, call, decisions, drawer, cleanup, sends, told, meddled, gone, died>>

\* still at work, or the recheck failed: parked again, whatever the row says by now
Repark ==
  /\ poll.at = "seen" /\ poll.saw \in {"working", "auth"} /\ poll' = NoPass
  /\ row' = [row EXCEPT !.state = "parked"]
  /\ UNCHANGED <<remote, call, decisions, drawer, cleanup, sends, told, meddled, gone, died>>

\* add_delivery, and then the row, in two transactions
Deliver ==
  /\ poll.at = "seen" /\ poll.saw \in Terminal \cup {"asks"}
  /\ told' = (told \/ poll.saw \in Terminal)
  /\ poll' = [poll EXCEPT !.at = "mark"]
  /\ UNCHANGED <<remote, row, call, decisions, drawer, cleanup, sends, meddled, gone, died>>

Mark ==
  /\ poll.at = "mark" /\ poll' = NoPass
  /\ row' = [state |-> poll.saw, delivered |-> row.delivered \/ poll.saw # "asks"]
  /\ UNCHANGED <<remote, call, decisions, drawer, cleanup, sends, told, meddled, gone, died>>

\* the tick is cut off or its process dies
PollStops ==
  /\ poll # NoPass /\ poll' = NoPass
  /\ UNCHANGED <<remote, row, call, decisions, drawer, cleanup, sends, told, meddled, gone, died>>

-----------------------------------------------------------------------------
(* The task drawer *)

DrawerReply ==
  /\ ~gone /\ drawer = "idle" /\ row.state = "asks" /\ remote.state = "asks"
  /\ Answered /\ drawer' = "sent" /\ meddled' = TRUE
  /\ UNCHANGED <<row, call, decisions, poll, cleanup, sends, told, gone, died>>

\* Mutant of DrawerReplied: a task still at work is left to itself.
DrawerForgets ==
  /\ drawer = "sent" /\ drawer' = "idle"
  /\ CASE remote.state \in Terminal -> row' = [state |-> remote.state, delivered |-> TRUE] /\ told' = TRUE
       [] remote.state = "asks"     -> row' = [row EXCEPT !.state = "asks"] /\ told' = told
       [] OTHER                     -> row' = [row EXCEPT !.state = "working"] /\ told' = told
  /\ UNCHANGED <<remote, call, decisions, poll, cleanup, sends, meddled, gone, died>>

\* the outcome is delivered, shown, or left to the poller
DrawerReplied ==
  /\ drawer = "sent" /\ drawer' = "idle"
  /\ CASE remote.state \in Terminal -> row' = [state |-> remote.state, delivered |-> TRUE] /\ told' = TRUE
       [] remote.state = "asks"     -> row' = [row EXCEPT !.state = "asks"] /\ told' = told
       [] OTHER                     -> row' = [row EXCEPT !.state = "parked"] /\ told' = told
  /\ UNCHANGED <<remote, call, decisions, poll, cleanup, sends, meddled, gone, died>>

\* the agent refuses the reply, the request's process dies, or the deadline passes, which
\* leaves the task to the poller
DrawerFails ==
  /\ drawer = "sent" /\ drawer' = "idle"
  /\ row' \in {row, [row EXCEPT !.state = "parked"]}
  /\ UNCHANGED <<remote, call, decisions, poll, cleanup, sends, told, meddled, gone, died>>

DrawerCancel ==
  /\ ~gone /\ row # NoRow
  /\ CancelAtAgent
  /\ row' = [state |-> "canceled", delivered |-> TRUE]
  /\ told' = TRUE /\ meddled' = TRUE
  /\ UNCHANGED <<call, decisions, poll, drawer, cleanup, sends, gone, died>>

-----------------------------------------------------------------------------
(* Deletions and crashes *)

\* delete_agent, which asks no task
DeleteAgent ==
  /\ ~gone /\ gone' = TRUE
  /\ UNCHANGED <<remote, row, call, decisions, poll, drawer, cleanup, sends, told, meddled, died>>

\* the process of a call under way dies; its run is failed, and a retry is another run
Die ==
  /\ call.at \notin {"gate", "over"}
  /\ died' = TRUE
  /\ To("over")
  /\ UNCHANGED <<remote, row, decisions, poll, drawer, cleanup, sends, told, meddled, gone>>

Next ==
  \/ AgentMoves \/ Lookup \/ LookupFails \/ Send \/ Record \/ Asked \/ Finished \/ PortFails \/ TimesOut \/ Interrupt
  \/ Decide \/ Reply \/ Stop \/ Cleanup
  \/ List \/ Recheck \/ Repark \/ Deliver \/ Mark \/ PollStops
  \/ DrawerReply \/ DrawerReplied \/ DrawerFails \/ DrawerCancel
  \/ DeleteAgent \/ Die

Spec == Init /\ [][Next]_avars

-----------------------------------------------------------------------------

\* proxy.py: the open row of the call is adopted "instead of re-sent": however often
\* the run is paused and replayed, one task is sent, unless the drawer closed its row.
SentOnce == meddled \/ sends <= 1

\* A recorded task is not forgotten: its outcome was given to the run, the user or the
\* operator, or the call still waits for it, or its row is parked for the poller or
\* shown in the drawer as asking. Claimed while the agent is registered - the poller
\* closes the tasks of a deleted one and tells nobody - and not of a row that a call
\* left "working" when its process died, which no sweep looks for.
NotForgotten ==
  \/ row = NoRow \/ told \/ ~At("over")
  \/ row.state = "asks" \/ (row.state = "parked" /\ ~row.delivered)
  \/ gone
  \/ died /\ row.state = "working"
=============================================================================
