---------------------------- MODULE EventLedger ----------------------------
(***************************************************************************)
(* What the ambient ledger promises, whoever drains it: an event that came *)
(* in is open until it gets one verdict; a fired event starts one run at   *)
(* most, and can only be turned back while it has none.                    *)
(***************************************************************************)
EXTENDS Naturals

CONSTANT Event

VARIABLES
  state,   \* of each event: none, open, held, dropped or fired
  started  \* how many runs each event has started

Init ==
  /\ state = [e \in Event |-> "none"]
  /\ started = [e \in Event |-> 0]

Receive(e) ==
  /\ state[e] = "none"
  /\ state' = [state EXCEPT ![e] = "open"]
  /\ UNCHANGED started

Judge(e, v) ==
  /\ state[e] = "open"
  /\ state' = [state EXCEPT ![e] = v]
  /\ UNCHANGED started

StartRun(e) ==
  /\ state[e] = "fired" /\ started[e] = 0
  /\ started' = [started EXCEPT ![e] = 1]
  /\ UNCHANGED state

TurnBack(e) ==
  /\ state[e] = "fired" /\ started[e] = 0
  /\ state' = [state EXCEPT ![e] = "held"]
  /\ UNCHANGED started

Next == \E e \in Event :
  \/ Receive(e) \/ StartRun(e) \/ TurnBack(e)
  \/ \E v \in {"held", "dropped", "fired"} : Judge(e, v)

Spec == Init /\ [][Next]_<<state, started>>

=============================================================================
