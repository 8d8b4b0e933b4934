-------------------------- MODULE TicketLifecycle --------------------------
(***************************************************************************)
(* What the ticket service promises of a ticket's status: it moves along   *)
(* ALLOWED_TRANSITIONS only, and each move is one STATUS_CHANGED event, so *)
(* that the events are the path the ticket took and CLOSED ends it.        *)
(***************************************************************************)
EXTENDS Sequences

CONSTANTS Tickets, Allowed

VARIABLES status, history

vars == <<status, history>>

Init ==
  /\ status = [t \in Tickets |-> "OPEN"]
  /\ history = [t \in Tickets |-> <<>>]

Move(t, next) ==
  /\ next \in Allowed[status[t]]
  /\ status' = [status EXCEPT ![t] = next]
  /\ history' = [history EXCEPT ![t] = Append(@, [from |-> status[t], to |-> next])]

Next == \E t \in Tickets : \E next \in Allowed[status[t]] : Move(t, next)

Spec == Init /\ [][Next]_vars
=============================================================================
