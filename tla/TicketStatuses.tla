--------------------------- MODULE TicketStatuses ---------------------------
(***************************************************************************)
(* The statuses of a ticket and the transitions the ticket service allows. *)
(***************************************************************************)
TicketStatus == {"OPEN", "IN_PROGRESS", "RESOLVED", "CLOSED"}

\* Mutant: a closed ticket can be reopened.
MutAllowedReopen ==
  [OPEN |-> {"IN_PROGRESS", "CLOSED"}, IN_PROGRESS |-> {"RESOLVED", "CLOSED"},
   RESOLVED |-> {"CLOSED", "IN_PROGRESS"}, CLOSED |-> {"OPEN"}]

ALLOWED_TRANSITIONS ==
  [OPEN        |-> {"IN_PROGRESS", "CLOSED"},
   IN_PROGRESS |-> {"RESOLVED", "CLOSED"},
   RESOLVED    |-> {"CLOSED", "IN_PROGRESS"},
   CLOSED      |-> {}]
=============================================================================
