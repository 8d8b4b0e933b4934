---------------------------- MODULE StatusUpdate ----------------------------
(***************************************************************************)
(* PATCH /v1/tickets/{id}/status: TicketService.update_status with         *)
(* _get_or_create_agent (app/services/tickets.py), run by API requests     *)
(* that interleave.                                                        *)
(*                                                                         *)
(* The ticket is read without a lock and checked in Python; the status and *)
(* its STATUS_CHANGED event are written when the session commits.  At READ *)
(* COMMITTED the UPDATE waits for a concurrent one and then overwrites it. *)
(***************************************************************************)
EXTENDS TicketStatuses, Naturals, Sequences

CONSTANTS
  Tickets,        \* ticket ids
  Clients,        \* API requests that may run at the same time
  References,     \* agent references that requests name as their actor
  MayUpdate,      \* MayUpdate[c]: the tickets client c sends updates for
  ActorsAtStart,  \* what the references may stand for at start
  MaxRequests,    \* bound: requests sent in all
  MaxErrors,      \* bound: database errors
  NoRequest       \* what a client that sent nothing yet holds

\* A row of actors: none, an active agent, or anything _get_or_create_agent refuses.
ActorKinds == {"ABSENT", "AGENT", "REFUSED"}

ASSUME ConstantsAssumption ==
  /\ MayUpdate \in [Clients -> SUBSET Tickets]
  /\ ActorsAtStart \subseteq [References -> ActorKinds]
  /\ MaxRequests \in Nat
  /\ MaxErrors \in Nat

Request == [ticket : Tickets, next : TicketStatus, actor : References]

\* A STATUS_CHANGED row of ticket_events, which are kept by ticket in the order of ids.
Event == [from : TicketStatus, to : TicketStatus, by : References]

VARIABLES
  status,   \* tickets.status
  events,   \* STATUS_CHANGED events of each ticket, by id
  actors,   \* what each agent reference stands for
  pc,       \* next step of each client's request
  request,  \* the request each client sent last
  seen,     \* status loaded by the open transaction of each client
  answer,   \* the last answer to each client: an HTTP code and the status shown
  sent,     \* requests sent so far
  errors    \* database errors so far

database == <<status, events, actors>>
vars == <<status, events, actors, pc, request, seen, answer, sent, errors>>

Steps == {"idle", "load", "agent", "commit", "insert", "refresh"}

NoAnswer == [code |-> 0, status |-> "OPEN"]

TypeOK ==
  /\ status \in [Tickets -> TicketStatus]
  /\ events \in [Tickets -> Seq(Event)]
  /\ actors \in [References -> ActorKinds]
  /\ pc \in [Clients -> Steps]
  /\ request \in [Clients -> Request \cup {NoRequest}]
  /\ seen \in [Clients -> TicketStatus]
  /\ answer \in [Clients -> [code : {0, 200, 422, 503}, status : TicketStatus]]
  /\ sent \in 0..MaxRequests
  /\ errors \in 0..MaxErrors
  /\ \A c \in Clients :
       pc[c] # "idle" => request[c] \in Request /\ request[c].ticket \in MayUpdate[c]

Init ==
  /\ status = [t \in Tickets |-> "OPEN"]
  /\ events = [t \in Tickets |-> <<>>]
  /\ actors \in ActorsAtStart
  /\ pc = [c \in Clients |-> "idle"]
  /\ request = [c \in Clients |-> NoRequest]
  /\ seen = [c \in Clients |-> "OPEN"]
  /\ answer = [c \in Clients |-> NoAnswer]
  /\ sent = 0
  /\ errors = 0

Ticket(c) == request[c].ticket

Goto(c, step) ==
  /\ pc' = [pc EXCEPT ![c] = step]
  /\ UNCHANGED answer

Respond(c, code) ==
  /\ pc' = [pc EXCEPT ![c] = "idle"]
  /\ answer' = [answer EXCEPT ![c] = [code |-> code, status |-> status[Ticket(c)]]]

-----------------------------------------------------------------------------
Send(c, r) ==
  /\ pc[c] = "idle" /\ sent < MaxRequests
  /\ r.ticket \in MayUpdate[c]
  /\ request' = [request EXCEPT ![c] = r]
  /\ sent' = sent + 1
  /\ answer' = [answer EXCEPT ![c] = NoAnswer]
  /\ pc' = [pc EXCEPT ![c] = "load"]
  /\ UNCHANGED <<database, seen, errors>>

\* Mutant: any other status will do.
MutPermittedAny(c) == request[c].next # status[Ticket(c)]

Permitted(c) ==
  LET current == status[Ticket(c)] IN
  request[c].next # current /\ request[c].next \in ALLOWED_TRANSITIONS[current]

LoadTicket(c) ==
  /\ pc[c] = "load"
  /\ IF Permitted(c) THEN Goto(c, "agent") ELSE Respond(c, 422)
  /\ seen' = [seen EXCEPT ![c] = status[Ticket(c)]]
  /\ UNCHANGED <<database, request, sent, errors>>

\* Mutant: whatever the reference stands for is taken for an agent.
MutRefusedNobody(c) == FALSE

Refused(c) == actors[request[c].actor] = "REFUSED"

FindAgent(c) ==
  /\ pc[c] = "agent"
  /\ IF Refused(c) THEN Respond(c, 422)
     ELSE Goto(c, IF actors[request[c].actor] = "ABSENT" THEN "insert" ELSE "commit")
  /\ UNCHANGED <<database, request, seen, sent, errors>>

\* actors.external_reference is unique: of two requests that insert the same
\* agent, the second waits for the first to commit and then fails.
InsertConflicts(c) == pc[c] = "insert" /\ actors[request[c].actor] # "ABSENT"

\* Mutant: the status is written only if nobody changed it since.
MutNewStatusIfUnchanged(c) ==
  [status EXCEPT ![Ticket(c)] = IF @ = seen[c] THEN request[c].next ELSE @]

\* Mutant: the status is assigned after the commit, and the refresh discards it.
MutNewStatusLate(c) == status

NewStatus(c) == [status EXCEPT ![Ticket(c)] = request[c].next]

\* Mutant: previous_status is read after the assignment.
MutNewEventLate(c) ==
  [from |-> request[c].next, to |-> request[c].next, by |-> request[c].actor]

\* Mutant: previous_status is not recorded.
MutNewEventNoFrom(c) == [from |-> "NULL", to |-> request[c].next, by |-> request[c].actor]

NewEvent(c) == [from |-> seen[c], to |-> request[c].next, by |-> request[c].actor]

Write(c) ==
  /\ pc[c] \in {"commit", "insert"} /\ ~ InsertConflicts(c)
  /\ status' = NewStatus(c)
  /\ events' = [events EXCEPT ![Ticket(c)] = Append(@, NewEvent(c))]
  /\ actors' = IF pc[c] = "insert" THEN [actors EXCEPT ![request[c].actor] = "AGENT"]
                ELSE actors

Commit(c) ==
  /\ Write(c)
  /\ Goto(c, "refresh")
  /\ UNCHANGED <<request, seen, sent, errors>>

AgentConflict(c) ==
  /\ InsertConflicts(c)
  /\ Respond(c, 503)
  /\ UNCHANGED <<database, request, seen, sent, errors>>

\* The refresh after the commit reads the row again, in a new transaction.
Refresh(c) ==
  /\ pc[c] = "refresh"
  /\ Respond(c, 200)
  /\ UNCHANGED <<database, request, seen, sent, errors>>

\* Any statement raises; the error of a COMMIT may hide its success.
DatabaseError(c) ==
  /\ pc[c] # "idle" /\ errors < MaxErrors
  /\ errors' = errors + 1
  /\ UNCHANGED database \/ Write(c)
  /\ Respond(c, 503)
  /\ UNCHANGED <<request, seen, sent>>

Handle(c) ==
  LoadTicket(c) \/ FindAgent(c) \/ Commit(c) \/ AgentConflict(c) \/ Refresh(c)

Next ==
  \E c \in Clients :
    (\E r \in Request : Send(c, r)) \/ Handle(c) \/ DatabaseError(c)

Spec == Init /\ [][Next]_vars

-----------------------------------------------------------------------------
(***************************************************************************)
(* Properties that hold whatever requests overlap.                         *)
(***************************************************************************)

(***************************************************************************)
(* The row and its audit trail agree: the status of a ticket is the one    *)
(* its last STATUS_CHANGED event names, even when requests overwrite each  *)
(* other.                                                                  *)
(***************************************************************************)
StatusIsLastEvent ==
  \A t \in Tickets :
    status[t] = IF events[t] = <<>> THEN "OPEN" ELSE events[t][Len(events[t])].to

(***************************************************************************)
(* No event shows a step that ALLOWED_TRANSITIONS does not have, and each  *)
(* starts from a status the ticket really had before it.                   *)
(***************************************************************************)
EventsAreLegal ==
  \A t \in Tickets : \A i \in DOMAIN events[t] :
    LET from == events[t][i].from IN
    /\ events[t][i].to \in ALLOWED_TRANSITIONS[from]
    /\ from = "OPEN" \/ \E j \in 1..(i - 1) : events[t][j].to = from

(***************************************************************************)
(* Only agents change a status: the actor of every event is an agent, and  *)
(* requests that create the same agent at once do not disturb this.        *)
(***************************************************************************)
EventsAreByAgents ==
  \A t \in Tickets : \A i \in DOMAIN events[t] : actors[events[t][i].by] = "AGENT"

(***************************************************************************)
(* Properties for requests that do not overlap on a ticket.                *)
(***************************************************************************)
Serial == \A c, d \in Clients : c # d => MayUpdate[c] \cap MayUpdate[d] = {}

(***************************************************************************)
(* "A closed ticket is terminal": its status never changes again and it    *)
(* gets no further event.                                                  *)
(***************************************************************************)
ClosedIsTerminal ==
  [][\A t \in Tickets : status[t] = "CLOSED" =>
       status'[t] = "CLOSED" /\ events'[t] = events[t]]_vars

(***************************************************************************)
(* A 200 answer shows the status that was asked for.                       *)
(***************************************************************************)
AnswerShowsRequest ==
  \A c \in Clients : answer[c].code = 200 => answer[c].status = request[c].next

(***************************************************************************)
(* The events of a ticket are the path its status took.                    *)
(***************************************************************************)
Lifecycle == INSTANCE TicketLifecycle WITH
  Allowed <- ALLOWED_TRANSITIONS,
  history <- [t \in Tickets |->
                [i \in DOMAIN events[t] |-> [from |-> events[t][i].from,
                                            to   |-> events[t][i].to]]]

FollowsLifecycle == Lifecycle!Spec
=============================================================================
