------------------------- MODULE StatusUpdateProofs -------------------------
(***************************************************************************)
(* Theorems about StatusUpdate, for any tickets, clients, references and   *)
(* bounds.  The audit trail is sound whatever requests overlap; that the   *)
(* status follows ALLOWED_TRANSITIONS needs requests that are Serial.      *)
(***************************************************************************)
EXTENDS StatusUpdate, TLAPS

\* A request that passed the transition check and has not been written.
Checked(c) == pc[c] \in {"agent", "commit", "insert"}

-----------------------------------------------------------------------------
(***************************************************************************)
(* Types.                                                                  *)
(***************************************************************************)
LEMMA OpenRequest ==
  ASSUME TypeOK, NEW c \in Clients, pc[c] # "idle"
  PROVE  /\ request[c] \in Request
         /\ Ticket(c) \in Tickets /\ request[c].next \in TicketStatus
         /\ request[c].actor \in References
         /\ status[Ticket(c)] \in TicketStatus
BY DEF TypeOK, Request, Ticket

LEMMA NewEventType ==
  ASSUME TypeOK, NEW c \in Clients, pc[c] # "idle"
  PROVE  NewEvent(c) \in Event
<1>1. request[c].next \in TicketStatus /\ request[c].actor \in References
  BY OpenRequest
<1>2. seen[c] \in TicketStatus
  BY DEF TypeOK
<1> QED
  BY <1>1, <1>2 DEF NewEvent, Event

LEMMA WriteType ==
  ASSUME TypeOK, NEW c \in Clients, Write(c)
  PROVE  /\ pc[c] # "idle"
         /\ status' \in [Tickets -> TicketStatus]
         /\ events' \in [Tickets -> Seq(Event)]
         /\ actors' \in [References -> ActorKinds]
<1>1. pc[c] # "idle"
  BY DEF Write
<1>2. NewEvent(c) \in Event
  BY <1>1, NewEventType
<1>3. status' \in [Tickets -> TicketStatus]
  BY <1>1, OpenRequest DEF Write, NewStatus, TypeOK
<1>4. events' \in [Tickets -> Seq(Event)]
  <2>1. events \in [Tickets -> Seq(Event)] /\ Ticket(c) \in Tickets
    BY <1>1, OpenRequest DEF TypeOK
  <2>2. Append(events[Ticket(c)], NewEvent(c)) \in Seq(Event)
    BY <1>2, <2>1
  <2>3. events' = [events EXCEPT ![Ticket(c)] = Append(events[Ticket(c)], NewEvent(c))]
    BY DEF Write
  <2> QED
    BY <2>1, <2>2, <2>3
<1>5. actors' \in [References -> ActorKinds]
  BY DEF Write, TypeOK, ActorKinds
<1> QED
  BY <1>1, <1>3, <1>4, <1>5

LEMMA RespondType ==
  ASSUME TypeOK, NEW c \in Clients, pc[c] # "idle", NEW code \in {200, 422, 503},
         Respond(c, code)
  PROVE  /\ pc' \in [Clients -> Steps]
         /\ answer' \in [Clients -> [code : {0, 200, 422, 503}, status : TicketStatus]]
         /\ pc'[c] = "idle"
         /\ \A d \in Clients : d # c => pc'[d] = pc[d]
BY OpenRequest DEF Respond, TypeOK, Steps

LEMMA GotoType ==
  ASSUME TypeOK, NEW c \in Clients, NEW step \in Steps, Goto(c, step)
  PROVE  /\ pc' \in [Clients -> Steps]
         /\ answer' \in [Clients -> [code : {0, 200, 422, 503}, status : TicketStatus]]
         /\ pc'[c] = step
         /\ \A d \in Clients : d # c => pc'[d] = pc[d]
BY DEF Goto, TypeOK

LEMMA TypeInit == Init => TypeOK
BY ConstantsAssumption
   DEF Init, TypeOK, TicketStatus, Steps, NoAnswer

LEMMA TypeStep ==
  ASSUME TypeOK, [Next]_vars
  PROVE  TypeOK'
<1>1. CASE UNCHANGED vars
  BY <1>1 DEF vars, database, TypeOK
<1>2. ASSUME NEW c \in Clients, NEW r \in Request, Send(c, r) PROVE TypeOK'
  <2>1. /\ sent' \in 0..MaxRequests
        /\ answer' \in [Clients -> [code : {0, 200, 422, 503}, status : TicketStatus]]
    BY <1>2, ConstantsAssumption DEF Send, TypeOK, NoAnswer, TicketStatus
  <2>2. /\ pc' \in [Clients -> Steps]
        /\ request' \in [Clients -> Request \cup {NoRequest}]
        /\ \A d \in Clients : pc'[d] # "idle" =>
             request'[d] \in Request /\ request'[d].ticket \in MayUpdate[d]
    BY <1>2 DEF Send, TypeOK, Steps
  <2> QED
    BY <1>2, <2>1, <2>2 DEF Send, database, TypeOK
<1>3. ASSUME NEW c \in Clients, LoadTicket(c) PROVE TypeOK'
  <2>1. pc[c] = "load" /\ status[Ticket(c)] \in TicketStatus
    BY <1>3, OpenRequest DEF LoadTicket
  <2>2. Goto(c, "agent") \/ Respond(c, 422)
    BY <1>3 DEF LoadTicket
  <2>3. /\ pc' \in [Clients -> Steps]
        /\ answer' \in [Clients -> [code : {0, 200, 422, 503}, status : TicketStatus]]
        /\ \A d \in Clients : d # c => pc'[d] = pc[d]
    BY <2>1, <2>2, GotoType, RespondType DEF Steps
  <2> QED
    BY <1>3, <2>1, <2>3 DEF LoadTicket, database, TypeOK
<1>4. ASSUME NEW c \in Clients, FindAgent(c) PROVE TypeOK'
  <2>1. Goto(c, "insert") \/ Goto(c, "commit") \/ Respond(c, 422)
    BY <1>4 DEF FindAgent
  <2>2. /\ pc' \in [Clients -> Steps]
        /\ answer' \in [Clients -> [code : {0, 200, 422, 503}, status : TicketStatus]]
        /\ \A d \in Clients : d # c => pc'[d] = pc[d]
    BY <1>4, <2>1, GotoType, RespondType DEF FindAgent, Steps
  <2> QED
    BY <1>4, <2>2 DEF FindAgent, database, TypeOK
<1>5. ASSUME NEW c \in Clients, Commit(c) PROVE TypeOK'
  <2>1. /\ pc' \in [Clients -> Steps]
        /\ answer' \in [Clients -> [code : {0, 200, 422, 503}, status : TicketStatus]]
        /\ \A d \in Clients : d # c => pc'[d] = pc[d]
    BY <1>5, GotoType DEF Commit, Steps
  <2> QED
    BY <1>5, <2>1, WriteType DEF Commit, TypeOK
<1>6. ASSUME NEW c \in Clients, AgentConflict(c) \/ Refresh(c) PROVE TypeOK'
  <2>1. pc[c] # "idle" /\ (Respond(c, 503) \/ Respond(c, 200))
    BY <1>6 DEF AgentConflict, InsertConflicts, Refresh
  <2>2. /\ pc' \in [Clients -> Steps]
        /\ answer' \in [Clients -> [code : {0, 200, 422, 503}, status : TicketStatus]]
        /\ \A d \in Clients : d # c => pc'[d] = pc[d]
    BY <2>1, RespondType
  <2> QED
    BY <1>6, <2>1, <2>2 DEF AgentConflict, Refresh, database, TypeOK
<1>7. ASSUME NEW c \in Clients, DatabaseError(c) PROVE TypeOK'
  <2>1. /\ pc' \in [Clients -> Steps]
        /\ answer' \in [Clients -> [code : {0, 200, 422, 503}, status : TicketStatus]]
        /\ pc'[c] = "idle"
        /\ \A d \in Clients : d # c => pc'[d] = pc[d]
    BY <1>7, RespondType DEF DatabaseError
  <2>2. /\ status' \in [Tickets -> TicketStatus]
        /\ events' \in [Tickets -> Seq(Event)]
        /\ actors' \in [References -> ActorKinds]
    BY <1>7, WriteType DEF DatabaseError, database, TypeOK
  <2>3. errors' \in 0..MaxErrors
    BY <1>7, ConstantsAssumption DEF DatabaseError, TypeOK
  <2> QED
    BY <1>7, <2>1, <2>2, <2>3 DEF DatabaseError, TypeOK
<1> QED
  BY <1>1, <1>2, <1>3, <1>4, <1>5, <1>6, <1>7 DEF Next, Handle

(***************************************************************************)
(* Every state of the status endpoint has its types, and a request that is *)
(* being handled names a ticket its client may update.                     *)
(***************************************************************************)
THEOREM TypeCorrect == Spec => []TypeOK
BY TypeInit, TypeStep, PTL DEF Spec

-----------------------------------------------------------------------------
(***************************************************************************)
(* The audit trail.  The three properties are not inductive: what a commit *)
(* appends is decided by what its transaction loaded, perhaps long before. *)
(***************************************************************************)

\* The status a checked request will record as previous_status was the
\* ticket's at some time, and the requested one is a legal step from it.
LoadedIsLegal ==
  \A c \in Clients : Checked(c) =>
    /\ request[c].next \in ALLOWED_TRANSITIONS[seen[c]]
    /\ seen[c] = "OPEN" \/ \E j \in DOMAIN events[Ticket(c)] :
                             events[Ticket(c)][j].to = seen[c]

\* A request that commits without inserting its actor has found an agent.
AgentFound == \A c \in Clients : pc[c] = "commit" => actors[request[c].actor] = "AGENT"

AuditInv ==
  /\ StatusIsLastEvent
  /\ EventsAreLegal
  /\ EventsAreByAgents
  /\ LoadedIsLegal
  /\ AgentFound

\* A commit extends the audit trail of its ticket by one event.
LEMMA WriteEffect ==
  ASSUME TypeOK, NEW c \in Clients, Write(c)
  PROVE  LET t == Ticket(c) IN
         /\ Checked(c) /\ t \in Tickets
         /\ events'[t] = Append(events[t], NewEvent(c))
         /\ status'[t] = request[c].next
         /\ Len(events'[t]) = Len(events[t]) + 1
         /\ events'[t][Len(events[t]) + 1] = NewEvent(c)
         /\ \A i \in DOMAIN events[t] : events'[t][i] = events[t][i]
         /\ \A u \in Tickets \ {t} : events'[u] = events[u] /\ status'[u] = status[u]
<1> DEFINE t == Ticket(c)
<1>1. Checked(c) /\ pc[c] # "idle"
  BY DEF Write, Checked
<1>2. t \in Tickets /\ events[t] \in Seq(Event) /\ NewEvent(c) \in Event
  BY <1>1, OpenRequest, NewEventType DEF TypeOK
<1>3. /\ events'[t] = Append(events[t], NewEvent(c))
      /\ \A u \in Tickets \ {t} : events'[u] = events[u]
  BY <1>2 DEF Write, TypeOK
<1>4. /\ status'[t] = request[c].next
      /\ \A u \in Tickets \ {t} : status'[u] = status[u]
  BY <1>2 DEF Write, NewStatus, TypeOK
<1>5. /\ Len(events'[t]) = Len(events[t]) + 1
      /\ events'[t][Len(events[t]) + 1] = NewEvent(c)
      /\ \A i \in DOMAIN events[t] : events'[t][i] = events[t][i]
  BY <1>2, <1>3
<1> QED
  BY <1>1, <1>2, <1>3, <1>4, <1>5

\* No commit takes an agent away, and the writer's actor is one afterwards.
LEMMA WriteActors ==
  ASSUME TypeOK, AgentFound, NEW c \in Clients, Write(c)
  PROVE  /\ actors'[request[c].actor] = "AGENT"
         /\ \A r \in References : actors[r] = "AGENT" => actors'[r] = "AGENT"
<1>1. request[c].actor \in References
  BY OpenRequest DEF Write
<1> QED
  BY <1>1 DEF Write, TypeOK, AgentFound

LEMMA WriteKeepsTrail ==
  ASSUME TypeOK, AuditInv, NEW c \in Clients, Write(c)
  PROVE  /\ StatusIsLastEvent'
         /\ EventsAreLegal'
         /\ EventsAreByAgents'
<1> DEFINE t == Ticket(c)
           n == Len(events[t])
<1>1. t \in Tickets /\ Checked(c) /\ events[t] \in Seq(Event) /\ n \in Nat
  BY WriteEffect DEF TypeOK
<1>2. /\ NewEvent(c).from = seen[c]
      /\ NewEvent(c).to = request[c].next
      /\ NewEvent(c).by = request[c].actor
  BY DEF NewEvent
<1>3. /\ DOMAIN events[t] = 1..n /\ events'[t] = Append(events[t], NewEvent(c))
      /\ DOMAIN events'[t] = 1..(n + 1) /\ events'[t] # <<>>
  <2>1. NewEvent(c) \in Event
    BY <1>1, NewEventType DEF Checked
  <2> QED
    BY <1>1, <2>1, WriteEffect
<1>4. StatusIsLastEvent'
  <2> SUFFICES ASSUME NEW u \in Tickets
               PROVE  status'[u] = IF events'[u] = <<>> THEN "OPEN"
                                   ELSE events'[u][Len(events'[u])].to
    BY DEF StatusIsLastEvent
  <2>1. CASE u = t
    BY <2>1, <1>2, <1>3, WriteEffect
  <2>2. CASE u # t
    BY <2>2, WriteEffect DEF AuditInv, StatusIsLastEvent
  <2> QED
    BY <2>1, <2>2
<1>5. EventsAreLegal'
  <2> SUFFICES ASSUME NEW u \in Tickets, NEW i \in DOMAIN events'[u]
               PROVE  /\ events'[u][i].to \in ALLOWED_TRANSITIONS[events'[u][i].from]
                      /\ \/ events'[u][i].from = "OPEN"
                         \/ \E j \in 1..(i - 1) : events'[u][j].to = events'[u][i].from
    BY DEF EventsAreLegal
  <2>1. CASE u # t
    BY <2>1, WriteEffect DEF AuditInv, EventsAreLegal
  <2>2. CASE u = t /\ i \in 1..n
    <3>1. \A j \in 1..i : events'[t][j] = events[t][j]
      BY <2>2, <1>1, <1>3, WriteEffect
    <3>2. /\ events[t][i].to \in ALLOWED_TRANSITIONS[events[t][i].from]
          /\ \/ events[t][i].from = "OPEN"
             \/ \E j \in 1..(i - 1) : events[t][j].to = events[t][i].from
      BY <2>2, <1>1, <1>3 DEF AuditInv, EventsAreLegal
    <3> QED
      BY <2>2, <1>1, <3>1, <3>2
  <2>3. CASE u = t /\ i = n + 1
    <3>1. events'[t][i] = NewEvent(c)
      BY <2>3, WriteEffect
    <3>2. /\ request[c].next \in ALLOWED_TRANSITIONS[seen[c]]
          /\ seen[c] = "OPEN" \/ \E j \in 1..n : events[t][j].to = seen[c]
      BY <1>1, <1>3 DEF AuditInv, LoadedIsLegal
    <3>3. \A j \in 1..n : events'[t][j] = events[t][j]
      BY <1>3, WriteEffect
    <3>4. 1..(i - 1) = 1..n
      BY <2>3, <1>1
    <3> QED
      BY <2>3, <1>2, <3>1, <3>2, <3>3, <3>4
  <2> QED
    BY <2>1, <2>2, <2>3, <1>1, <1>3
<1>6. EventsAreByAgents'
  <2> SUFFICES ASSUME NEW u \in Tickets, NEW i \in DOMAIN events'[u]
               PROVE  actors'[events'[u][i].by] = "AGENT"
    BY DEF EventsAreByAgents
  <2> USE WriteActors DEF AuditInv
  <2>1. \A v \in Tickets : \A j \in DOMAIN events[v] : actors'[events[v][j].by] = "AGENT"
    <3> TAKE v \in Tickets
    <3> TAKE j \in DOMAIN events[v]
    <3>1. events[v][j] \in Event
      BY DEF TypeOK
    <3>2. events[v][j].by \in References
      BY <3>1 DEF Event
    <3> QED
      BY <3>2 DEF EventsAreByAgents
  <2>2. CASE u # t
    BY <2>1, <2>2, WriteEffect
  <2>3. CASE u = t /\ i \in 1..n
    BY <2>1, <2>3, <1>1, <1>3, WriteEffect
  <2>4. CASE u = t /\ i = n + 1
    BY <2>4, <1>2, WriteEffect
  <2> QED
    BY <2>2, <2>3, <2>4, <1>1, <1>3
<1> QED
  BY <1>4, <1>5, <1>6

\* What a request has to know of its own steps: where they may lead it.
LEMMA StepOfHandle ==
  ASSUME TypeOK, NEW c \in Clients, Handle(c) \/ DatabaseError(c)
  PROVE  /\ UNCHANGED request
         /\ \A d \in Clients : d # c => pc'[d] = pc[d] /\ seen'[d] = seen[d]
         /\ UNCHANGED database \/ Write(c)
         /\ Checked(c)' => /\ LoadTicket(c) \/ FindAgent(c)
                           /\ UNCHANGED database
<1>1. CASE LoadTicket(c)
  <2>1. pc[c] # "idle" /\ (Goto(c, "agent") \/ Respond(c, 422))
    BY <1>1 DEF LoadTicket
  <2> QED
    BY <1>1, <2>1, GotoType, RespondType DEF LoadTicket, Steps, TypeOK
<1>2. CASE FindAgent(c)
  <2>1. pc[c] # "idle" /\ (Goto(c, "insert") \/ Goto(c, "commit") \/ Respond(c, 422))
    BY <1>2 DEF FindAgent
  <2> QED
    BY <1>2, <2>1, GotoType, RespondType DEF FindAgent, Steps
<1>3. CASE Commit(c)
  BY <1>3, GotoType DEF Commit, Checked, Steps
<1>4. CASE AgentConflict(c) \/ Refresh(c)
  <2>1. pc[c] # "idle" /\ (Respond(c, 503) \/ Respond(c, 200))
    BY <1>4 DEF AgentConflict, InsertConflicts, Refresh
  <2> QED
    BY <1>4, <2>1, RespondType DEF AgentConflict, Refresh, Checked
<1>5. CASE DatabaseError(c)
  BY <1>5, RespondType DEF DatabaseError, Checked
<1> QED
  BY <1>1, <1>2, <1>3, <1>4, <1>5 DEF Handle

\* A commit of c leaves to the checked requests of others what they rely on.
LEMMA WriteKeepsLoaded ==
  ASSUME TypeOK, AuditInv, NEW c \in Clients, Write(c),
         NEW t \in Tickets, NEW s
  PROVE  (\E j \in DOMAIN events[t] : events[t][j].to = s) =>
           (\E j \in DOMAIN events'[t] : events'[t][j].to = s)
<1> SUFFICES ASSUME NEW j \in DOMAIN events[t], events[t][j].to = s
             PROVE  \E k \in DOMAIN events'[t] : events'[t][k].to = s
  OBVIOUS
<1>1. CASE t = Ticket(c)
  <2>1. events[t] \in Seq(Event) /\ NewEvent(c) \in Event
    BY <1>1, WriteEffect, NewEventType DEF TypeOK, Checked
  <2>2. j \in DOMAIN events'[t] /\ events'[t][j] = events[t][j]
    BY <1>1, <2>1, WriteEffect
  <2> QED
    BY <2>2
<1>2. CASE t # Ticket(c)
  BY <1>2, WriteEffect
<1> QED
  BY <1>1, <1>2

LEMMA LoadTicketLegal ==
  ASSUME TypeOK, AuditInv, NEW c \in Clients, LoadTicket(c), Checked(c)'
  PROVE  /\ request[c].next \in ALLOWED_TRANSITIONS[seen'[c]]
         /\ seen'[c] = status[Ticket(c)]
         /\ seen'[c] = "OPEN" \/ \E j \in DOMAIN events[Ticket(c)] :
                                   events[Ticket(c)][j].to = seen'[c]
<1>1. pc[c] # "idle" /\ seen'[c] = status[Ticket(c)]
  BY DEF LoadTicket, TypeOK
<1>2. Ticket(c) \in Tickets /\ events[Ticket(c)] \in Seq(Event)
  BY <1>1, OpenRequest DEF TypeOK
<1>3. Permitted(c)
  <2> SUFFICES ASSUME ~ Permitted(c) PROVE FALSE
    OBVIOUS
  <2>1. pc'[c] = "idle"
    BY <1>1, RespondType DEF LoadTicket
  <2> QED
    BY <2>1 DEF Checked
<1>4. request[c].next \in ALLOWED_TRANSITIONS[status[Ticket(c)]]
  BY <1>3 DEF Permitted
<1>5. \/ status[Ticket(c)] = "OPEN"
      \/ \E j \in DOMAIN events[Ticket(c)] : events[Ticket(c)][j].to = status[Ticket(c)]
  <2>1. CASE events[Ticket(c)] = <<>>
    BY <2>1, <1>2 DEF AuditInv, StatusIsLastEvent
  <2>2. CASE events[Ticket(c)] # <<>>
    <3>1. Len(events[Ticket(c)]) \in DOMAIN events[Ticket(c)]
      BY <1>2, <2>2
    <3> QED
      BY <2>2, <3>1, <1>2 DEF AuditInv, StatusIsLastEvent
  <2> QED
    BY <2>1, <2>2
<1> QED
  BY <1>1, <1>4, <1>5

LEMMA HandleKeepsAudit ==
  ASSUME TypeOK, AuditInv, NEW c \in Clients, Handle(c) \/ DatabaseError(c)
  PROVE  AuditInv'
<1>1. StatusIsLastEvent' /\ EventsAreLegal' /\ EventsAreByAgents'
  <2>1. CASE UNCHANGED database
    BY <2>1 DEF database, AuditInv, StatusIsLastEvent, EventsAreLegal, EventsAreByAgents
  <2>2. CASE Write(c)
    BY <2>2, WriteKeepsTrail
  <2> QED
    BY <2>1, <2>2, StepOfHandle
<1>2. LoadedIsLegal'
  <2> SUFFICES ASSUME NEW d \in Clients, Checked(d)'
               PROVE  /\ request'[d].next \in ALLOWED_TRANSITIONS[seen'[d]]
                      /\ \/ seen'[d] = "OPEN"
                         \/ \E j \in DOMAIN events'[Ticket(d)'] :
                              events'[Ticket(d)'][j].to = seen'[d]
    BY DEF LoadedIsLegal
  <2>1. request' = request /\ Ticket(d)' = Ticket(d)
    BY StepOfHandle DEF Ticket
  <2>2. CASE d # c
    <3>1. Checked(d) /\ seen'[d] = seen[d] /\ Ticket(d) \in Tickets
      BY <2>2, StepOfHandle, OpenRequest DEF Checked
    <3>2. CASE UNCHANGED database
      BY <2>1, <3>1, <3>2 DEF database, AuditInv, LoadedIsLegal
    <3>3. CASE Write(c)
      BY <2>1, <3>1, <3>3, WriteKeepsLoaded DEF AuditInv, LoadedIsLegal
    <3> QED
      BY <3>2, <3>3, StepOfHandle
  <2>3. CASE d = c /\ LoadTicket(c)
    BY <2>1, <2>3, LoadTicketLegal DEF LoadTicket, database
  <2>4. CASE d = c /\ FindAgent(c)
    <3>1. Checked(c) /\ UNCHANGED <<events, seen>>
      BY <2>4 DEF FindAgent, database, Checked
    <3> QED
      BY <2>1, <2>4, <3>1 DEF AuditInv, LoadedIsLegal
  <2> QED
    BY <2>2, <2>3, <2>4, StepOfHandle
<1>3. AgentFound'
  <2> SUFFICES ASSUME NEW d \in Clients, pc'[d] = "commit"
               PROVE  actors'[request'[d].actor] = "AGENT"
    BY DEF AgentFound
  <2>1. UNCHANGED request
    BY StepOfHandle
  <2>2. CASE d # c
    <3>1. pc[d] = "commit" /\ request[d].actor \in References
      BY <2>2, StepOfHandle, OpenRequest
    <3> QED
      BY <2>1, <3>1, StepOfHandle, WriteActors DEF database, AuditInv, AgentFound
  <2>3. CASE d = c
    <3>1. Checked(c)'
      BY <2>3 DEF Checked
    <3>2. ~ LoadTicket(c)
      <4> SUFFICES ASSUME LoadTicket(c) PROVE FALSE
        OBVIOUS
      <4>1. pc[c] = "load" /\ (Goto(c, "agent") \/ Respond(c, 422))
        BY DEF LoadTicket
      <4> QED
        BY <2>3, <4>1, GotoType, RespondType DEF Steps
    <3>3. FindAgent(c) /\ UNCHANGED actors
      BY <3>1, <3>2, StepOfHandle DEF database
    <3>4. actors[request[c].actor] \in ActorKinds
      BY <3>3, OpenRequest DEF FindAgent, TypeOK
    <3>5. ~ Refused(c) /\ actors[request[c].actor] # "ABSENT"
      BY <2>3, <3>3 DEF FindAgent, Goto, Respond, TypeOK
    <3> QED
      BY <2>1, <2>3, <3>3, <3>4, <3>5 DEF Refused, ActorKinds
  <2> QED
    BY <2>2, <2>3
<1> QED
  BY <1>1, <1>2, <1>3 DEF AuditInv

LEMMA AuditInit == Init => AuditInv
<1> SUFFICES ASSUME Init PROVE AuditInv
  OBVIOUS
<1>1. \A t \in Tickets : events[t] = <<>> /\ status[t] = "OPEN"
  BY DEF Init
<1>2. \A t \in Tickets : DOMAIN events[t] = {}
  <2>1. DOMAIN <<>> = {}
    OBVIOUS
  <2> QED
    BY <1>1, <2>1
<1>3. \A c \in Clients : pc[c] = "idle"
  BY DEF Init
<1> QED
  BY <1>1, <1>2, <1>3
     DEF AuditInv, StatusIsLastEvent, EventsAreLegal, EventsAreByAgents, LoadedIsLegal,
         AgentFound, Checked

LEMMA AuditStep ==
  ASSUME TypeOK, AuditInv, [Next]_vars
  PROVE  AuditInv'
<1>1. CASE UNCHANGED vars
  BY <1>1
     DEF vars, database, AuditInv, StatusIsLastEvent, EventsAreLegal, EventsAreByAgents,
         LoadedIsLegal, AgentFound, Checked, Ticket
<1>2. ASSUME NEW c \in Clients, NEW r \in Request, Send(c, r) PROVE AuditInv'
  <2>1. \A d \in Clients : (Checked(d)' \/ pc'[d] = "commit") =>
          request'[d] = request[d] /\ pc'[d] = pc[d]
    BY <1>2 DEF Send, Checked, TypeOK
  <2> QED
    BY <1>2, <2>1
       DEF Send, database, AuditInv, StatusIsLastEvent, EventsAreLegal, EventsAreByAgents,
           LoadedIsLegal, AgentFound, Checked, Ticket
<1>3. ASSUME NEW c \in Clients, Handle(c) \/ DatabaseError(c) PROVE AuditInv'
  BY <1>3, HandleKeepsAudit
<1> QED
  BY <1>1, <1>2, <1>3 DEF Next

LEMMA AuditAlways == Spec => []AuditInv
BY TypeCorrect, AuditInit, AuditStep, PTL DEF Spec

(***************************************************************************)
(* Whatever requests overlap and whatever errors they meet, the row agrees *)
(* with the last event of its trail.                                       *)
(***************************************************************************)
THEOREM TrailMatchesRow == Spec => []StatusIsLastEvent
<1>1. AuditInv => StatusIsLastEvent
  BY DEF AuditInv
<1> QED
  BY <1>1, AuditAlways, PTL

(***************************************************************************)
(* No overlap of requests makes an event that ALLOWED_TRANSITIONS lacks,   *)
(* or one that starts from a status the ticket never had.                  *)
(***************************************************************************)
THEOREM TrailIsLegal == Spec => []EventsAreLegal
<1>1. AuditInv => EventsAreLegal
  BY DEF AuditInv
<1> QED
  BY <1>1, AuditAlways, PTL

(***************************************************************************)
(* Every event is by an agent, however many requests create that agent.    *)
(***************************************************************************)
THEOREM TrailIsByAgents == Spec => []EventsAreByAgents
<1>1. AuditInv => EventsAreByAgents
  BY DEF AuditInv
<1> QED
  BY <1>1, AuditAlways, PTL

-----------------------------------------------------------------------------
(***************************************************************************)
(* Requests that do not overlap on a ticket.  What a transaction loaded is *)
(* then still true when it commits, and its commit is what it reads back.  *)
(***************************************************************************)
Fresh == \A c \in Clients : Checked(c) => seen[c] = status[Ticket(c)]

Landed == \A c \in Clients : pc[c] = "refresh" => status[Ticket(c)] = request[c].next

SerialInv == Fresh /\ Landed /\ AnswerShowsRequest

\* No step of another client touches the ticket of an open request.
LEMMA OthersKeepStatus ==
  ASSUME Serial, TypeOK, NEW c \in Clients, NEW d \in Clients, d # c, pc[d] # "idle",
         Handle(c) \/ DatabaseError(c)
  PROVE  status'[Ticket(d)] = status[Ticket(d)]
<1>1. CASE UNCHANGED database
  BY <1>1 DEF database
<1>2. CASE Write(c)
  <2>1. Ticket(c) \in MayUpdate[c] /\ Ticket(d) \in MayUpdate[d]
    BY <1>2, WriteType DEF TypeOK, Ticket
  <2>2. Ticket(d) \in Tickets \ {Ticket(c)}
    BY <2>1, OpenRequest DEF Serial
  <2> QED
    BY <1>2, <2>2, WriteEffect
<1> QED
  BY <1>1, <1>2, StepOfHandle

\* A 200 is the answer of a refresh; every other step keeps or fails.
LEMMA AnswerOfHandle ==
  ASSUME TypeOK, NEW c \in Clients, Handle(c) \/ DatabaseError(c)
  PROVE  /\ \A d \in Clients : d # c => answer'[d] = answer[d]
         /\ \/ answer'[c] = answer[c]
            \/ answer'[c].code # 200
            \/ Refresh(c) /\ answer'[c].status = status[Ticket(c)]
<1>1. \/ UNCHANGED answer
      \/ Respond(c, 422) \/ Respond(c, 503)
      \/ Refresh(c) /\ Respond(c, 200)
  BY DEF Handle, LoadTicket, FindAgent, Commit, AgentConflict, Refresh, DatabaseError, Goto
<1>2. ASSUME NEW code \in {422, 503}, Respond(c, code)
      PROVE  answer'[c].code # 200 /\ \A d \in Clients : d # c => answer'[d] = answer[d]
  BY <1>2 DEF Respond, TypeOK
<1>3. ASSUME Respond(c, 200)
      PROVE  /\ answer'[c].status = status[Ticket(c)]
             /\ \A d \in Clients : d # c => answer'[d] = answer[d]
  BY <1>3 DEF Respond, TypeOK
<1> QED
  BY <1>1, <1>2, <1>3

LEMMA HandleKeepsSerial ==
  ASSUME Serial, TypeOK, AuditInv, SerialInv, NEW c \in Clients,
         Handle(c) \/ DatabaseError(c)
  PROVE  SerialInv'
<1> USE DEF SerialInv
<1>1. request' = request /\ \A d \in Clients : Ticket(d)' = Ticket(d)
  BY StepOfHandle DEF Ticket
<1>2. Fresh'
  <2> SUFFICES ASSUME NEW d \in Clients, Checked(d)'
               PROVE  seen'[d] = status'[Ticket(d)]
    BY <1>1 DEF Fresh
  <2>1. CASE d # c
    <3>1. Checked(d) /\ pc[d] # "idle" /\ seen'[d] = seen[d]
      BY <2>1, StepOfHandle DEF Checked
    <3> QED
      BY <2>1, <3>1, OthersKeepStatus DEF Fresh
  <2>2. CASE d = c /\ LoadTicket(c)
    BY <2>2, LoadTicketLegal DEF LoadTicket, database
  <2>3. CASE d = c /\ FindAgent(c)
    BY <2>3 DEF FindAgent, database, Checked, Fresh
  <2> QED
    BY <2>1, <2>2, <2>3, StepOfHandle
<1>3. Landed'
  <2> SUFFICES ASSUME NEW d \in Clients, pc'[d] = "refresh"
               PROVE  status'[Ticket(d)] = request[d].next
    BY <1>1 DEF Landed
  <2>1. CASE d # c
    <3>1. pc[d] = "refresh"
      BY <2>1, StepOfHandle
    <3> QED
      BY <2>1, <3>1, OthersKeepStatus DEF Landed
  <2>2. CASE d = c
    <3>1. Commit(c)
      BY <2>2 DEF Handle, LoadTicket, FindAgent, AgentConflict, Refresh, DatabaseError,
                  Goto, Respond, TypeOK
    <3> QED
      BY <2>2, <3>1, WriteEffect DEF Commit
  <2> QED
    BY <2>1, <2>2
<1>4. AnswerShowsRequest'
  BY <1>1, AnswerOfHandle DEF AnswerShowsRequest, Landed, Refresh
<1> QED
  BY <1>2, <1>3, <1>4

LEMMA SerialInit == Init => SerialInv
BY DEF Init, SerialInv, Fresh, Landed, Checked, AnswerShowsRequest, NoAnswer

LEMMA SerialStep ==
  ASSUME Serial, TypeOK, AuditInv, SerialInv, [Next]_vars
  PROVE  SerialInv'
<1>1. CASE UNCHANGED vars
  BY <1>1 DEF vars, database, SerialInv, Fresh, Landed, Checked, AnswerShowsRequest, Ticket
<1>2. ASSUME NEW c \in Clients, NEW r \in Request, Send(c, r) PROVE SerialInv'
  <2>1. /\ pc'[c] = "load" /\ answer'[c].code = 0
        /\ \A d \in Clients : d # c =>
             pc'[d] = pc[d] /\ request'[d] = request[d] /\ answer'[d] = answer[d]
        /\ UNCHANGED <<status, seen>>
    BY <1>2 DEF Send, database, TypeOK, NoAnswer
  <2> QED
    BY <2>1 DEF SerialInv, Fresh, Landed, Checked, AnswerShowsRequest, Ticket
<1>3. ASSUME NEW c \in Clients, Handle(c) \/ DatabaseError(c) PROVE SerialInv'
  BY <1>3, HandleKeepsSerial
<1> QED
  BY <1>1, <1>2, <1>3 DEF Next

LEMMA SerialAlways == ASSUME Serial PROVE Spec => []SerialInv
BY TypeCorrect, AuditAlways, SerialInit, SerialStep, PTL DEF Spec

(***************************************************************************)
(* A 200 answer shows the status that was asked for, if no two clients     *)
(* update the same ticket.                                                 *)
(***************************************************************************)
THEOREM AnswerIsRequest == ASSUME Serial PROVE Spec => []AnswerShowsRequest
<1>1. SerialInv => AnswerShowsRequest
  BY DEF SerialInv
<1> QED
  BY <1>1, SerialAlways, PTL

\* A commit is a legal step from the status the ticket has at that moment.
LEMMA WriteIsLegal ==
  ASSUME TypeOK, AuditInv, SerialInv, NEW c \in Clients, Write(c)
  PROVE  /\ seen[c] = status[Ticket(c)]
         /\ request[c].next \in ALLOWED_TRANSITIONS[status[Ticket(c)]]
BY WriteEffect DEF AuditInv, LoadedIsLegal, SerialInv, Fresh

\* A step either commits one request or leaves every row as it is.
LEMMA OneWriter ==
  ASSUME TypeOK, [Next]_vars
  PROVE  UNCHANGED database \/ \E c \in Clients : Write(c)
<1>1. CASE UNCHANGED vars
  BY <1>1 DEF vars, database
<1>2. ASSUME NEW c \in Clients, NEW r \in Request, Send(c, r) PROVE UNCHANGED database
  BY <1>2 DEF Send
<1>3. ASSUME NEW c \in Clients, Handle(c) \/ DatabaseError(c)
      PROVE  UNCHANGED database \/ Write(c)
  BY <1>3, StepOfHandle
<1> QED
  BY <1>1, <1>2, <1>3 DEF Next

(***************************************************************************)
(* "A closed ticket is terminal", if no two clients update the same        *)
(* ticket: its status and its trail stay as they are.                      *)
(***************************************************************************)
THEOREM ClosedTicketsStay == ASSUME Serial PROVE Spec => ClosedIsTerminal
<1>1. ASSUME TypeOK, AuditInv, SerialInv, [Next]_vars,
             NEW t \in Tickets, status[t] = "CLOSED"
      PROVE  status'[t] = "CLOSED" /\ events'[t] = events[t]
  <2>1. CASE UNCHANGED database
    BY <1>1, <2>1 DEF database
  <2>2. ASSUME NEW c \in Clients, Write(c)
        PROVE  status'[t] = "CLOSED" /\ events'[t] = events[t]
    <3>1. ALLOWED_TRANSITIONS[status[t]] = {}
      BY <1>1 DEF ALLOWED_TRANSITIONS
    <3>2. t # Ticket(c)
      BY <1>1, <2>2, <3>1, WriteIsLegal
    <3> QED
      BY <1>1, <2>2, <3>2, WriteEffect
  <2> QED
    BY <1>1, <2>1, <2>2, OneWriter
<1>2. TypeOK /\ AuditInv /\ SerialInv /\ [Next]_vars
        => [\A t \in Tickets : status[t] = "CLOSED" =>
              status'[t] = "CLOSED" /\ events'[t] = events[t]]_vars
  BY <1>1
<1> QED
  BY <1>2, TypeCorrect, AuditAlways, SerialAlways, PTL DEF Spec, ClosedIsTerminal

-----------------------------------------------------------------------------
(***************************************************************************)
(* The lifecycle.  A commit maps to one Move of TicketLifecycle, any other *)
(* step to none.                                                           *)
(***************************************************************************)
\* The moves that a sequence of events shows.
Moves(trail) == [i \in DOMAIN trail |-> [from |-> trail[i].from, to |-> trail[i].to]]

LEMMA MovesAppend ==
  ASSUME NEW trail \in Seq(Event), NEW e \in Event
  PROVE  Moves(Append(trail, e)) = Append(Moves(trail), [from |-> e.from, to |-> e.to])
<1> DEFINE n == Len(trail)
           m == [from |-> e.from, to |-> e.to]
           longer == Append(trail, e)
<1>1. /\ n \in Nat /\ DOMAIN trail = 1..n /\ DOMAIN longer = 1..(n + 1)
      /\ \A i \in 1..n : longer[i] = trail[i]
      /\ longer[n + 1] = e
  OBVIOUS
<1>2. /\ Moves(trail) \in Seq({Moves(trail)[i] : i \in 1..n} \cup {m})
      /\ Len(Moves(trail)) = n
  BY <1>1 DEF Moves
<1>3. /\ DOMAIN Append(Moves(trail), m) = 1..(n + 1)
      /\ \A i \in 1..n : Append(Moves(trail), m)[i] = Moves(trail)[i]
      /\ Append(Moves(trail), m)[n + 1] = m
      /\ Append(Moves(trail), m) = [i \in 1..(n + 1) |-> Append(Moves(trail), m)[i]]
  BY <1>2
<1>4. Moves(longer) = [i \in 1..(n + 1) |-> [from |-> longer[i].from, to |-> longer[i].to]]
  BY <1>1 DEF Moves
<1>5. \A i \in 1..(n + 1) :
        Append(Moves(trail), m)[i] = [from |-> longer[i].from, to |-> longer[i].to]
  BY <1>1, <1>3 DEF Moves
<1> QED
  BY <1>3, <1>4, <1>5

LEMMA LifecycleInit == Init => Lifecycle!Init
<1> SUFFICES ASSUME Init PROVE Lifecycle!Init
  OBVIOUS
<1>1. Moves(<<>>) = <<>>
  BY DEF Moves
<1>2. \A t \in Tickets : Moves(events[t]) = <<>>
  BY <1>1 DEF Init
<1> QED
  BY <1>2 DEF Init, Lifecycle!Init, Moves

LEMMA LifecycleStep ==
  ASSUME Serial, TypeOK, AuditInv, SerialInv, [Next]_vars
  PROVE  [Lifecycle!Next]_(Lifecycle!vars)
<1>1. CASE UNCHANGED database
  BY <1>1 DEF database, Lifecycle!vars
<1>2. ASSUME NEW c \in Clients, Write(c) PROVE Lifecycle!Next
  <2>1. PICK t \in Tickets, next \in TicketStatus : t = Ticket(c) /\ next = request[c].next
    BY <1>2, WriteType, OpenRequest
  <2> DEFINE move == [from |-> status[t], to |-> next]
  <2>2. /\ events[t] \in Seq(Event) /\ NewEvent(c) \in Event
        /\ NewEvent(c).from = status[t] /\ NewEvent(c).to = next
    BY <1>2, <2>1, WriteType, NewEventType, WriteIsLegal DEF TypeOK, NewEvent
  <2>3. Moves(events'[t]) = Append(Moves(events[t]), move)
    BY <1>2, <2>1, <2>2, WriteEffect, MovesAppend
  <2>4. \A u \in Tickets \ {t} : Moves(events'[u]) = Moves(events[u])
    BY <1>2, <2>1, WriteEffect
  <2>5. [u \in Tickets |-> Moves(events'[u])]
          = [[u \in Tickets |-> Moves(events[u])] EXCEPT ![t] = Append(@, move)]
    BY <2>3, <2>4
  <2>6. status' = [status EXCEPT ![t] = next]
    BY <1>2, <2>1 DEF Write, NewStatus
  <2>7. next \in ALLOWED_TRANSITIONS[status[t]]
    BY <1>2, <2>1, WriteIsLegal
  <2>8. Lifecycle!Move(t, next)
    BY <2>5, <2>6, <2>7 DEF Lifecycle!Move, Moves
  <2> QED
    BY <2>7, <2>8 DEF Lifecycle!Next
<1> QED
  BY <1>1, <1>2, OneWriter

(***************************************************************************)
(* If no two clients update the same ticket, the endpoint implements       *)
(* TicketLifecycle: each status follows from the one before it by          *)
(* ALLOWED_TRANSITIONS, and the events are exactly those steps.            *)
(***************************************************************************)
THEOREM ImplementsLifecycle == ASSUME Serial PROVE Spec => FollowsLifecycle
BY LifecycleInit, LifecycleStep, TypeCorrect, AuditAlways, SerialAlways, PTL
   DEF Spec, FollowsLifecycle, Lifecycle!Spec

=============================================================================
