----------------------------- MODULE Migrations -----------------------------
(***************************************************************************)
(* The Alembic revisions 0001 to 0007 (migrations/versions), upgraded and  *)
(* downgraded one at a time over the rows that the application of the day  *)
(* has written.  A migration that raises is rolled back (env.py) and       *)
(* leaves the database as it was, so a step is taken only if every         *)
(* statement of the revision succeeds on these rows.                       *)
(*                                                                         *)
(* The code in src/ needs revision 7.  Of the application that wrote under *)
(* revisions 1 and 2 the repository keeps what 0003 says of its rows: an   *)
(* actor is a label, "customer" stands for the customer of the ticket, and *)
(* whoever changes a status names himself.                                 *)
(***************************************************************************)
EXTENDS Naturals, Sequences, FiniteSets

CONSTANTS
  Emails,         \* e-mail addresses as customers write them
  Lower,          \* their lower case
  CustomerRef,    \* "customer:" and an address
  LongEmails,     \* addresses whose reference is longer than external_reference
  OddEmails,      \* addresses, like a@b.c, that the API takes and the check of 0002 does not
  Names,          \* display names of customers
  ShortNames,     \* those of less than 2 characters without blanks around
  Agents,         \* references of agents
  MaxTickets, MaxEvents, MaxDowngrades  \* bounds

Worker == "worker:ticket-processor"
Customer == "customer"

\* What an actor may be referred to by.
Labels == Agents \cup {Worker, Customer} \cup {CustomerRef[e] : e \in Emails}

\* What a client may call himself when he changes a status: a label has 120 characters.
ShortLabels == Labels \ {CustomerRef[e] : e \in LongEmails}

ASSUME MigrationsAssumption ==
  /\ Lower \in [Emails -> Emails] /\ \A e \in Emails : Lower[Lower[e]] = Lower[e]
  /\ \A e, f \in Emails : CustomerRef[e] = CustomerRef[f] => e = f
  /\ \A e \in Emails : CustomerRef[e] \notin Agents \cup {Worker, Customer, "NULL"}
  /\ Agents \cap {Worker, Customer, "NULL"} = {}
  /\ Names # {} /\ "NULL" \notin Names /\ "NULL" \notin Emails
  /\ ShortNames \subseteq Names
  /\ LongEmails \subseteq Emails /\ OddEmails \subseteq Emails
  /\ \A e \in Emails : Lower[e] \in LongEmails <=> e \in LongEmails
  /\ \A e \in Emails : Lower[e] \in OddEmails <=> e \in OddEmails
  /\ MaxTickets \in Nat /\ MaxEvents \in Nat /\ MaxDowngrades \in Nat

VARIABLES
  rev,         \* the revision in alembic_version, 0 for an empty database
  tickets,     \* rows of tickets with their outbox row, in the order of their ids
  events,      \* rows of ticket_events
  actors,      \* rows of actors with customers or agents, by external_reference
  nonempty,    \* ck_ticket_events_actor_nonempty exists
  shape,       \* ck_ticket_events_status_shape: none, by status, or by actor type too
  frozen,      \* the append-only trigger exists
  queue,       \* tickets with a message in Redis, which no migration touches
  downgrades,  \* downgrades so far
  undone       \* ghost: 0003 has been downgraded

schema == <<nonempty, shape, frozen>>
vars == <<rev, tickets, events, actors, schema, queue, downgrades, undone>>

ActorTypes == {"CUSTOMER", "AGENT", "SYSTEM"}
NoActor == [type |-> "NULL", name |-> "NULL", email |-> "NULL"]

\* A column is NULL where its revision does not have it.  FAILED stands for a ticket that
\* is PROCESSING for ever as well.  Ghosts: who is the reference of whoever caused the
\* event, origin the address its customer gave, outlived the number of downgrades of
\* 0005 that a message of the ticket was in Redis for.
TicketRow ==
  [email : Emails \cup {"NULL"}, name : Names \cup {"NULL"}, fits : BOOLEAN,
   customer : Labels \cup {"NULL"}, processing : {"NULL", "PENDING", "COMPLETED", "FAILED"},
   outbox : {"NULL", "PENDING", "PUBLISHED"}, origin : Emails, outlived : Nat]

EventRow ==
  [ticket : Nat, kind : {"CREATED", "STATUS_CHANGED", "AUTO_PROCESSED"},
   label : Labels \cup Names \cup {"NULL"}, actor : Labels \cup {"NULL"},
   type : ActorTypes \cup {"NULL"}, who : Labels]

ActorRow ==
  [type : ActorTypes, name : Labels \cup Names, email : Emails \cup {"NULL"}] \cup {NoActor}

\* Each column is there from the revision that adds it to the one that drops it.
ColumnsOf(t) ==
  /\ t.email # "NULL" <=> rev \in 1..2
  /\ t.name # "NULL" <=> rev \in 1..2
  /\ t.customer # "NULL" <=> rev >= 3
  /\ t.processing # "NULL" <=> rev >= 5
  /\ t.outbox # "NULL" => rev >= 6

TypeOK ==
  /\ rev \in 0..7
  /\ tickets \in Seq(TicketRow)
  /\ events \in Seq(EventRow)
  /\ actors \in [Labels -> ActorRow]
  /\ nonempty \in BOOLEAN /\ frozen \in BOOLEAN
  /\ shape \in {"none", "status", "typed"}
  /\ queue \subseteq DOMAIN tickets
  /\ downgrades \in 0..MaxDowngrades
  /\ undone \in BOOLEAN
  /\ \A i \in DOMAIN tickets : ColumnsOf(tickets[i])
  /\ \A k \in DOMAIN events :
       /\ events[k].ticket \in DOMAIN tickets
       /\ events[k].label # "NULL" <=> rev <= 2
       /\ events[k].actor # "NULL" <=> rev >= 3
       /\ events[k].type # "NULL" <=> rev >= 3

Init ==
  /\ rev = 0
  /\ tickets = <<>> /\ events = <<>>
  /\ actors = [r \in Labels |-> NoActor]
  /\ nonempty = FALSE /\ shape = "none" /\ frozen = FALSE
  /\ queue = {}
  /\ downgrades = 0
  /\ undone = FALSE

-----------------------------------------------------------------------------
(***************************************************************************)
(* The application under revisions 1 and 2.                                *)
(***************************************************************************)
\* The checks that 0002 puts on tickets.
RowFits(t) == t.fits /\ t.name \notin ShortNames /\ t.email \notin OddEmails

OldCreate(email, name, fits) ==
  LET t == [email |-> email, name |-> name, fits |-> fits, customer |-> "NULL",
            processing |-> "NULL", outbox |-> "NULL", origin |-> email, outlived |-> 0]
      e == [ticket |-> Len(tickets) + 1, kind |-> "CREATED", label |-> Customer,
            actor |-> "NULL", type |-> "NULL", who |-> CustomerRef[Lower[email]]]
  IN
  /\ rev \in 1..2 /\ (rev = 2 => RowFits(t))
  /\ Len(tickets) < MaxTickets /\ Len(events) < MaxEvents
  /\ tickets' = Append(tickets, t)
  /\ events' = Append(events, e)
  /\ UNCHANGED <<rev, actors, schema, queue, downgrades, undone>>

Processed(i) ==
  \E k \in DOMAIN events : events[k].ticket = i /\ events[k].kind = "AUTO_PROCESSED"

OldEvent(i, kind, label) ==
  LET who == IF label = Customer THEN CustomerRef[Lower[tickets[i].origin]] ELSE label
  IN
  /\ rev \in 1..2 /\ Len(events) < MaxEvents
  /\ kind = "AUTO_PROCESSED" => label = Worker /\ ~ Processed(i)
  /\ events' = Append(events, [ticket |-> i, kind |-> kind, label |-> label,
                               actor |-> "NULL", type |-> "NULL", who |-> who])
  /\ UNCHANGED <<rev, tickets, actors, schema, queue, downgrades, undone>>

-----------------------------------------------------------------------------
(***************************************************************************)
(* The code in src/ under revision 7, one commit an action.                *)
(***************************************************************************)
TypedEvent(i, kind, type, reference) ==
  [ticket |-> i, kind |-> kind, label |-> "NULL", actor |-> reference, type |-> type,
   who |-> reference]

\* Mutant: the address is looked up as it was written.
MutNormalized(email) == email

Normalized(email) == Lower[email]

\* POST /v1/tickets: the customer is found, renamed or made, if his reference fits.
Create(email, name) ==
  LET address == Normalized(email)
      reference == CustomerRef[address]
  IN
  /\ rev = 7 /\ Len(tickets) < MaxTickets /\ Len(events) < MaxEvents
  /\ address \notin LongEmails /\ actors[reference].type \in {"NULL", "CUSTOMER"}
  /\ actors' = [actors EXCEPT ![reference] =
                  [type |-> "CUSTOMER", name |-> name, email |-> address]]
  /\ tickets' = Append(tickets,
       [email |-> "NULL", name |-> "NULL", fits |-> TRUE, customer |-> reference,
        processing |-> "PENDING", outbox |-> "PENDING", origin |-> email, outlived |-> 0])
  /\ events' = Append(events, TypedEvent(Len(tickets) + 1, "CREATED", "CUSTOMER", reference))
  /\ UNCHANGED <<rev, schema, queue, downgrades, undone>>

\* PATCH of the status by whoever the client says: he must be no customer and no worker.
UpdateStatus(i, reference) ==
  /\ rev = 7 /\ Len(events) < MaxEvents
  /\ actors[reference].type \in {"NULL", "AGENT"}
  /\ actors' = [actors EXCEPT ![reference] =
                  [type |-> "AGENT", name |-> reference, email |-> "NULL"]]
  /\ events' = Append(events, TypedEvent(i, "STATUS_CHANGED", "AGENT", reference))
  /\ UNCHANGED <<rev, tickets, schema, queue, downgrades, undone>>

\* The relay publishes before its one commit, which may not come: the row is then
\* published again.  The message stands for every message of the ticket in Redis.
Publish(i) ==
  /\ rev = 7 /\ tickets[i].outbox = "PENDING"
  /\ \E outbox \in {"PENDING", "PUBLISHED"} :
       tickets' = [tickets EXCEPT ![i].outbox = outbox]
  /\ queue' = queue \cup {i}
  /\ UNCHANGED <<rev, events, actors, schema, downgrades, undone>>

\* begin and complete of a ticket that waits.
Completes(i) ==
  /\ tickets[i].processing = "PENDING" /\ Len(events) < MaxEvents
  /\ actors[Worker].type \in {"NULL", "SYSTEM"}
  /\ actors' = [actors EXCEPT ![Worker] =
                  [type |-> "SYSTEM", name |-> Worker, email |-> "NULL"]]
  /\ tickets' = [tickets EXCEPT ![i].processing = "COMPLETED"]
  /\ events' = Append(events, TypedEvent(i, "AUTO_PROCESSED", "SYSTEM", Worker))

FailsFinally(i) ==
  /\ tickets[i].processing = "PENDING"
  /\ tickets' = [tickets EXCEPT ![i].processing = "FAILED"]
  /\ UNCHANGED <<events, actors>>

\* A delivery of the task, which does nothing if the ticket does not wait, or dies.  A
\* duplicate, a redelivery or a retry may be left in Redis.
Process(i) ==
  /\ rev = 7 /\ i \in queue
  /\ queue' \in {queue, queue \ {i}}
  /\ Completes(i) \/ FailsFinally(i) \/ UNCHANGED <<tickets, events, actors>>
  /\ UNCHANGED <<rev, schema, downgrades, undone>>

\* The seed processes a ticket it has just created, whatever the relay does with its row.
SeedProcesses(i) ==
  /\ rev = 7 /\ tickets[i].outbox # "NULL"
  /\ Completes(i)
  /\ UNCHANGED <<rev, schema, queue, downgrades, undone>>

-----------------------------------------------------------------------------
(***************************************************************************)
(* The migrations.                                                         *)
(***************************************************************************)
UpgradeTo(r) == rev = r - 1 /\ rev' = r /\ UNCHANGED <<queue, downgrades, undone>>

DowngradeTo(r) ==
  /\ rev = r + 1 /\ rev' = r
  /\ downgrades < MaxDowngrades /\ downgrades' = downgrades + 1
  /\ UNCHANGED queue

InitialSchema == UpgradeTo(1) /\ UNCHANGED <<tickets, events, actors, schema>>

DropInitialSchema ==
  /\ DowngradeTo(0)
  /\ tickets' = <<>> /\ events' = <<>>
  /\ UNCHANGED <<actors, schema, undone>>

\* 0002: the checks must hold of every row there is.
AddIntegrity ==
  /\ UpgradeTo(2)
  /\ \A i \in DOMAIN tickets : RowFits(tickets[i])
  /\ nonempty' = TRUE /\ shape' = "status"
  /\ UNCHANGED <<tickets, events, actors, frozen>>

\* Its downgrade drops constraints by name, which fails if one is missing.
HasIntegrity == nonempty /\ shape # "none"

DropIntegrity ==
  /\ DowngradeTo(1)
  /\ HasIntegrity
  /\ nonempty' = FALSE /\ shape' = "none"
  /\ UNCHANGED <<tickets, events, actors, frozen, undone>>

\* 0003: one customer for each address in lower case.
AddressOf(t) == Lower[t.email]
CustomersIn == {CustomerRef[AddressOf(tickets[i])] : i \in DOMAIN tickets}
TicketsOf(reference) ==
  {i \in DOMAIN tickets : CustomerRef[AddressOf(tickets[i])] = reference}

\* The least of the names, in whatever order the database has.
NameOf(reference) == CHOOSE n \in Names : \E i \in TicketsOf(reference) : n = tickets[i].name

BackfilledCustomer(reference) ==
  [type |-> "CUSTOMER", name |-> NameOf(reference),
   email |-> CHOOSE e \in Emails : CustomerRef[e] = reference]

\* Every label but "customer" becomes an actor.
LabelsIn == {events[k].label : k \in DOMAIN events}
AgentsIn == LabelsIn \ {Customer, Worker}

Backfilled(reference) ==
  CASE reference \in CustomersIn -> BackfilledCustomer(reference)
    [] reference \in AgentsIn -> [type |-> "AGENT", name |-> reference, email |-> "NULL"]
    [] reference \in LabelsIn \cap {Worker} ->
         [type |-> "SYSTEM", name |-> reference, email |-> "NULL"]
    [] OTHER -> NoActor

\* Mutant: the UPDATE of the events does not join their tickets.
MutCustomerOf(e) == CustomerRef[AddressOf(tickets[1])]

CustomerOf(e) == CustomerRef[AddressOf(tickets[e.ticket])]

TypeByLabel(label) ==
  CASE label = Customer -> "CUSTOMER"
    [] label = Worker -> "SYSTEM"
    [] OTHER -> "AGENT"

ShapeByActor(kind) ==
  CASE kind = "CREATED" -> "CUSTOMER"
    [] kind = "STATUS_CHANGED" -> "AGENT"
    [] OTHER -> "SYSTEM"

NormalizedTicket(t) ==
  [t EXCEPT !.customer = CustomerRef[AddressOf(t)], !.email = "NULL", !.name = "NULL"]

NormalizedEvent(e) ==
  [e EXCEPT !.actor = IF e.label = Customer THEN CustomerOf(e) ELSE e.label,
            !.type = TypeByLabel(e.label), !.label = "NULL"]

\* Constraints are dropped by name, references are unique and have 120 characters, the
\* new check must hold.
CanNormalize ==
  /\ HasIntegrity /\ ~ frozen
  /\ \A i \in DOMAIN tickets : AddressOf(tickets[i]) \notin LongEmails
  /\ CustomersIn \cap AgentsIn = {}
  /\ \A k \in DOMAIN events : TypeByLabel(events[k].label) = ShapeByActor(events[k].kind)

NormalizeIdentities ==
  /\ UpgradeTo(3)
  /\ CanNormalize
  /\ actors' = [r \in Labels |-> Backfilled(r)]
  /\ tickets' = [i \in DOMAIN tickets |-> NormalizedTicket(tickets[i])]
  /\ events' = [k \in DOMAIN events |-> NormalizedEvent(events[k])]
  /\ nonempty' = FALSE /\ shape' = "typed"
  /\ UNCHANGED frozen

DenormalizedTicket(t) ==
  [t EXCEPT !.email = actors[t.customer].email, !.name = actors[t.customer].name,
            !.customer = "NULL"]

DenormalizedEvent(e) ==
  [e EXCEPT !.label = actors[e.actor].name, !.actor = "NULL", !.type = "NULL"]

\* Its downgrade puts the checks of names and addresses back, but not the two of events.
CanDenormalize ==
  /\ shape # "none" /\ ~ frozen
  /\ \A i \in DOMAIN tickets :
       LET customer == actors[tickets[i].customer] IN
       customer.name \notin ShortNames /\ customer.email \notin OddEmails

DenormalizeIdentities ==
  /\ DowngradeTo(2)
  /\ CanDenormalize
  /\ tickets' = [i \in DOMAIN tickets |-> DenormalizedTicket(tickets[i])]
  /\ events' = [k \in DOMAIN events |-> DenormalizedEvent(events[k])]
  /\ actors' = [r \in Labels |-> NoActor]
  /\ shape' = "none" /\ undone' = TRUE
  /\ UNCHANGED <<nonempty, frozen>>

MakeAppendOnly ==
  /\ UpgradeTo(4) /\ ~ frozen
  /\ frozen' = TRUE
  /\ UNCHANGED <<tickets, events, actors, nonempty, shape>>

\* Mutant: the trigger is left in place.
MutDropAppendOnly ==
  /\ DowngradeTo(3) /\ frozen
  /\ UNCHANGED <<tickets, events, actors, schema, undone>>

DropAppendOnly ==
  /\ DowngradeTo(3) /\ frozen
  /\ frozen' = FALSE
  /\ UNCHANGED <<tickets, events, actors, nonempty, shape, undone>>

\* 0005: every ticket there is waits, even one that was processed.
AddProcessing ==
  /\ UpgradeTo(5)
  /\ tickets' = [i \in DOMAIN tickets |-> [tickets[i] EXCEPT !.processing = "PENDING"]]
  /\ UNCHANGED <<events, actors, schema>>

Outlives(i) == IF i \in queue THEN 1 ELSE 0

WithoutProcessing(i) ==
  LET messages == tickets[i].outlived + Outlives(i)
  IN [tickets[i] EXCEPT !.processing = "NULL", !.outlived = messages]

DropProcessing ==
  /\ DowngradeTo(4)
  /\ tickets' = [i \in DOMAIN tickets |-> WithoutProcessing(i)]
  /\ UNCHANGED <<events, actors, schema, undone>>

\* Mutant: the outbox is filled with the tickets that wait.
MutAddOutbox ==
  /\ UpgradeTo(6)
  /\ tickets' = [i \in DOMAIN tickets |-> [tickets[i] EXCEPT !.outbox = "PENDING"]]
  /\ UNCHANGED <<events, actors, schema>>

\* 0006: the outbox is empty at first.
AddOutbox == UpgradeTo(6) /\ UNCHANGED <<tickets, events, actors, schema>>

\* Mutant: the outbox stays.
MutDropOutbox == DowngradeTo(5) /\ UNCHANGED <<tickets, events, actors, schema, undone>>

DropOutbox ==
  /\ DowngradeTo(5)
  /\ tickets' = [i \in DOMAIN tickets |-> [tickets[i] EXCEPT !.outbox = "NULL"]]
  /\ UNCHANGED <<events, actors, schema, undone>>

\* 0007: idempotency keys, of which no row here has one.
AddIdempotency == UpgradeTo(7) /\ UNCHANGED <<tickets, events, actors, schema>>

DropIdempotency == DowngradeTo(6) /\ UNCHANGED <<tickets, events, actors, schema, undone>>

-----------------------------------------------------------------------------
Upgrade ==
  \/ InitialSchema \/ AddIntegrity \/ NormalizeIdentities \/ MakeAppendOnly
  \/ AddProcessing \/ AddOutbox \/ AddIdempotency

Downgrade ==
  \/ DropInitialSchema \/ DropIntegrity \/ DenormalizeIdentities \/ DropAppendOnly
  \/ DropProcessing \/ DropOutbox \/ DropIdempotency

Next ==
  \/ Upgrade \/ Downgrade
  \/ \E email \in Emails, name \in Names :
       \/ \E fits \in BOOLEAN : OldCreate(email, name, fits)
       \/ Create(email, name)
  \/ \E i \in DOMAIN tickets :
       \/ \E label \in ShortLabels, kind \in {"STATUS_CHANGED", "AUTO_PROCESSED"} :
            OldEvent(i, kind, label)
       \/ \E reference \in ShortLabels : UpdateStatus(i, reference)
       \/ Publish(i) \/ Process(i) \/ SeedProcesses(i)

Spec == Init /\ [][Next]_vars

-----------------------------------------------------------------------------
TrueCustomer(t) == CustomerRef[Lower[t.origin]]

(***************************************************************************)
(* Through all migrations and all writers a ticket stays with the customer *)
(* who opened it, and an address has one customer, however it is written.  *)
(***************************************************************************)
IdentityKept ==
  \A i \in DOMAIN tickets :
    LET t == tickets[i] IN
    IF rev <= 2
      THEN Lower[t.email] = Lower[t.origin]
      ELSE /\ t.customer = TrueCustomer(t)
           /\ actors[t.customer].type = "CUSTOMER"
           /\ actors[t.customer].email = Lower[t.origin]

(***************************************************************************)
(* The audit trail goes on naming whoever caused an event: by its typed    *)
(* actor, which the composite foreign key finds, or by its label.  Only    *)
(* the customer of a ticket may be there under a name instead.             *)
(***************************************************************************)
EventsKeepTheirActor ==
  \A k \in DOMAIN events :
    LET e == events[k] IN
    IF rev <= 2
      THEN \/ e.label = e.who
           \/ e.label \in {Customer} \cup Names /\ e.who = TrueCustomer(tickets[e.ticket])
      ELSE /\ e.actor = e.who
           /\ e.type = actors[e.actor].type
           /\ e.type = ShapeByActor(e.kind)
           /\ e.kind = "CREATED" => e.who = TrueCustomer(tickets[e.ticket])

(***************************************************************************)
(* 0005 makes processed tickets wait again.  For a second AUTO_PROCESSED   *)
(* event a message of the ticket must have outlived a downgrade of 0005 in *)
(* Redis, and it takes one such downgrade for each more: the outbox of     *)
(* 0006 starts empty, so that nothing else is published of these tickets.  *)
(***************************************************************************)
ProcessingsOf(i) ==
  {k \in DOMAIN events : events[k].ticket = i /\ events[k].kind = "AUTO_PROCESSED"}

OnlyOldMessagesRepeat ==
  \A i \in DOMAIN tickets : Cardinality(ProcessingsOf(i)) <= 1 + tickets[i].outlived

(***************************************************************************)
(* Where a migration from 0002 on can fail.  0003 goes through exactly if  *)
(* no status was changed under the name of the worker or of a customer and *)
(* no address is too long for a reference, and back exactly if no customer *)
(* has a name or an address that the API takes and 0002 does not.  Once    *)
(* back, neither 0003 nor the downgrade of 0002 goes through: the          *)
(* downgrade of 0003 has not restored the two checks that both drop.       *)
(***************************************************************************)
NameTaken(e) ==
  e.kind = "STATUS_CHANGED"
    /\ e.who \in {Worker} \cup {TrueCustomer(tickets[i]) : i \in DOMAIN tickets}

WhereMigrationsFail ==
  /\ rev = 2 /\ ~ undone =>
       /\ HasIntegrity
       /\ CanNormalize <=> /\ \A k \in DOMAIN events : ~ NameTaken(events[k])
                           /\ \A i \in DOMAIN tickets : tickets[i].origin \notin LongEmails
  /\ rev = 3 =>
       (CanDenormalize <=>
          \A i \in DOMAIN tickets :
            /\ actors[TrueCustomer(tickets[i])].name \notin ShortNames
            /\ tickets[i].origin \notin OddEmails)
  /\ frozen <=> rev >= 4
  /\ undone => rev = 2 /\ ~ CanNormalize /\ ~ HasIntegrity
=============================================================================
