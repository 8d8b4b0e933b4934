-------------------------- MODULE MigrationsProofs --------------------------
(***************************************************************************)
(* Theorems about Migrations, for any addresses, names and agents, and any *)
(* number of tickets, events and downgrades.  All properties come from one *)
(* inductive invariant, MigrationsInv.                                     *)
(***************************************************************************)
EXTENDS Migrations, TLAPS, FiniteSetTheorems

\* Which constraints there are at a revision.  The downgrade of 0003 is a dead end,
\* and no other way leads below it with messages in Redis.
SchemaOK ==
  /\ frozen <=> rev >= 4
  /\ rev = 0 => tickets = <<>> /\ events = <<>>
  /\ rev <= 1 => ~ nonempty /\ shape = "none"
  /\ rev = 2 /\ ~ undone => nonempty /\ shape = "status"
  /\ rev >= 3 => shape = "typed"
  /\ undone => rev = 2 /\ shape = "none"
  /\ rev <= 2 /\ ~ undone => queue = {}

\* What can be read out of an actor when 0003 is downgraded.
ActorsOK ==
  \A r \in Labels :
    /\ actors[r].type = "CUSTOMER" =>
         /\ actors[r].name \in Names /\ actors[r].email \in Emails
         /\ r = CustomerRef[actors[r].email]
    /\ actors[r].type \in {"AGENT", "SYSTEM"} => actors[r].name = r

\* The labels of the old application, which 0003 makes actors of.
LabelsAsWritten ==
  rev <= 2 /\ ~ undone =>
    \A k \in DOMAIN events :
      LET e == events[k] IN
      /\ e.label \in Labels
      /\ e.kind = "CREATED" => e.label = Customer
      /\ e.kind = "AUTO_PROCESSED" => e.label = Worker
      /\ e.who = IF e.label = Customer THEN TrueCustomer(tickets[e.ticket]) ELSE e.label

\* A ticket with a row in the outbox or a message in Redis, so that it may be processed.
Waits(i) ==
  /\ ~ undone /\ tickets[i].processing # "COMPLETED"
  /\ i \in queue \/ tickets[i].outbox # "NULL"

\* Such a ticket was processed no more often than its messages have outlived a downgrade,
\* even if its processing status was lost and set to PENDING again.
WaitingFresh ==
  \A i \in DOMAIN tickets :
    Waits(i) => Cardinality(ProcessingsOf(i)) <= tickets[i].outlived

MigrationsInv ==
  /\ TypeOK
  /\ SchemaOK
  /\ ActorsOK
  /\ LabelsAsWritten
  /\ IdentityKept
  /\ EventsKeepTheirActor
  /\ OnlyOldMessagesRepeat
  /\ WaitingFresh

-----------------------------------------------------------------------------
(***************************************************************************)
(* Sequences and references.                                               *)
(***************************************************************************)
LEMMA AppendFacts ==
  ASSUME NEW S, NEW s \in Seq(S), NEW x \in S
  PROVE  /\ Append(s, x) \in Seq(S)
         /\ Len(s) \in Nat /\ DOMAIN s = 1..Len(s)
         /\ DOMAIN Append(s, x) = DOMAIN s \cup {Len(s) + 1}
         /\ Len(s) + 1 \notin DOMAIN s
         /\ Append(s, x)[Len(s) + 1] = x
         /\ \A i \in DOMAIN s : Append(s, x)[i] = s[i]
OBVIOUS

LEMMA MappedFacts ==
  ASSUME NEW S, NEW T, NEW s \in Seq(S), NEW t, t = [i \in DOMAIN s |-> t[i]],
         \A i \in DOMAIN s : t[i] \in T
  PROVE  t \in Seq(T) /\ DOMAIN t = DOMAIN s
<1>1. Len(s) \in Nat /\ DOMAIN s = 1..Len(s)
  OBVIOUS
<1>2. t \in [1..Len(s) -> T]
  BY <1>1
<1> QED
  BY <1>1, <1>2

LEMMA References ==
  /\ \A e \in Emails :
       /\ Lower[e] \in Emails /\ Lower[Lower[e]] = Lower[e]
       /\ CustomerRef[e] \in Labels
       /\ CustomerRef[e] # Worker /\ CustomerRef[e] # Customer
  /\ \A e, f \in Emails : CustomerRef[e] = CustomerRef[f] => e = f
  /\ Worker \in Labels /\ Customer \in Labels /\ Worker # Customer
  /\ "NULL" \notin Labels /\ "NULL" \notin Names /\ "NULL" \notin Emails
BY MigrationsAssumption DEF Labels, Worker, Customer

LEMMA RowWithProcessing ==
  ASSUME NEW t \in TicketRow, NEW p \in {"NULL", "PENDING", "COMPLETED", "FAILED"}
  PROVE  LET P == [t EXCEPT !.processing = p] IN
         /\ P \in TicketRow
         /\ P.email = t.email /\ P.name = t.name /\ P.customer = t.customer
         /\ P.origin = t.origin /\ P.outbox = t.outbox /\ P.processing = p
         /\ P.outlived = t.outlived
BY DEF TicketRow

LEMMA RowWithOutbox ==
  ASSUME NEW t \in TicketRow, NEW o \in {"NULL", "PENDING", "PUBLISHED"}
  PROVE  LET O == [t EXCEPT !.outbox = o] IN
         /\ O \in TicketRow
         /\ O.email = t.email /\ O.name = t.name /\ O.customer = t.customer
         /\ O.origin = t.origin /\ O.outbox = o /\ O.processing = t.processing
         /\ O.outlived = t.outlived
BY DEF TicketRow

LEMMA RowTypes ==
  ASSUME TypeOK
  PROVE  /\ tickets \in Seq(TicketRow) /\ events \in Seq(EventRow)
         /\ \A i \in DOMAIN tickets : tickets[i] \in TicketRow /\ ColumnsOf(tickets[i])
         /\ \A k \in DOMAIN events : events[k] \in EventRow
                                     /\ events[k].ticket \in DOMAIN tickets
BY DEF TypeOK

LEMMA OtherTypes ==
  ASSUME TypeOK
  PROVE  /\ rev \in 0..7 /\ actors \in [Labels -> ActorRow]
         /\ nonempty \in BOOLEAN /\ frozen \in BOOLEAN /\ undone \in BOOLEAN
         /\ shape \in {"none", "status", "typed"}
         /\ queue \subseteq DOMAIN tickets
         /\ downgrades \in 0..MaxDowngrades
         /\ \A k \in DOMAIN events :
              /\ events[k].label # "NULL" <=> rev <= 2
              /\ events[k].actor # "NULL" <=> rev >= 3
              /\ events[k].type # "NULL" <=> rev >= 3
BY DEF TypeOK

LEMMA RowWithoutProcessing ==
  ASSUME NEW i \in DOMAIN tickets, tickets[i] \in TicketRow
  PROVE  LET t == tickets[i]
             D == WithoutProcessing(i) IN
         /\ D \in TicketRow
         /\ D.email = t.email /\ D.name = t.name /\ D.customer = t.customer
         /\ D.origin = t.origin /\ D.outbox = t.outbox /\ D.processing = "NULL"
         /\ D.outlived = t.outlived + Outlives(i)
<1> DEFINE t == tickets[i]
           messages == t.outlived + Outlives(i)
<1>1. messages \in Nat
  BY DEF Outlives, TicketRow
<1>2. WithoutProcessing(i) = [t EXCEPT !.processing = "NULL", !.outlived = messages]
  BY DEF WithoutProcessing
<1> HIDE DEF messages, t
<1>3. t \in TicketRow
  BY DEF t
<1> DEFINE D == [t EXCEPT !.processing = "NULL", !.outlived = messages]
<1>4. /\ D \in TicketRow
      /\ D.email = t.email /\ D.name = t.name /\ D.customer = t.customer
      /\ D.origin = t.origin /\ D.outbox = t.outbox /\ D.processing = "NULL"
      /\ D.outlived = messages
  BY <1>1, <1>3 DEF TicketRow
<1> HIDE DEF D
<1>5. WithoutProcessing(i) = D
  BY <1>2 DEF D
<1> QED
  BY <1>4, <1>5 DEF t, messages

-----------------------------------------------------------------------------
(***************************************************************************)
(* How often a ticket was processed.                                       *)
(***************************************************************************)
LEMMA ProcessingsCounted ==
  ASSUME TypeOK, NEW i
  PROVE  IsFiniteSet(ProcessingsOf(i)) /\ Cardinality(ProcessingsOf(i)) \in Nat
<1>1. DOMAIN events = 1..Len(events) /\ Len(events) \in Nat
  BY RowTypes
<1>2. IsFiniteSet(DOMAIN events)
  BY <1>1, FS_Interval
<1>3. ProcessingsOf(i) \subseteq DOMAIN events
  BY DEF ProcessingsOf
<1>4. IsFiniteSet(ProcessingsOf(i))
  BY <1>2, <1>3, FS_Subset
<1> QED
  BY <1>4, FS_CardinalityType

LEMMA SameProcessings ==
  ASSUME DOMAIN events' = DOMAIN events,
         \A k \in DOMAIN events :
           events'[k].ticket = events[k].ticket /\ events'[k].kind = events[k].kind,
         NEW i
  PROVE  ProcessingsOf(i)' = ProcessingsOf(i)
BY DEF ProcessingsOf

LEMMA OneEventMore ==
  ASSUME TypeOK, NEW m, m \notin DOMAIN events, DOMAIN events' = DOMAIN events \cup {m},
         \A k \in DOMAIN events : events'[k] = events[k],
         NEW i
  PROVE  /\ events'[m].ticket # i \/ events'[m].kind # "AUTO_PROCESSED" =>
              ProcessingsOf(i)' = ProcessingsOf(i)
         /\ events'[m].ticket = i /\ events'[m].kind = "AUTO_PROCESSED" =>
              Cardinality(ProcessingsOf(i)') = Cardinality(ProcessingsOf(i)) + 1
<1>1. CASE events'[m].ticket # i \/ events'[m].kind # "AUTO_PROCESSED"
  BY <1>1 DEF ProcessingsOf
<1>2. CASE events'[m].ticket = i /\ events'[m].kind = "AUTO_PROCESSED"
  <2>1. ProcessingsOf(i)' = ProcessingsOf(i) \cup {m} /\ m \notin ProcessingsOf(i)
    BY <1>2 DEF ProcessingsOf
  <2> QED
    BY <1>2, <2>1, ProcessingsCounted, FS_AddElement
<1> QED
  BY <1>1, <1>2

\* A step that adds no AUTO_PROCESSED event, and makes a ticket wait only if its messages
\* have just outlived a downgrade.
LEMMA NoneProcessed ==
  ASSUME MigrationsInv, tickets' \in Seq(TicketRow), DOMAIN tickets' = DOMAIN tickets,
         \A i \in DOMAIN tickets : ProcessingsOf(i)' = ProcessingsOf(i),
         \A i \in DOMAIN tickets :
           \/ /\ tickets'[i].outlived = tickets[i].outlived
              /\ Waits(i)' => Waits(i)
           \/ tickets'[i].outlived = tickets[i].outlived + 1
  PROVE  OnlyOldMessagesRepeat' /\ WaitingFresh'
<1> SUFFICES ASSUME NEW i \in DOMAIN tickets
             PROVE  /\ Cardinality(ProcessingsOf(i)') <= 1 + tickets'[i].outlived
                    /\ Waits(i)' => Cardinality(ProcessingsOf(i)') <= tickets'[i].outlived
  BY DEF OnlyOldMessagesRepeat, WaitingFresh
<1>1. /\ Cardinality(ProcessingsOf(i)) <= 1 + tickets[i].outlived
      /\ Waits(i) => Cardinality(ProcessingsOf(i)) <= tickets[i].outlived
  BY DEF MigrationsInv, OnlyOldMessagesRepeat, WaitingFresh
<1>2. Cardinality(ProcessingsOf(i)) \in Nat /\ tickets[i].outlived \in Nat
  BY ProcessingsCounted, RowTypes DEF MigrationsInv, TicketRow
<1> QED
  BY <1>1, <1>2

\* A ticket is created with its event.
LEMMA NewOneCounted ==
  ASSUME MigrationsInv, UNCHANGED <<queue, undone>>,
         NEW n, n \notin DOMAIN tickets, DOMAIN tickets' = DOMAIN tickets \cup {n},
         \A i \in DOMAIN tickets : tickets'[i] = tickets[i], tickets'[n].outlived = 0,
         NEW m, m \notin DOMAIN events, DOMAIN events' = DOMAIN events \cup {m},
         \A k \in DOMAIN events : events'[k] = events[k], events'[m].kind = "CREATED"
  PROVE  OnlyOldMessagesRepeat' /\ WaitingFresh'
<1>1. TypeOK /\ \A k \in DOMAIN events : events[k].ticket \in DOMAIN tickets
  BY RowTypes DEF MigrationsInv
<1>2. \A i : ProcessingsOf(i)' = ProcessingsOf(i)
  BY <1>1, OneEventMore
<1>3. Cardinality(ProcessingsOf(n)) = 0
  <2>1. ProcessingsOf(n) = {}
    BY <1>1 DEF ProcessingsOf
  <2> QED
    BY <2>1, FS_EmptySet
<1>4. \A i \in DOMAIN tickets : Waits(i)' => Waits(i)
  BY DEF Waits
<1>5. \A i \in DOMAIN tickets :
        /\ Cardinality(ProcessingsOf(i)') <= 1 + tickets'[i].outlived
        /\ Waits(i)' => Cardinality(ProcessingsOf(i)') <= tickets'[i].outlived
  BY <1>2, <1>4 DEF MigrationsInv, OnlyOldMessagesRepeat, WaitingFresh
<1>6. /\ Cardinality(ProcessingsOf(n)') <= 1 + tickets'[n].outlived
      /\ Cardinality(ProcessingsOf(n)') <= tickets'[n].outlived
  BY <1>2, <1>3
<1> QED
  BY <1>5, <1>6 DEF OnlyOldMessagesRepeat, WaitingFresh

-----------------------------------------------------------------------------
(***************************************************************************)
(* The application under revisions 1 and 2.                                *)
(***************************************************************************)
LEMMA OldCreateStep ==
  ASSUME MigrationsInv, NEW email \in Emails, NEW name \in Names, NEW fits \in BOOLEAN,
         OldCreate(email, name, fits)
  PROVE  MigrationsInv'
<1> DEFINE t == [email |-> email, name |-> name, fits |-> fits, customer |-> "NULL",
                 processing |-> "NULL", outbox |-> "NULL", origin |-> email, outlived |-> 0]
           n == Len(tickets) + 1
           e == [ticket |-> n, kind |-> "CREATED", label |-> Customer,
                 actor |-> "NULL", type |-> "NULL", who |-> CustomerRef[Lower[email]]]
           m == Len(events) + 1
<1>1. /\ rev \in 1..2 /\ tickets' = Append(tickets, t) /\ events' = Append(events, e)
      /\ UNCHANGED <<rev, actors, schema, queue, downgrades, undone>>
  BY DEF OldCreate
<1>2. TypeOK /\ tickets \in Seq(TicketRow) /\ events \in Seq(EventRow)
  BY RowTypes DEF MigrationsInv
<1>3. t \in TicketRow
  BY References DEF TicketRow
<1>4. n \in Nat
  BY <1>2
<1>5. e \in EventRow
  BY <1>4, References DEF EventRow
<1> HIDE DEF t, e
<1>6. /\ tickets' \in Seq(TicketRow)
      /\ DOMAIN tickets' = DOMAIN tickets \cup {n} /\ n \notin DOMAIN tickets
      /\ tickets'[n] = t /\ \A i \in DOMAIN tickets : tickets'[i] = tickets[i]
  BY <1>1, <1>2, <1>3, AppendFacts
<1>7. /\ events' \in Seq(EventRow)
      /\ DOMAIN events' = DOMAIN events \cup {m} /\ m \notin DOMAIN events
      /\ events'[m] = e /\ \A k \in DOMAIN events : events'[k] = events[k]
  BY <1>1, <1>2, <1>5, AppendFacts
<1>8. /\ t.email = email /\ t.name = name /\ t.customer = "NULL" /\ t.processing = "NULL"
      /\ t.outbox = "NULL" /\ t.origin = email /\ t.outlived = 0
      /\ e.ticket = n /\ e.kind = "CREATED" /\ e.label = Customer /\ e.actor = "NULL"
      /\ e.type = "NULL" /\ e.who = CustomerRef[Lower[email]]
  BY DEF t, e
<1> HIDE DEF n, m
<1>9. TypeOK'
  BY <1>1, <1>2, <1>6, <1>7, <1>8, References DEF TypeOK, ColumnsOf, schema
<1>10. SchemaOK' /\ ActorsOK'
  BY <1>1 DEF MigrationsInv, SchemaOK, ActorsOK, schema
<1>16. \A k \in DOMAIN events : tickets'[events'[k].ticket] = tickets[events[k].ticket]
  BY <1>2, <1>6, <1>7, RowTypes
<1>17. TrueCustomer(tickets'[n]) = CustomerRef[Lower[email]]
  BY <1>6, <1>8 DEF TrueCustomer
<1>11. LabelsAsWritten'
  <2> SUFFICES ASSUME rev <= 2, ~ undone, NEW k \in DOMAIN events'
               PROVE  /\ events'[k].label \in Labels
                      /\ events'[k].kind = "CREATED" => events'[k].label = Customer
                      /\ events'[k].kind = "AUTO_PROCESSED" => events'[k].label = Worker
                      /\ events'[k].who = IF events'[k].label = Customer
                                            THEN TrueCustomer(tickets'[events'[k].ticket])
                                            ELSE events'[k].label
    BY <1>1 DEF LabelsAsWritten, TrueCustomer
  <2>1. CASE k = m
    BY <2>1, <1>7, <1>8, <1>17, References
  <2>2. CASE k \in DOMAIN events
    BY <2>2, <1>7, <1>16 DEF MigrationsInv, LabelsAsWritten
  <2> QED
    BY <2>1, <2>2, <1>7
<1>12. IdentityKept'
  BY <1>1, <1>6, <1>8 DEF MigrationsInv, IdentityKept, TrueCustomer
<1>13. EventsKeepTheirActor'
  <2>1. \A k \in DOMAIN events' :
          \/ events'[k].label = events'[k].who
          \/ /\ events'[k].label \in {Customer} \cup Names
             /\ events'[k].who = TrueCustomer(tickets'[events'[k].ticket])
    <3>1. \A k \in DOMAIN events :
            \/ events[k].label = events[k].who
            \/ /\ events[k].label \in {Customer} \cup Names
               /\ events[k].who = TrueCustomer(tickets[events[k].ticket])
      BY <1>1 DEF MigrationsInv, EventsKeepTheirActor
    <3>2. events'[m].who = TrueCustomer(tickets'[events'[m].ticket])
      BY <1>7, <1>8, <1>17
    <3> QED
      BY <3>1, <3>2, <1>7, <1>8, <1>16
  <2>2. rev' \in 1..2
    BY <1>1
  <2> QED
    BY <2>1, <2>2 DEF EventsKeepTheirActor, TrueCustomer
<1>14. OnlyOldMessagesRepeat' /\ WaitingFresh'
  BY <1>1, <1>6, <1>7, <1>8, NewOneCounted
<1> QED
  BY <1>9, <1>10, <1>11, <1>12, <1>13, <1>14 DEF MigrationsInv

LEMMA OldEventStep ==
  ASSUME MigrationsInv, NEW i \in DOMAIN tickets, NEW label \in Labels,
         NEW kind \in {"STATUS_CHANGED", "AUTO_PROCESSED"}, OldEvent(i, kind, label)
  PROVE  MigrationsInv'
<1> DEFINE who == IF label = Customer THEN CustomerRef[Lower[tickets[i].origin]] ELSE label
           e == [ticket |-> i, kind |-> kind, label |-> label,
                 actor |-> "NULL", type |-> "NULL", who |-> who]
           m == Len(events) + 1
<1>1. /\ rev \in 1..2 /\ events' = Append(events, e)
      /\ kind = "AUTO_PROCESSED" => label = Worker /\ ~ Processed(i)
      /\ UNCHANGED <<rev, tickets, actors, schema, queue, downgrades, undone>>
  BY DEF OldEvent
<1>2. TypeOK /\ tickets \in Seq(TicketRow) /\ events \in Seq(EventRow)
      /\ i \in Nat /\ tickets[i].origin \in Emails
  BY RowTypes DEF MigrationsInv, TicketRow
<1>3. who \in Labels
  BY <1>2, References
<1>4. e \in EventRow
  BY <1>2, <1>3 DEF EventRow
<1> HIDE DEF e
<1>5. /\ events' \in Seq(EventRow)
      /\ DOMAIN events' = DOMAIN events \cup {m} /\ m \notin DOMAIN events
      /\ events'[m] = e /\ \A k \in DOMAIN events : events'[k] = events[k]
  BY <1>1, <1>2, <1>4, AppendFacts
<1>6. /\ e.ticket = i /\ e.kind = kind /\ e.label = label /\ e.actor = "NULL"
      /\ e.type = "NULL" /\ e.who = who
  BY DEF e
<1>7. label = Customer => who = TrueCustomer(tickets[i])
  BY DEF TrueCustomer
<1>8. label # Customer => who = label
  OBVIOUS
<1> HIDE DEF who, m
<1>9. TypeOK'
  BY <1>1, <1>2, <1>5, <1>6, References DEF TypeOK, ColumnsOf, schema
<1>10. SchemaOK' /\ ActorsOK' /\ IdentityKept'
  BY <1>1 DEF MigrationsInv, SchemaOK, ActorsOK, IdentityKept, schema
<1>11. LabelsAsWritten'
  BY <1>1, <1>5, <1>6, <1>7, <1>8 DEF MigrationsInv, LabelsAsWritten
<1>12. EventsKeepTheirActor'
  BY <1>1, <1>5, <1>6, <1>7, <1>8 DEF MigrationsInv, EventsKeepTheirActor
<1>13. \A j \in DOMAIN tickets : ~ Waits(j)'
  <2>1. undone \/ queue = {}
    BY <1>1 DEF MigrationsInv, SchemaOK
  <2>2. \A j \in DOMAIN tickets : tickets[j].outbox = "NULL"
    BY <1>1, <1>2, RowTypes DEF ColumnsOf
  <2> QED
    BY <1>1, <2>1, <2>2 DEF Waits
<1>14. \A j \in DOMAIN tickets : Cardinality(ProcessingsOf(j)') <= 1 + tickets[j].outlived
  <2> SUFFICES ASSUME NEW j \in DOMAIN tickets
               PROVE  Cardinality(ProcessingsOf(j)') <= 1 + tickets[j].outlived
    OBVIOUS
  <2>1. CASE j # i \/ kind # "AUTO_PROCESSED"
    <3>1. ProcessingsOf(j)' = ProcessingsOf(j)
      BY <1>2, <1>5, <1>6, <2>1, OneEventMore
    <3> QED
      BY <3>1 DEF MigrationsInv, OnlyOldMessagesRepeat
  <2>2. CASE j = i /\ kind = "AUTO_PROCESSED"
    <3>1. ProcessingsOf(i) = {}
      BY <1>1, <2>2 DEF ProcessingsOf, Processed
    <3>2. Cardinality(ProcessingsOf(i)) = 0
      BY <3>1, FS_EmptySet
    <3>3. Cardinality(ProcessingsOf(i)') = 1
      BY <1>2, <1>5, <1>6, <2>2, <3>2, OneEventMore
    <3>4. tickets[i].outlived \in Nat
      BY <1>2, RowTypes DEF TicketRow
    <3> QED
      BY <2>2, <3>3, <3>4
  <2> QED
    BY <2>1, <2>2
<1>15. OnlyOldMessagesRepeat' /\ WaitingFresh'
  BY <1>1, <1>13, <1>14 DEF OnlyOldMessagesRepeat, WaitingFresh
<1> QED
  BY <1>9, <1>10, <1>11, <1>12, <1>15 DEF MigrationsInv

-----------------------------------------------------------------------------
(***************************************************************************)
(* The code under revision 7.                                              *)
(***************************************************************************)
\* From revision 3 on, an event has the type of its actor, so that an actor who keeps
\* his type keeps his events.
LEMMA TypedTrail ==
  ASSUME MigrationsInv, rev >= 3
  PROVE  /\ ~ undone
         /\ \A i \in DOMAIN tickets :
              /\ tickets[i].customer = TrueCustomer(tickets[i])
              /\ tickets[i].customer \in Labels
              /\ actors[tickets[i].customer].type = "CUSTOMER"
              /\ actors[tickets[i].customer].email = Lower[tickets[i].origin]
         /\ \A k \in DOMAIN events :
              /\ events[k].actor = events[k].who /\ events[k].actor \in Labels
              /\ events[k].type = actors[events[k].actor].type
              /\ events[k].type = ShapeByActor(events[k].kind)
              /\ events[k].kind = "CREATED" =>
                   events[k].who = TrueCustomer(tickets[events[k].ticket])
<1>1. rev \in 0..7 /\ ~ (rev <= 2)
  BY DEF MigrationsInv, TypeOK
<1>2. ~ undone
  BY <1>1 DEF MigrationsInv, SchemaOK
<1>3. \A i \in DOMAIN tickets :
        /\ tickets[i].customer = TrueCustomer(tickets[i])
        /\ actors[tickets[i].customer].type = "CUSTOMER"
        /\ actors[tickets[i].customer].email = Lower[tickets[i].origin]
  BY <1>1 DEF MigrationsInv, IdentityKept
<1>4. \A k \in DOMAIN events :
        /\ events[k].actor = events[k].who
        /\ events[k].type = actors[events[k].actor].type
        /\ events[k].type = ShapeByActor(events[k].kind)
        /\ events[k].kind = "CREATED" =>
             events[k].who = TrueCustomer(tickets[events[k].ticket])
  BY <1>1 DEF MigrationsInv, EventsKeepTheirActor
<1>5. \A i \in DOMAIN tickets : tickets[i].origin \in Emails
  BY RowTypes DEF MigrationsInv, TicketRow
<1>6. \A k \in DOMAIN events : events[k].who \in Labels
  BY RowTypes DEF MigrationsInv, EventRow
<1> QED
  BY <1>2, <1>3, <1>4, <1>5, <1>6, References DEF TrueCustomer

\* The same facts, after a step, are the two properties.
LEMMA TypedTrailAfter ==
  ASSUME rev' \in 3..7,
         \A i \in DOMAIN tickets' :
           /\ tickets'[i].customer = TrueCustomer(tickets'[i])
           /\ actors'[tickets'[i].customer].type = "CUSTOMER"
           /\ actors'[tickets'[i].customer].email = Lower[tickets'[i].origin],
         \A k \in DOMAIN events' :
           /\ events'[k].actor = events'[k].who
           /\ events'[k].type = actors'[events'[k].actor].type
           /\ events'[k].type = ShapeByActor(events'[k].kind)
           /\ events'[k].kind = "CREATED" =>
                events'[k].who = TrueCustomer(tickets'[events'[k].ticket])
  PROVE  IdentityKept' /\ EventsKeepTheirActor' /\ LabelsAsWritten'
<1>1. ~ (rev' <= 2)
  OBVIOUS
<1> QED
  BY <1>1 DEF IdentityKept, EventsKeepTheirActor, LabelsAsWritten, TrueCustomer, ShapeByActor

LEMMA CreateStep ==
  ASSUME MigrationsInv, NEW email \in Emails, NEW name \in Names, Create(email, name)
  PROVE  MigrationsInv'
<1> DEFINE address == Lower[email]
           reference == CustomerRef[address]
           n == Len(tickets) + 1
           t == [email |-> "NULL", name |-> "NULL", fits |-> TRUE, customer |-> reference,
                 processing |-> "PENDING", outbox |-> "PENDING", origin |-> email, outlived |-> 0]
           e == [ticket |-> n, kind |-> "CREATED", label |-> "NULL", actor |-> reference,
                 type |-> "CUSTOMER", who |-> reference]
           row == [type |-> "CUSTOMER", name |-> name, email |-> address]
           m == Len(events) + 1
<1>1. /\ rev = 7 /\ actors[reference].type \in {"NULL", "CUSTOMER"}
      /\ actors' = [actors EXCEPT ![reference] = row]
      /\ tickets' = Append(tickets, t) /\ events' = Append(events, e)
      /\ UNCHANGED <<rev, schema, queue, downgrades, undone>>
  BY DEF Create, Normalized, TypedEvent
<1>2. /\ TypeOK /\ tickets \in Seq(TicketRow) /\ events \in Seq(EventRow)
      /\ actors \in [Labels -> ActorRow]
  BY RowTypes DEF MigrationsInv, TypeOK
<1>3. /\ address \in Emails /\ reference \in Labels
      /\ \A f \in Emails : CustomerRef[f] = reference => f = address
  BY References
<1>4. t \in TicketRow /\ row \in ActorRow
  BY <1>3 DEF TicketRow, ActorRow, ActorTypes
<1>5. n \in Nat
  BY <1>2
<1>6. e \in EventRow
  BY <1>3, <1>5 DEF EventRow, ActorTypes
<1> HIDE DEF t, e, row
<1>7. /\ tickets' \in Seq(TicketRow)
      /\ DOMAIN tickets' = DOMAIN tickets \cup {n} /\ n \notin DOMAIN tickets
      /\ tickets'[n] = t /\ \A i \in DOMAIN tickets : tickets'[i] = tickets[i]
  BY <1>1, <1>2, <1>4, AppendFacts
<1>8. /\ events' \in Seq(EventRow)
      /\ DOMAIN events' = DOMAIN events \cup {m} /\ m \notin DOMAIN events
      /\ events'[m] = e /\ \A k \in DOMAIN events : events'[k] = events[k]
  BY <1>1, <1>2, <1>6, AppendFacts
<1>9. /\ t.email = "NULL" /\ t.name = "NULL" /\ t.customer = reference
      /\ t.processing = "PENDING" /\ t.outbox = "PENDING" /\ t.origin = email
      /\ t.outlived = 0
      /\ e.ticket = n /\ e.kind = "CREATED" /\ e.label = "NULL" /\ e.actor = reference
      /\ e.type = "CUSTOMER" /\ e.who = reference
      /\ row.type = "CUSTOMER" /\ row.name = name /\ row.email = address
  BY DEF t, e, row
<1>10. /\ actors' \in [Labels -> ActorRow] /\ actors'[reference] = row
       /\ \A r \in Labels : r # reference => actors'[r] = actors[r]
  BY <1>1, <1>2, <1>3, <1>4
<1>11. TrueCustomer(t) = reference
  BY <1>9 DEF TrueCustomer
<1>12. Lower[t.origin] = address
  BY <1>9
<1> HIDE DEF n, m, reference, address
<1>13. TypeOK'
  <2>1. \A i \in DOMAIN tickets' :
          /\ tickets'[i].email # "NULL" <=> rev' \in 1..2
          /\ tickets'[i].name # "NULL" <=> rev' \in 1..2
          /\ tickets'[i].customer # "NULL" <=> rev' >= 3
          /\ tickets'[i].processing # "NULL" <=> rev' >= 5
          /\ tickets'[i].outbox # "NULL" => rev' >= 6
    BY <1>3, <1>1, <1>2, <1>7, <1>9, References DEF TypeOK, ColumnsOf
  <2>2. \A k \in DOMAIN events' :
          /\ events'[k].ticket \in DOMAIN tickets'
          /\ events'[k].label # "NULL" <=> rev' <= 2
          /\ events'[k].actor # "NULL" <=> rev' >= 3
          /\ events'[k].type # "NULL" <=> rev' >= 3
    BY <1>1, <1>2, <1>3, <1>7, <1>8, <1>9, References DEF TypeOK
  <2>3. queue' \subseteq DOMAIN tickets'
    BY <1>1, <1>2, <1>7 DEF TypeOK
  <2> QED
    BY <1>1, <1>2, <1>7, <1>8, <1>10, <2>1, <2>2, <2>3 DEF TypeOK, ColumnsOf, schema
<1>14. SchemaOK' /\ ActorsOK'
  <2>1. SchemaOK'
    BY <1>1 DEF MigrationsInv, SchemaOK, schema
  <2>2. reference = CustomerRef[address]
    BY DEF reference, address
  <2> QED
    BY <2>1, <2>2, <1>3, <1>9, <1>10 DEF MigrationsInv, ActorsOK
<1>15. rev' \in 3..7 /\ rev >= 3
  BY <1>1
<1>16. \A i \in DOMAIN tickets' :
         /\ tickets'[i].customer = TrueCustomer(tickets'[i])
         /\ actors'[tickets'[i].customer].type = "CUSTOMER"
         /\ actors'[tickets'[i].customer].email = Lower[tickets'[i].origin]
  <2> SUFFICES ASSUME NEW i \in DOMAIN tickets'
               PROVE  /\ tickets'[i].customer = TrueCustomer(tickets'[i])
                      /\ actors'[tickets'[i].customer].type = "CUSTOMER"
                      /\ actors'[tickets'[i].customer].email = Lower[tickets'[i].origin]
    OBVIOUS
  <2>1. CASE i = n
    BY <2>1, <1>7, <1>9, <1>10, <1>11, <1>12
  <2>2. CASE i \in DOMAIN tickets /\ tickets[i].customer = reference
    <3>1. tickets[i].origin \in Emails /\ TrueCustomer(tickets[i]) = reference
      BY <2>2, <1>2, <1>15, RowTypes, TypedTrail DEF TicketRow
    <3>2. Lower[tickets[i].origin] = address
      BY <3>1, <1>3, References DEF TrueCustomer
    <3> QED
      BY <2>2, <3>1, <3>2, <1>7, <1>9, <1>10
  <2>3. CASE i \in DOMAIN tickets /\ tickets[i].customer # reference
    BY <2>3, <1>7, <1>10, <1>15, TypedTrail
  <2> QED
    BY <2>1, <2>2, <2>3, <1>7
<1>17. \A k \in DOMAIN events' :
         /\ events'[k].actor = events'[k].who
         /\ events'[k].type = actors'[events'[k].actor].type
         /\ events'[k].type = ShapeByActor(events'[k].kind)
         /\ events'[k].kind = "CREATED" =>
              events'[k].who = TrueCustomer(tickets'[events'[k].ticket])
  <2>1. ShapeByActor("CREATED") = "CUSTOMER"
    BY DEF ShapeByActor
  <2>2. \A kind \in {"CREATED", "STATUS_CHANGED", "AUTO_PROCESSED"} :
          ShapeByActor(kind) # "NULL"
    BY DEF ShapeByActor
  <2>3. \A k \in DOMAIN events :
          /\ events[k].kind \in {"CREATED", "STATUS_CHANGED", "AUTO_PROCESSED"}
          /\ events[k].ticket \in DOMAIN tickets
    BY <1>2, RowTypes DEF EventRow
  <2> SUFFICES ASSUME NEW k \in DOMAIN events'
               PROVE  /\ events'[k].actor = events'[k].who
                      /\ events'[k].type = actors'[events'[k].actor].type
                      /\ events'[k].type = ShapeByActor(events'[k].kind)
                      /\ events'[k].kind = "CREATED" =>
                           events'[k].who = TrueCustomer(tickets'[events'[k].ticket])
    OBVIOUS
  <2>4. CASE k = m
    BY <2>1, <2>4, <1>7, <1>8, <1>9, <1>10, <1>11
  <2>5. CASE k \in DOMAIN events
    <3>1. events[k].actor = reference => events[k].type = "CUSTOMER"
      BY <2>2, <2>3, <2>5, <1>1, <1>15, TypedTrail
    <3> QED
      BY <3>1, <2>3, <2>5, <1>7, <1>8, <1>9, <1>10, <1>15, TypedTrail
  <2> QED
    BY <2>4, <2>5, <1>8
<1>18. OnlyOldMessagesRepeat' /\ WaitingFresh'
  BY <1>1, <1>7, <1>8, <1>9, NewOneCounted
<1> QED
  BY <1>13, <1>14, <1>15, <1>16, <1>17, <1>18, TypedTrailAfter DEF MigrationsInv

\* An event of an actor who had no type or this one, and has it now, as at a change of
\* status and at the end of the task.
LEMMA TypedEventStep ==
  ASSUME MigrationsInv, rev >= 5,
         NEW i \in DOMAIN tickets, NEW reference \in Labels, NEW type \in {"AGENT", "SYSTEM"},
         NEW kind \in {"STATUS_CHANGED", "AUTO_PROCESSED"}, type = ShapeByActor(kind),
         actors[reference].type \in {"NULL", type},
         actors' = [actors EXCEPT ![reference] =
                      [type |-> type, name |-> reference, email |-> "NULL"]],
         events' = Append(events, TypedEvent(i, kind, type, reference)),
         rev' = rev,
         tickets' \in Seq(TicketRow), DOMAIN tickets' = DOMAIN tickets,
         \A j \in DOMAIN tickets :
           /\ tickets'[j].customer = tickets[j].customer
           /\ tickets'[j].origin = tickets[j].origin
  PROVE  /\ ActorsOK' /\ LabelsAsWritten' /\ IdentityKept' /\ EventsKeepTheirActor'
         /\ actors' \in [Labels -> ActorRow]
         /\ events' \in Seq(EventRow)
         /\ DOMAIN events' = DOMAIN events \cup {Len(events) + 1}
         /\ Len(events) + 1 \notin DOMAIN events
         /\ \A k \in DOMAIN events : events'[k] = events[k]
         /\ events'[Len(events) + 1].ticket = i
         /\ events'[Len(events) + 1].kind = kind
         /\ events'[Len(events) + 1].label = "NULL"
         /\ events'[Len(events) + 1].actor \in Labels
         /\ events'[Len(events) + 1].type \in {"AGENT", "SYSTEM"}
<1> DEFINE e == TypedEvent(i, kind, type, reference)
           row == [type |-> type, name |-> reference, email |-> "NULL"]
           m == Len(events) + 1
<1>1. /\ TypeOK /\ tickets \in Seq(TicketRow) /\ events \in Seq(EventRow)
      /\ actors \in [Labels -> ActorRow] /\ i \in Nat
  BY RowTypes DEF MigrationsInv, TypeOK
<1>2. row \in ActorRow
  BY DEF ActorRow, ActorTypes
<1>3. e \in EventRow
  BY <1>1 DEF EventRow, ActorTypes, TypedEvent
<1>4. /\ e.ticket = i /\ e.kind = kind /\ e.label = "NULL" /\ e.actor = reference
      /\ e.type = type /\ e.who = reference
      /\ row.type = type /\ row.name = reference /\ row.email = "NULL"
  BY DEF TypedEvent
<1> HIDE DEF e, row
<1>5. /\ events' \in Seq(EventRow)
      /\ DOMAIN events' = DOMAIN events \cup {m} /\ m \notin DOMAIN events
      /\ events'[m] = e /\ \A k \in DOMAIN events : events'[k] = events[k]
  BY <1>1, <1>3, AppendFacts DEF e
<1>6. /\ actors' \in [Labels -> ActorRow] /\ actors'[reference] = row
      /\ \A r \in Labels : r # reference => actors'[r] = actors[r]
  BY <1>1, <1>2 DEF row
<1> HIDE DEF m
<1>7. ActorsOK'
  BY <1>4, <1>6 DEF MigrationsInv, ActorsOK
<1>8. rev' \in 3..7 /\ rev >= 3
  BY <1>1 DEF TypeOK
<1>9. \A j \in DOMAIN tickets' :
        /\ tickets'[j].customer = TrueCustomer(tickets'[j])
        /\ actors'[tickets'[j].customer].type = "CUSTOMER"
        /\ actors'[tickets'[j].customer].email = Lower[tickets'[j].origin]
  <2> SUFFICES ASSUME NEW j \in DOMAIN tickets
               PROVE  /\ tickets'[j].customer = TrueCustomer(tickets'[j])
                      /\ actors'[tickets'[j].customer].type = "CUSTOMER"
                      /\ actors'[tickets'[j].customer].email = Lower[tickets'[j].origin]
    OBVIOUS
  <2>1. TrueCustomer(tickets'[j]) = TrueCustomer(tickets[j])
    BY DEF TrueCustomer
  <2>2. tickets[j].customer # reference
    BY <1>8, TypedTrail
  <2> QED
    BY <2>1, <2>2, <1>6, <1>8, TypedTrail
<1>10. \A k \in DOMAIN events' :
         /\ events'[k].actor = events'[k].who
         /\ events'[k].type = actors'[events'[k].actor].type
         /\ events'[k].type = ShapeByActor(events'[k].kind)
         /\ events'[k].kind = "CREATED" =>
              events'[k].who = TrueCustomer(tickets'[events'[k].ticket])
  <2> SUFFICES ASSUME NEW k \in DOMAIN events'
               PROVE  /\ events'[k].actor = events'[k].who
                      /\ events'[k].type = actors'[events'[k].actor].type
                      /\ events'[k].type = ShapeByActor(events'[k].kind)
                      /\ events'[k].kind = "CREATED" =>
                           events'[k].who = TrueCustomer(tickets'[events'[k].ticket])
    OBVIOUS
  <2>1. CASE k = m
    BY <2>1, <1>4, <1>5, <1>6
  <2>2. CASE k \in DOMAIN events
    <3>1. /\ events[k].kind \in {"CREATED", "STATUS_CHANGED", "AUTO_PROCESSED"}
          /\ events[k].ticket \in DOMAIN tickets
      BY <2>2, <1>1, RowTypes DEF EventRow
    <3>2. ShapeByActor(events[k].kind) # "NULL"
      BY <3>1 DEF ShapeByActor
    <3>3. events[k].actor = reference => events[k].type = type
      BY <3>2, <2>2, <1>8, TypedTrail
    <3>4. TrueCustomer(tickets'[events[k].ticket]) = TrueCustomer(tickets[events[k].ticket])
      BY <3>1 DEF TrueCustomer
    <3> QED
      BY <3>3, <3>4, <2>2, <1>4, <1>5, <1>6, <1>8, TypedTrail
  <2> QED
    BY <2>1, <2>2, <1>5
<1> QED
  BY <1>4, <1>5, <1>6, <1>7, <1>8, <1>9, <1>10, TypedTrailAfter DEF m

LEMMA UpdateStatusStep ==
  ASSUME MigrationsInv, NEW i \in DOMAIN tickets, NEW reference \in Labels,
         UpdateStatus(i, reference)
  PROVE  MigrationsInv'
<1>1. /\ rev = 7 /\ rev >= 5 /\ actors[reference].type \in {"NULL", "AGENT"}
      /\ actors' = [actors EXCEPT ![reference] =
                      [type |-> "AGENT", name |-> reference, email |-> "NULL"]]
      /\ events' = Append(events, TypedEvent(i, "STATUS_CHANGED", "AGENT", reference))
      /\ UNCHANGED <<rev, tickets, schema, queue, downgrades, undone>>
  BY DEF UpdateStatus
<1>2. TypeOK /\ tickets \in Seq(TicketRow) /\ events \in Seq(EventRow)
  BY RowTypes DEF MigrationsInv
<1>3. "AGENT" = ShapeByActor("STATUS_CHANGED")
  BY DEF ShapeByActor
<1> DEFINE m == Len(events) + 1
<1>4. /\ ActorsOK' /\ LabelsAsWritten' /\ IdentityKept' /\ EventsKeepTheirActor'
      /\ actors' \in [Labels -> ActorRow] /\ events' \in Seq(EventRow)
      /\ DOMAIN events' = DOMAIN events \cup {m} /\ m \notin DOMAIN events
      /\ \A k \in DOMAIN events : events'[k] = events[k]
      /\ events'[m].ticket = i /\ events'[m].kind = "STATUS_CHANGED"
      /\ events'[m].label = "NULL" /\ events'[m].actor \in Labels
      /\ events'[m].type \in {"AGENT", "SYSTEM"}
  BY <1>1, <1>2, <1>3, TypedEventStep
<1> HIDE DEF m
<1>5. TypeOK'
  BY <1>1, <1>2, <1>4, References DEF TypeOK, ColumnsOf, schema
<1>6. SchemaOK'
  BY <1>1 DEF MigrationsInv, SchemaOK, schema
<1>8. \A j \in DOMAIN tickets : ProcessingsOf(j)' = ProcessingsOf(j)
  BY <1>2, <1>4, OneEventMore
<1>9. \A j \in DOMAIN tickets : Waits(j)' => Waits(j)
  BY <1>1 DEF Waits
<1>7. OnlyOldMessagesRepeat' /\ WaitingFresh'
  BY <1>1, <1>2, <1>8, <1>9, NoneProcessed
<1> QED
  BY <1>4, <1>5, <1>6, <1>7 DEF MigrationsInv

LEMMA TrailAside ==
  ASSUME MigrationsInv, rev >= 3, rev' \in 3..7, UNCHANGED <<events, actors, undone>>,
         tickets' \in Seq(TicketRow), DOMAIN tickets' = DOMAIN tickets,
         \A j \in DOMAIN tickets :
           /\ tickets'[j].customer = tickets[j].customer
           /\ tickets'[j].origin = tickets[j].origin
  PROVE  /\ ActorsOK' /\ LabelsAsWritten' /\ IdentityKept' /\ EventsKeepTheirActor'
         /\ \A j \in DOMAIN tickets : ProcessingsOf(j)' = ProcessingsOf(j)
<1>1. \A j \in DOMAIN tickets : TrueCustomer(tickets'[j]) = TrueCustomer(tickets[j])
  BY DEF TrueCustomer
<1>2. \A k \in DOMAIN events : events[k].ticket \in DOMAIN tickets
  BY RowTypes DEF MigrationsInv
<1>3. \A i \in DOMAIN tickets' :
        /\ tickets'[i].customer = TrueCustomer(tickets'[i])
        /\ actors'[tickets'[i].customer].type = "CUSTOMER"
        /\ actors'[tickets'[i].customer].email = Lower[tickets'[i].origin]
  BY <1>1, TypedTrail
<1>4. \A k \in DOMAIN events' :
        /\ events'[k].actor = events'[k].who
        /\ events'[k].type = actors'[events'[k].actor].type
        /\ events'[k].type = ShapeByActor(events'[k].kind)
        /\ events'[k].kind = "CREATED" =>
             events'[k].who = TrueCustomer(tickets'[events'[k].ticket])
  BY <1>1, <1>2, TypedTrail
<1>5. ActorsOK' /\ \A j \in DOMAIN tickets : ProcessingsOf(j)' = ProcessingsOf(j)
  BY DEF MigrationsInv, ActorsOK, ProcessingsOf
<1> QED
  BY <1>3, <1>4, <1>5, TypedTrailAfter

LEMMA PublishStep ==
  ASSUME MigrationsInv, NEW i \in DOMAIN tickets, Publish(i)
  PROVE  MigrationsInv'
<1>1. /\ rev = 7 /\ rev >= 3 /\ rev' \in 3..7 /\ tickets[i].outbox = "PENDING"
      /\ queue' = queue \cup {i}
      /\ UNCHANGED <<rev, events, actors, schema, downgrades, undone>>
  BY DEF Publish
<1>2. TypeOK /\ tickets \in Seq(TicketRow) /\ events \in Seq(EventRow)
  BY RowTypes DEF MigrationsInv
<1>11. PICK outbox \in {"PENDING", "PUBLISHED"} :
         tickets' = [tickets EXCEPT ![i].outbox = outbox]
  BY DEF Publish
<1> DEFINE row == [tickets[i] EXCEPT !.outbox = outbox]
<1>3. /\ row \in TicketRow
      /\ row.email = tickets[i].email /\ row.name = tickets[i].name
      /\ row.customer = tickets[i].customer /\ row.origin = tickets[i].origin
      /\ row.processing = tickets[i].processing /\ row.outbox = outbox
      /\ row.outlived = tickets[i].outlived
  <2>1. tickets[i] \in TicketRow /\ outbox \in {"NULL", "PENDING", "PUBLISHED"}
    BY <1>2, RowTypes
  <2> QED
    BY <2>1, RowWithOutbox
<1>10. tickets' = [tickets EXCEPT ![i] = row]
  BY <1>11
<1> HIDE DEF row
<1>4. /\ tickets' \in Seq(TicketRow) /\ DOMAIN tickets' = DOMAIN tickets
      /\ tickets'[i] = row
      /\ \A j \in DOMAIN tickets : j # i => tickets'[j] = tickets[j]
  BY <1>2, <1>3, <1>10
<1>5. \A j \in DOMAIN tickets :
        /\ tickets'[j].customer = tickets[j].customer
        /\ tickets'[j].origin = tickets[j].origin
        /\ tickets'[j].email = tickets[j].email
        /\ tickets'[j].name = tickets[j].name
        /\ tickets'[j].processing = tickets[j].processing
        /\ tickets'[j].outlived = tickets[j].outlived
        /\ tickets'[j].outbox # tickets[j].outbox => j = i
  BY <1>3, <1>4
<1>6. /\ ActorsOK' /\ LabelsAsWritten' /\ IdentityKept' /\ EventsKeepTheirActor'
      /\ \A j \in DOMAIN tickets : ProcessingsOf(j)' = ProcessingsOf(j)
  BY <1>1, <1>4, <1>5, TrailAside
<1>7. TypeOK'
  <2>1. \A j \in DOMAIN tickets' : ColumnsOf(tickets[j])'
    <3>1. \A j \in DOMAIN tickets : ColumnsOf(tickets[j])
      BY <1>2, RowTypes
    <3> QED
      BY <1>1, <1>4, <1>5, <3>1 DEF ColumnsOf
  <2>2. \A k \in DOMAIN events' :
          /\ events'[k].ticket \in DOMAIN tickets'
          /\ events'[k].label # "NULL" <=> rev' <= 2
          /\ events'[k].actor # "NULL" <=> rev' >= 3
          /\ events'[k].type # "NULL" <=> rev' >= 3
    BY <1>1, <1>2, <1>4, RowTypes, OtherTypes
  <2>3. /\ rev' \in 0..7 /\ actors' \in [Labels -> ActorRow]
        /\ nonempty' \in BOOLEAN /\ frozen' \in BOOLEAN
        /\ shape' \in {"none", "status", "typed"}
        /\ queue' \subseteq DOMAIN tickets'
        /\ downgrades' \in 0..MaxDowngrades /\ undone' \in BOOLEAN
    BY <1>1, <1>2, <1>4, OtherTypes DEF schema
  <2> QED
    BY <1>1, <1>2, <1>4, <2>1, <2>2, <2>3 DEF TypeOK
<1>8. SchemaOK'
  BY <1>1 DEF MigrationsInv, SchemaOK, schema
<1>9. \A j \in DOMAIN tickets : Waits(j)' => Waits(j)
  BY <1>1, <1>5 DEF Waits
<1>12. OnlyOldMessagesRepeat' /\ WaitingFresh'
  BY <1>4, <1>5, <1>6, <1>9, NoneProcessed
<1> QED
  BY <1>6, <1>7, <1>8, <1>12 DEF MigrationsInv

\* The end of the task, for the worker or for the seed.
LEMMA CompletesStep ==
  ASSUME MigrationsInv, NEW i \in DOMAIN tickets, Waits(i), Completes(i),
         rev = 7, UNCHANGED <<rev, schema, downgrades, undone>>, queue' \subseteq queue
  PROVE  MigrationsInv'
<1>1. rev >= 5 /\ tickets[i].processing = "PENDING"
  BY DEF Completes
<1>2. TypeOK /\ tickets \in Seq(TicketRow) /\ events \in Seq(EventRow)
  BY RowTypes DEF MigrationsInv
<1>3. SchemaOK'
  BY <1>1 DEF MigrationsInv, SchemaOK, schema
<1> DEFINE m == Len(events) + 1
           row == [tickets[i] EXCEPT !.processing = "COMPLETED"]
<1>4. /\ actors[Worker].type \in {"NULL", "SYSTEM"}
      /\ actors' = [actors EXCEPT ![Worker] =
                      [type |-> "SYSTEM", name |-> Worker, email |-> "NULL"]]
      /\ events' = Append(events, TypedEvent(i, "AUTO_PROCESSED", "SYSTEM", Worker))
      /\ tickets' = [tickets EXCEPT ![i] = row]
  BY DEF Completes
<1>5. /\ row \in TicketRow
      /\ row.email = tickets[i].email /\ row.name = tickets[i].name
      /\ row.customer = tickets[i].customer /\ row.origin = tickets[i].origin
      /\ row.outbox = tickets[i].outbox /\ row.processing = "COMPLETED"
      /\ row.outlived = tickets[i].outlived
  BY <1>2, RowTypes, RowWithProcessing
<1> HIDE DEF row
<1>6. /\ tickets' \in Seq(TicketRow) /\ DOMAIN tickets' = DOMAIN tickets
      /\ tickets'[i] = row
      /\ \A j \in DOMAIN tickets : j # i => tickets'[j] = tickets[j]
  BY <1>2, <1>4, <1>5
<1>7. \A j \in DOMAIN tickets :
        /\ tickets'[j].customer = tickets[j].customer
        /\ tickets'[j].origin = tickets[j].origin
        /\ tickets'[j].email = tickets[j].email
        /\ tickets'[j].name = tickets[j].name
        /\ tickets'[j].outbox = tickets[j].outbox
        /\ tickets'[j].outlived = tickets[j].outlived
        /\ tickets'[j].processing # "NULL" <=> tickets[j].processing # "NULL"
  BY <1>1, <1>5, <1>6
<1>8. "SYSTEM" = ShapeByActor("AUTO_PROCESSED")
  BY DEF ShapeByActor
<1>9. /\ ActorsOK' /\ LabelsAsWritten' /\ IdentityKept' /\ EventsKeepTheirActor'
      /\ actors' \in [Labels -> ActorRow] /\ events' \in Seq(EventRow)
      /\ DOMAIN events' = DOMAIN events \cup {m} /\ m \notin DOMAIN events
      /\ \A k \in DOMAIN events : events'[k] = events[k]
      /\ events'[m].ticket = i /\ events'[m].kind = "AUTO_PROCESSED"
      /\ events'[m].label = "NULL" /\ events'[m].actor \in Labels
      /\ events'[m].type \in {"AGENT", "SYSTEM"}
  BY <1>1, <1>2, <1>4, <1>6, <1>7, <1>8, References, TypedEventStep
<1> HIDE DEF m
<1>10. TypeOK'
  <2>1. \A j \in DOMAIN tickets' :
          /\ tickets'[j].email # "NULL" <=> rev' \in 1..2
          /\ tickets'[j].name # "NULL" <=> rev' \in 1..2
          /\ tickets'[j].customer # "NULL" <=> rev' >= 3
          /\ tickets'[j].processing # "NULL" <=> rev' >= 5
          /\ tickets'[j].outbox # "NULL" => rev' >= 6
    BY <1>1, <1>2, <1>6, <1>7, RowTypes DEF ColumnsOf
  <2>2. \A k \in DOMAIN events' :
          /\ events'[k].ticket \in DOMAIN tickets'
          /\ events'[k].label # "NULL" <=> rev' <= 2
          /\ events'[k].actor # "NULL" <=> rev' >= 3
          /\ events'[k].type # "NULL" <=> rev' >= 3
    BY <1>1, <1>2, <1>6, <1>9, References DEF TypeOK
  <2> QED
    BY <1>1, <1>2, <1>6, <1>9, <2>1, <2>2 DEF TypeOK, ColumnsOf, schema
<1>11. \A j \in DOMAIN tickets :
         /\ Cardinality(ProcessingsOf(j)') <= 1 + tickets'[j].outlived
         /\ Waits(j)' => Cardinality(ProcessingsOf(j)') <= tickets'[j].outlived
  <2> SUFFICES ASSUME NEW j \in DOMAIN tickets
               PROVE  /\ Cardinality(ProcessingsOf(j)') <= 1 + tickets'[j].outlived
                      /\ Waits(j)' => Cardinality(ProcessingsOf(j)') <= tickets'[j].outlived
    OBVIOUS
  <2>1. CASE j = i
    <3>1. Cardinality(ProcessingsOf(i)') = Cardinality(ProcessingsOf(i)) + 1
      BY <1>2, <1>9, OneEventMore
    <3>2. Cardinality(ProcessingsOf(i)) <= tickets[i].outlived
      BY DEF MigrationsInv, WaitingFresh
    <3>3. Cardinality(ProcessingsOf(i)) \in Nat /\ tickets[i].outlived \in Nat
      BY <1>2, ProcessingsCounted, RowTypes DEF TicketRow
    <3>4. ~ Waits(i)'
      BY <1>5, <1>6 DEF Waits
    <3> QED
      BY <1>7, <2>1, <3>1, <3>2, <3>3, <3>4
  <2>2. CASE j # i
    <3>1. ProcessingsOf(j)' = ProcessingsOf(j)
      BY <1>2, <1>9, <2>2, OneEventMore
    <3>2. Waits(j)' => Waits(j)
      BY <1>6, <2>2 DEF Waits
    <3> QED
      BY <1>7, <3>1, <3>2 DEF MigrationsInv, OnlyOldMessagesRepeat, WaitingFresh
  <2> QED
    BY <2>1, <2>2
<1>12. OnlyOldMessagesRepeat' /\ WaitingFresh'
  BY <1>6, <1>11 DEF OnlyOldMessagesRepeat, WaitingFresh
<1> QED
  BY <1>3, <1>9, <1>10, <1>12 DEF MigrationsInv

LEMMA ProcessStep ==
  ASSUME MigrationsInv, NEW i \in DOMAIN tickets, Process(i)
  PROVE  MigrationsInv'
<1>1. /\ rev = 7 /\ rev >= 3 /\ rev' \in 3..7 /\ i \in queue /\ queue' \subseteq queue
      /\ UNCHANGED <<rev, schema, downgrades, undone>>
  BY DEF Process
<1>2. TypeOK /\ tickets \in Seq(TicketRow) /\ events \in Seq(EventRow) /\ ~ undone
  BY <1>1, RowTypes, TypedTrail DEF MigrationsInv
<1>3. CASE Completes(i)
  <2>1. Waits(i)
    BY <1>1, <1>2, <1>3 DEF Waits, Completes
  <2> QED
    BY <1>1, <1>3, <2>1, CompletesStep
<1>4. ASSUME UNCHANGED <<events, actors>>,
             tickets' \in Seq(TicketRow), DOMAIN tickets' = DOMAIN tickets,
             \A j \in DOMAIN tickets :
               /\ tickets'[j].customer = tickets[j].customer
               /\ tickets'[j].origin = tickets[j].origin
               /\ tickets'[j].email = tickets[j].email
               /\ tickets'[j].name = tickets[j].name
               /\ tickets'[j].outbox = tickets[j].outbox
               /\ tickets'[j].outlived = tickets[j].outlived
               /\ tickets'[j].processing # "NULL" <=> tickets[j].processing # "NULL"
               /\ tickets[j].processing = "COMPLETED" => tickets'[j].processing = "COMPLETED"
      PROVE  MigrationsInv'
  <2>1. /\ ActorsOK' /\ LabelsAsWritten' /\ IdentityKept' /\ EventsKeepTheirActor'
        /\ \A j \in DOMAIN tickets : ProcessingsOf(j)' = ProcessingsOf(j)
    BY <1>1, <1>4, TrailAside
  <2>2. TypeOK'
    <3>1. \A j \in DOMAIN tickets' : ColumnsOf(tickets[j])'
      <4>1. \A j \in DOMAIN tickets : ColumnsOf(tickets[j])
        BY <1>2, RowTypes
      <4> QED
        BY <1>1, <1>4, <4>1 DEF ColumnsOf
    <3>2. \A k \in DOMAIN events' :
            /\ events'[k].ticket \in DOMAIN tickets'
            /\ events'[k].label # "NULL" <=> rev' <= 2
            /\ events'[k].actor # "NULL" <=> rev' >= 3
            /\ events'[k].type # "NULL" <=> rev' >= 3
      BY <1>1, <1>2, <1>4, RowTypes, OtherTypes
    <3>3. /\ rev' \in 0..7 /\ actors' \in [Labels -> ActorRow]
          /\ nonempty' \in BOOLEAN /\ frozen' \in BOOLEAN
          /\ shape' \in {"none", "status", "typed"}
          /\ queue' \subseteq DOMAIN tickets'
          /\ downgrades' \in 0..MaxDowngrades /\ undone' \in BOOLEAN
      BY <1>1, <1>2, <1>4, OtherTypes DEF schema
    <3> QED
      BY <1>1, <1>2, <1>4, <3>1, <3>2, <3>3 DEF TypeOK
  <2>3. SchemaOK'
    BY <1>1, <1>2 DEF MigrationsInv, SchemaOK, schema
  <2>4. \A j \in DOMAIN tickets : Waits(j)' => Waits(j)
    BY <1>1, <1>4 DEF Waits
  <2>5. OnlyOldMessagesRepeat' /\ WaitingFresh'
    BY <1>4, <2>1, <2>4, NoneProcessed
  <2> QED
    BY <2>1, <2>2, <2>3, <2>5 DEF MigrationsInv
<1>5. CASE FailsFinally(i)
  <2> DEFINE row == [tickets[i] EXCEPT !.processing = "FAILED"]
  <2>1. /\ row \in TicketRow
        /\ row.email = tickets[i].email /\ row.name = tickets[i].name
        /\ row.customer = tickets[i].customer /\ row.origin = tickets[i].origin
        /\ row.outbox = tickets[i].outbox /\ row.processing = "FAILED"
        /\ row.outlived = tickets[i].outlived
    BY <1>2, RowTypes, RowWithProcessing
  <2>2. /\ tickets[i].processing = "PENDING" /\ UNCHANGED <<events, actors>>
        /\ tickets' = [tickets EXCEPT ![i] = row]
    BY <1>5 DEF FailsFinally
  <2> HIDE DEF row
  <2>3. /\ tickets' \in Seq(TicketRow) /\ DOMAIN tickets' = DOMAIN tickets
        /\ tickets'[i] = row
        /\ \A j \in DOMAIN tickets : j # i => tickets'[j] = tickets[j]
    BY <1>2, <2>1, <2>2
  <2>4. \A j \in DOMAIN tickets :
          /\ tickets'[j].customer = tickets[j].customer
          /\ tickets'[j].origin = tickets[j].origin
          /\ tickets'[j].email = tickets[j].email
          /\ tickets'[j].name = tickets[j].name
          /\ tickets'[j].outbox = tickets[j].outbox
          /\ tickets'[j].outlived = tickets[j].outlived
          /\ tickets'[j].processing # "NULL" <=> tickets[j].processing # "NULL"
          /\ tickets[j].processing = "COMPLETED" => tickets'[j].processing = "COMPLETED"
    BY <2>1, <2>2, <2>3
  <2> QED
    BY <1>4, <2>2, <2>3, <2>4
<1>6. CASE UNCHANGED <<tickets, events, actors>>
  BY <1>2, <1>4, <1>6
<1> QED
  BY <1>3, <1>5, <1>6 DEF Process

LEMMA SeedProcessesStep ==
  ASSUME MigrationsInv, NEW i \in DOMAIN tickets, SeedProcesses(i)
  PROVE  MigrationsInv'
<1>1. /\ rev = 7 /\ rev >= 3 /\ tickets[i].outbox # "NULL" /\ Completes(i)
      /\ UNCHANGED <<rev, schema, queue, downgrades, undone>>
  BY DEF SeedProcesses
<1>2. ~ undone
  BY <1>1, TypedTrail
<1>3. Waits(i)
  BY <1>1, <1>2 DEF Waits, Completes
<1> QED
  BY <1>1, <1>3, CompletesStep

-----------------------------------------------------------------------------
(***************************************************************************)
(* The migrations.                                                         *)
(***************************************************************************)
\* A revision that leaves the rows alone, up or down, below 3 or from 3 on.
LEMMA RowsAside ==
  ASSUME MigrationsInv, UNCHANGED <<tickets, events, actors, queue, undone>>,
         rev' \in 0..7, rev <= 2 <=> rev' <= 2, downgrades' \in 0..MaxDowngrades
  PROVE  /\ ActorsOK' /\ LabelsAsWritten' /\ IdentityKept' /\ EventsKeepTheirActor'
         /\ OnlyOldMessagesRepeat' /\ WaitingFresh'
<1>1. rev \in 0..7
  BY DEF MigrationsInv, TypeOK
<1>2. ActorsOK'
  BY DEF MigrationsInv, ActorsOK
<1>5. OnlyOldMessagesRepeat' /\ WaitingFresh'
  BY DEF MigrationsInv, OnlyOldMessagesRepeat, WaitingFresh, Waits, ProcessingsOf
<1>3. LabelsAsWritten'
  BY DEF MigrationsInv, LabelsAsWritten
<1>4. IdentityKept' /\ EventsKeepTheirActor'
  BY DEF MigrationsInv, IdentityKept, EventsKeepTheirActor
<1> QED
  BY <1>2, <1>3, <1>4, <1>5

LEMMA EarlySteps ==
  ASSUME MigrationsInv, InitialSchema \/ DropInitialSchema \/ AddIntegrity \/ DropIntegrity
  PROVE  MigrationsInv'
<1>1. TypeOK /\ SchemaOK /\ tickets \in Seq(TicketRow) /\ events \in Seq(EventRow)
  BY RowTypes DEF MigrationsInv
<1>2. ~ undone /\ queue = {}
  BY <1>1 DEF InitialSchema, DropInitialSchema, AddIntegrity, DropIntegrity, HasIntegrity,
              UpgradeTo, DowngradeTo, SchemaOK, TypeOK
<1>3. CASE DropInitialSchema
  <2>1. /\ tickets' = <<>> /\ events' = <<>> /\ rev = 1 /\ rev' = 0
        /\ UNCHANGED <<actors, schema, undone, queue>>
        /\ downgrades < MaxDowngrades /\ downgrades' = downgrades + 1
    BY <1>3 DEF DropInitialSchema, DowngradeTo
  <2>2. DOMAIN tickets' = {} /\ DOMAIN events' = {}
    BY <2>1
  <2>3. tickets' \in Seq(TicketRow) /\ events' \in Seq(EventRow)
    BY <2>1
  <2>4. downgrades' \in 0..MaxDowngrades
    BY <1>1, <2>1, MigrationsAssumption DEF TypeOK
  <2>5. TypeOK'
    BY <1>1, <1>2, <2>1, <2>2, <2>3, <2>4 DEF TypeOK, schema
  <2>6. SchemaOK' /\ ActorsOK'
    BY <1>1, <1>2, <2>1 DEF MigrationsInv, SchemaOK, ActorsOK, schema
  <2>7. LabelsAsWritten' /\ IdentityKept' /\ EventsKeepTheirActor'
    BY <2>2 DEF LabelsAsWritten, IdentityKept, EventsKeepTheirActor
  <2>8. OnlyOldMessagesRepeat' /\ WaitingFresh'
    BY <2>2 DEF OnlyOldMessagesRepeat, WaitingFresh
  <2> QED
    BY <2>5, <2>6, <2>7, <2>8 DEF MigrationsInv
<1>4. CASE InitialSchema
  <2>1. /\ rev = 0 /\ rev' = 1 /\ UNCHANGED <<tickets, events, actors, schema>>
        /\ UNCHANGED <<queue, downgrades, undone>>
    BY <1>4 DEF InitialSchema, UpgradeTo
  <2>2. tickets = <<>> /\ events = <<>>
    BY <1>1, <2>1 DEF SchemaOK
  <2>6. DOMAIN tickets = {} /\ DOMAIN events = {}
    BY <2>2
  <2>3. TypeOK'
    BY <1>1, <2>1, <2>6 DEF TypeOK, schema
  <2>4. SchemaOK'
    BY <1>1, <2>1 DEF SchemaOK, schema
  <2>5. rev' \in 0..7 /\ (rev <= 2 <=> rev' <= 2) /\ downgrades' \in 0..MaxDowngrades
    BY <1>1, <2>1 DEF TypeOK
  <2> QED
    BY <2>1, <2>3, <2>4, <2>5, RowsAside DEF MigrationsInv
<1>5. CASE AddIntegrity \/ DropIntegrity
  <2>1. /\ rev \in 1..2 /\ rev' \in 1..2
        /\ UNCHANGED <<tickets, events, actors, queue, undone, frozen>>
        /\ rev' = 2 => nonempty' = TRUE /\ shape' = "status"
        /\ rev' = 1 => nonempty' = FALSE /\ shape' = "none"
    BY <1>5 DEF AddIntegrity, DropIntegrity, UpgradeTo, DowngradeTo
  <2>2. downgrades' \in 0..MaxDowngrades
    BY <1>1, <1>5, MigrationsAssumption
       DEF TypeOK, AddIntegrity, DropIntegrity, UpgradeTo, DowngradeTo
  <2>6. /\ nonempty' \in BOOLEAN /\ shape' \in {"none", "status", "typed"}
        /\ frozen' \in BOOLEAN
    <3>1. nonempty' \in BOOLEAN
      BY <1>5 DEF AddIntegrity, DropIntegrity
    <3>2. shape' \in {"none", "status", "typed"}
      BY <1>5 DEF AddIntegrity, DropIntegrity
    <3>3. frozen' \in BOOLEAN
      BY <1>1, <2>1 DEF TypeOK
    <3> QED
      BY <3>1, <3>2, <3>3
  <2>7. /\ rev' \in 0..7 /\ (rev' \in 1..2 <=> rev \in 1..2) /\ (rev' >= 3 <=> rev >= 3)
        /\ (rev' >= 5 <=> rev >= 5) /\ (rev' >= 6 <=> rev >= 6) /\ (rev' <= 2 <=> rev <= 2)
    BY <2>1
  <2>8. \A i \in DOMAIN tickets' : ColumnsOf(tickets[i])'
    BY <1>1, <2>1, <2>7 DEF TypeOK, ColumnsOf
  <2>9. \A k \in DOMAIN events' :
          /\ events'[k].ticket \in DOMAIN tickets'
          /\ events'[k].label # "NULL" <=> rev' <= 2
          /\ events'[k].actor # "NULL" <=> rev' >= 3
          /\ events'[k].type # "NULL" <=> rev' >= 3
    BY <1>1, <2>1, <2>7 DEF TypeOK
  <2>10. /\ tickets' \in Seq(TicketRow) /\ events' \in Seq(EventRow)
         /\ actors' \in [Labels -> ActorRow] /\ queue' \subseteq DOMAIN tickets'
         /\ undone' \in BOOLEAN
    BY <1>1, <2>1 DEF TypeOK
  <2>3. TypeOK'
    BY <2>2, <2>6, <2>7, <2>8, <2>9, <2>10 DEF TypeOK
  <2>4. SchemaOK'
    BY <1>1, <1>2, <2>1 DEF SchemaOK
  <2>5. rev' \in 0..7 /\ (rev <= 2 <=> rev' <= 2)
    BY <2>1
  <2> QED
    BY <2>1, <2>2, <2>3, <2>4, <2>5, RowsAside DEF MigrationsInv
<1> QED
  BY <1>3, <1>4, <1>5

Late ==
  \/ MakeAppendOnly \/ DropAppendOnly \/ AddProcessing \/ DropProcessing
  \/ AddOutbox \/ DropOutbox \/ AddIdempotency \/ DropIdempotency

\* What the revisions after 0003 do to a column of the tickets.
LEMMA LateColumns ==
  ASSUME MigrationsInv, Late
  PROVE  /\ tickets' \in Seq(TicketRow) /\ DOMAIN tickets' = DOMAIN tickets
         /\ \A i \in DOMAIN tickets :
              /\ tickets'[i].customer = tickets[i].customer
              /\ tickets'[i].origin = tickets[i].origin
              /\ \/ tickets'[i].outlived = tickets[i].outlived /\ (Waits(i)' => Waits(i))
                 \/ tickets'[i].outlived = tickets[i].outlived + 1
              /\ ColumnsOf(tickets[i])'
<1>1. TypeOK /\ tickets \in Seq(TicketRow) /\ \A i \in DOMAIN tickets : tickets[i] \in TicketRow
  BY RowTypes DEF MigrationsInv
<1>2. \A i \in DOMAIN tickets : ColumnsOf(tickets[i])
  BY <1>1 DEF TypeOK
<1>3. ASSUME UNCHANGED tickets, rev \in 3..7, rev' \in 3..7, rev >= 5 <=> rev' >= 5,
             rev' >= rev \/ rev = 4 \/ rev = 7, UNCHANGED <<queue, undone>>
      PROVE  /\ tickets' \in Seq(TicketRow) /\ DOMAIN tickets' = DOMAIN tickets
             /\ \A i \in DOMAIN tickets :
                  /\ tickets'[i].customer = tickets[i].customer
                  /\ tickets'[i].origin = tickets[i].origin
                  /\ tickets'[i].outlived = tickets[i].outlived
                  /\ Waits(i)' => Waits(i)
                  /\ rev' >= 6 \/ rev < 6 => ColumnsOf(tickets[i])'
  BY <1>1, <1>2, <1>3 DEF ColumnsOf, Waits
<1>4. CASE \/ MakeAppendOnly \/ DropAppendOnly \/ AddOutbox \/ AddIdempotency \/ DropIdempotency
  <2>1. /\ UNCHANGED tickets /\ rev \in 3..7 /\ rev' \in 3..7 /\ (rev >= 5 <=> rev' >= 5)
        /\ rev' >= rev \/ rev = 4 \/ rev = 7
        /\ rev' >= 6 \/ rev < 6
        /\ UNCHANGED <<queue, undone>>
    BY <1>1, <1>4 DEF MakeAppendOnly, DropAppendOnly, AddOutbox, AddIdempotency,
                      DropIdempotency, UpgradeTo, DowngradeTo, TypeOK
  <2> QED
    BY <1>3, <2>1
<1>5. CASE AddProcessing
  <2>1. /\ tickets' = [i \in DOMAIN tickets |-> [tickets[i] EXCEPT !.processing = "PENDING"]]
        /\ rev = 4 /\ rev' = 5 /\ UNCHANGED <<queue, undone>>
    BY <1>5 DEF AddProcessing, UpgradeTo
  <2>2. \A i \in DOMAIN tickets : tickets'[i] = [tickets[i] EXCEPT !.processing = "PENDING"]
    BY <2>1
  <2>3. \A i \in DOMAIN tickets :
          /\ tickets'[i] \in TicketRow
          /\ tickets'[i].email = tickets[i].email /\ tickets'[i].name = tickets[i].name
          /\ tickets'[i].customer = tickets[i].customer
          /\ tickets'[i].origin = tickets[i].origin
          /\ tickets'[i].outbox = tickets[i].outbox /\ tickets'[i].processing = "PENDING"
          /\ tickets'[i].outlived = tickets[i].outlived
    <3> SUFFICES ASSUME NEW i \in DOMAIN tickets
                 PROVE  /\ tickets'[i] \in TicketRow
                        /\ tickets'[i].email = tickets[i].email
                        /\ tickets'[i].name = tickets[i].name
                        /\ tickets'[i].customer = tickets[i].customer
                        /\ tickets'[i].origin = tickets[i].origin
                        /\ tickets'[i].outbox = tickets[i].outbox
                        /\ tickets'[i].processing = "PENDING"
                        /\ tickets'[i].outlived = tickets[i].outlived
      OBVIOUS
    <3>1. tickets[i] \in TicketRow
      BY <1>1
    <3> DEFINE row == [tickets[i] EXCEPT !.processing = "PENDING"]
    <3>2. /\ row \in TicketRow
          /\ row.email = tickets[i].email /\ row.name = tickets[i].name
          /\ row.customer = tickets[i].customer /\ row.origin = tickets[i].origin
          /\ row.outbox = tickets[i].outbox /\ row.processing = "PENDING"
          /\ row.outlived = tickets[i].outlived
      BY <3>1, RowWithProcessing
    <3>3. tickets'[i] = row
      BY <2>2
    <3> HIDE DEF row
    <3> QED
      BY <3>2, <3>3
  <2>4. tickets' \in Seq(TicketRow) /\ DOMAIN tickets' = DOMAIN tickets
    <3>1. tickets' = [i \in DOMAIN tickets |-> tickets'[i]]
      BY <2>1
    <3> QED
      BY <1>1, <2>3, <3>1, MappedFacts
  <2>5. \A i \in DOMAIN tickets : ColumnsOf(tickets[i])'
    BY <1>2, <2>1, <2>3 DEF ColumnsOf
  <2>6. \A i \in DOMAIN tickets : Waits(i)' => Waits(i)
    BY <1>2, <2>1, <2>3 DEF ColumnsOf, Waits
  <2> QED
    BY <2>3, <2>4, <2>5, <2>6
<1>7. CASE DropProcessing
  <2>1. /\ tickets' = [i \in DOMAIN tickets |-> WithoutProcessing(i)]
        /\ rev = 5 /\ rev' = 4 /\ UNCHANGED <<queue, undone>>
    BY <1>7 DEF DropProcessing, DowngradeTo
  <2>2. \A i \in DOMAIN tickets : tickets'[i] = WithoutProcessing(i)
    BY <2>1
  <2>3. \A i \in DOMAIN tickets :
          /\ tickets'[i] \in TicketRow
          /\ tickets'[i].email = tickets[i].email /\ tickets'[i].name = tickets[i].name
          /\ tickets'[i].customer = tickets[i].customer
          /\ tickets'[i].origin = tickets[i].origin
          /\ tickets'[i].outbox = tickets[i].outbox /\ tickets'[i].processing = "NULL"
          /\ tickets'[i].outlived = tickets[i].outlived + Outlives(i)
    BY <1>1, <2>2, RowWithoutProcessing
  <2>4. tickets' \in Seq(TicketRow) /\ DOMAIN tickets' = DOMAIN tickets
    <3>1. tickets' = [i \in DOMAIN tickets |-> tickets'[i]]
      BY <2>1
    <3> QED
      BY <1>1, <2>3, <3>1, MappedFacts
  <2>5. \A i \in DOMAIN tickets : ColumnsOf(tickets[i])'
    BY <1>2, <2>1, <2>3 DEF ColumnsOf
  <2>6. \A i \in DOMAIN tickets :
          \/ tickets'[i].outlived = tickets[i].outlived /\ (Waits(i)' => Waits(i))
          \/ tickets'[i].outlived = tickets[i].outlived + 1
    <3> SUFFICES ASSUME NEW i \in DOMAIN tickets
                 PROVE  \/ tickets'[i].outlived = tickets[i].outlived /\ (Waits(i)' => Waits(i))
                        \/ tickets'[i].outlived = tickets[i].outlived + 1
      OBVIOUS
    <3>1. CASE i \in queue
      BY <2>3, <3>1 DEF Outlives
    <3>2. CASE i \notin queue
      <4>1. tickets[i].outlived \in Nat /\ Outlives(i) = 0
        BY <1>1, <3>2 DEF TicketRow, Outlives
      <4>2. tickets'[i].outlived = tickets[i].outlived
        BY <2>3, <4>1
      <4>3. tickets'[i].outbox = "NULL"
        BY <1>2, <2>1, <2>3 DEF ColumnsOf
      <4> QED
        BY <2>1, <3>2, <4>2, <4>3 DEF Waits
    <3> QED
      BY <3>1, <3>2
  <2> QED
    BY <2>3, <2>4, <2>5, <2>6
<1>6. CASE DropOutbox
  <2>1. /\ tickets' = [i \in DOMAIN tickets |-> [tickets[i] EXCEPT !.outbox = "NULL"]]
        /\ rev = 6 /\ rev' = 5 /\ UNCHANGED <<queue, undone>>
    BY <1>6 DEF DropOutbox, DowngradeTo
  <2>2. \A i \in DOMAIN tickets : tickets'[i] = [tickets[i] EXCEPT !.outbox = "NULL"]
    BY <2>1
  <2>3. \A i \in DOMAIN tickets :
          /\ tickets'[i] \in TicketRow
          /\ tickets'[i].email = tickets[i].email /\ tickets'[i].name = tickets[i].name
          /\ tickets'[i].customer = tickets[i].customer
          /\ tickets'[i].origin = tickets[i].origin
          /\ tickets'[i].processing = tickets[i].processing /\ tickets'[i].outbox = "NULL"
          /\ tickets'[i].outlived = tickets[i].outlived
    <3> SUFFICES ASSUME NEW i \in DOMAIN tickets
                 PROVE  /\ tickets'[i] \in TicketRow
                        /\ tickets'[i].email = tickets[i].email
                        /\ tickets'[i].name = tickets[i].name
                        /\ tickets'[i].customer = tickets[i].customer
                        /\ tickets'[i].origin = tickets[i].origin
                        /\ tickets'[i].processing = tickets[i].processing
                        /\ tickets'[i].outbox = "NULL"
                        /\ tickets'[i].outlived = tickets[i].outlived
      OBVIOUS
    <3>1. tickets[i] \in TicketRow
      BY <1>1
    <3> DEFINE row == [tickets[i] EXCEPT !.outbox = "NULL"]
    <3>2. /\ row \in TicketRow
          /\ row.email = tickets[i].email /\ row.name = tickets[i].name
          /\ row.customer = tickets[i].customer /\ row.origin = tickets[i].origin
          /\ row.processing = tickets[i].processing /\ row.outbox = "NULL"
          /\ row.outlived = tickets[i].outlived
      BY <3>1, RowWithOutbox
    <3>3. tickets'[i] = row
      BY <2>2
    <3> HIDE DEF row
    <3> QED
      BY <3>2, <3>3
  <2>4. tickets' \in Seq(TicketRow) /\ DOMAIN tickets' = DOMAIN tickets
    <3>1. tickets' = [i \in DOMAIN tickets |-> tickets'[i]]
      BY <2>1
    <3> QED
      BY <1>1, <2>3, <3>1, MappedFacts
  <2>5. \A i \in DOMAIN tickets : ColumnsOf(tickets[i])'
    BY <1>2, <2>1, <2>3 DEF ColumnsOf
  <2>6. \A i \in DOMAIN tickets : Waits(i)' => Waits(i)
    BY <2>1, <2>3 DEF Waits
  <2> QED
    BY <2>3, <2>4, <2>5, <2>6
<1> QED
  BY <1>4, <1>5, <1>6, <1>7 DEF Late

LEMMA LateStep ==
  ASSUME MigrationsInv, Late
  PROVE  MigrationsInv'
<1>1. TypeOK /\ SchemaOK
  BY DEF MigrationsInv
<1>2. /\ rev \in 3..7 /\ rev' \in 3..7 /\ UNCHANGED <<events, actors, queue, undone>>
      /\ UNCHANGED <<nonempty, shape>>
  BY <1>1 DEF Late, MakeAppendOnly, DropAppendOnly, AddProcessing, DropProcessing, AddOutbox,
              DropOutbox, AddIdempotency, DropIdempotency, UpgradeTo, DowngradeTo, TypeOK, schema
<1>3. frozen' \in BOOLEAN /\ (frozen' <=> rev' >= 4)
  <2>1. CASE MakeAppendOnly \/ DropAppendOnly
    <3>1. CASE MakeAppendOnly
      <4>1. frozen' = TRUE /\ rev' = 4
        BY <3>1 DEF MakeAppendOnly, UpgradeTo
      <4> QED
        BY <4>1
    <3>2. CASE DropAppendOnly
      <4>1. frozen' = FALSE /\ rev' = 3
        BY <3>2 DEF DropAppendOnly, DowngradeTo
      <4>2. ~ frozen' /\ frozen' \in BOOLEAN
        BY <4>1, Zenon
      <4>3. ~ (rev' >= 4)
        BY <4>1
      <4> QED
        BY <4>2, <4>3
    <3> QED
      BY <2>1, <3>1, <3>2
  <2>2. CASE ~ (MakeAppendOnly \/ DropAppendOnly)
    BY <1>1, <2>2 DEF Late, AddProcessing, DropProcessing, AddOutbox, DropOutbox,
         AddIdempotency, DropIdempotency, UpgradeTo, DowngradeTo, schema, SchemaOK, TypeOK
  <2> QED
    BY <2>1, <2>2
<1>4. downgrades' \in 0..MaxDowngrades
  BY <1>1, MigrationsAssumption
     DEF Late, MakeAppendOnly, DropAppendOnly, AddProcessing, DropProcessing, AddOutbox,
         DropOutbox, AddIdempotency, DropIdempotency, UpgradeTo, DowngradeTo, TypeOK
<1>5. /\ rev >= 3 /\ rev' \in 0..7 /\ (rev <= 2 <=> rev' <= 2) /\ (rev >= 3 <=> rev' >= 3)
      /\ rev' # 0
  BY <1>2
<1>6. /\ ActorsOK' /\ LabelsAsWritten' /\ IdentityKept' /\ EventsKeepTheirActor'
      /\ \A j \in DOMAIN tickets : ProcessingsOf(j)' = ProcessingsOf(j)
  BY <1>2, <1>5, LateColumns, TrailAside
<1>7. TypeOK'
  <2>1. tickets' \in Seq(TicketRow) /\ \A i \in DOMAIN tickets' : ColumnsOf(tickets[i])'
    BY LateColumns
  <2>2. DOMAIN tickets' = DOMAIN tickets
    BY LateColumns
  <2>3. \A k \in DOMAIN events' :
          /\ events'[k].ticket \in DOMAIN tickets'
          /\ events'[k].label # "NULL" <=> rev' <= 2
          /\ events'[k].actor # "NULL" <=> rev' >= 3
          /\ events'[k].type # "NULL" <=> rev' >= 3
    BY <1>1, <1>2, <1>5, <2>2 DEF TypeOK
  <2>4. /\ events' \in Seq(EventRow) /\ actors' \in [Labels -> ActorRow]
        /\ queue' \subseteq DOMAIN tickets' /\ undone' \in BOOLEAN
        /\ nonempty' \in BOOLEAN /\ shape' \in {"none", "status", "typed"}
    BY <1>1, <1>2, <2>2 DEF TypeOK
  <2> QED
    BY <1>3, <1>4, <1>5, <2>1, <2>3, <2>4 DEF TypeOK
<1>8. SchemaOK'
  BY <1>1, <1>2, <1>3, <1>5 DEF SchemaOK
<1>9. OnlyOldMessagesRepeat' /\ WaitingFresh'
  BY <1>6, LateColumns, NoneProcessed
<1> QED
  BY <1>6, <1>7, <1>8, <1>9 DEF MigrationsInv

-----------------------------------------------------------------------------
(***************************************************************************)
(* 0003 and back.                                                          *)
(***************************************************************************)
LEMMA NormalizedTicketRow ==
  ASSUME NEW t \in TicketRow, t.email \in Emails
  PROVE  LET N == NormalizedTicket(t) IN
         /\ N \in TicketRow
         /\ N.email = "NULL" /\ N.name = "NULL" /\ N.customer = CustomerRef[AddressOf(t)]
         /\ N.origin = t.origin /\ N.processing = t.processing /\ N.outbox = t.outbox
         /\ N.outlived = t.outlived
<1>1. CustomerRef[AddressOf(t)] \in Labels
  BY References DEF AddressOf
<1> QED
  BY <1>1 DEF NormalizedTicket, TicketRow

LEMMA NormalizedEventRow ==
  ASSUME NEW e \in EventRow, e.label \in Labels, CustomerOf(e) \in Labels
  PROVE  LET N == NormalizedEvent(e) IN
         /\ N \in EventRow
         /\ N.ticket = e.ticket /\ N.kind = e.kind /\ N.who = e.who /\ N.label = "NULL"
         /\ N.actor = (IF e.label = Customer THEN CustomerOf(e) ELSE e.label)
         /\ N.type = TypeByLabel(e.label)
<1>1. TypeByLabel(e.label) \in ActorTypes
  BY DEF TypeByLabel, ActorTypes
<1> QED
  BY <1>1 DEF NormalizedEvent, EventRow

\* The customers that the migration makes: one for each address in lower case.
LEMMA CustomersRead ==
  ASSUME MigrationsInv, rev = 2, NEW i \in DOMAIN tickets
  PROVE  LET reference == TrueCustomer(tickets[i]) IN
         /\ tickets[i].email \in Emails /\ tickets[i].origin \in Emails
         /\ tickets[i].name \in Names
         /\ CustomerRef[AddressOf(tickets[i])] = reference
         /\ reference \in CustomersIn /\ reference \in Labels
<1>1. tickets[i] \in TicketRow /\ ColumnsOf(tickets[i])
  BY RowTypes DEF MigrationsInv
<1>2. tickets[i].email \in Emails /\ tickets[i].name \in Names /\ tickets[i].origin \in Emails
  BY <1>1 DEF TicketRow, ColumnsOf
<1>3. Lower[tickets[i].email] = Lower[tickets[i].origin]
  BY DEF MigrationsInv, IdentityKept
<1>4. CustomerRef[AddressOf(tickets[i])] = TrueCustomer(tickets[i])
  BY <1>3 DEF AddressOf, TrueCustomer
<1>5. TrueCustomer(tickets[i]) \in CustomersIn
  BY <1>4 DEF CustomersIn
<1>6. TrueCustomer(tickets[i]) \in Labels
  BY <1>2, References DEF TrueCustomer
<1> QED
  BY <1>2, <1>4, <1>5, <1>6

LEMMA CustomersBackfilled ==
  ASSUME MigrationsInv, rev = 2, CanNormalize, NEW i \in DOMAIN tickets
  PROVE  LET row == Backfilled(TrueCustomer(tickets[i])) IN
         /\ row \in ActorRow
         /\ row.type = "CUSTOMER"
         /\ row.email = Lower[tickets[i].origin]
         /\ row.name \in Names
<1> DEFINE reference == TrueCustomer(tickets[i])
<1>1. reference \in CustomersIn /\ CustomerRef[AddressOf(tickets[i])] = reference
  BY CustomersRead
<1>2. /\ reference = CustomerRef[Lower[tickets[i].origin]]
      /\ Lower[tickets[i].origin] \in Emails
  BY CustomersRead, References DEF TrueCustomer
<1>3. reference \notin AgentsIn /\ reference # Worker
  BY <1>1, <1>2, References DEF CanNormalize
<1>4. NameOf(reference) \in Names
  <2>1. i \in TicketsOf(reference)
    BY <1>1 DEF TicketsOf
  <2>2. \E n \in Names : \E j \in TicketsOf(reference) : n = tickets[j].name
    BY CustomersRead, <2>1
  <2> QED
    BY <2>2 DEF NameOf
<1> HIDE DEF reference
<1>5. (CHOOSE e \in Emails : CustomerRef[e] = reference) = Lower[tickets[i].origin]
  BY <1>2, References
<1>6. Backfilled(reference) = BackfilledCustomer(reference)
  BY <1>1, <1>3 DEF Backfilled
<1>7. Backfilled(reference) = [type |-> "CUSTOMER", name |-> NameOf(reference),
                               email |-> Lower[tickets[i].origin]]
  BY <1>5, <1>6 DEF BackfilledCustomer
<1> QED
  BY <1>2, <1>4, <1>7 DEF ActorRow, ActorTypes, reference

LEMMA Backfill ==
  ASSUME MigrationsInv, rev = 2, CanNormalize
  PROVE  /\ \A r \in Labels :
              /\ Backfilled(r) \in ActorRow
              /\ Backfilled(r).type = "CUSTOMER" =>
                   /\ Backfilled(r).name \in Names /\ Backfilled(r).email \in Emails
                   /\ r = CustomerRef[Backfilled(r).email]
              /\ Backfilled(r).type \in {"AGENT", "SYSTEM"} => Backfilled(r).name = r
         /\ \A r \in AgentsIn : Backfilled(r).type = "AGENT"
         /\ Worker \in LabelsIn => Backfilled(Worker).type = "SYSTEM"
<1>1. \A r \in CustomersIn : \E i \in DOMAIN tickets :
        r = TrueCustomer(tickets[i])
  BY CustomersRead DEF CustomersIn
<1>2. CustomersIn \cap AgentsIn = {}
  BY DEF CanNormalize
<1>3. Worker \notin CustomersIn /\ Worker \notin AgentsIn
  <2>1. \A i \in DOMAIN tickets : tickets[i].origin \in Emails
    BY CustomersRead
  <2> QED
    BY <1>1, <2>1, References DEF TrueCustomer, AgentsIn
<1>4. ASSUME NEW r \in AgentsIn
      PROVE  Backfilled(r) = [type |-> "AGENT", name |-> r, email |-> "NULL"]
  <2>1. r \notin CustomersIn /\ r # Worker
    BY <1>2, <1>3, <1>4
  <2> QED
    BY <1>4, <2>1 DEF Backfilled
<1>5. Worker \in LabelsIn =>
        Backfilled(Worker) = [type |-> "SYSTEM", name |-> Worker, email |-> "NULL"]
  BY <1>3 DEF Backfilled
<1>6. ASSUME NEW r \in Labels
      PROVE  /\ Backfilled(r) \in ActorRow
             /\ Backfilled(r).type = "CUSTOMER" =>
                  /\ Backfilled(r).name \in Names /\ Backfilled(r).email \in Emails
                  /\ r = CustomerRef[Backfilled(r).email]
             /\ Backfilled(r).type \in {"AGENT", "SYSTEM"} => Backfilled(r).name = r
  <2>1. CASE r \in CustomersIn
    <3>1. PICK i \in DOMAIN tickets : r = TrueCustomer(tickets[i])
      BY <1>1, <2>1
    <3> QED
      BY <3>1, CustomersRead, CustomersBackfilled, References DEF TrueCustomer
  <2>2. CASE r \in AgentsIn
    BY <1>4, <2>2 DEF ActorRow, ActorTypes
  <2>3. CASE r \in LabelsIn \cap {Worker}
    BY <1>5, <2>3 DEF ActorRow, ActorTypes
  <2>4. CASE r \notin CustomersIn /\ r \notin AgentsIn /\ r \notin LabelsIn \cap {Worker}
    <3>1. Backfilled(r) = NoActor
      BY <2>4 DEF Backfilled
    <3>2. NoActor \in ActorRow /\ NoActor.type = "NULL"
      BY DEF ActorRow, NoActor
    <3> QED
      BY <3>1, <3>2
  <2> QED
    BY <2>1, <2>2, <2>3, <2>4
<1> QED
  BY <1>4, <1>5, <1>6

LEMMA NormalizeStep ==
  ASSUME MigrationsInv, NormalizeIdentities
  PROVE  MigrationsInv'
<1>1. /\ rev = 2 /\ rev' = 3 /\ CanNormalize /\ HasIntegrity
      /\ actors' = [r \in Labels |-> Backfilled(r)]
      /\ tickets' = [i \in DOMAIN tickets |-> NormalizedTicket(tickets[i])]
      /\ events' = [k \in DOMAIN events |-> NormalizedEvent(events[k])]
      /\ nonempty' = FALSE /\ shape' = "typed"
      /\ UNCHANGED <<frozen, queue, downgrades, undone>>
  BY DEF NormalizeIdentities, UpgradeTo, CanNormalize
<1>2. TypeOK /\ SchemaOK /\ tickets \in Seq(TicketRow) /\ events \in Seq(EventRow)
  BY RowTypes DEF MigrationsInv
<1>3. ~ undone /\ queue = {} /\ rev' \in 3..7
  BY <1>1, <1>2 DEF SchemaOK, HasIntegrity
<1>4. \A i \in DOMAIN tickets :
        /\ tickets'[i] \in TicketRow
        /\ tickets'[i].email = "NULL" /\ tickets'[i].name = "NULL"
        /\ tickets'[i].customer = TrueCustomer(tickets[i])
        /\ tickets'[i].origin = tickets[i].origin
        /\ tickets'[i].processing = tickets[i].processing
        /\ tickets'[i].outbox = tickets[i].outbox
        /\ tickets'[i].outlived = tickets[i].outlived
  BY <1>1, <1>2, RowTypes, CustomersRead, NormalizedTicketRow
<1>5. tickets' \in Seq(TicketRow) /\ DOMAIN tickets' = DOMAIN tickets
  <2>1. tickets' = [i \in DOMAIN tickets |-> tickets'[i]]
    BY <1>1
  <2> QED
    BY <1>2, <1>4, <2>1, MappedFacts
<1>6. \A k \in DOMAIN events :
        /\ events[k] \in EventRow /\ events[k].ticket \in DOMAIN tickets
        /\ events[k].label \in Labels
        /\ events[k].kind = "CREATED" => events[k].label = Customer
        /\ events[k].who = IF events[k].label = Customer
                             THEN TrueCustomer(tickets[events[k].ticket]) ELSE events[k].label
  BY <1>1, <1>2, <1>3, RowTypes DEF MigrationsInv, LabelsAsWritten
<1>7. \A k \in DOMAIN events : CustomerOf(events[k]) = TrueCustomer(tickets[events[k].ticket])
                               /\ CustomerOf(events[k]) \in Labels
  BY <1>1, <1>6, CustomersRead DEF CustomerOf
<1>8. \A k \in DOMAIN events :
        /\ events'[k] \in EventRow
        /\ events'[k].ticket = events[k].ticket /\ events'[k].kind = events[k].kind
        /\ events'[k].who = events[k].who /\ events'[k].label = "NULL"
        /\ events'[k].actor = events[k].who
        /\ events'[k].type = TypeByLabel(events[k].label)
  <2> SUFFICES ASSUME NEW k \in DOMAIN events
               PROVE  /\ events'[k] \in EventRow
                      /\ events'[k].ticket = events[k].ticket
                      /\ events'[k].kind = events[k].kind
                      /\ events'[k].who = events[k].who /\ events'[k].label = "NULL"
                      /\ events'[k].actor = events[k].who
                      /\ events'[k].type = TypeByLabel(events[k].label)
    OBVIOUS
  <2>1. events'[k] = NormalizedEvent(events[k])
    BY <1>1
  <2> QED
    BY <1>6, <1>7, <2>1, NormalizedEventRow
<1>9. events' \in Seq(EventRow) /\ DOMAIN events' = DOMAIN events
  <2>1. events' = [k \in DOMAIN events |-> events'[k]]
    BY <1>1
  <2> QED
    BY <1>2, <1>8, <2>1, MappedFacts
<1>10. \A r \in Labels : actors'[r] = Backfilled(r)
  BY <1>1
<1>11. ActorsOK' /\ actors' \in [Labels -> ActorRow]
  BY <1>1, <1>10, Backfill DEF ActorsOK
<1>12. \A i \in DOMAIN tickets' :
         /\ tickets'[i].customer = TrueCustomer(tickets'[i])
         /\ actors'[tickets'[i].customer].type = "CUSTOMER"
         /\ actors'[tickets'[i].customer].email = Lower[tickets'[i].origin]
  BY <1>1, <1>4, <1>5, <1>10, CustomersRead, CustomersBackfilled DEF TrueCustomer
<1>13. \A k \in DOMAIN events' :
         /\ events'[k].actor = events'[k].who
         /\ events'[k].type = actors'[events'[k].actor].type
         /\ events'[k].type = ShapeByActor(events'[k].kind)
         /\ events'[k].kind = "CREATED" =>
              events'[k].who = TrueCustomer(tickets'[events'[k].ticket])
  <2> SUFFICES ASSUME NEW k \in DOMAIN events
               PROVE  /\ events'[k].actor = events'[k].who
                      /\ events'[k].type = actors'[events'[k].actor].type
                      /\ events'[k].type = ShapeByActor(events'[k].kind)
                      /\ events'[k].kind = "CREATED" =>
                           events'[k].who = TrueCustomer(tickets'[events'[k].ticket])
    BY <1>9
  <2>1. events'[k].type = ShapeByActor(events'[k].kind)
    BY <1>1, <1>8 DEF CanNormalize
  <2>2. TrueCustomer(tickets'[events[k].ticket]) = TrueCustomer(tickets[events[k].ticket])
    BY <1>4, <1>6 DEF TrueCustomer
  <2>3. events'[k].type = actors'[events[k].who].type
    <3>1. CASE events[k].label = Customer
      <4>1. events'[k].type = "CUSTOMER"
        BY <1>8, <3>1, References DEF TypeByLabel
      <4>2. events[k].who = TrueCustomer(tickets[events[k].ticket])
        BY <1>6, <3>1
      <4>3. /\ TrueCustomer(tickets[events[k].ticket]) \in Labels
            /\ Backfilled(TrueCustomer(tickets[events[k].ticket])).type = "CUSTOMER"
        BY <1>1, <1>6, CustomersRead, CustomersBackfilled
      <4> QED
        BY <1>10, <4>1, <4>2, <4>3
    <3>2. CASE events[k].label = Worker
      <4>1. events'[k].type = "SYSTEM" /\ Worker \in LabelsIn /\ events[k].who = Worker
        BY <1>6, <1>8, <3>2, References DEF TypeByLabel, LabelsIn
      <4> QED
        BY <1>1, <1>10, <4>1, Backfill, References
    <3>3. CASE events[k].label \notin {Customer, Worker}
      <4>1. /\ events'[k].type = "AGENT" /\ events[k].who = events[k].label
            /\ events[k].label \in AgentsIn
        BY <1>6, <1>8, <3>3 DEF TypeByLabel, LabelsIn, AgentsIn
      <4> QED
        BY <1>1, <1>6, <1>10, <4>1, Backfill
    <3> QED
      BY <3>1, <3>2, <3>3
  <2> QED
    BY <1>6, <1>8, <2>1, <2>2, <2>3
<1>18. \A i \in DOMAIN tickets : tickets[i].processing = "NULL" /\ tickets[i].outbox = "NULL"
  <2>1. \A i \in DOMAIN tickets : ColumnsOf(tickets[i])
    BY <1>2, RowTypes
  <2>2. ~ (rev >= 5) /\ ~ (rev >= 6)
    BY <1>1
  <2> QED
    BY <2>1, <2>2 DEF ColumnsOf
<1>14. TypeOK'
  <2>1. \A i \in DOMAIN tickets' :
          /\ tickets'[i].email # "NULL" <=> rev' \in 1..2
          /\ tickets'[i].name # "NULL" <=> rev' \in 1..2
          /\ tickets'[i].customer # "NULL" <=> rev' >= 3
          /\ tickets'[i].processing # "NULL" <=> rev' >= 5
          /\ tickets'[i].outbox # "NULL" => rev' >= 6
    <3>1. \A i \in DOMAIN tickets : TrueCustomer(tickets[i]) # "NULL"
      BY <1>1, CustomersRead, References
    <3> QED
      BY <1>1, <1>4, <1>5, <1>18, <3>1
  <2>2. \A k \in DOMAIN events' :
          /\ events'[k].ticket \in DOMAIN tickets'
          /\ events'[k].label # "NULL" <=> rev' <= 2
          /\ events'[k].actor # "NULL" <=> rev' >= 3
          /\ events'[k].type # "NULL" <=> rev' >= 3
    <3>1. \A k \in DOMAIN events : events[k].who # "NULL"
      BY <1>6, References DEF EventRow
    <3>2. \A k \in DOMAIN events : TypeByLabel(events[k].label) # "NULL"
      BY DEF TypeByLabel
    <3> SUFFICES ASSUME NEW k \in DOMAIN events
                 PROVE  /\ events'[k].ticket \in DOMAIN tickets'
                        /\ events'[k].label # "NULL" <=> rev' <= 2
                        /\ events'[k].actor # "NULL" <=> rev' >= 3
                        /\ events'[k].type # "NULL" <=> rev' >= 3
      BY <1>9
    <3>3. /\ events'[k].ticket \in DOMAIN tickets' /\ events'[k].label = "NULL"
          /\ events'[k].actor # "NULL" /\ events'[k].type # "NULL"
      BY <1>5, <1>6, <1>8, <3>1, <3>2
    <3> QED
      BY <1>1, <3>3
  <2>3. /\ rev' \in 0..7 /\ queue' \subseteq DOMAIN tickets'
        /\ nonempty' \in BOOLEAN /\ frozen' \in BOOLEAN
        /\ shape' \in {"none", "status", "typed"}
        /\ downgrades' \in 0..MaxDowngrades /\ undone' \in BOOLEAN
    <3>1. rev' = 3 /\ queue' = {} /\ shape' = "typed"
      BY <1>1, <1>3, Zenon
    <3>2. nonempty' \in BOOLEAN /\ frozen' \in BOOLEAN /\ undone' \in BOOLEAN
      BY <1>1, <1>2, OtherTypes, Zenon
    <3>3. downgrades' \in 0..MaxDowngrades
      BY <1>1, <1>2, OtherTypes
    <3> QED
      BY <3>1, <3>2, <3>3
  <2>4. \A i \in DOMAIN tickets' : ColumnsOf(tickets[i])'
    BY <2>1 DEF ColumnsOf
  <2> QED
    BY <1>5, <1>9, <1>11, <2>2, <2>3, <2>4 DEF TypeOK
<1>15. SchemaOK'
  BY <1>1, <1>2, <1>3 DEF SchemaOK
<1>16. \A i \in DOMAIN tickets : ProcessingsOf(i)' = ProcessingsOf(i) /\ ~ Waits(i)'
  BY <1>1, <1>3, <1>4, <1>8, <1>9, <1>18, SameProcessings DEF Waits
<1>17. OnlyOldMessagesRepeat' /\ WaitingFresh'
  BY <1>4, <1>5, <1>16, NoneProcessed
<1> QED
  BY <1>3, <1>11, <1>12, <1>13, <1>14, <1>15, <1>17, TypedTrailAfter DEF MigrationsInv

LEMMA DenormalizedTicketRow ==
  ASSUME NEW t \in TicketRow, actors[t.customer].email \in Emails,
         actors[t.customer].name \in Names
  PROVE  LET D == DenormalizedTicket(t) IN
         /\ D \in TicketRow
         /\ D.email = actors[t.customer].email /\ D.name = actors[t.customer].name
         /\ D.customer = "NULL" /\ D.origin = t.origin
         /\ D.processing = t.processing /\ D.outbox = t.outbox
         /\ D.outlived = t.outlived
BY DEF DenormalizedTicket, TicketRow

LEMMA DenormalizedEventRow ==
  ASSUME NEW e \in EventRow, actors[e.actor].name \in Labels \cup Names
  PROVE  LET D == DenormalizedEvent(e) IN
         /\ D \in EventRow
         /\ D.ticket = e.ticket /\ D.kind = e.kind /\ D.who = e.who
         /\ D.label = actors[e.actor].name /\ D.actor = "NULL" /\ D.type = "NULL"
BY DEF DenormalizedEvent, EventRow

LEMMA DenormalizeStep ==
  ASSUME MigrationsInv, DenormalizeIdentities
  PROVE  MigrationsInv'
<1>1. /\ rev = 3 /\ rev >= 3 /\ rev' = 2
      /\ tickets' = [i \in DOMAIN tickets |-> DenormalizedTicket(tickets[i])]
      /\ events' = [k \in DOMAIN events |-> DenormalizedEvent(events[k])]
      /\ actors' = [r \in Labels |-> NoActor]
      /\ shape' = "none" /\ undone' = TRUE
      /\ downgrades < MaxDowngrades /\ downgrades' = downgrades + 1
      /\ UNCHANGED <<nonempty, frozen, queue>>
  BY DEF DenormalizeIdentities, DowngradeTo
<1>2. TypeOK /\ SchemaOK /\ tickets \in Seq(TicketRow) /\ events \in Seq(EventRow)
  BY RowTypes DEF MigrationsInv
<1>3. \A i \in DOMAIN tickets :
        /\ tickets[i] \in TicketRow /\ tickets[i].origin \in Emails
        /\ actors[tickets[i].customer].email = Lower[tickets[i].origin]
        /\ actors[tickets[i].customer].email \in Emails
        /\ actors[tickets[i].customer].name \in Names
  <2> SUFFICES ASSUME NEW i \in DOMAIN tickets
               PROVE  /\ tickets[i] \in TicketRow /\ tickets[i].origin \in Emails
                      /\ actors[tickets[i].customer].email = Lower[tickets[i].origin]
                      /\ actors[tickets[i].customer].email \in Emails
                      /\ actors[tickets[i].customer].name \in Names
    OBVIOUS
  <2>1. tickets[i] \in TicketRow /\ tickets[i].origin \in Emails
    BY <1>2, RowTypes DEF TicketRow
  <2>2. /\ tickets[i].customer \in Labels
        /\ actors[tickets[i].customer].type = "CUSTOMER"
        /\ actors[tickets[i].customer].email = Lower[tickets[i].origin]
    BY <1>1, TypedTrail
  <2> QED
    BY <2>1, <2>2 DEF MigrationsInv, ActorsOK
<1>4. \A i \in DOMAIN tickets :
        /\ tickets'[i] \in TicketRow
        /\ tickets'[i].email = Lower[tickets[i].origin] /\ tickets'[i].email \in Emails
        /\ tickets'[i].name \in Names /\ tickets'[i].customer = "NULL"
        /\ tickets'[i].origin = tickets[i].origin
        /\ tickets'[i].processing = tickets[i].processing
        /\ tickets'[i].outbox = tickets[i].outbox
        /\ tickets'[i].outlived = tickets[i].outlived
  BY <1>1, <1>3, DenormalizedTicketRow
<1>5. tickets' \in Seq(TicketRow) /\ DOMAIN tickets' = DOMAIN tickets
  <2>1. tickets' = [i \in DOMAIN tickets |-> tickets'[i]]
    BY <1>1
  <2> QED
    BY <1>2, <1>4, <2>1, MappedFacts
<1>6. \A k \in DOMAIN events :
        /\ events[k] \in EventRow /\ events[k].ticket \in DOMAIN tickets
        /\ \/ actors[events[k].actor].name = events[k].who
           \/ /\ actors[events[k].actor].name \in Names
              /\ events[k].who = TrueCustomer(tickets[events[k].ticket])
        /\ actors[events[k].actor].name \in Labels \cup Names
  <2> SUFFICES ASSUME NEW k \in DOMAIN events
               PROVE  /\ events[k] \in EventRow /\ events[k].ticket \in DOMAIN tickets
                      /\ \/ actors[events[k].actor].name = events[k].who
                         \/ /\ actors[events[k].actor].name \in Names
                            /\ events[k].who = TrueCustomer(tickets[events[k].ticket])
                      /\ actors[events[k].actor].name \in Labels \cup Names
    OBVIOUS
  <2>1. /\ events[k] \in EventRow /\ events[k].ticket \in DOMAIN tickets
        /\ events[k].kind \in {"CREATED", "STATUS_CHANGED", "AUTO_PROCESSED"}
    BY <1>2, RowTypes DEF EventRow
  <2>2. /\ events[k].actor = events[k].who /\ events[k].actor \in Labels
        /\ actors[events[k].actor].type = ShapeByActor(events[k].kind)
        /\ events[k].kind = "CREATED" =>
             events[k].who = TrueCustomer(tickets[events[k].ticket])
    BY <1>1, TypedTrail
  <2>3. CASE events[k].kind = "CREATED"
    <3>1. actors[events[k].actor].type = "CUSTOMER"
      BY <2>2, <2>3 DEF ShapeByActor
    <3> QED
      BY <2>1, <2>2, <2>3, <3>1 DEF MigrationsInv, ActorsOK
  <2>4. CASE events[k].kind \in {"STATUS_CHANGED", "AUTO_PROCESSED"}
    <3>1. actors[events[k].actor].type \in {"AGENT", "SYSTEM"}
      BY <2>2, <2>4 DEF ShapeByActor
    <3> QED
      BY <2>1, <2>2, <3>1 DEF MigrationsInv, ActorsOK
  <2> QED
    BY <2>1, <2>3, <2>4
<1>7. \A k \in DOMAIN events :
        /\ events'[k] \in EventRow
        /\ events'[k].ticket = events[k].ticket /\ events'[k].kind = events[k].kind
        /\ events'[k].who = events[k].who
        /\ events'[k].label = actors[events[k].actor].name
        /\ events'[k].actor = "NULL" /\ events'[k].type = "NULL"
  BY <1>1, <1>6, DenormalizedEventRow
<1>8. events' \in Seq(EventRow) /\ DOMAIN events' = DOMAIN events
  <2>1. events' = [k \in DOMAIN events |-> events'[k]]
    BY <1>1
  <2> QED
    BY <1>2, <1>7, <2>1, MappedFacts
<1>9. /\ NoActor \in ActorRow /\ NoActor.type = "NULL"
      /\ \A r \in Labels : actors'[r] = NoActor
      /\ actors' \in [Labels -> ActorRow]
  BY <1>1 DEF NoActor, ActorRow
<1>10. ActorsOK'
  BY <1>9 DEF ActorsOK
<1>11. rev' <= 2 /\ undone'
  BY <1>1
<1>12. IdentityKept'
  BY <1>3, <1>4, <1>5, <1>11, References DEF IdentityKept
<1>13. LabelsAsWritten'
  BY <1>11 DEF LabelsAsWritten
<1>14. EventsKeepTheirActor'
  <2>1. \A k \in DOMAIN events' :
          \/ events'[k].label = events'[k].who
          \/ /\ events'[k].label \in {Customer} \cup Names
             /\ events'[k].who = TrueCustomer(tickets'[events'[k].ticket])
    <3>1. \A k \in DOMAIN events :
            TrueCustomer(tickets'[events[k].ticket]) = TrueCustomer(tickets[events[k].ticket])
      BY <1>4, <1>6 DEF TrueCustomer
    <3> QED
      BY <1>6, <1>7, <1>8, <3>1
  <2> QED
    BY <2>1, <1>11 DEF EventsKeepTheirActor, TrueCustomer
<1>15. \A i \in DOMAIN tickets : ProcessingsOf(i)' = ProcessingsOf(i) /\ ~ Waits(i)'
  BY <1>7, <1>8, <1>11, SameProcessings DEF Waits
<1>16. \A i \in DOMAIN tickets : tickets[i].processing = "NULL" /\ tickets[i].outbox = "NULL"
  <2>1. \A i \in DOMAIN tickets : ColumnsOf(tickets[i])
    BY <1>2, RowTypes
  <2>2. ~ (rev >= 5) /\ ~ (rev >= 6)
    BY <1>1
  <2> QED
    BY <2>1, <2>2 DEF ColumnsOf
<1>17. OnlyOldMessagesRepeat' /\ WaitingFresh'
  BY <1>4, <1>5, <1>15, NoneProcessed
<1>18. SchemaOK'
  <2>1. ~ frozen
    BY <1>1, <1>2 DEF SchemaOK
  <2> QED
    BY <1>1, <1>11, <2>1 DEF SchemaOK
<1>19. TypeOK'
  <2>1. \A i \in DOMAIN tickets' :
          /\ tickets'[i].email # "NULL" <=> rev' \in 1..2
          /\ tickets'[i].name # "NULL" <=> rev' \in 1..2
          /\ tickets'[i].customer # "NULL" <=> rev' >= 3
          /\ tickets'[i].processing # "NULL" <=> rev' >= 5
          /\ tickets'[i].outbox # "NULL" => rev' >= 6
    BY <1>1, <1>4, <1>5, <1>16, References
  <2>2. \A k \in DOMAIN events' :
          /\ events'[k].ticket \in DOMAIN tickets'
          /\ events'[k].label # "NULL" <=> rev' <= 2
          /\ events'[k].actor # "NULL" <=> rev' >= 3
          /\ events'[k].type # "NULL" <=> rev' >= 3
    BY <1>1, <1>5, <1>6, <1>7, <1>8, References
  <2>3. queue' \subseteq DOMAIN tickets' /\ downgrades' \in 0..MaxDowngrades
    BY <1>1, <1>2, <1>5, MigrationsAssumption DEF TypeOK
  <2> QED
    BY <1>1, <1>2, <1>5, <1>8, <1>9, <2>1, <2>2, <2>3 DEF TypeOK, ColumnsOf
<1> QED
  BY <1>10, <1>12, <1>13, <1>14, <1>17, <1>18, <1>19 DEF MigrationsInv

-----------------------------------------------------------------------------
(***************************************************************************)
(* The theorems.                                                           *)
(***************************************************************************)
LEMMA MigrationsInit == Init => MigrationsInv
<1> SUFFICES ASSUME Init PROVE MigrationsInv
  OBVIOUS
<1>1. DOMAIN tickets = {} /\ DOMAIN events = {}
  BY DEF Init
<1>2. tickets \in Seq(TicketRow) /\ events \in Seq(EventRow)
  BY DEF Init
<1>3. NoActor \in ActorRow /\ NoActor.type = "NULL"
  BY DEF NoActor, ActorRow
<1>4. TypeOK
  <2>1. actors \in [Labels -> ActorRow] /\ downgrades \in 0..MaxDowngrades
    BY <1>3, MigrationsAssumption DEF Init
  <2>2. /\ rev \in 0..7 /\ shape \in {"none", "status", "typed"}
        /\ queue \subseteq DOMAIN tickets
    BY DEF Init
  <2>3. nonempty \in BOOLEAN
    BY DEF Init
  <2>4. frozen \in BOOLEAN
    BY DEF Init
  <2>5. undone \in BOOLEAN
    BY DEF Init
  <2> QED
    BY <1>1, <1>2, <2>1, <2>2, <2>3, <2>4, <2>5 DEF TypeOK
<1>5. SchemaOK /\ ActorsOK
  BY <1>3 DEF Init, SchemaOK, ActorsOK
<1>6. LabelsAsWritten /\ IdentityKept /\ EventsKeepTheirActor
  BY <1>1 DEF Init, LabelsAsWritten, IdentityKept, EventsKeepTheirActor
<1>7. OnlyOldMessagesRepeat /\ WaitingFresh
  BY <1>1 DEF OnlyOldMessagesRepeat, WaitingFresh
<1> QED
  BY <1>4, <1>5, <1>6, <1>7 DEF MigrationsInv

LEMMA MigrationsNext == MigrationsInv /\ [Next]_vars => MigrationsInv'
<1> SUFFICES ASSUME MigrationsInv, [Next]_vars PROVE MigrationsInv'
  OBVIOUS
<1>1. CASE UNCHANGED vars
  <2>1. UNCHANGED <<rev, tickets, events, actors, nonempty, shape, frozen, queue, downgrades,
                    undone>>
    BY <1>1 DEF vars, schema
  <2> QED
    BY <2>1 DEF MigrationsInv, TypeOK, ColumnsOf, SchemaOK, ActorsOK, LabelsAsWritten,
                IdentityKept, EventsKeepTheirActor, OnlyOldMessagesRepeat, WaitingFresh,
                Waits, ProcessingsOf
<1>2. CASE InitialSchema \/ DropInitialSchema \/ AddIntegrity \/ DropIntegrity
  BY <1>2, EarlySteps
<1>3. CASE NormalizeIdentities \/ DenormalizeIdentities
  BY <1>3, NormalizeStep, DenormalizeStep
<1>4. CASE Late
  BY <1>4, LateStep
<1>5. CASE \E email \in Emails, name \in Names :
             \/ \E fits \in BOOLEAN : OldCreate(email, name, fits)
             \/ Create(email, name)
  BY <1>5, OldCreateStep, CreateStep
<1>6. CASE \E i \in DOMAIN tickets :
             \/ \E label \in ShortLabels, kind \in {"STATUS_CHANGED", "AUTO_PROCESSED"} :
                  OldEvent(i, kind, label)
             \/ \E reference \in ShortLabels : UpdateStatus(i, reference)
             \/ Publish(i) \/ Process(i) \/ SeedProcesses(i)
  <2>1. ShortLabels \subseteq Labels
    BY DEF ShortLabels
  <2> QED
    BY <1>6, <2>1, OldEventStep, UpdateStatusStep, PublishStep, ProcessStep, SeedProcessesStep
<1> QED
  BY <1>1, <1>2, <1>3, <1>4, <1>5, <1>6 DEF Next, Upgrade, Downgrade, Late

\* Whatever the order of migrations and writers, the strengthened invariant holds.
THEOREM MigrationsInvariant == Spec => []MigrationsInv
BY MigrationsInit, MigrationsNext, PTL DEF Spec

(***************************************************************************)
(* At every revision the rows have its columns and no other.               *)
(***************************************************************************)
THEOREM TypeCorrect == Spec => []TypeOK
<1>1. MigrationsInv => TypeOK
  BY DEF MigrationsInv
<1> QED
  BY <1>1, MigrationsInvariant, PTL

(***************************************************************************)
(* No migration and no writer gives a ticket to another customer.          *)
(***************************************************************************)
THEOREM CustomersKept == Spec => []IdentityKept
<1>1. MigrationsInv => IdentityKept
  BY DEF MigrationsInv
<1> QED
  BY <1>1, MigrationsInvariant, PTL

(***************************************************************************)
(* The audit trail goes on naming whoever caused an event.                 *)
(***************************************************************************)
THEOREM TrailKept == Spec => []EventsKeepTheirActor
<1>1. MigrationsInv => EventsKeepTheirActor
  BY DEF MigrationsInv
<1> QED
  BY <1>1, MigrationsInvariant, PTL

(***************************************************************************)
(* A ticket is processed once, and once more at most for each downgrade of *)
(* 0005 that one of its messages has outlived in Redis: by the worker,     *)
(* however often its messages are delivered, or by the seed.               *)
(***************************************************************************)
THEOREM ProcessedOncePerDowngrade == Spec => []OnlyOldMessagesRepeat
<1>1. MigrationsInv => OnlyOldMessagesRepeat
  BY DEF MigrationsInv
<1> QED
  BY <1>1, MigrationsInvariant, PTL

\* The customer whom the downgrade of 0003 reads, and the checks that it puts back.
LEMMA BackExactlyIf ==
  ASSUME MigrationsInv, rev = 3
  PROVE  CanDenormalize <=>
           \A i \in DOMAIN tickets :
             /\ actors[TrueCustomer(tickets[i])].name \notin ShortNames
             /\ tickets[i].origin \notin OddEmails
<1>1. shape # "none" /\ ~ frozen
  BY DEF MigrationsInv, SchemaOK
<1>2. \A i \in DOMAIN tickets :
        /\ tickets[i].customer = TrueCustomer(tickets[i])
        /\ actors[tickets[i].customer].email = Lower[tickets[i].origin]
  BY TypedTrail
<1>3. \A i \in DOMAIN tickets : tickets[i].origin \in Emails
  BY RowTypes DEF MigrationsInv, TicketRow
<1>4. \A e \in Emails : Lower[e] \in OddEmails <=> e \in OddEmails
  BY MigrationsAssumption
<1> QED
  BY <1>1, <1>2, <1>3, <1>4 DEF CanDenormalize

\* A label has the type that the kind of its event asks for, unless a client has taken a
\* name that is not his.
LEMMA NamesNotTaken ==
  ASSUME MigrationsInv, rev = 2, ~ undone
  PROVE  /\ CustomersIn \cap AgentsIn = {}
         /\ \A k \in DOMAIN events : TypeByLabel(events[k].label) = ShapeByActor(events[k].kind)
         <=> \A k \in DOMAIN events : ~ NameTaken(events[k])
<1> DEFINE Foreign == {Worker} \cup {TrueCustomer(tickets[i]) : i \in DOMAIN tickets}
<1>1. CustomersIn = {TrueCustomer(tickets[i]) : i \in DOMAIN tickets}
  BY CustomersRead DEF CustomersIn
<1>2. \A k \in DOMAIN events :
        /\ events[k].kind \in {"CREATED", "STATUS_CHANGED", "AUTO_PROCESSED"}
        /\ events[k].ticket \in DOMAIN tickets
  BY RowTypes DEF MigrationsInv, EventRow
<1>3. \A k \in DOMAIN events :
        /\ events[k].label \in Labels
        /\ events[k].kind = "CREATED" => events[k].label = Customer
        /\ events[k].kind = "AUTO_PROCESSED" => events[k].label = Worker
        /\ events[k].who = IF events[k].label = Customer
                             THEN TrueCustomer(tickets[events[k].ticket])
                             ELSE events[k].label
  BY DEF MigrationsInv, LabelsAsWritten
<1>4. ASSUME CustomersIn \cap AgentsIn = {}, NEW k \in DOMAIN events,
             TypeByLabel(events[k].label) = ShapeByActor(events[k].kind)
      PROVE  ~ NameTaken(events[k])
  <2> SUFFICES ASSUME events[k].kind = "STATUS_CHANGED" PROVE events[k].who \notin Foreign
    BY DEF NameTaken
  <2>1. TypeByLabel(events[k].label) = "AGENT"
    BY <1>4 DEF ShapeByActor
  <2>2. events[k].label # Customer /\ events[k].label # Worker
    BY <2>1, References DEF TypeByLabel
  <2>3. events[k].label \in AgentsIn /\ events[k].who = events[k].label
    BY <1>3, <2>2 DEF AgentsIn, LabelsIn
  <2> QED
    BY <1>1, <1>4, <2>2, <2>3
<1>5. ASSUME NEW k \in DOMAIN events, ~ NameTaken(events[k])
      PROVE  TypeByLabel(events[k].label) = ShapeByActor(events[k].kind)
  <2>1. CASE events[k].kind = "CREATED"
    BY <1>3, <2>1, References DEF TypeByLabel, ShapeByActor
  <2>2. CASE events[k].kind = "AUTO_PROCESSED"
    BY <1>3, <2>2, References DEF TypeByLabel, ShapeByActor
  <2>3. CASE events[k].kind = "STATUS_CHANGED"
    <3>1. events[k].who \notin Foreign
      BY <1>5, <2>3 DEF NameTaken
    <3>2. events[k].label # Customer /\ events[k].label # Worker
      BY <1>2, <1>3, <3>1, References
    <3> QED
      BY <2>3, <3>2 DEF TypeByLabel, ShapeByActor
  <2> QED
    BY <1>2, <2>1, <2>2, <2>3
<1>6. ASSUME \A k \in DOMAIN events : ~ NameTaken(events[k])
      PROVE  CustomersIn \cap AgentsIn = {}
  <2> SUFFICES ASSUME NEW k \in DOMAIN events, events[k].label \in AgentsIn
               PROVE  events[k].label \notin CustomersIn
    BY DEF AgentsIn, LabelsIn
  <2>1. events[k].label # Customer /\ events[k].label # Worker
    BY DEF AgentsIn
  <2>2. events[k].kind = "STATUS_CHANGED" /\ events[k].who = events[k].label
    BY <1>2, <1>3, <2>1
  <2>3. events[k].who \notin Foreign
    BY <1>6, <2>2 DEF NameTaken
  <2> QED
    BY <1>1, <2>2, <2>3
<1> QED
  BY <1>4, <1>5, <1>6

(***************************************************************************)
(* 0003 goes through exactly if no name is taken and every reference fits, *)
(* and back exactly if the old checks hold of every customer; no trigger   *)
(* and no check that is still there stops another migration, and the       *)
(* downgrade of 0003 is a dead end.                                        *)
(***************************************************************************)
THEOREM FailuresKnown == Spec => []WhereMigrationsFail
<1>1. ASSUME MigrationsInv PROVE WhereMigrationsFail
  <2>1. undone => rev = 2 /\ ~ CanNormalize /\ ~ HasIntegrity
    BY <1>1 DEF MigrationsInv, SchemaOK, HasIntegrity, CanNormalize
  <2>2. frozen <=> rev >= 4
    BY <1>1 DEF MigrationsInv, SchemaOK
  <2>3. rev = 3 =>
          (CanDenormalize <=>
             \A i \in DOMAIN tickets :
               /\ actors[TrueCustomer(tickets[i])].name \notin ShortNames
               /\ tickets[i].origin \notin OddEmails)
    BY <1>1, BackExactlyIf
  <2>4. ASSUME rev = 2, ~ undone
        PROVE  /\ HasIntegrity
               /\ CanNormalize <=> /\ \A k \in DOMAIN events : ~ NameTaken(events[k])
                                   /\ \A i \in DOMAIN tickets : tickets[i].origin \notin LongEmails
    <3>1. HasIntegrity /\ ~ frozen
      BY <1>1, <2>4 DEF MigrationsInv, SchemaOK, HasIntegrity
    <3>2. \A i \in DOMAIN tickets :
            AddressOf(tickets[i]) \notin LongEmails <=> tickets[i].origin \notin LongEmails
      <4> SUFFICES ASSUME NEW i \in DOMAIN tickets
                   PROVE  AddressOf(tickets[i]) \notin LongEmails
                            <=> tickets[i].origin \notin LongEmails
        OBVIOUS
      <4>1. AddressOf(tickets[i]) = Lower[tickets[i].origin]
        BY <1>1, <2>4 DEF AddressOf, MigrationsInv, IdentityKept
      <4>2. tickets[i].origin \in Emails
        BY <1>1, RowTypes DEF MigrationsInv, TicketRow
      <4> QED
        BY <4>1, <4>2, MigrationsAssumption
    <3> DEFINE Free == \A k \in DOMAIN events : ~ NameTaken(events[k])
               Fit == \A i \in DOMAIN tickets : tickets[i].origin \notin LongEmails
    <3>3. CanNormalize <=>
            /\ \A i \in DOMAIN tickets : AddressOf(tickets[i]) \notin LongEmails
            /\ CustomersIn \cap AgentsIn = {}
            /\ \A k \in DOMAIN events :
                 TypeByLabel(events[k].label) = ShapeByActor(events[k].kind)
      BY <3>1, Zenon DEF CanNormalize
    <3>4. (\A i \in DOMAIN tickets : AddressOf(tickets[i]) \notin LongEmails) <=> Fit
      BY <3>2
    <3>5. /\ CustomersIn \cap AgentsIn = {}
          /\ \A k \in DOMAIN events : TypeByLabel(events[k].label) = ShapeByActor(events[k].kind)
          <=> Free
      BY <1>1, <2>4, NamesNotTaken
    <3> QED
      BY <3>1, <3>3, <3>4, <3>5, Zenon
  <2> QED
    BY <2>1, <2>2, <2>3, <2>4, Zenon DEF WhereMigrationsFail
<1> QED
  BY <1>1, MigrationsInvariant, PTL
=============================================================================
