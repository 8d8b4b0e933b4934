--------------------------- MODULE DeliveryProofs ---------------------------
(***************************************************************************)
(* The outbox, the queue and the retries of Processing lose nothing.  This *)
(* is argued for the faults that leave a ticket its message or its worker: *)
(* relays that die, publications that raise, messages handed out twice and *)
(* errors of complete, any number of each.                                 *)
(***************************************************************************)
EXTENDS ProcessingProofs

Lethal == {"begin", "worker", "fail", "retry"}

OnlyRecoverable == \A b \in Budgets : \A k \in Lethal : b[k] = 0

\* A message or a worker still brings a claim to the ticket.
Carried(t) ==
  \/ \E m \in BagToSet(queue) : m.ticket = t
  \/ \E w \in Workers : pc[w] \in {"begin", "retry"} /\ Ticket(w) = t

\* The rows a relay has published without a commit are no safer than committed ones:
\* what they must have by the commit they have from the publication on.
Announced(t) == outbox[t] # "PENDING" \/ \E r \in Relays : t \in sent[r]

Delivers(t) ==
  /\ row[t].status = "ABSENT" =>
       outbox[t] = "ABSENT" /\ \A r \in Relays : t \notin todo[r] \cup sent[r]
  /\ row[t].status = "PENDING" /\ Announced(t) => Carried(t)
  /\ row[t].status = "PROCESSING" => \E w \in Workers : Engaged(w) /\ Ticket(w) = t

DeliveryInv ==
  /\ SafeInv
  /\ \A k \in Lethal : faults[k] = 0
  /\ \A t \in Tickets : Delivers(t)

-----------------------------------------------------------------------------
LEMMA PutKeeps ==
  ASSUME NEW B, IsABag(B), NEW m
  PROVE  /\ m \in BagToSet(B (+) SetToBag({m}))
         /\ BagToSet(B) \subseteq BagToSet(B (+) SetToBag({m}))
BY DEF IsABag, BagToSet, SetToBag, (+)

LEMMA TakeKeeps ==
  ASSUME NEW B, IsABag(B), NEW m
  PROVE  BagToSet(B) \ {m} \subseteq BagToSet(B (-) SetToBag({m}))
BY DEF IsABag, BagToSet, SetToBag, (-)

LEMMA DeliveryInit == OnlyRecoverable /\ Init => DeliveryInv
<1> SUFFICES ASSUME OnlyRecoverable, Init PROVE DeliveryInv
  OBVIOUS
<1>1. NoBeginErrors
  BY DEF OnlyRecoverable, NoBeginErrors, Lethal
<1>2. SafeInv
  BY <1>1, SafeInit
<1>3. \A k \in Lethal : faults[k] = 0
  BY DEF OnlyRecoverable, Init
<1>4. \A t \in Tickets : Delivers(t)
  BY DEF Init, NoRow, Delivers
<1> QED
  BY <1>2, <1>3, <1>4 DEF DeliveryInv

-----------------------------------------------------------------------------
(***************************************************************************)
(* The relay and the creation of tickets: rows and workers stay, messages  *)
(* are only added.                                                         *)
(***************************************************************************)
LEMMA QuietDelivers ==
  ASSUME NEW t \in Tickets, Delivers(t), UNCHANGED <<row, worker>>,
         BagToSet(queue) \subseteq BagToSet(queue'),
         row[t].status = "ABSENT" =>
           outbox'[t] = "ABSENT" /\ \A r \in Relays : t \notin todo'[r] \cup sent'[r],
         row[t].status = "PENDING" /\ Announced(t)' => Announced(t) \/ Carried(t)'
  PROVE  Delivers(t)'
<1>1. Carried(t) => Carried(t)'
  BY DEF Carried, Ticket, worker
<1>2. row[t].status = "PROCESSING" => \E w \in Workers : Engaged(w)' /\ Ticket(w)' = t
  BY DEF Delivers, Engaged, Ticket, worker
<1> QED
  BY <1>1, <1>2 DEF Delivers

LEMMA EnqueueCarries ==
  ASSUME TypeOK, NEW t \in Tickets, Enqueue(t)
  PROVE  Carried(t)' /\ BagToSet(queue) \subseteq BagToSet(queue')
<1> DEFINE m == [ticket |-> t, task |-> published[t] + 1, retries |-> 0]
<1>1. queue' = queue (+) SetToBag({m}) /\ m.ticket = t
  BY DEF Enqueue
<1> HIDE DEF m
<1> QED
  BY <1>1, PutKeeps DEF TypeOK, Carried

LEMMA RelayDelivers ==
  ASSUME DeliveryInv, NEW r \in Relays, RelayStep(r) \/ RelayFault(r), NEW t \in Tickets
  PROVE  Delivers(t)'
<1>1. TypeOK /\ Delivers(t)
  BY DEF DeliveryInv, SafeInv, TypeInv
<1>2. UNCHANGED <<row, worker>>
  BY RelayQuiet DEF RowsUnchanged
<1>3. CASE RelaySelect(r)
  <2>1. /\ todo'[r] \subseteq PendingOutbox /\ UNCHANGED <<outbox, queue, sent>>
        /\ \A q \in Relays \ {r} : todo'[q] = todo[q]
    BY <1>1, <1>3 DEF RelaySelect, broker, TypeOK
  <2> QED
    BY <1>1, <1>2, <2>1, QuietDelivers DEF Delivers, Announced, PendingOutbox
<1>4. ASSUME NEW u \in Tickets, RelayPublish(r, u) PROVE Delivers(t)'
  <2>1. /\ u \in todo[r] /\ UNCHANGED outbox
        /\ todo'[r] \subseteq todo[r] /\ sent'[r] = sent[r] \cup {u}
        /\ \A q \in Relays \ {r} : todo'[q] = todo[q] /\ sent'[q] = sent[q]
    BY <1>1, <1>4 DEF RelayPublish, TypeOK
  <2>2. Carried(u)' /\ BagToSet(queue) \subseteq BagToSet(queue')
    BY <1>1, <1>4, EnqueueCarries DEF RelayPublish
  <2>3. row[t].status = "ABSENT" =>
          outbox'[t] = "ABSENT" /\ \A q \in Relays : t \notin todo'[q] \cup sent'[q]
    BY <1>1, <2>1 DEF Delivers
  <2>4. Announced(t)' => Announced(t) \/ Carried(t)'
    BY <2>1, <2>2 DEF Announced
  <2> QED
    BY <1>1, <1>2, <2>2, <2>3, <2>4, QuietDelivers
<1>5. CASE RelayCommit(r)
  <2>1. /\ todo'[r] = {} /\ sent'[r] = {} /\ UNCHANGED queue
        /\ \A q \in Relays \ {r} : todo'[q] = todo[q] /\ sent'[q] = sent[q]
        /\ outbox'[t] = IF t \in sent[r] THEN "PUBLISHED" ELSE outbox[t]
    BY <1>1, <1>5 DEF RelayCommit, RelayEnds, MarkedPublished, broker, TypeOK
  <2>2. row[t].status = "ABSENT" =>
          outbox'[t] = "ABSENT" /\ \A q \in Relays : t \notin todo'[q] \cup sent'[q]
    BY <1>1, <2>1 DEF Delivers
  <2>3. Announced(t)' => Announced(t)
    BY <2>1 DEF Announced
  <2> QED
    BY <1>1, <1>2, <2>1, <2>2, <2>3, QuietDelivers
<1>6. ASSUME NEW u \in Tickets, RelayPublishRaises(r, u) PROVE Delivers(t)'
  <2>1. UNCHANGED <<outbox, sent>> /\ \A q \in Relays : todo'[q] \subseteq todo[q]
    BY <1>1, <1>6 DEF RelayPublishRaises, TypeOK
  <2>2. BagToSet(queue) \subseteq BagToSet(queue')
    BY <1>1, <1>6, EnqueueCarries DEF RelayPublishRaises, broker
  <2> QED
    BY <1>1, <1>2, <2>1, <2>2, QuietDelivers DEF Delivers, Announced
<1>7. CASE RelayDies(r)
  <2>1. /\ UNCHANGED <<outbox, queue>>
        /\ \A q \in Relays : todo'[q] \subseteq todo[q] /\ sent'[q] \subseteq sent[q]
    BY <1>1, <1>7 DEF RelayDies, RelayEnds, broker, TypeOK
  <2> QED
    BY <1>1, <1>2, <2>1, QuietDelivers DEF Delivers, Announced
<1> QED
  BY <1>3, <1>4, <1>5, <1>6, <1>7 DEF RelayStep, RelayFault

LEMMA CreateDelivers ==
  ASSUME DeliveryInv, NEW u \in Tickets, CreateTicket(u), NEW t \in Tickets
  PROVE  Delivers(t)'
<1>1. TypeOK /\ Delivers(t)
  BY DEF DeliveryInv, SafeInv, TypeInv
<1>2. UNCHANGED <<queue, todo, sent, worker>>
  BY DEF CreateTicket, broker, relay
<1>3. CASE t = u
  <2>1. row[t].status = "ABSENT" /\ row'[t].status = "PENDING" /\ outbox'[t] = "PENDING"
    BY <1>1, <1>3 DEF CreateTicket, NoRow, TypeOK
  <2>2. ~ Announced(t)'
    BY <1>1, <1>2, <2>1 DEF Delivers, Announced
  <2> QED
    BY <2>1, <2>2 DEF Delivers
<1>4. CASE t # u
  <2>1. row'[t] = row[t] /\ outbox'[t] = outbox[t]
    BY <1>1, <1>4 DEF CreateTicket, TypeOK
  <2>2. Carried(t)' = Carried(t)
    BY <1>2 DEF Carried, Ticket, worker
  <2>3. \A w \in Workers : Engaged(w)' = Engaged(w) /\ Ticket(w)' = Ticket(w)
    BY <1>2 DEF Engaged, Ticket, worker
  <2> QED
    BY <1>1, <1>2, <2>1, <2>2, <2>3 DEF Delivers, Announced
<1> QED
  BY <1>3, <1>4

-----------------------------------------------------------------------------
(***************************************************************************)
(* The workers.  A step of a worker is about one ticket T.  It leaves what *)
(* carries the others alone, and ends with T waiting and carried, claimed  *)
(* by this worker or as before by another one, or settled.                 *)
(***************************************************************************)
Serves(w, T) ==
  /\ Others(w)
  /\ UNCHANGED <<outbox, todo, sent>>
  /\ pc[w] # "idle" => Ticket(w) = T
  /\ \A t \in Tickets \ {T} : row'[t] = row[t]
  /\ \A m \in BagToSet(queue) : m.ticket # T => m \in BagToSet(queue')
  /\ row'[T].status = "ABSENT" => row[T].status = "ABSENT"
  /\ row'[T].status = "PENDING" => Carried(T)'
  /\ row'[T].status = "PROCESSING" =>
       \/ Engaged(w)' /\ Ticket(w)' = T
       \/ ~ Engaged(w) /\ row'[T].status = row[T].status

LEMMA ServingDelivers ==
  ASSUME \A t \in Tickets : Delivers(t), NEW w \in Workers, NEW T \in Tickets, Serves(w, T),
         NEW t \in Tickets
  PROVE  Delivers(t)'
<1>1. \A v \in Workers \ {w} :
        Engaged(v)' = Engaged(v) /\ Ticket(v)' = Ticket(v) /\ pc'[v] = pc[v]
  BY DEF Serves, Others, Engaged, Ticket
<1>2. Announced(t)' = Announced(t)
  BY DEF Serves, Announced
<1>3. CASE t = T
  <2>1. row'[t].status = "PROCESSING" => \E v \in Workers : Engaged(v)' /\ Ticket(v)' = t
    BY <1>1, <1>3 DEF Serves, Delivers
  <2>2. row'[t].status = "ABSENT" =>
          outbox'[t] = "ABSENT" /\ \A r \in Relays : t \notin todo'[r] \cup sent'[r]
    BY <1>3 DEF Serves, Delivers
  <2>3. row'[t].status = "PENDING" => Carried(t)'
    BY <1>3 DEF Serves
  <2> QED
    BY <2>1, <2>2, <2>3 DEF Delivers
<1>4. CASE t # T
  <2>1. row'[t] = row[t] /\ UNCHANGED <<outbox, todo, sent>>
    BY <1>4 DEF Serves
  <2>2. Carried(t) => Carried(t)'
    <3>1. \A v \in Workers : pc[v] \in {"begin", "retry"} /\ Ticket(v) = t => v # w
      BY <1>4 DEF Serves
    <3>2. \A m \in BagToSet(queue) : m.ticket = t => m \in BagToSet(queue')
      BY <1>4 DEF Serves
    <3> QED
      BY <1>1, <3>1, <3>2 DEF Carried
  <2>3. \A v \in Workers : Engaged(v) /\ Ticket(v) = t => v # w
    BY <1>4 DEF Serves, Engaged
  <2> QED
    BY <1>1, <1>2, <2>1, <2>2, <2>3 DEF Delivers
<1> QED
  BY <1>3, <1>4

\* What the ownership says of an engaged worker and its row.
LEMMA EngagedRow ==
  ASSUME DeliveryInv, NEW w \in Workers, Engaged(w)
  PROVE  /\ row[Ticket(w)].status = "PROCESSING" \/ row[Ticket(w)].status = "COMPLETED"
         /\ pc[w] # "fail" => row[Ticket(w)].status = "PROCESSING" /\ Owned(w)
         /\ pc[w] = "fail" /\ ~ FailApplies(w) => row[Ticket(w)].status = "COMPLETED"
BY EngagedFacts DEF DeliveryInv, Owns, Owned, FailApplies

\* A step that writes no row, and takes no message of another ticket.
LEMMA QuietServes ==
  ASSUME NEW w \in Workers, NEW T \in Tickets, Others(w), UNCHANGED <<row, outbox, relay>>,
         pc[w] # "idle" => Ticket(w) = T,
         \A m \in BagToSet(queue) : m.ticket # T => m \in BagToSet(queue'),
         row[T].status = "PENDING" => Carried(T)',
         row[T].status = "PROCESSING" => (Engaged(w)' /\ Ticket(w)' = T) \/ ~ Engaged(w)
  PROVE  Serves(w, T)
BY DEF Serves, relay

LEMMA TakeServes ==
  ASSUME DeliveryInv, NEW w \in Workers, NEW m \in BagToSet(queue), Take(w, m),
         \A n \in BagToSet(queue) : n.ticket # m.ticket => n \in BagToSet(queue')
  PROVE  m.ticket \in Tickets /\ Serves(w, m.ticket)
<1>1. m.ticket \in Tickets
  BY DEF DeliveryInv, SafeInv, TypeInv, TypeOK, Message
<1>2. pc'[w] = "begin" /\ job'[w] = m /\ Others(w) /\ pc[w] = "idle"
  BY DEF Take, Others, DeliveryInv, SafeInv, TypeInv, TypeOK
<1>3. Carried(m.ticket)' /\ ~ Engaged(w)
  BY <1>2 DEF Carried, Ticket, Engaged
<1>4. UNCHANGED <<row, outbox, relay>>
  BY DEF Take, database
<1> QED
  BY <1>1, <1>2, <1>3, <1>4, QuietServes

LEMMA WorkerServes ==
  ASSUME DeliveryInv, NEW w \in Workers, WorkerStep(w) \/ WorkerFault(w)
  PROVE  \E T \in Tickets : Serves(w, T)
<1>t. TypeOK /\ SafeInv /\ IsABag(queue)
  BY DEF DeliveryInv, SafeInv, TypeInv, TypeOK
<1>1. ASSUME NEW m \in BagToSet(queue), Receive(w, m) \/ Redeliver(w, m)
      PROVE  \E T \in Tickets : Serves(w, T)
  <2>1. BagToSet(queue) \ {m} \subseteq BagToSet(queue')
    BY <1>1, <1>t, TakeKeeps DEF Receive, Redeliver
  <2>2. Take(w, m)
    BY <1>1 DEF Receive, Redeliver
  <2> QED
    BY <2>1, <2>2, TakeServes
\* Only a worker that is idle takes a message; the other steps are about the one it has.
<1>2. ASSUME pc[w] # "idle", Serves(w, Ticket(w)) PROVE \E T \in Tickets : Serves(w, T)
  BY <1>2, <1>t, JobType
<1>3. CASE Claim(w)
  <2>1. /\ pc[w] = "begin" /\ Claimable(Ticket(w)) /\ row' = Claimed(w)
        /\ triaged' = triaged /\ deadLetters' = deadLetters /\ Goto(w, "complete")
        /\ UNCHANGED <<outbox, queue, todo, sent>>
    BY <1>3 DEF Claim, broker, relay
  <2>2. PICK T : T = Ticket(w)
    OBVIOUS
  <2>3. row'[T].status = "PROCESSING" /\ \A t \in Tickets \ {T} : row'[t] = row[t]
    BY <1>t, <2>1, <2>2, ClaimEffect
  <2>4. Others(w) /\ Engaged(w)' /\ Ticket(w)' = T
    BY <1>t, <2>1, <2>2, GotoOthers DEF Engaged, Ticket
  <2> QED
    BY <1>2, <2>1, <2>2, <2>3, <2>4 DEF Serves
<1>4. CASE SkipClaim(w)
  <2>1. /\ pc[w] = "begin" /\ row[Ticket(w)].status # "PENDING"
        /\ UNCHANGED <<row, outbox, queue, relay>> /\ Finish(w)
    BY <1>4 DEF SkipClaim, Claimable, database, broker
  <2>2. ~ Engaged(w) /\ Others(w)
    BY <1>t, <2>1, FinishOthers DEF Engaged
  <2> QED
    BY <1>2, <1>t, <2>1, <2>2, JobType, QuietServes
\* Steps of an engaged worker that goes on with its row.
<1>5. ASSUME NEW step \in Steps, Goto(w, step), Engaged(w),
             step \in {"actor", "commit", "insert", "fail"}, UNCHANGED <<row, outbox, queue, relay>>
      PROVE  \E T \in Tickets : Serves(w, T)
  <2>1. pc[w] # "idle" /\ row[Ticket(w)].status # "PENDING" /\ Ticket(w) \in Tickets
    BY <1>5, <1>t, EngagedRow, EngagedFacts
  <2>2. Others(w) /\ Engaged(w)' /\ Ticket(w)' = Ticket(w)
    BY <1>5, <1>t, GotoOthers DEF Engaged, Ticket
  <2> QED
    BY <1>2, <1>5, <2>1, <2>2, QuietServes
<1>6. CASE LoadForComplete(w)
  <2>1. Engaged(w) /\ pc[w] = "complete" /\ UNCHANGED <<row, outbox, queue, relay>>
    BY <1>6 DEF LoadForComplete, Engaged, database, broker
  <2>2. Goto(w, "actor")
    BY <1>6, <2>1, EngagedRow DEF LoadForComplete
  <2> QED
    BY <1>5, <2>1, <2>2 DEF Steps
<1>7. CASE FindSystemActor(w)
  <2>1. Engaged(w) /\ UNCHANGED <<row, outbox, queue, relay>>
    BY <1>7 DEF FindSystemActor, Engaged, database, broker
  <2>2. PICK step \in {"commit", "insert", "fail"} : Goto(w, step)
    BY <1>7, <1>t DEF FindSystemActor, TypeOK, ActorTypes
  <2> QED
    BY <1>5, <2>1, <2>2 DEF Steps
<1>8. CASE ActorConflict(w)
  <2>1. Engaged(w) /\ UNCHANGED <<row, outbox, queue, relay>> /\ Goto(w, "fail")
    BY <1>8 DEF ActorConflict, InsertConflicts, Engaged, database, broker
  <2> QED
    BY <1>5, <2>1 DEF Steps
\* The commit of complete, or an error that may hide it.
<1>9. ASSUME Engaged(w), pc[w] # "fail", Triage(w), Others(w),
             UNCHANGED <<outbox, queue, relay>>
      PROVE  \E T \in Tickets : Serves(w, T)
  <2>1. PICK T : T = Ticket(w)
    OBVIOUS
  <2>2. row'[T].status = "COMPLETED" /\ \A t \in Tickets \ {T} : row'[t] = row[t]
    BY <1>9, <1>t, <2>1, TriageEffect
  <2> QED
    BY <1>2, <1>9, <2>1, <2>2 DEF Serves, Engaged, relay
<1>10. CASE CommitComplete(w)
  <2>1. Engaged(w) /\ pc[w] # "fail" /\ Triage(w) /\ UNCHANGED <<outbox, queue, relay>>
    BY <1>10 DEF CommitComplete, Engaged, broker
  <2>2. Others(w)
    BY <1>10, <1>t, FinishOthers DEF CommitComplete
  <2> QED
    BY <1>9, <2>1, <2>2
<1>11. CASE CompleteRaises(w)
  <2>1. /\ Engaged(w) /\ pc[w] # "fail" /\ Goto(w, "fail") /\ UNCHANGED <<outbox, queue, relay>>
        /\ UNCHANGED row \/ Triage(w)
    BY <1>11 DEF CompleteRaises, Engaged, broker, database
  <2>2. Others(w)
    BY <2>1, <1>t, GotoOthers
  <2> QED
    BY <1>5, <1>9, <2>1, <2>2 DEF Steps
<1>12. CASE LoadForFail(w)
  <2>1. Engaged(w) /\ pc[w] = "fail" /\ UNCHANGED <<row, outbox, queue, relay>>
    BY <1>12 DEF LoadForFail, Engaged, database, broker
  <2>2. pc[w] # "idle" /\ row[Ticket(w)].status # "PENDING" /\ Ticket(w) \in Tickets
    BY <2>1, <1>t, EngagedRow, EngagedFacts
  <2>3. CASE FailApplies(w)
    <3>1. Others(w) /\ Engaged(w)' /\ Ticket(w)' = Ticket(w)
      BY <1>12, <2>3, <1>t DEF LoadForFail, Others, TypeOK, Engaged, Ticket
    <3> QED
      BY <1>2, <2>1, <2>2, <3>1, QuietServes
  <2>4. CASE ~ FailApplies(w)
    <3>1. row[Ticket(w)].status = "COMPLETED"
      BY <2>1, <2>4, EngagedRow
    <3>2. Others(w)
      BY <1>12, <2>4, <1>t, AfterFailOthers DEF LoadForFail
    <3> QED
      BY <1>2, <2>1, <2>2, <3>1, <3>2, QuietServes
  <2> QED
    BY <2>3, <2>4
<1>13. CASE CommitFail(w)
  <2>1. /\ Engaged(w) /\ pc[w] = "failcommit" /\ WriteFailure(w) /\ AfterFail(w)
        /\ UNCHANGED <<outbox, queue, relay>>
    BY <1>13 DEF CommitFail, Engaged, broker
  <2>2. PICK T : T = Ticket(w)
    OBVIOUS
  <2>3. /\ row'[T].status = (IF MayRetry(w) THEN "PENDING" ELSE "FAILED")
        /\ \A t \in Tickets \ {T} : row'[t] = row[t]
    BY <1>t, <2>1, <2>2, FailureEffect
  <2>4. MayRetry(w) => Carried(T)'
    <3> SUFFICES ASSUME MayRetry(w) PROVE Carried(T)'
      OBVIOUS
    <3>1. pc'[w] = "retry" /\ job'[w] = job[w]
      BY <1>t, <2>1 DEF AfterFail, TypeOK
    <3> QED
      BY <2>2, <3>1 DEF Carried, Ticket
  <2>5. Others(w) /\ T \in Tickets
    BY <1>t, <2>1, <2>2, AfterFailOthers, EngagedFacts
  <2>6. Serves(w, T)
    BY <2>1, <2>2, <2>3, <2>4, <2>5 DEF Serves, relay
  <2> QED
    BY <2>5, <2>6
<1>14. CASE Retry(w)
  <2>1. /\ pc[w] = "retry" /\ UNCHANGED <<row, outbox, relay>> /\ Requeue(w) /\ Finish(w)
    BY <1>14 DEF Retry, database
  <2>2. PICK T : T = Ticket(w)
    OBVIOUS
  <2>3. ~ Engaged(w) /\ Others(w) /\ T \in Tickets /\ job[w] \in Message
    BY <1>t, <2>1, <2>2, FinishOthers, JobType DEF Engaged
  <2>4. Carried(T)' /\ BagToSet(queue) \subseteq BagToSet(queue')
    <3> DEFINE m == [job[w] EXCEPT !.retries = @ + 1]
    <3>1. queue' = queue (+) SetToBag({m}) /\ m.ticket = T
      BY <2>1, <2>2, <2>3 DEF Requeue, Ticket, Message
    <3> HIDE DEF m
    <3>2. m \in BagToSet(queue') /\ BagToSet(queue) \subseteq BagToSet(queue')
      BY <1>t, <3>1, PutKeeps
    <3> QED
      BY <3>1, <3>2 DEF Carried
  <2>5. Serves(w, T)
    BY <2>1, <2>2, <2>3, <2>4, QuietServes
  <2> QED
    BY <2>3, <2>5
<1>15. CASE BeginRaises(w) \/ FailRaises(w) \/ RetryRaises(w) \/ WorkerDies(w)
  BY <1>15 DEF BeginRaises, FailRaises, RetryRaises, WorkerDies, Spend, DeliveryInv, Lethal
<1> QED
  BY <1>1, <1>3, <1>4, <1>6, <1>7, <1>8, <1>10, <1>11, <1>12, <1>13, <1>14, <1>15
     DEF WorkerStep, WorkerFault

-----------------------------------------------------------------------------
LEMMA StutterDelivers ==
  ASSUME DeliveryInv, UNCHANGED vars, NEW t \in Tickets
  PROVE  Delivers(t)'
<1>1. UNCHANGED <<row, worker, queue, outbox, todo, sent>> /\ Delivers(t)
  BY DEF vars, worker, DeliveryInv
<1>2. Announced(t)' => Announced(t)
  BY <1>1 DEF Announced
<1> QED
  BY <1>1, <1>2, QuietDelivers DEF Delivers

LEMMA DeliveryNext == DeliveryInv /\ [Next]_vars => DeliveryInv'
<1> SUFFICES ASSUME DeliveryInv, [Next]_vars PROVE DeliveryInv'
  OBVIOUS
<1>1. SafeInv'
  BY SafeNext DEF DeliveryInv
<1>2. \A k \in Lethal : faults'[k] = 0
  BY FaultStays DEF DeliveryInv, SafeInv, TypeInv, Lethal, FaultKinds
<1>3. ASSUME NEW t \in Tickets PROVE Delivers(t)'
  <2>1. ASSUME NEW w \in Workers, WorkerStep(w) \/ WorkerFault(w) PROVE Delivers(t)'
    BY <1>3, <2>1, WorkerServes, ServingDelivers DEF DeliveryInv
  <2> QED
    BY <1>3, <2>1, CreateDelivers, RelayDelivers, StutterDelivers DEF Next
<1> QED
  BY <1>1, <1>2, <1>3 DEF DeliveryInv

LEMMA DeliveryInvariant ==
  ASSUME OnlyRecoverable
  PROVE  Spec => []DeliveryInv
BY DeliveryInit, DeliveryNext, PTL DEF Spec

(***************************************************************************)
(* However often relays die, publications raise, messages come twice and   *)
(* complete fails: a ticket that waits has its outbox row, a message or a  *)
(* worker, and a ticket being processed has its worker.                    *)
(***************************************************************************)
THEOREM NothingIsLost ==
  ASSUME OnlyRecoverable
  PROVE  Spec => []NothingStranded
<1>1. DeliveryInv => NothingStranded
  <2> SUFFICES ASSUME DeliveryInv, NEW t \in Tickets
               PROVE  /\ row[t].status = "PENDING" => outbox[t] = "PENDING" \/ Carried(t)
                      /\ row[t].status = "PROCESSING" =>
                           \E w \in Workers : Engaged(w) /\ Ticket(w) = t
    BY DEF NothingStranded, Carried
  <2> QED
    BY DEF DeliveryInv, Delivers, Announced
<1> QED
  BY <1>1, DeliveryInvariant, PTL

(***************************************************************************)
(* Under the same faults a task that gives up after its last retry leaves  *)
(* its dead letter, or the ticket was COMPLETED by a commit that raised.   *)
(***************************************************************************)
THEOREM GivingUpIsRecorded ==
  ASSUME OnlyRecoverable
  PROVE  Spec => FinalFailureIsPersisted
<1> DEFINE Recorded ==
      \A w \in Workers :
        pc[w] \in {"fail", "failcommit"} /\ pc'[w] = "idle" =>
          row'[Ticket(w)].status = "COMPLETED" \/ deadLetters'[Ticket(w)] # <<>>
<1>1. DeliveryInv /\ [Next]_vars => Recorded
  <2> SUFFICES ASSUME DeliveryInv, [Next]_vars, NEW w \in Workers,
                      pc[w] \in {"fail", "failcommit"}, pc'[w] = "idle"
               PROVE  row'[Ticket(w)].status = "COMPLETED" \/ deadLetters'[Ticket(w)] # <<>>
    OBVIOUS
  <2>t. TypeOK /\ SafeInv /\ Engaged(w)
    BY DEF DeliveryInv, SafeInv, TypeInv, Engaged
  <2>1. ASSUME UNCHANGED pc PROVE FALSE
    BY <2>1
  <2>2. ASSUME NEW v \in Workers, v # w, Others(v) PROVE FALSE
    BY <2>2 DEF Others
  <2>3. CASE LoadForFail(w)
    <3>1. UNCHANGED row /\ ~ FailApplies(w) /\ pc[w] = "fail"
      BY <2>3, <2>t DEF LoadForFail, database, TypeOK
    <3> QED
      BY <2>t, <3>1, EngagedRow
  <2>4. CASE CommitFail(w)
    <3>1. pc[w] = "failcommit" /\ WriteFailure(w) /\ ~ MayRetry(w)
      BY <2>4, <2>t DEF CommitFail, AfterFail, TypeOK
    <3>2. PICK T : T = Ticket(w)
      OBVIOUS
    <3>3. deadLetters'[T] = <<[task |-> row[T].owner, attempts |-> row[T].attempts]>>
      BY <2>t, <3>1, <3>2, FailureEffect
    <3> QED
      BY <3>2, <3>3
  <2>5. CASE FailRaises(w) \/ WorkerDies(w)
    BY <2>5 DEF FailRaises, WorkerDies, Spend, DeliveryInv, Lethal
  <2>6. ASSUME NEW v \in Workers, WorkerStep(v) \/ WorkerFault(v) PROVE Others(v)
    BY <2>6, WorkerServes DEF Serves
  <2>7. ASSUME WorkerStep(w) \/ WorkerFault(w)
        PROVE  LoadForFail(w) \/ CommitFail(w) \/ FailRaises(w) \/ WorkerDies(w)
    BY <2>7 DEF WorkerStep, WorkerFault, Receive, Redeliver, Take, Claim, SkipClaim,
         LoadForComplete, FindSystemActor, CommitComplete, ActorConflict, InsertConflicts, Retry,
         BeginRaises, CompleteRaises, RetryRaises
  <2>8. ASSUME NEW t \in Tickets, CreateTicket(t) PROVE UNCHANGED pc
    BY <2>8 DEF CreateTicket, worker
  <2>9. ASSUME NEW r \in Relays, RelayStep(r) \/ RelayFault(r) PROVE UNCHANGED pc
    BY <2>9, RelayQuiet DEF worker
  <2> QED
    BY <2>1, <2>2, <2>3, <2>4, <2>5, <2>6, <2>7, <2>8, <2>9 DEF Next, vars
<1>2. DeliveryInv /\ [Next]_vars => [Recorded]_vars
  BY <1>1
<1> QED
  BY <1>2, DeliveryInvariant, PTL DEF Spec, FinalFailureIsPersisted
=============================================================================
