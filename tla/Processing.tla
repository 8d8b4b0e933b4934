----------------------------- MODULE Processing -----------------------------
(***************************************************************************)
(* The asynchronous half of TicketFlow: the transactional outbox and its   *)
(* Celery relay (app/worker.py), the Redis queue, and the workers that     *)
(* triage tickets (app/services/processing.py).                            *)
(*                                                                         *)
(* One action is one database transaction, or one step of a transaction    *)
(* whose earlier read another process can invalidate: sessions run at      *)
(* PostgreSQL's READ COMMITTED, rows are read without a lock and flushed   *)
(* at commit, and a flush writes only the columns that changed.  Whatever  *)
(* the code survives, or fails to survive, is an explicit fault, bounded   *)
(* by a budget that Init draws from Budgets.                               *)
(***************************************************************************)
EXTENDS Naturals, Sequences, FiniteSets, Bags

CONSTANTS
  Tickets,        \* ticket ids
  Workers,        \* Celery worker processes running process_ticket_task
  Relays,         \* Celery processes running dispatch_outbox_messages
  MaxRetries,     \* max_retries of process_ticket_task (3 in the code)
  BatchLimit,     \* LIMIT of the relay's SELECT (100 in the code)
  ActorsAtStart,  \* what the reference "worker:ticket-processor" may be at start
  Budgets,        \* fault budgets Init chooses from
  NoJob           \* what an idle worker holds

FaultKinds ==
  { "relay",      \* a relay dies, or its commit fails, before the commit
    "publish",    \* process_ticket_task.delay raises, sent or not
    "redeliver",  \* the broker hands a message out a second time
    "worker",     \* a worker process dies
    "begin",      \* a database call of begin raises
    "complete",   \* a database call of complete raises
    "fail",       \* a database call of fail raises
    "retry" }     \* self.retry cannot publish

ActorTypes == {"ABSENT", "SYSTEM", "OTHER"}

ASSUME ConstantsAssumption ==
  /\ MaxRetries \in Nat
  /\ BatchLimit \in Nat \ {0}
  /\ ActorsAtStart \subseteq ActorTypes
  /\ Budgets \subseteq [FaultKinds -> Nat]

ProcessingStatus == {"ABSENT", "PENDING", "PROCESSING", "COMPLETED", "FAILED"}

\* The processing columns of a row of tickets: processing_status,
\* processing_task_id (0 is NULL), processing_attempts, processing_error IS NOT NULL.
Row == [status : ProcessingStatus, owner : Nat, attempts : Nat, error : BOOLEAN]

NoRow == [status |-> "ABSENT", owner |-> 0, attempts |-> 0, error |-> FALSE]

\* A message of the queue.  The task id is the ordinal of the publication of
\* that ticket: Celery draws a fresh UUID for each delay() and keeps it in retries.
Message == [ticket : Tickets, task : Nat \ {0}, retries : 0..MaxRetries]

\* A row of dead_letter_messages, which are kept by ticket.
DeadLetter == [task : Nat, attempts : Nat]

VARIABLES
  row,          \* tickets, its processing columns
  triaged,      \* number of AUTO_PROCESSED events of each ticket
  deadLetters,  \* dead_letter_messages of each ticket, in insertion order
  actor,        \* type of the actor "worker:ticket-processor"
  outbox,       \* status of the ticket's outbox message
  queue,        \* bag of messages in the broker
  published,    \* publications made of each ticket, committed or not
  batch,        \* outbox rows each relay has locked
  todo,         \* rows of its batch it has still to publish
  sent,         \* rows of its batch it published
  pc,           \* next step of each worker
  job,          \* message each worker is executing
  seen,         \* row loaded by the open transaction of each worker
  faults        \* what is left of the fault budget

database == <<row, triaged, deadLetters, actor>>
broker == <<queue, published>>
relay == <<batch, todo, sent>>
worker == <<pc, job, seen>>
vars == <<row, triaged, deadLetters, actor, outbox, queue, published,
          batch, todo, sent, pc, job, seen, faults>>

Steps == {"idle", "begin", "complete", "actor", "commit", "insert",
          "fail", "failcommit", "retry"}

TypeOK ==
  /\ row \in [Tickets -> Row]
  /\ triaged \in [Tickets -> Nat]
  /\ deadLetters \in [Tickets -> Seq(DeadLetter)]
  /\ actor \in ActorTypes
  /\ outbox \in [Tickets -> {"ABSENT", "PENDING", "PUBLISHED"}]
  /\ IsABag(queue) /\ BagToSet(queue) \subseteq Message
  /\ published \in [Tickets -> Nat]
  /\ {batch, todo, sent} \subseteq [Relays -> SUBSET Tickets]
  /\ pc \in [Workers -> Steps]
  /\ job \in [Workers -> Message \cup {NoJob}]
  /\ \A w \in Workers : pc[w] # "idle" => job[w] \in Message
  /\ seen \in [Workers -> Row]
  /\ faults \in [FaultKinds -> Nat]

Init ==
  /\ row = [t \in Tickets |-> NoRow]
  /\ triaged = [t \in Tickets |-> 0]
  /\ deadLetters = [t \in Tickets |-> <<>>]
  /\ actor \in ActorsAtStart
  /\ outbox = [t \in Tickets |-> "ABSENT"]
  /\ queue = EmptyBag
  /\ published = [t \in Tickets |-> 0]
  /\ batch = [r \in Relays |-> {}]
  /\ todo = [r \in Relays |-> {}]
  /\ sent = [r \in Relays |-> {}]
  /\ pc = [w \in Workers |-> "idle"]
  /\ job = [w \in Workers |-> NoJob]
  /\ seen = [w \in Workers |-> NoRow]
  /\ faults \in Budgets

Spend(kind) ==
  /\ faults[kind] > 0
  /\ faults' = [faults EXCEPT ![kind] = @ - 1]

-----------------------------------------------------------------------------
(***************************************************************************)
(* Ticket creation, as this half sees it: TicketService._create_ticket     *)
(* commits the ticket and its outbox message in one transaction.           *)
(***************************************************************************)
CreateTicket(t) ==
  /\ row[t] = NoRow
  /\ row' = [row EXCEPT ![t] = [NoRow EXCEPT !.status = "PENDING"]]
  /\ outbox' = [outbox EXCEPT ![t] = "PENDING"]
  /\ UNCHANGED <<triaged, deadLetters, actor, broker, relay, worker, faults>>

-----------------------------------------------------------------------------
(***************************************************************************)
(* The relay: SELECT ... FOR UPDATE SKIP LOCKED LIMIT, publish each row,   *)
(* commit once.                                                            *)
(***************************************************************************)
Locked == UNION {batch[r] : r \in Relays}

PendingOutbox == {t \in Tickets : outbox[t] = "PENDING"}

RelaySelect(r) ==
  LET free == PendingOutbox \ Locked IN
  /\ batch[r] = {}
  /\ \E rows \in SUBSET free :
       /\ rows # {}
       /\ Cardinality(rows) = BatchLimit \/ (rows = free /\ Cardinality(free) < BatchLimit)
       /\ batch' = [batch EXCEPT ![r] = rows]
       /\ todo' = [todo EXCEPT ![r] = rows]
  /\ UNCHANGED <<database, outbox, broker, sent, worker, faults>>

\* The transaction of the relay ends and its locks are gone.
RelayEnds(r) ==
  /\ batch' = [batch EXCEPT ![r] = {}]
  /\ todo' = [todo EXCEPT ![r] = {}]
  /\ sent' = [sent EXCEPT ![r] = {}]

Enqueue(t) ==
  LET task == published[t] + 1 IN
  /\ published' = [published EXCEPT ![t] = task]
  /\ queue' = queue (+) SetToBag({[ticket |-> t, task |-> task, retries |-> 0]})

RelayPublish(r, t) ==
  /\ t \in todo[r]
  /\ Enqueue(t)
  /\ todo' = [todo EXCEPT ![r] = @ \ {t}]
  /\ sent' = [sent EXCEPT ![r] = @ \cup {t}]
  /\ UNCHANGED <<database, outbox, batch, worker, faults>>

\* delay() raised: the row stays PENDING, although the broker may have the message.
RelayPublishRaises(r, t) ==
  /\ t \in todo[r]
  /\ Spend("publish")
  /\ Enqueue(t) \/ UNCHANGED broker
  /\ todo' = [todo EXCEPT ![r] = @ \ {t}]
  /\ UNCHANGED <<database, outbox, batch, sent, worker>>

\* Mutant: a row whose publication raised is marked like the others.
MutMarkedWholeBatch(r) == batch[r]

\* The rows a commit of the relay leaves PUBLISHED.
MarkedPublished(r) == sent[r]

RelayCommit(r) ==
  /\ batch[r] # {} /\ todo[r] = {}
  /\ outbox' = [t \in Tickets |->
                  IF t \in MarkedPublished(r) THEN "PUBLISHED" ELSE outbox[t]]
  /\ RelayEnds(r)
  /\ UNCHANGED <<database, broker, worker, faults>>

RelayDies(r) ==
  /\ batch[r] # {}
  /\ Spend("relay")
  /\ RelayEnds(r)
  /\ UNCHANGED <<database, outbox, broker, worker>>

-----------------------------------------------------------------------------
(***************************************************************************)
(* The worker: process_ticket_task.                                        *)
(***************************************************************************)
Goto(w, step) ==
  /\ pc' = [pc EXCEPT ![w] = step]
  /\ UNCHANGED <<job, seen>>

Finish(w) ==
  /\ pc' = [pc EXCEPT ![w] = "idle"]
  /\ job' = [job EXCEPT ![w] = NoJob]
  /\ seen' = [seen EXCEPT ![w] = NoRow]

Ticket(w) == job[w].ticket

\* Celery acknowledges a message as it starts the task (task_acks_late is not set).
Take(w, m) ==
  /\ pc[w] = "idle"
  /\ BagIn(m, queue)
  /\ pc' = [pc EXCEPT ![w] = "begin"]
  /\ job' = [job EXCEPT ![w] = m]
  /\ UNCHANGED <<database, outbox, published, relay, seen>>

Receive(w, m) ==
  /\ Take(w, m)
  /\ queue' = queue (-) SetToBag({m})
  /\ UNCHANGED faults

\* The message is taken, but a copy of it will be handed out again.
Redeliver(w, m) ==
  /\ Take(w, m)
  /\ Spend("redeliver")
  /\ UNCHANGED queue

-----------------------------------------------------------------------------
(***************************************************************************)
(* begin: one UPDATE ... WHERE processing_status = 'PENDING', committed.   *)
(***************************************************************************)
\* Mutants: the UPDATE's predicate lets in a ticket being processed, or a failed one.
MutClaimableProcessing(t) == row[t].status \in {"PENDING", "PROCESSING"}
MutClaimableFailed(t) == row[t].status \in {"PENDING", "FAILED"}

Claimable(t) == row[t].status = "PENDING"

\* Mutant: the claim does not reset processing_error.
MutClaimedKeepsError(w) ==
  [row EXCEPT ![Ticket(w)] =
     [@ EXCEPT !.status = "PROCESSING", !.owner = job[w].task, !.attempts = @ + 1]]

Claimed(w) ==
  [row EXCEPT ![Ticket(w)] =
     [status |-> "PROCESSING", owner |-> job[w].task,
      attempts |-> @.attempts + 1, error |-> FALSE]]

Claim(w) ==
  /\ pc[w] = "begin"
  /\ Claimable(Ticket(w))
  /\ row' = Claimed(w)
  /\ Goto(w, "complete")
  /\ UNCHANGED <<triaged, deadLetters, actor, outbox, broker, relay, faults>>

SkipClaim(w) ==
  /\ pc[w] = "begin"
  /\ ~ Claimable(Ticket(w))
  /\ Finish(w)
  /\ UNCHANGED <<database, outbox, broker, relay, faults>>

\* An error of the UPDATE or of the COMMIT; in the latter case the claim may stand.
BeginRaises(w) ==
  /\ pc[w] = "begin"
  /\ Spend("begin")
  /\ \/ UNCHANGED row
     \/ Claimable(Ticket(w)) /\ row' = Claimed(w)
  /\ Goto(w, "fail")
  /\ UNCHANGED <<triaged, deadLetters, actor, outbox, broker, relay>>

-----------------------------------------------------------------------------
(***************************************************************************)
(* complete: load and check the ticket, find the system actor, commit the  *)
(* triage result with its AUTO_PROCESSED event.                            *)
(***************************************************************************)
Owned(w) ==
  /\ row[Ticket(w)].status = "PROCESSING"
  /\ row[Ticket(w)].owner = job[w].task

LoadForComplete(w) ==
  /\ pc[w] = "complete"
  /\ IF Owned(w) THEN Goto(w, "actor") ELSE Finish(w)
  /\ UNCHANGED <<database, outbox, broker, relay, faults>>

FindSystemActor(w) ==
  /\ pc[w] = "actor"
  /\ Goto(w, CASE actor = "SYSTEM" -> "commit"
               [] actor = "ABSENT" -> "insert"
               [] actor = "OTHER"  -> "fail")    \* RuntimeError
  /\ UNCHANGED <<database, outbox, broker, relay, faults>>

\* actors.external_reference is unique: of two workers that insert the system
\* actor, the second waits for the first to commit and then fails.
InsertConflicts(w) == pc[w] = "insert" /\ actor # "ABSENT"

Triage(w) ==
  /\ row' = [row EXCEPT ![Ticket(w)].status = "COMPLETED"]
  /\ triaged' = [triaged EXCEPT ![Ticket(w)] = @ + 1]
  /\ actor' = "SYSTEM"
  /\ UNCHANGED deadLetters

CommitComplete(w) ==
  /\ pc[w] \in {"commit", "insert"}
  /\ ~ InsertConflicts(w)
  /\ Triage(w)
  /\ Finish(w)
  /\ UNCHANGED <<outbox, broker, relay, faults>>

ActorConflict(w) ==
  /\ InsertConflicts(w)
  /\ Goto(w, "fail")
  /\ UNCHANGED <<database, outbox, broker, relay, faults>>

\* Any database call of complete raises; the error of a COMMIT may hide its success.
CompleteRaises(w) ==
  /\ pc[w] \in {"complete", "actor", "commit", "insert"}
  /\ Spend("complete")
  /\ \/ UNCHANGED database
     \/ pc[w] \in {"commit", "insert"} /\ ~ InsertConflicts(w) /\ Triage(w)
  /\ Goto(w, "fail")
  /\ UNCHANGED <<outbox, broker, relay>>

-----------------------------------------------------------------------------
(***************************************************************************)
(* The except clause of process_ticket_task: fail, then self.retry.        *)
(***************************************************************************)
\* Mutant: one retry too many.
MutMayRetryOneMore(w) == job[w].retries <= MaxRetries

MayRetry(w) == job[w].retries < MaxRetries

\* Mutant: fail does not look at the status.
MutFailAppliesAlways(w) == row[Ticket(w)].owner = job[w].task

FailApplies(w) ==
  /\ row[Ticket(w)].owner = job[w].task
  /\ row[Ticket(w)].status # "COMPLETED"

AfterFail(w) ==
  IF MayRetry(w)
    THEN /\ pc' = [pc EXCEPT ![w] = "retry"]
         /\ seen' = [seen EXCEPT ![w] = NoRow]
         /\ UNCHANGED job
    ELSE Finish(w)

LoadForFail(w) ==
  /\ pc[w] = "fail"
  /\ IF FailApplies(w)
       THEN /\ pc' = [pc EXCEPT ![w] = "failcommit"]
            /\ seen' = [seen EXCEPT ![w] = row[Ticket(w)]]
            /\ UNCHANGED job
       ELSE AfterFail(w)
  /\ UNCHANGED <<database, outbox, broker, relay, faults>>

\* The flush writes a column only if its value differs from the loaded one.
FailedRow(w) ==
  LET old    == row[Ticket(w)]
      target == IF MayRetry(w) THEN "PENDING" ELSE "FAILED"
      status == IF seen[w].status = target THEN old.status ELSE target
      errors == IF seen[w].error THEN {old.error, TRUE} ELSE {TRUE}
  IN  {[old EXCEPT !.status = status, !.error = e] : e \in errors}

\* Mutant: a dead letter for every failed attempt.
MutWriteFailureEachAttempt(w) ==
  /\ \E new \in FailedRow(w) : row' = [row EXCEPT ![Ticket(w)] = new]
  /\ deadLetters' = [deadLetters EXCEPT ![Ticket(w)] =
                       Append(@, [task |-> job[w].task, attempts |-> seen[w].attempts])]
  /\ UNCHANGED <<triaged, actor>>

\* Mutant: the dead letter is built, but not added to the session.
MutWriteFailureNoLetter(w) ==
  /\ \E new \in FailedRow(w) : row' = [row EXCEPT ![Ticket(w)] = new]
  /\ UNCHANGED <<triaged, deadLetters, actor>>

WriteFailure(w) ==
  /\ \E new \in FailedRow(w) : row' = [row EXCEPT ![Ticket(w)] = new]
  /\ deadLetters' =
       IF MayRetry(w) THEN deadLetters
       ELSE [deadLetters EXCEPT ![Ticket(w)] =
               Append(@, [task |-> job[w].task, attempts |-> seen[w].attempts])]
  /\ UNCHANGED <<triaged, actor>>

CommitFail(w) ==
  /\ pc[w] = "failcommit"
  /\ WriteFailure(w)
  /\ AfterFail(w)
  /\ UNCHANGED <<outbox, broker, relay, faults>>

\* An exception inside the except clause leaves it before self.retry.
FailRaises(w) ==
  /\ pc[w] \in {"fail", "failcommit"}
  /\ Spend("fail")
  /\ \/ UNCHANGED database
     \/ pc[w] = "failcommit" /\ WriteFailure(w)
  /\ Finish(w)
  /\ UNCHANGED <<outbox, broker, relay>>

\* Mutant: the task ends without publishing its retry.
MutRequeueNothing(w) == UNCHANGED queue

Requeue(w) ==
  queue' = queue (+) SetToBag({[job[w] EXCEPT !.retries = @ + 1]})

Retry(w) ==
  /\ pc[w] = "retry"
  /\ Requeue(w)
  /\ Finish(w)
  /\ UNCHANGED <<database, outbox, published, relay, faults>>

RetryRaises(w) ==
  /\ pc[w] = "retry"
  /\ Spend("retry")
  /\ Finish(w)
  /\ UNCHANGED <<database, outbox, broker, relay>>

\* The open transaction rolls back; the message was acknowledged and is gone.
WorkerDies(w) ==
  /\ pc[w] # "idle"
  /\ Spend("worker")
  /\ Finish(w)
  /\ UNCHANGED <<database, outbox, broker, relay>>

-----------------------------------------------------------------------------
RelayStep(r) ==
  \/ RelaySelect(r)
  \/ \E t \in Tickets : RelayPublish(r, t)
  \/ RelayCommit(r)

WorkerStep(w) ==
  \/ \E m \in BagToSet(queue) : Receive(w, m)
  \/ Claim(w) \/ SkipClaim(w)
  \/ LoadForComplete(w) \/ FindSystemActor(w) \/ CommitComplete(w) \/ ActorConflict(w)
  \/ LoadForFail(w) \/ CommitFail(w) \/ Retry(w)

RelayFault(r) ==
  \/ \E t \in Tickets : RelayPublishRaises(r, t)
  \/ RelayDies(r)

WorkerFault(w) ==
  \/ \E m \in BagToSet(queue) : Redeliver(w, m)
  \/ BeginRaises(w) \/ CompleteRaises(w) \/ FailRaises(w) \/ RetryRaises(w)
  \/ WorkerDies(w)

Next ==
  \/ \E t \in Tickets : CreateTicket(t)
  \/ \E r \in Relays : RelayStep(r) \/ RelayFault(r)
  \/ \E w \in Workers : WorkerStep(w) \/ WorkerFault(w)

Spec == Init /\ [][Next]_vars

(***************************************************************************)
(* Beat starts a relay every ten seconds for ever, and a live worker       *)
(* process keeps taking messages and running the task it has.              *)
(***************************************************************************)
Fairness ==
  /\ \A r \in Relays : WF_vars(RelayStep(r))
  /\ \A w \in Workers : WF_vars(WorkerStep(w))

FairSpec == Spec /\ Fairness

-----------------------------------------------------------------------------
(***************************************************************************)
(* Properties.                                                             *)
(***************************************************************************)
Settled(t) == row[t].status \in {"COMPLETED", "FAILED"}

\* The claim of this worker went through, and its outcome is not committed.
Engaged(w) == pc[w] \in {"complete", "actor", "commit", "insert", "fail", "failcommit"}

(***************************************************************************)
(* "Only one transaction can move a ticket from PENDING to PROCESSING":    *)
(* however often a ticket's message is published, delivered or retried, at *)
(* most one worker is past begin's UPDATE with it.                         *)
(***************************************************************************)
ExclusiveClaim ==
  \A v, w \in Workers : Engaged(v) /\ Engaged(w) /\ Ticket(v) = Ticket(w) => v = w

(***************************************************************************)
(* What a worker checked it may rely on: from its claim to the commit that *)
(* ends the attempt the row stays its own, in the status it loaded, though *)
(* it holds no lock.  An error of complete may leave the ticket COMPLETED, *)
(* if the commit that raised went through.                                 *)
(***************************************************************************)
Owns(w) ==
  /\ row[Ticket(w)].owner = job[w].task
  /\ \/ row[Ticket(w)].status = "PROCESSING"
     \/ pc[w] = "fail" /\ row[Ticket(w)].status = "COMPLETED"
  /\ pc[w] = "failcommit" => seen[w] = row[Ticket(w)]

OwnershipHeld == \A w \in Workers : Engaged(w) => Owns(w)

(***************************************************************************)
(* complete's effects are applied once and together: a ticket is COMPLETED *)
(* exactly when it has its one AUTO_PROCESSED event.                       *)
(***************************************************************************)
TriagedOnce ==
  \A t \in Tickets : triaged[t] = IF row[t].status = "COMPLETED" THEN 1 ELSE 0

(***************************************************************************)
(* A ticket is FAILED exactly when fail left its one dead letter, and the  *)
(* letter names the task and the attempts of the row.                      *)
(***************************************************************************)
DeadLetterMatchesFailure ==
  \A t \in Tickets :
    deadLetters[t] = IF row[t].status = "FAILED"
                       THEN <<[task |-> row[t].owner, attempts |-> row[t].attempts]>>
                       ELSE <<>>

(***************************************************************************)
(* processing_error belongs to the last attempt: a ticket that is being    *)
(* processed or was completed shows none, a FAILED one shows the reason.   *)
(***************************************************************************)
ErrorOfLastAttempt ==
  \A t \in Tickets :
    /\ row[t].status \in {"PROCESSING", "COMPLETED"} => ~ row[t].error
    /\ row[t].status = "FAILED" => row[t].error

(***************************************************************************)
(* COMPLETED and FAILED are final: no late message, retry or error changes *)
(* the row, its event or its dead letter again.                            *)
(***************************************************************************)
SettledIsFinal ==
  [][\A t \in Tickets : Settled(t) =>
       row'[t] = row[t] /\ triaged'[t] = triaged[t] /\ deadLetters'[t] = deadLetters[t]]_vars

(***************************************************************************)
(* max_retries: without redelivery, each publication of a ticket pays for  *)
(* MaxRetries + 1 claims at most.                                          *)
(***************************************************************************)
AttemptsBounded ==
  \A t \in Tickets : row[t].attempts <= (MaxRetries + 1) * published[t]

(***************************************************************************)
(* The transactional outbox leaves no gap: a ticket that waits still has   *)
(* its intent in the outbox, or a message, or a worker that will claim or  *)
(* requeue it; a ticket being processed has its worker.                    *)
(***************************************************************************)
NothingStranded ==
  \A t \in Tickets :
    /\ row[t].status = "PENDING" =>
         \/ outbox[t] = "PENDING"
         \/ \E m \in BagToSet(queue) : m.ticket = t
         \/ \E w \in Workers : pc[w] \in {"begin", "retry"} /\ Ticket(w) = t
    /\ row[t].status = "PROCESSING" => \E w \in Workers : Engaged(w) /\ Ticket(w) = t

(***************************************************************************)
(* "A final failure is persisted to dead_letter_messages": when the task   *)
(* gives up after its last retry, the ticket has its dead letter, unless   *)
(* it was COMPLETED after all.                                             *)
(***************************************************************************)
FinalFailureIsPersisted ==
  [][\A w \in Workers :
       pc[w] \in {"fail", "failcommit"} /\ pc'[w] = "idle" =>
         row'[Ticket(w)].status = "COMPLETED" \/ deadLetters'[Ticket(w)] # <<>>]_vars

(***************************************************************************)
(* Delivery and retries together: every created ticket is at last          *)
(* COMPLETED or FAILED.                                                    *)
(***************************************************************************)
EventuallySettled ==
  \A t \in Tickets : row[t].status # "ABSENT" ~> Settled(t)

(***************************************************************************)
(* The tables show only the lifecycle of ProcessingLifecycle.              *)
(***************************************************************************)
Lifecycle == INSTANCE ProcessingLifecycle WITH
  status   <- [t \in Tickets |-> row[t].status],
  owner    <- [t \in Tickets |-> row[t].owner],
  attempts <- [t \in Tickets |-> row[t].attempts]

FollowsLifecycle == Lifecycle!Spec
=============================================================================
