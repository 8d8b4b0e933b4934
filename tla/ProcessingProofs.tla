-------------------------- MODULE ProcessingProofs --------------------------
(***************************************************************************)
(* Theorems about Processing, for any tickets, workers, relays, retries    *)
(* and fault budgets.                                                      *)
(***************************************************************************)
EXTENDS Processing, TLAPS

-----------------------------------------------------------------------------
(***************************************************************************)
(* The queue: putting a message in and taking one out of a bag of messages *)
(* leaves a bag of messages.                                               *)
(***************************************************************************)
LEMMA BagPut ==
  ASSUME NEW S, NEW B, IsABag(B), BagToSet(B) \subseteq S, NEW m \in S
  PROVE  LET C == B (+) SetToBag({m}) IN IsABag(C) /\ BagToSet(C) \subseteq S
BY DEF IsABag, BagToSet, SetToBag, (+)

LEMMA BagTake ==
  ASSUME NEW S, NEW B, IsABag(B), BagToSet(B) \subseteq S, NEW m
  PROVE  LET C == B (-) SetToBag({m}) IN IsABag(C) /\ BagToSet(C) \subseteq S
BY DEF IsABag, BagToSet, SetToBag, (-)

-----------------------------------------------------------------------------
LEMMA TypeInit == Init => TypeOK
<1> SUFFICES ASSUME Init PROVE TypeOK
  OBVIOUS
<1>1. IsABag(EmptyBag) /\ BagToSet(EmptyBag) \subseteq Message
  BY DEF EmptyBag, SetToBag, IsABag, BagToSet
<1> QED
  BY <1>1, ConstantsAssumption
     DEF Init, TypeOK, Row, NoRow, ProcessingStatus, ActorTypes, Steps

\* What each action does to the bag and to the fault budget.
LEMMA SpendType ==
  ASSUME NEW kind \in FaultKinds, faults \in [FaultKinds -> Nat], Spend(kind)
  PROVE  faults' \in [FaultKinds -> Nat]
BY DEF Spend

LEMMA EnqueueType ==
  ASSUME NEW t \in Tickets, TypeOK, Enqueue(t)
  PROVE  /\ published' \in [Tickets -> Nat]
         /\ IsABag(queue)' /\ (BagToSet(queue) \subseteq Message)'
<1> DEFINE m == [ticket |-> t, task |-> published[t] + 1, retries |-> 0]
<1>1. m \in Message
  BY ConstantsAssumption DEF TypeOK, Message
<1>2. queue' = queue (+) SetToBag({m})
  BY DEF Enqueue
<1>3. IsABag(queue)' /\ (BagToSet(queue) \subseteq Message)'
  BY <1>1, <1>2, BagPut DEF TypeOK
<1>4. published' \in [Tickets -> Nat]
  BY DEF Enqueue, TypeOK
<1> QED
  BY <1>3, <1>4

LEMMA RelayTypeStep ==
  ASSUME TypeOK, NEW r \in Relays, RelayStep(r) \/ RelayFault(r)
  PROVE  TypeOK'
<1>1. CASE RelaySelect(r)
  BY <1>1 DEF RelaySelect, TypeOK, PendingOutbox, database, broker, worker, relay
<1>2. ASSUME NEW t \in Tickets, RelayPublish(r, t) PROVE TypeOK'
  <2>1. /\ published' \in [Tickets -> Nat]
        /\ IsABag(queue)' /\ (BagToSet(queue) \subseteq Message)'
    BY <1>2, EnqueueType DEF RelayPublish
  <2> QED
    BY <1>2, <2>1 DEF RelayPublish, TypeOK, database, worker
<1>3. CASE RelayCommit(r)
  BY <1>3 DEF RelayCommit, RelayEnds, MarkedPublished, TypeOK, database, broker, worker, relay
<1>4. ASSUME NEW t \in Tickets, RelayPublishRaises(r, t) PROVE TypeOK'
  <2>1. /\ published' \in [Tickets -> Nat]
        /\ IsABag(queue)' /\ (BagToSet(queue) \subseteq Message)'
    BY <1>4, EnqueueType DEF RelayPublishRaises, broker, TypeOK
  <2>2. faults' \in [FaultKinds -> Nat]
    BY <1>4, SpendType DEF RelayPublishRaises, FaultKinds, TypeOK
  <2> QED
    BY <1>4, <2>1, <2>2 DEF RelayPublishRaises, TypeOK, database, worker
<1>5. CASE RelayDies(r)
  BY <1>5, SpendType DEF RelayDies, RelayEnds, TypeOK, FaultKinds, database, broker, worker, relay
<1> QED
  BY <1>1, <1>2, <1>3, <1>4, <1>5 DEF RelayStep, RelayFault

-----------------------------------------------------------------------------
LEMMA JobType ==
  ASSUME TypeOK, NEW w \in Workers, pc[w] # "idle"
  PROVE  /\ job[w] \in Message
         /\ Ticket(w) \in Tickets
         /\ job[w].task \in Nat \ {0}
         /\ job[w].retries \in 0..MaxRetries
         /\ row[Ticket(w)] \in Row
         /\ seen[w] \in Row
BY DEF TypeOK, Message, Ticket

\* The rows a worker may write.
LEMMA ClaimedType ==
  ASSUME TypeOK, NEW w \in Workers, pc[w] # "idle"
  PROVE  Claimed(w) \in [Tickets -> Row]
BY JobType DEF TypeOK, Claimed, Row, ProcessingStatus

LEMMA TriageType ==
  ASSUME TypeOK, NEW w \in Workers, pc[w] # "idle", Triage(w)
  PROVE  /\ row' \in [Tickets -> Row]
         /\ triaged' \in [Tickets -> Nat]
         /\ actor' \in ActorTypes
         /\ deadLetters' = deadLetters
<1> DEFINE new == [row[Ticket(w)] EXCEPT !.status = "COMPLETED"]
<1>1. new \in Row /\ Ticket(w) \in Tickets
  BY JobType DEF Row, ProcessingStatus
<1>2. row' = [row EXCEPT ![Ticket(w)] = new]
  BY DEF Triage
<1>3. row' \in [Tickets -> Row]
  BY <1>1, <1>2 DEF TypeOK
<1> QED
  BY <1>1, <1>3 DEF TypeOK, Triage, ActorTypes

LEMMA FailedRowType ==
  ASSUME TypeOK, NEW w \in Workers, pc[w] # "idle", NEW new \in FailedRow(w)
  PROVE  new \in Row
BY JobType DEF FailedRow, Row, ProcessingStatus

LEMMA WriteFailureType ==
  ASSUME TypeOK, NEW w \in Workers, pc[w] # "idle", WriteFailure(w)
  PROVE  /\ row' \in [Tickets -> Row]
         /\ deadLetters' \in [Tickets -> Seq(DeadLetter)]
         /\ triaged' = triaged /\ actor' = actor
<1>1. row' \in [Tickets -> Row]
  BY FailedRowType DEF WriteFailure, TypeOK
<1>2. [task |-> job[w].task, attempts |-> seen[w].attempts] \in DeadLetter
  BY JobType DEF Row, DeadLetter
<1>3. deadLetters' \in [Tickets -> Seq(DeadLetter)]
  <2> DEFINE letter == [task |-> job[w].task, attempts |-> seen[w].attempts]
  <2> HIDE DEF letter
  <2>1. Append(deadLetters[Ticket(w)], letter) \in Seq(DeadLetter)
    BY <1>2, JobType DEF TypeOK, letter
  <2>2. \/ deadLetters' = deadLetters
        \/ deadLetters' = [deadLetters EXCEPT ![Ticket(w)] = Append(@, letter)]
    BY DEF WriteFailure, letter
  <2> QED
    BY <2>1, <2>2 DEF TypeOK
<1> QED
  BY <1>1, <1>3 DEF WriteFailure

LEMMA RequeueType ==
  ASSUME TypeOK, NEW w \in Workers, pc[w] # "idle", MayRetry(w), Requeue(w)
  PROVE  IsABag(queue)' /\ (BagToSet(queue) \subseteq Message)'
<1> DEFINE m == [job[w] EXCEPT !.retries = @ + 1]
<1>1. m \in Message
  BY JobType, ConstantsAssumption DEF MayRetry, Message
<1> QED
  BY <1>1, BagPut DEF Requeue, TypeOK

-----------------------------------------------------------------------------
\* Where a worker goes, as the type invariant sees it.
WorkerTyped ==
  /\ pc \in [Workers -> Steps]
  /\ job \in [Workers -> Message \cup {NoJob}]
  /\ \A w \in Workers : pc[w] # "idle" => job[w] \in Message
  /\ seen \in [Workers -> Row]

LEMMA GotoType ==
  ASSUME TypeOK, NEW w \in Workers, pc[w] # "idle", NEW step \in Steps, Goto(w, step)
  PROVE  WorkerTyped'
BY DEF TypeOK, Goto, WorkerTyped

LEMMA FinishType ==
  ASSUME TypeOK, NEW w \in Workers, Finish(w)
  PROVE  WorkerTyped'
BY DEF TypeOK, Finish, WorkerTyped, NoRow, Row, ProcessingStatus, Steps

LEMMA AfterFailType ==
  ASSUME TypeOK, NEW w \in Workers, pc[w] # "idle", AfterFail(w)
  PROVE  WorkerTyped'
<1>1. CASE ~ MayRetry(w)
  BY <1>1, FinishType DEF AfterFail
<1>2. CASE MayRetry(w)
  <2>1. /\ pc' = [pc EXCEPT ![w] = "retry"] /\ job' = job
        /\ seen' = [seen EXCEPT ![w] = NoRow]
    BY <1>2 DEF AfterFail
  <2>2. NoRow \in Row
    BY DEF NoRow, Row, ProcessingStatus
  <2> QED
    BY <2>1, <2>2 DEF TypeOK, WorkerTyped, Steps
<1> QED
  BY <1>1, <1>2

-----------------------------------------------------------------------------
\* A message is requeued only while a retry is left: TypeOK needs it to be inductive.
RetriesLeft == \A w \in Workers : pc[w] = "retry" => MayRetry(w)

LEMMA RelayKeepsRetries ==
  ASSUME RetriesLeft, UNCHANGED worker
  PROVE  RetriesLeft'
BY DEF RetriesLeft, worker, MayRetry

LEMMA WorkerTypeStep ==
  ASSUME TypeOK, RetriesLeft, NEW w \in Workers, WorkerStep(w) \/ WorkerFault(w)
  PROVE  TypeOK'
<1> USE DEF database, broker, relay, worker
<1>1. ASSUME NEW m \in BagToSet(queue), Receive(w, m) PROVE TypeOK'
  <2>1. IsABag(queue)' /\ (BagToSet(queue) \subseteq Message)'
    BY <1>1, BagTake DEF Receive, TypeOK
  <2>2. m \in Message
    BY <1>1 DEF TypeOK
  <2> QED
    BY <1>1, <2>1, <2>2 DEF Receive, Take, TypeOK, Steps
<1>2. ASSUME NEW m \in BagToSet(queue), Redeliver(w, m) PROVE TypeOK'
  <2>1. faults' \in [FaultKinds -> Nat]
    BY <1>2, SpendType DEF Redeliver, FaultKinds, TypeOK
  <2>2. m \in Message
    BY <1>2 DEF TypeOK
  <2> QED
    BY <1>2, <2>1, <2>2 DEF Redeliver, Take, TypeOK, Steps
<1>3. CASE Claim(w)
  BY <1>3, ClaimedType, GotoType DEF Claim, TypeOK, WorkerTyped, Steps
<1>4. CASE SkipClaim(w)
  BY <1>4, FinishType DEF SkipClaim, TypeOK, WorkerTyped
<1>5. CASE LoadForComplete(w)
  BY <1>5, FinishType, GotoType DEF LoadForComplete, TypeOK, WorkerTyped, Steps
<1>6. CASE FindSystemActor(w)
  BY <1>6, GotoType DEF FindSystemActor, TypeOK, WorkerTyped, Steps, ActorTypes
<1>7. CASE CommitComplete(w)
  BY <1>7, FinishType, TriageType DEF CommitComplete, TypeOK, WorkerTyped
<1>8. CASE ActorConflict(w)
  BY <1>8, GotoType DEF ActorConflict, InsertConflicts, TypeOK, WorkerTyped, Steps
<1>9. CASE LoadForFail(w)
  <2>1. WorkerTyped'
    <3>1. CASE FailApplies(w)
      BY <1>9, <3>1, JobType DEF LoadForFail, TypeOK, WorkerTyped, Steps
    <3>2. CASE ~ FailApplies(w)
      BY <1>9, <3>2, AfterFailType DEF LoadForFail
    <3> QED
      BY <3>1, <3>2
  <2> QED
    BY <1>9, <2>1 DEF LoadForFail, TypeOK, WorkerTyped
<1>10. CASE CommitFail(w)
  BY <1>10, WriteFailureType, AfterFailType DEF CommitFail, TypeOK, WorkerTyped
<1>11. CASE Retry(w)
  BY <1>11, RequeueType, FinishType DEF Retry, RetriesLeft, TypeOK, WorkerTyped
<1>12. CASE BeginRaises(w)
  BY <1>12, SpendType, ClaimedType, GotoType
     DEF BeginRaises, TypeOK, WorkerTyped, Steps, FaultKinds
<1>13. CASE CompleteRaises(w)
  BY <1>13, SpendType, TriageType, GotoType
     DEF CompleteRaises, TypeOK, WorkerTyped, Steps, FaultKinds
<1>14. CASE FailRaises(w)
  BY <1>14, SpendType, WriteFailureType, FinishType
     DEF FailRaises, TypeOK, WorkerTyped, FaultKinds
<1>15. CASE RetryRaises(w)
  BY <1>15, SpendType, FinishType DEF RetryRaises, TypeOK, WorkerTyped, FaultKinds
<1>16. CASE WorkerDies(w)
  BY <1>16, SpendType, FinishType DEF WorkerDies, TypeOK, WorkerTyped, FaultKinds
<1> QED
  BY <1>1, <1>2, <1>3, <1>4, <1>5, <1>6, <1>7, <1>8, <1>9, <1>10, <1>11, <1>12,
     <1>13, <1>14, <1>15, <1>16 DEF WorkerStep, WorkerFault

\* A worker goes to "retry" through AfterFail, and keeps its message.
LEMMA WorkerKeepsRetries ==
  ASSUME TypeOK, RetriesLeft, NEW w \in Workers, WorkerStep(w) \/ WorkerFault(w)
  PROVE  RetriesLeft'
<1>1. ASSUME NEW step \in Steps \ {"retry"}, Goto(w, step) PROVE RetriesLeft'
  BY <1>1 DEF Goto, RetriesLeft, MayRetry, TypeOK
<1>2. CASE Finish(w)
  BY <1>2 DEF Finish, RetriesLeft, MayRetry, TypeOK
<1>3. ASSUME NEW m, Take(w, m) PROVE RetriesLeft'
  BY <1>3 DEF Take, RetriesLeft, MayRetry, TypeOK
<1>4. CASE AfterFail(w)
  <2>1. CASE MayRetry(w)
    BY <1>4, <2>1 DEF AfterFail, RetriesLeft, MayRetry, TypeOK
  <2> QED
    BY <1>2, <1>4, <2>1 DEF AfterFail
<1>5. CASE LoadForFail(w)
  <2>1. CASE FailApplies(w)
    BY <1>5, <2>1 DEF LoadForFail, RetriesLeft, MayRetry, TypeOK
  <2> QED
    BY <1>4, <1>5, <2>1 DEF LoadForFail
<1>6. CASE Claim(w) \/ FindSystemActor(w) \/ ActorConflict(w) \/ BeginRaises(w) \/ CompleteRaises(w)
  <2>1. CASE Claim(w)
    BY <1>1, <2>1 DEF Claim, Steps
  <2>2. CASE FindSystemActor(w)
    BY <1>1, <2>2 DEF FindSystemActor, Steps, TypeOK, ActorTypes
  <2>3. CASE ActorConflict(w) \/ BeginRaises(w) \/ CompleteRaises(w)
    BY <1>1, <2>3 DEF ActorConflict, BeginRaises, CompleteRaises, Steps
  <2> QED
    BY <1>6, <2>1, <2>2, <2>3
<1>7. CASE LoadForComplete(w)
  BY <1>1, <1>2, <1>7 DEF LoadForComplete, Steps
<1>8. CASE SkipClaim(w) \/ CommitComplete(w) \/ Retry(w) \/ FailRaises(w)
           \/ RetryRaises(w) \/ WorkerDies(w)
  BY <1>2, <1>8 DEF SkipClaim, CommitComplete, Retry, FailRaises, RetryRaises, WorkerDies
<1>9. ASSUME NEW m, Receive(w, m) \/ Redeliver(w, m) PROVE RetriesLeft'
  BY <1>3, <1>9 DEF Receive, Redeliver
<1>10. CASE CommitFail(w)
  BY <1>4, <1>10 DEF CommitFail
<1> QED
  BY <1>5, <1>6, <1>7, <1>8, <1>9, <1>10 DEF WorkerStep, WorkerFault

-----------------------------------------------------------------------------
TypeInv == TypeOK /\ RetriesLeft

LEMMA TypeInvInit == Init => TypeInv
BY TypeInit DEF TypeInv, Init, RetriesLeft

LEMMA TypeInvNext == TypeInv /\ [Next]_vars => TypeInv'
<1> SUFFICES ASSUME TypeInv, [Next]_vars PROVE TypeInv'
  OBVIOUS
<1> USE DEF TypeInv
<1>1. ASSUME NEW t \in Tickets, CreateTicket(t) PROVE TypeInv'
  <2>1. [NoRow EXCEPT !.status = "PENDING"] \in Row
    BY DEF NoRow, Row, ProcessingStatus
  <2>2. TypeOK'
    BY <1>1, <2>1 DEF CreateTicket, TypeOK, broker, relay, worker
  <2> QED
    BY <1>1, <2>2, RelayKeepsRetries DEF CreateTicket
<1>2. ASSUME NEW r \in Relays, RelayStep(r) \/ RelayFault(r) PROVE TypeInv'
  <2>1. UNCHANGED worker
    BY <1>2 DEF RelayStep, RelayFault, RelaySelect, RelayPublish, RelayCommit,
                RelayPublishRaises, RelayDies
  <2> QED
    BY <1>2, <2>1, RelayTypeStep, RelayKeepsRetries
<1>3. ASSUME NEW w \in Workers, WorkerStep(w) \/ WorkerFault(w) PROVE TypeInv'
  BY <1>3, WorkerTypeStep, WorkerKeepsRetries
<1>4. CASE UNCHANGED vars
  <2>1. TypeOK'
    BY <1>4 DEF vars, TypeOK
  <2> QED
    BY <1>4, <2>1, RelayKeepsRetries DEF vars, worker
<1> QED
  BY <1>1, <1>2, <1>3, <1>4 DEF Next

(***************************************************************************)
(* Type correctness: whatever the faults, every row, message and worker    *)
(* has the shape the code gives it.  No retry leaves with more retries     *)
(* than max_retries.                                                       *)
(***************************************************************************)
THEOREM TypeCorrect == Spec => []TypeOK
<1>1. Spec => []TypeInv
  BY TypeInvInit, TypeInvNext, PTL DEF Spec
<1> QED
  BY <1>1, PTL DEF TypeInv

-----------------------------------------------------------------------------
(***************************************************************************)
(* Safety.  It is argued for runs in which no database call of begin       *)
(* raises: a begin that raises enters fail without a claim, where the row  *)
(* may belong to another delivery of the message.                          *)
(***************************************************************************)
NoBeginErrors == \A b \in Budgets : b["begin"] = 0

RowOK(t) ==
  /\ triaged[t] = IF row[t].status = "COMPLETED" THEN 1 ELSE 0
  /\ deadLetters[t] = IF row[t].status = "FAILED"
                        THEN <<[task |-> row[t].owner, attempts |-> row[t].attempts]>>
                        ELSE <<>>
  /\ row[t].status \in {"PROCESSING", "COMPLETED"} => ~ row[t].error
  /\ row[t].status = "FAILED" => row[t].error

RowsOK == \A t \in Tickets : RowOK(t)

LEMMA RowsOKSplit == RowsOK <=> TriagedOnce /\ DeadLetterMatchesFailure /\ ErrorOfLastAttempt
BY DEF RowsOK, RowOK, TriagedOnce, DeadLetterMatchesFailure, ErrorOfLastAttempt

SafeInv ==
  /\ TypeInv
  /\ faults["begin"] = 0
  /\ ExclusiveClaim
  /\ OwnershipHeld
  /\ RowsOK

\* No other worker is engaged with t.
Free(t, w) == \A v \in Workers \ {w} : Engaged(v) => Ticket(v) # t

\* The argument common to all steps of a worker w: it changes rows that no other
\* worker is engaged with, leaves them in order, and goes on only with a row it owns.
LEMMA WorkerKeeps ==
  ASSUME ExclusiveClaim, OwnershipHeld, RowsOK, NEW w \in Workers,
         \A v \in Workers \ {w} : pc'[v] = pc[v] /\ job'[v] = job[v] /\ seen'[v] = seen[v],
         \A t \in Tickets :
           \/ /\ row'[t] = row[t] /\ triaged'[t] = triaged[t]
              /\ deadLetters'[t] = deadLetters[t]
           \/ RowOK(t)' /\ Free(t, w),
         Engaged(w)' => Owns(w)' /\ Free(Ticket(w)', w) /\ Ticket(w)' \in Tickets,
         \A v \in Workers : Engaged(v) => Ticket(v) \in Tickets
  PROVE  ExclusiveClaim' /\ OwnershipHeld' /\ RowsOK'
<1>1. \A v \in Workers \ {w} : Engaged(v)' = Engaged(v) /\ Ticket(v)' = Ticket(v)
  BY DEF Engaged, Ticket
<1>2. ExclusiveClaim'
  BY <1>1 DEF ExclusiveClaim, Free
<1>3. RowsOK'
  BY DEF RowsOK, RowOK
<1>4. ASSUME NEW v \in Workers \ {w}, Engaged(v)' PROVE Owns(v)'
  <2>1. row'[Ticket(v)] = row[Ticket(v)]
    BY <1>1, <1>4 DEF Free
  <2> QED
    BY <1>1, <1>4, <2>1 DEF OwnershipHeld, Owns, Ticket
<1>5. OwnershipHeld'
  BY <1>4 DEF OwnershipHeld
<1> QED
  BY <1>2, <1>3, <1>5

LEMMA EngagedFacts ==
  ASSUME SafeInv, NEW w \in Workers, Engaged(w)
  PROVE  /\ pc[w] # "idle" /\ Owns(w) /\ Free(Ticket(w), w) /\ RowOK(Ticket(w))
         /\ Ticket(w) \in Tickets /\ row[Ticket(w)] \in Row /\ job[w].task \in Nat
<1>1. pc[w] # "idle"
  BY DEF Engaged
<1> QED
  BY <1>1, JobType DEF SafeInv, TypeInv, OwnershipHeld, ExclusiveClaim, Free, RowsOK

\* A ticket that waits for a claim is nobody's.
LEMMA PendingIsFree ==
  ASSUME SafeInv, NEW w \in Workers, NEW t \in Tickets, row[t].status = "PENDING"
  PROVE  Free(t, w)
BY EngagedFacts DEF Free, Owns

LEMMA SafeStart == Init /\ faults["begin"] = 0 => SafeInv
<1> SUFFICES ASSUME Init, faults["begin"] = 0 PROVE SafeInv
  OBVIOUS
<1>1. TypeInv
  BY TypeInvInit
<1>3. ExclusiveClaim /\ OwnershipHeld /\ RowsOK
  BY DEF Init, ExclusiveClaim, OwnershipHeld, Engaged, RowsOK, RowOK, NoRow
<1> QED
  BY <1>1, <1>3 DEF SafeInv

LEMMA SafeInit == NoBeginErrors /\ Init => SafeInv
BY SafeStart DEF NoBeginErrors, Init

-----------------------------------------------------------------------------
(***************************************************************************)
(* What a claim, a triage and a recorded failure do to a row that is in    *)
(* order, if it is in the state that the worker checked.                   *)
(***************************************************************************)
LEMMA ClaimRow ==
  ASSUME TypeOK, NEW w \in Workers, pc[w] = "begin", Claimable(Ticket(w)), row' = Claimed(w),
         NEW T, T = Ticket(w), RowOK(T),
         triaged' = triaged, deadLetters' = deadLetters
  PROVE  /\ RowOK(T)' /\ T \in Tickets
         /\ row'[T].status = "PROCESSING" /\ row'[T].owner = job[w].task
         /\ \A t \in Tickets \ {T} : row'[t] = row[t]
<1>1. T \in Tickets
  BY JobType
<1>2. row'[T] = [status |-> "PROCESSING", owner |-> job[w].task,
                         attempts |-> row[T].attempts + 1, error |-> FALSE]
  BY <1>1 DEF Claimed, TypeOK
<1>3. \A t \in Tickets \ {T} : row'[t] = row[t]
  BY <1>1 DEF Claimed, TypeOK
<1>4. RowOK(T)'
  <2>1. triaged[T] = 0 /\ deadLetters[T] = <<>>
    BY <1>1 DEF RowOK, Claimable
  <2> QED
    BY <1>2, <2>1 DEF RowOK
<1> QED
  BY <1>1, <1>2, <1>3, <1>4

LEMMA TriageRow ==
  ASSUME TypeOK, NEW w \in Workers, pc[w] # "idle", Triage(w), NEW T, T = Ticket(w),
         RowOK(T), Owned(w)
  PROVE  /\ RowOK(T)'
         /\ row'[T].status = "COMPLETED" /\ row'[T].owner = job[w].task
         /\ row'[T].attempts = row[T].attempts
         /\ triaged'[T] = triaged[T] + 1 /\ deadLetters' = deadLetters
         /\ \A t \in Tickets \ {T} : row'[t] = row[t] /\ triaged'[t] = triaged[t]
<1> DEFINE old == row[T]
<1>1. T \in Tickets /\ old \in Row
  BY JobType
<1>2. row'[T] = [old EXCEPT !.status = "COMPLETED"] /\ triaged'[T] = triaged[T] + 1
  BY <1>1 DEF Triage, TypeOK
<1>3. \A t \in Tickets \ {T} : row'[t] = row[t] /\ triaged'[t] = triaged[t]
  BY <1>1 DEF Triage, TypeOK
<1>4. /\ row'[T].status = "COMPLETED" /\ row'[T].owner = old.owner
      /\ row'[T].attempts = old.attempts /\ row'[T].error = old.error
  BY <1>1, <1>2 DEF Row
<1>5. old.status = "PROCESSING" /\ old.owner = job[w].task
  BY DEF Owned
<1>6. triaged[T] = 0 /\ deadLetters[T] = <<>> /\ ~ old.error
  BY <1>1, <1>5 DEF RowOK
<1>7. deadLetters' = deadLetters
  BY DEF Triage
<1>8. RowOK(T)'
  BY <1>2, <1>4, <1>6, <1>7 DEF RowOK
<1> QED
  BY <1>2, <1>3, <1>4, <1>5, <1>7, <1>8

LEMMA FailureRow ==
  ASSUME TypeOK, NEW w \in Workers, pc[w] = "failcommit", WriteFailure(w), NEW T, T = Ticket(w),
         RowOK(T), row[T].status \in {"PENDING", "PROCESSING"}, row[T].owner = job[w].task,
         seen[w] = row[T]
  PROVE  /\ RowOK(T)'
         /\ row'[T].status = (IF MayRetry(w) THEN "PENDING" ELSE "FAILED")
         /\ row'[T].owner = row[T].owner
         /\ row'[T].attempts = row[T].attempts
         /\ triaged' = triaged
         /\ deadLetters'[T] =
              IF MayRetry(w) THEN <<>>
              ELSE <<[task |-> row[T].owner, attempts |-> row[T].attempts]>>
         /\ \A t \in Tickets \ {T} : row'[t] = row[t] /\ deadLetters'[t] = deadLetters[t]
<1> DEFINE old == row[T]
           target == IF MayRetry(w) THEN "PENDING" ELSE "FAILED"
<1>1. T \in Tickets /\ old \in Row
  BY JobType
<1>2. triaged[T] = 0 /\ deadLetters[T] = <<>>
  BY DEF RowOK
<1>3. PICK new \in FailedRow(w) : row' = [row EXCEPT ![T] = new]
  BY DEF WriteFailure
<1>4. /\ new.status = target /\ new.owner = old.owner
      /\ new.attempts = old.attempts /\ new.error = TRUE
  BY <1>1, <1>3 DEF Row, FailedRow
<1>5. row'[T] = new /\ \A t \in Tickets \ {T} : row'[t] = row[t]
  BY <1>1, <1>3 DEF TypeOK
<1>6. /\ deadLetters'[T] = IF MayRetry(w) THEN <<>>
                           ELSE <<[task |-> old.owner, attempts |-> old.attempts]>>
      /\ \A t \in Tickets \ {T} : deadLetters'[t] = deadLetters[t]
  <2>1. CASE MayRetry(w)
    BY <1>2, <2>1 DEF WriteFailure
  <2>2. CASE ~ MayRetry(w)
    BY <1>1, <1>2, <2>2 DEF WriteFailure, TypeOK
  <2> QED
    BY <2>1, <2>2
<1>7. triaged' = triaged
  BY DEF WriteFailure
<1>8. RowOK(T)'
  BY <1>2, <1>4, <1>5, <1>6, <1>7 DEF RowOK
<1> QED
  BY <1>4, <1>5, <1>6, <1>7, <1>8

\* Under SafeInv the row of an engaged worker is in that state.
LEMMA ClaimEffect ==
  ASSUME SafeInv, NEW w \in Workers, pc[w] = "begin", Claimable(Ticket(w)), row' = Claimed(w),
         NEW T, T = Ticket(w),
         triaged' = triaged, deadLetters' = deadLetters
  PROVE  /\ RowOK(T)' /\ Free(T, w) /\ T \in Tickets
         /\ row'[T].status = "PROCESSING" /\ row'[T].owner = job[w].task
         /\ \A t \in Tickets \ {T} : row'[t] = row[t]
<1>1. TypeOK /\ T \in Tickets /\ RowOK(T)
  BY JobType DEF SafeInv, TypeInv, RowsOK
<1> QED
  BY <1>1, ClaimRow, PendingIsFree DEF Claimable

LEMMA TriageEffect ==
  ASSUME SafeInv, NEW w \in Workers, Engaged(w), pc[w] # "fail", Triage(w), NEW T, T = Ticket(w)
  PROVE  /\ RowOK(T)'
         /\ row'[T].status = "COMPLETED" /\ row'[T].owner = job[w].task
         /\ row'[T].attempts = row[T].attempts
         /\ triaged'[T] = triaged[T] + 1 /\ deadLetters' = deadLetters
         /\ \A t \in Tickets \ {T} : row'[t] = row[t] /\ triaged'[t] = triaged[t]
<1>1. TypeOK /\ pc[w] # "idle" /\ RowOK(T) /\ Owned(w)
  BY EngagedFacts DEF SafeInv, TypeInv, Owns, Owned
<1> QED
  BY <1>1, TriageRow

LEMMA FailureEffect ==
  ASSUME SafeInv, NEW w \in Workers, pc[w] = "failcommit", WriteFailure(w), NEW T, T = Ticket(w)
  PROVE  /\ RowOK(T)'
         /\ row'[T].status = (IF MayRetry(w) THEN "PENDING" ELSE "FAILED")
         /\ row'[T].owner = row[T].owner
         /\ row'[T].attempts = row[T].attempts
         /\ triaged' = triaged
         /\ deadLetters'[T] =
              IF MayRetry(w) THEN <<>>
              ELSE <<[task |-> row[T].owner, attempts |-> row[T].attempts]>>
         /\ \A t \in Tickets \ {T} : row'[t] = row[t] /\ deadLetters'[t] = deadLetters[t]
<1>1. Engaged(w)
  BY DEF Engaged
<1>2. /\ TypeOK /\ RowOK(T) /\ row[T].status = "PROCESSING" /\ row[T].owner = job[w].task
      /\ seen[w] = row[T]
  BY <1>1, EngagedFacts DEF SafeInv, TypeInv, Owns
<1> QED
  BY <1>2, FailureRow

-----------------------------------------------------------------------------
Others(w) ==
  \A v \in Workers \ {w} : pc'[v] = pc[v] /\ job'[v] = job[v] /\ seen'[v] = seen[v]

RowsUnchanged == UNCHANGED <<row, triaged, deadLetters>>

SafeParts == ExclusiveClaim /\ OwnershipHeld /\ RowsOK

\* Of the rows, only that of ticket T changes, and it ends in order.
OnlyRow(T) ==
  /\ RowOK(T)'
  /\ \A t \in Tickets \ {T} : /\ row'[t] = row[t] /\ triaged'[t] = triaged[t]
                             /\ deadLetters'[t] = deadLetters[t]

LEMMA GotoOthers ==
  ASSUME TypeOK, NEW w \in Workers, NEW step, Goto(w, step)
  PROVE  Others(w) /\ pc'[w] = step /\ job'[w] = job[w] /\ seen'[w] = seen[w]
BY DEF Goto, Others, TypeOK

LEMMA FinishOthers ==
  ASSUME TypeOK, NEW w \in Workers, Finish(w)
  PROVE  Others(w) /\ ~ Engaged(w)'
BY DEF Finish, Others, TypeOK, Engaged

LEMMA AfterFailOthers ==
  ASSUME TypeOK, NEW w \in Workers, AfterFail(w)
  PROVE  Others(w) /\ ~ Engaged(w)'
<1>1. CASE MayRetry(w)
  BY <1>1 DEF AfterFail, Others, TypeOK, Engaged
<1> QED
  BY <1>1, FinishOthers DEF AfterFail

\* The worker lets go, or never had a claim, and touches no row.
LEMMA QuietEnd ==
  ASSUME SafeInv, NEW w \in Workers, Others(w), ~ Engaged(w)', RowsUnchanged
  PROVE  SafeParts'
BY WorkerKeeps, EngagedFacts DEF SafeInv, SafeParts, Others, RowsUnchanged

\* The worker goes on with the row it owns, and touches no row.
LEMMA QuietGoto ==
  ASSUME SafeInv, NEW w \in Workers, NEW step \in Steps \ {"failcommit"}, Goto(w, step),
         Engaged(w), pc[w] # "fail", RowsUnchanged
  PROVE  SafeParts'
<1>1. TypeOK
  BY DEF SafeInv, TypeInv
<1>2. Owns(w) /\ Free(Ticket(w), w) /\ Ticket(w) \in Tickets
  BY EngagedFacts
<1>3. pc'[w] = step /\ job'[w] = job[w] /\ Others(w)
  BY <1>1, GotoOthers
<1>4. Owns(w)' /\ Ticket(w)' = Ticket(w)
  BY <1>2, <1>3 DEF Owns, Ticket, RowsUnchanged
<1> QED
  BY <1>2, <1>3, <1>4, WorkerKeeps, EngagedFacts DEF SafeInv, SafeParts, Others, RowsUnchanged

\* The worker writes its row and lets go.
LEMMA WriteEnd ==
  ASSUME SafeInv, NEW w \in Workers, Engaged(w), Others(w), ~ Engaged(w)',
         NEW T, T = Ticket(w), OnlyRow(T)
  PROVE  SafeParts'
BY WorkerKeeps, EngagedFacts DEF SafeInv, SafeParts, Others, OnlyRow

LEMMA WorkerSafe ==
  ASSUME SafeInv, NEW w \in Workers, WorkerStep(w) \/ WorkerFault(w)
  PROVE  SafeParts'
<1>T. PICK T : T = Ticket(w)
  OBVIOUS
<1>t. TypeOK
  BY DEF SafeInv, TypeInv
<1>1. ASSUME NEW m, Receive(w, m) \/ Redeliver(w, m) PROVE SafeParts'
  <2>1. Others(w) /\ ~ Engaged(w)' /\ RowsUnchanged
    BY <1>1, <1>t DEF Receive, Redeliver, Take, Others, Engaged, TypeOK, RowsUnchanged, database
  <2> QED
    BY <2>1, QuietEnd
<1>2. CASE Claim(w)
  <2>1. /\ pc[w] = "begin" /\ Claimable(Ticket(w)) /\ row' = Claimed(w)
        /\ triaged' = triaged /\ deadLetters' = deadLetters /\ Goto(w, "complete")
    BY <1>2 DEF Claim
  <2>2. /\ RowOK(T)' /\ Free(T, w) /\ T \in Tickets
        /\ row'[T].status = "PROCESSING" /\ row'[T].owner = job[w].task
        /\ \A t \in Tickets \ {T} : row'[t] = row[t]
    BY <1>T, <2>1, ClaimEffect
  <2>3. Others(w) /\ pc'[w] = "complete" /\ job'[w] = job[w]
    BY <2>1, <1>t, GotoOthers
  <2>4. Owns(w)' /\ Ticket(w)' = T
    BY <1>T, <2>2, <2>3 DEF Owns, Ticket
  <2> QED
    BY <2>1, <2>2, <2>3, <2>4, WorkerKeeps, EngagedFacts DEF SafeInv, SafeParts, Others
<1>3. CASE SkipClaim(w)
  BY <1>3, <1>t, FinishOthers, QuietEnd DEF SkipClaim, RowsUnchanged, database
<1>4. CASE LoadForComplete(w)
  <2>1. Engaged(w) /\ RowsUnchanged
    BY <1>4 DEF LoadForComplete, Engaged, RowsUnchanged, database
  <2> QED
    BY <1>4, <2>1, <1>t, QuietGoto, FinishOthers, QuietEnd DEF LoadForComplete, Steps
<1>5. CASE FindSystemActor(w)
  <2>1. PICK step \in {"commit", "insert", "fail"} : Goto(w, step)
    BY <1>5, <1>t DEF FindSystemActor, TypeOK, ActorTypes
  <2>2. Engaged(w) /\ pc[w] # "fail" /\ RowsUnchanged
    BY <1>5 DEF FindSystemActor, Engaged, RowsUnchanged, database
  <2> QED
    BY <2>1, <2>2, QuietGoto DEF Steps
<1>6. CASE CommitComplete(w)
  <2>1. Engaged(w) /\ pc[w] # "fail" /\ Triage(w)
    BY <1>6 DEF CommitComplete, Engaged
  <2>2. OnlyRow(T)
    BY <1>T, <2>1, TriageEffect DEF OnlyRow
  <2> QED
    BY <1>T, <1>6, <2>1, <2>2, <1>t, FinishOthers, WriteEnd DEF CommitComplete
<1>7. CASE ActorConflict(w)
  <2>1. Engaged(w) /\ pc[w] # "fail" /\ RowsUnchanged /\ Goto(w, "fail")
    BY <1>7 DEF ActorConflict, InsertConflicts, Engaged, RowsUnchanged, database
  <2> QED
    BY <2>1, QuietGoto DEF Steps
<1>8. CASE LoadForFail(w)
  <2>1. Engaged(w) /\ RowsUnchanged /\ pc[w] = "fail"
    BY <1>8 DEF LoadForFail, Engaged, RowsUnchanged, database
  <2>2. CASE FailApplies(w)
    <3>1. /\ Others(w) /\ pc'[w] = "failcommit" /\ job'[w] = job[w]
          /\ seen'[w] = row[Ticket(w)]
      BY <1>8, <2>2, <1>t DEF LoadForFail, Others, TypeOK
    <3>2. Owns(w) /\ Free(Ticket(w), w) /\ Ticket(w) \in Tickets
      BY <2>1, EngagedFacts
    <3>3. Owns(w)' /\ Ticket(w)' = Ticket(w)
      BY <2>1, <2>2, <3>1, <3>2 DEF Owns, Ticket, FailApplies, RowsUnchanged
    <3> QED
      BY <2>1, <3>1, <3>2, <3>3, WorkerKeeps, EngagedFacts
         DEF SafeInv, SafeParts, Others, RowsUnchanged
  <2>3. CASE ~ FailApplies(w)
    BY <1>8, <2>1, <2>3, <1>t, AfterFailOthers, QuietEnd DEF LoadForFail
  <2> QED
    BY <2>2, <2>3
<1>9. CASE CommitFail(w)
  <2>1. Engaged(w) /\ pc[w] = "failcommit" /\ WriteFailure(w)
    BY <1>9 DEF CommitFail, Engaged
  <2>2. OnlyRow(T)
    BY <1>T, <2>1, FailureEffect DEF OnlyRow
  <2> QED
    BY <1>T, <1>9, <2>1, <2>2, <1>t, AfterFailOthers, WriteEnd DEF CommitFail
<1>10. CASE BeginRaises(w)
  BY <1>10 DEF BeginRaises, Spend, SafeInv
<1>11. CASE CompleteRaises(w)
  <2>1. Engaged(w) /\ pc[w] # "fail" /\ Goto(w, "fail")
    BY <1>11 DEF CompleteRaises, Engaged
  <2>2. CASE UNCHANGED database
    BY <2>1, <2>2, QuietGoto DEF RowsUnchanged, database, Steps
  <2>3. CASE Triage(w)
    <3>1. /\ OnlyRow(T) /\ row'[T].status = "COMPLETED" /\ row'[T].owner = job[w].task
      BY <1>T, <2>1, <2>3, TriageEffect DEF OnlyRow
    <3>2. Others(w) /\ pc'[w] = "fail" /\ job'[w] = job[w]
      BY <2>1, <1>t, GotoOthers
    <3>3. Free(T, w) /\ T \in Tickets
      BY <1>T, <2>1, EngagedFacts
    <3>4. Owns(w)' /\ Ticket(w)' = T
      BY <1>T, <3>1, <3>2 DEF Owns, Ticket
    <3> QED
      BY <3>1, <3>2, <3>3, <3>4, WorkerKeeps, EngagedFacts
         DEF SafeInv, SafeParts, Others, OnlyRow
  <2> QED
    BY <1>11, <2>2, <2>3 DEF CompleteRaises
<1>12. CASE FailRaises(w)
  <2>1. Engaged(w) /\ Others(w) /\ ~ Engaged(w)'
    BY <1>12, <1>t, FinishOthers DEF FailRaises, Engaged
  <2>2. CASE UNCHANGED database
    BY <2>1, <2>2, QuietEnd DEF RowsUnchanged, database
  <2>3. CASE pc[w] = "failcommit" /\ WriteFailure(w)
    <3>1. OnlyRow(T)
      BY <1>T, <2>3, FailureEffect DEF OnlyRow
    <3> QED
      BY <1>T, <2>1, <3>1, WriteEnd
  <2> QED
    BY <1>12, <2>2, <2>3 DEF FailRaises
<1>13. CASE Retry(w) \/ RetryRaises(w) \/ WorkerDies(w)
  BY <1>13, <1>t, FinishOthers, QuietEnd
     DEF Retry, RetryRaises, WorkerDies, RowsUnchanged, database
<1> QED
  BY <1>1, <1>2, <1>3, <1>4, <1>5, <1>6, <1>7, <1>8, <1>9, <1>10, <1>11, <1>12, <1>13
     DEF WorkerStep, WorkerFault

-----------------------------------------------------------------------------
\* Steps that leave the rows and the workers alone.
LEMMA NothingHappens ==
  ASSUME SafeInv, RowsUnchanged, UNCHANGED worker
  PROVE  SafeParts'
<1>1. \A w \in Workers : /\ Engaged(w)' = Engaged(w) /\ Ticket(w)' = Ticket(w)
                        /\ Owns(w)' = Owns(w)
  BY DEF worker, Engaged, Ticket, Owns, RowsUnchanged
<1>2. ExclusiveClaim' /\ OwnershipHeld'
  BY <1>1 DEF SafeInv, ExclusiveClaim, OwnershipHeld
<1>3. RowsOK'
  BY DEF SafeInv, RowsOK, RowOK, RowsUnchanged
<1> QED
  BY <1>2, <1>3 DEF SafeParts

LEMMA CreateSafe ==
  ASSUME SafeInv, NEW t \in Tickets, CreateTicket(t)
  PROVE  SafeParts'
<1>1. /\ row'[t].status = "PENDING"
      /\ \A u \in Tickets \ {t} : row'[u] = row[u]
      /\ triaged' = triaged /\ deadLetters' = deadLetters /\ UNCHANGED worker
  BY DEF CreateTicket, SafeInv, TypeInv, TypeOK, NoRow
<1>2. row[t].status = "ABSENT" /\ RowOK(t)
  BY DEF CreateTicket, NoRow, SafeInv, RowsOK
<1>3. RowOK(t)'
  BY <1>1, <1>2 DEF RowOK
<1>4. RowsOK'
  BY <1>1, <1>3 DEF SafeInv, RowsOK, RowOK
<1>5. ASSUME NEW w \in Workers, Engaged(w) PROVE Owns(w)' /\ Ticket(w) \in Tickets
  <2>1. Owns(w) /\ Ticket(w) # t /\ Ticket(w) \in Tickets
    BY <1>2, <1>5, EngagedFacts DEF Owns
  <2> QED
    BY <1>1, <2>1 DEF Owns, Ticket, worker
<1>6. ExclusiveClaim' /\ OwnershipHeld'
  BY <1>1, <1>5 DEF SafeInv, ExclusiveClaim, OwnershipHeld, Engaged, Ticket, worker
<1> QED
  BY <1>4, <1>6 DEF SafeParts

LEMMA RelayQuiet ==
  ASSUME NEW r \in Relays, RelayStep(r) \/ RelayFault(r)
  PROVE  RowsUnchanged /\ UNCHANGED worker
BY DEF RelayStep, RelayFault, RelaySelect, RelayPublish, RelayCommit,
       RelayPublishRaises, RelayDies, RowsUnchanged, database

\* No step gives a fault back, so that a kind the budget lacks never happens.
LEMMA FaultStays ==
  ASSUME TypeOK, NEW k \in FaultKinds, faults[k] = 0, [Next]_vars
  PROVE  faults'[k] = 0
<1>1. ASSUME NEW kind \in FaultKinds, Spend(kind) PROVE faults'[k] = 0
  BY <1>1 DEF Spend, TypeOK
<1>2. ASSUME NEW t \in Tickets, CreateTicket(t) PROVE UNCHANGED faults
  BY <1>2 DEF CreateTicket
<1>3. ASSUME NEW r \in Relays, RelayStep(r) PROVE UNCHANGED faults
  BY <1>3 DEF RelayStep, RelaySelect, RelayPublish, RelayCommit
<1>4. ASSUME NEW r \in Relays, RelayFault(r) PROVE Spend("publish") \/ Spend("relay")
  BY <1>4 DEF RelayFault, RelayPublishRaises, RelayDies
<1>5. ASSUME NEW w \in Workers, WorkerStep(w) PROVE UNCHANGED faults
  BY <1>5 DEF WorkerStep, Receive, Claim, SkipClaim, LoadForComplete, FindSystemActor,
              CommitComplete, ActorConflict, LoadForFail, CommitFail, Retry
<1>6. ASSUME NEW w \in Workers, WorkerFault(w)
      PROVE  \/ Spend("redeliver") \/ Spend("begin") \/ Spend("complete") \/ Spend("fail")
             \/ Spend("retry") \/ Spend("worker")
  BY <1>6 DEF WorkerFault, Redeliver, BeginRaises, CompleteRaises, FailRaises, RetryRaises,
              WorkerDies
<1>7. UNCHANGED vars => UNCHANGED faults
  BY DEF vars
<1> QED
  BY <1>1, <1>2, <1>3, <1>4, <1>5, <1>6, <1>7 DEF Next, FaultKinds

LEMMA SafeNext == SafeInv /\ [Next]_vars => SafeInv'
<1> SUFFICES ASSUME SafeInv, [Next]_vars PROVE SafeInv'
  OBVIOUS
<1>1. TypeInv' /\ faults'["begin"] = 0
  BY TypeInvNext, FaultStays DEF SafeInv, TypeInv, FaultKinds
<1>2. ASSUME NEW t \in Tickets, CreateTicket(t) PROVE SafeParts'
  BY <1>2, CreateSafe
<1>3. ASSUME NEW r \in Relays, RelayStep(r) \/ RelayFault(r) PROVE SafeParts'
  BY <1>3, RelayQuiet, NothingHappens
<1>4. ASSUME NEW w \in Workers, WorkerStep(w) \/ WorkerFault(w) PROVE SafeParts'
  BY <1>4, WorkerSafe
<1>5. ASSUME UNCHANGED vars PROVE SafeParts'
  <2>1. RowsUnchanged /\ UNCHANGED worker
    BY <1>5 DEF vars, RowsUnchanged, worker
  <2> QED
    BY <2>1, NothingHappens
<1>6. SafeParts'
  BY <1>2, <1>3, <1>4, <1>5 DEF Next
<1> QED
  BY <1>1, <1>6 DEF SafeInv, SafeParts

(***************************************************************************)
(* While begin raises nothing, the claim is exclusive and owned until its  *)
(* outcome is committed, whatever is published, delivered or retried       *)
(* again, and however workers and relays die.                              *)
(***************************************************************************)
THEOREM Safety ==
  ASSUME NoBeginErrors
  PROVE  Spec => [](ExclusiveClaim /\ OwnershipHeld)
<1>1. Spec => []SafeInv
  BY SafeInit, SafeNext, PTL DEF Spec
<1>2. SafeInv => ExclusiveClaim /\ OwnershipHeld
  BY DEF SafeInv
<1> QED
  BY <1>1, <1>2, PTL

(***************************************************************************)
(* Under the same assumption complete and fail take effect once: the event *)
(* and the dead letter of a ticket are exactly what its status says.       *)
(***************************************************************************)
THEOREM OutcomesMatch ==
  ASSUME NoBeginErrors
  PROVE  Spec => [](TriagedOnce /\ DeadLetterMatchesFailure /\ ErrorOfLastAttempt)
<1>1. Spec => []SafeInv
  BY SafeInit, SafeNext, PTL DEF Spec
<1>2. SafeInv => TriagedOnce /\ DeadLetterMatchesFailure /\ ErrorOfLastAttempt
  BY RowsOKSplit DEF SafeInv
<1> QED
  BY <1>1, <1>2, PTL

-----------------------------------------------------------------------------
(***************************************************************************)
(* The moves of a ticket: what a step of any process does to the tables.   *)
(***************************************************************************)
Move(T) ==
  /\ \A t \in Tickets \ {T} : /\ row'[t] = row[t] /\ triaged'[t] = triaged[t]
                             /\ deadLetters'[t] = deadLetters[t]
  /\ \/ /\ row[T].status = "ABSENT" /\ row'[T].status = "PENDING"
        /\ row'[T].owner = row[T].owner /\ row'[T].attempts = row[T].attempts
        /\ triaged'[T] = triaged[T] /\ deadLetters'[T] = deadLetters[T]
     \/ /\ row[T].status = "PENDING" /\ row'[T].status = "PROCESSING"
        /\ row'[T].owner \in Nat \ {0} /\ row'[T].attempts = row[T].attempts + 1
        /\ triaged'[T] = triaged[T] /\ deadLetters'[T] = deadLetters[T]
     \/ /\ row[T].status = "PROCESSING" /\ row'[T].status = "PENDING"
        /\ row'[T].owner = row[T].owner /\ row'[T].attempts = row[T].attempts
        /\ triaged'[T] = triaged[T] /\ deadLetters'[T] = deadLetters[T]
     \/ /\ row[T].status = "PROCESSING" /\ row'[T].status = "COMPLETED"
        /\ row'[T].owner = row[T].owner /\ row'[T].attempts = row[T].attempts
        /\ triaged'[T] = triaged[T] + 1 /\ deadLetters'[T] = deadLetters[T]
     \/ /\ row[T].status = "PROCESSING" /\ row'[T].status = "FAILED"
        /\ row'[T].owner = row[T].owner /\ row'[T].attempts = row[T].attempts
        /\ triaged'[T] = triaged[T]
        /\ deadLetters'[T] = Append(deadLetters[T],
                               [task |-> row[T].owner, attempts |-> row[T].attempts])

LEMMA CreateMoves ==
  ASSUME SafeInv, NEW t \in Tickets, CreateTicket(t)
  PROVE  Move(t)
<1> DEFINE new == [NoRow EXCEPT !.status = "PENDING"]
<1>1. row[t] = NoRow /\ row' = [row EXCEPT ![t] = new]
  BY DEF CreateTicket
<1>2. row'[t] = new /\ \A u \in Tickets \ {t} : row'[u] = row[u]
  BY <1>1 DEF SafeInv, TypeInv, TypeOK
<1>3. new.status = "PENDING" /\ new.owner = 0 /\ new.attempts = 0
  BY DEF NoRow
<1>4. triaged' = triaged /\ deadLetters' = deadLetters
  BY DEF CreateTicket
<1> QED
  BY <1>1, <1>2, <1>3, <1>4 DEF Move, NoRow

LEMMA ClaimMoves ==
  ASSUME SafeInv, NEW w \in Workers, Claim(w)
  PROVE  Move(Ticket(w))
<1>1. pc[w] = "begin" /\ job[w].task \in Nat \ {0} /\ Ticket(w) \in Tickets
  BY JobType DEF Claim, SafeInv, TypeInv
<1> QED
  BY <1>1 DEF Claim, Claimable, Claimed, SafeInv, TypeInv, TypeOK, Move

LEMMA TriageMoves ==
  ASSUME SafeInv, NEW w \in Workers, Engaged(w), pc[w] # "fail", Triage(w)
  PROVE  Move(Ticket(w))
BY EngagedFacts, TriageEffect DEF Owns, Move

LEMMA FailureMoves ==
  ASSUME SafeInv, NEW w \in Workers, pc[w] = "failcommit", WriteFailure(w)
  PROVE  Move(Ticket(w))
<1>1. Engaged(w)
  BY DEF Engaged
<1>2. row[Ticket(w)].status = "PROCESSING" /\ deadLetters[Ticket(w)] = <<>>
  BY <1>1, EngagedFacts DEF Owns, RowOK
<1> DEFINE letter == [task |-> row[Ticket(w)].owner, attempts |-> row[Ticket(w)].attempts]
<1>3. Append(deadLetters[Ticket(w)], letter) = <<letter>>
  BY <1>2
<1> QED
  BY <1>2, <1>3, FailureEffect DEF Move

LEMMA StepMoves ==
  ASSUME SafeInv, [Next]_vars
  PROVE  RowsUnchanged \/ \E t \in Tickets : Move(t)
<1>1. ASSUME NEW w \in Workers, WorkerStep(w) \/ WorkerFault(w)
      PROVE  RowsUnchanged \/ (Ticket(w) \in Tickets /\ Move(Ticket(w)))
  <2>1. CASE Claim(w)
    BY <2>1, ClaimMoves, JobType DEF Claim, SafeInv, TypeInv
  <2>2. CASE CommitComplete(w) \/ CompleteRaises(w)
    <3>1. Engaged(w) /\ pc[w] # "fail" /\ (RowsUnchanged \/ Triage(w))
      BY <2>2 DEF CommitComplete, CompleteRaises, Engaged, RowsUnchanged, database
    <3> QED
      BY <3>1, TriageMoves, EngagedFacts
  <2>3. CASE CommitFail(w) \/ FailRaises(w)
    <3>1. RowsUnchanged \/ (pc[w] = "failcommit" /\ WriteFailure(w))
      BY <2>3 DEF CommitFail, FailRaises, RowsUnchanged, database
    <3> QED
      BY <3>1, FailureMoves, JobType DEF SafeInv, TypeInv
  <2>4. CASE BeginRaises(w)
    BY <2>4 DEF BeginRaises, Spend, SafeInv
  <2> QED
    BY <1>1, <2>1, <2>2, <2>3, <2>4
       DEF WorkerStep, WorkerFault, Receive, Redeliver, Take, SkipClaim, LoadForComplete,
           FindSystemActor, ActorConflict, LoadForFail, Retry, RetryRaises, WorkerDies,
           RowsUnchanged, database
<1>2. ASSUME NEW t \in Tickets, CreateTicket(t) PROVE Move(t)
  BY <1>2, CreateMoves
<1>3. ASSUME NEW r \in Relays, RelayStep(r) \/ RelayFault(r) PROVE RowsUnchanged
  BY <1>3, RelayQuiet
<1>4. ASSUME UNCHANGED vars PROVE RowsUnchanged
  BY <1>4 DEF vars, RowsUnchanged
<1> QED
  BY <1>1, <1>2, <1>3, <1>4 DEF Next

SettledKept ==
  \A t \in Tickets : Settled(t) =>
    row'[t] = row[t] /\ triaged'[t] = triaged[t] /\ deadLetters'[t] = deadLetters[t]

LEMMA SafeKeepsSettled == SafeInv /\ [Next]_vars => SettledKept
<1> SUFFICES ASSUME SafeInv, [Next]_vars, NEW t \in Tickets, Settled(t)
             PROVE  row'[t] = row[t] /\ triaged'[t] = triaged[t] /\ deadLetters'[t] = deadLetters[t]
  BY DEF SettledKept
<1>1. CASE RowsUnchanged
  BY <1>1 DEF RowsUnchanged
<1>2. ASSUME NEW T \in Tickets, Move(T) PROVE T # t
  BY <1>2 DEF Move, Settled
<1>3. ASSUME NEW T \in Tickets \ {t}, Move(T)
      PROVE  row'[t] = row[t] /\ triaged'[t] = triaged[t] /\ deadLetters'[t] = deadLetters[t]
  BY <1>3 DEF Move
<1> QED
  BY <1>1, <1>2, <1>3, StepMoves

(***************************************************************************)
(* While begin raises nothing, a COMPLETED or FAILED ticket keeps its row, *)
(* its event and its dead letter for ever.                                 *)
(***************************************************************************)
THEOREM SettledTicketsStay ==
  ASSUME NoBeginErrors
  PROVE  Spec => SettledIsFinal
<1>1. Spec => []SafeInv
  BY SafeInit, SafeNext, PTL DEF Spec
<1>2. SafeInv /\ [Next]_vars => [SettledKept]_vars
  BY SafeKeepsSettled
<1>3. Spec => [][SettledKept]_vars
  BY <1>1, <1>2, PTL DEF Spec
<1> QED
  BY <1>3 DEF SettledIsFinal, SettledKept

-----------------------------------------------------------------------------
(***************************************************************************)
(* Processing implements ProcessingLifecycle.                              *)
(***************************************************************************)
StatusOf == [t \in Tickets |-> row[t].status]
OwnerOf == [t \in Tickets |-> row[t].owner]
AttemptsOf == [t \in Tickets |-> row[t].attempts]

LEMMA MoveIsNext ==
  ASSUME TypeOK, TypeOK', NEW T \in Tickets, Move(T)
  PROVE  Lifecycle!Next
<1> USE DEF StatusOf, OwnerOf, AttemptsOf
<1>1. /\ StatusOf[T] = row[T].status /\ OwnerOf[T] = row[T].owner
      /\ AttemptsOf[T] = row[T].attempts
      /\ OwnerOf'[T] = row'[T].owner
  OBVIOUS
<1>2. /\ StatusOf' = [StatusOf EXCEPT ![T] = row'[T].status]
      /\ OwnerOf' = [OwnerOf EXCEPT ![T] = row'[T].owner]
      /\ AttemptsOf' = [AttemptsOf EXCEPT ![T] = row'[T].attempts]
  BY DEF Move
<1>3. /\ row'[T].owner = row[T].owner => OwnerOf' = OwnerOf
      /\ row'[T].attempts = row[T].attempts => AttemptsOf' = AttemptsOf
  BY <1>1, <1>2
<1>4. /\ triaged' = [triaged EXCEPT ![T] = triaged'[T]]
      /\ deadLetters' = [deadLetters EXCEPT ![T] = deadLetters'[T]]
  BY DEF Move, TypeOK
<1>5. /\ triaged'[T] = triaged[T] => triaged' = triaged
      /\ deadLetters'[T] = deadLetters[T] => deadLetters' = deadLetters
  BY <1>4 DEF TypeOK
<1> HIDE DEF StatusOf, OwnerOf, AttemptsOf
<1>6. \/ Lifecycle!Submit(T) \/ Lifecycle!Claim(T) \/ Lifecycle!Release(T)
      \/ Lifecycle!Complete(T) \/ Lifecycle!Bury(T)
  <2> USE <1>1, <1>2, <1>3, <1>4, <1>5
          DEF Lifecycle!Become, StatusOf, OwnerOf, AttemptsOf
  <2>1. CASE row[T].status = "ABSENT"
    BY <2>1 DEF Lifecycle!Submit, Move
  <2>2. CASE row[T].status = "PENDING"
    BY <2>2 DEF Lifecycle!Claim, Move
  <2>3. CASE row[T].status = "PROCESSING" /\ row'[T].status = "PENDING"
    BY <2>3 DEF Lifecycle!Release, Move
  <2>4. CASE row[T].status = "PROCESSING" /\ row'[T].status = "COMPLETED"
    BY <2>4 DEF Lifecycle!Complete, Move
  <2>5. CASE row[T].status = "PROCESSING" /\ row'[T].status = "FAILED"
    BY <2>5 DEF Lifecycle!Bury, Move
  <2> QED
    BY <2>1, <2>2, <2>3, <2>4, <2>5 DEF Move
<1> QED
  BY <1>6 DEF Lifecycle!Next

(***************************************************************************)
(* While begin raises nothing, what the tables show of a ticket, its       *)
(* event and its dead letter is a behaviour of ProcessingLifecycle.        *)
(***************************************************************************)
THEOREM ImplementsLifecycle ==
  ASSUME NoBeginErrors
  PROVE  Spec => FollowsLifecycle
<1>1. Init => Lifecycle!Init
  BY DEF Init, NoRow, Lifecycle!Init
<1>2. SafeInv /\ SafeInv' /\ [Next]_vars => [Lifecycle!Next]_(Lifecycle!vars)
  <2>1. RowsUnchanged => UNCHANGED Lifecycle!vars
    BY DEF RowsUnchanged, Lifecycle!vars
  <2> QED
    BY <2>1, StepMoves, MoveIsNext DEF SafeInv, TypeInv
<1>3. Spec => []SafeInv
  BY SafeInit, SafeNext, PTL DEF Spec
<1> QED
  BY <1>1, <1>2, <1>3, PTL DEF Spec, FollowsLifecycle, Lifecycle!Spec
=============================================================================
