------------------------ MODULE SingleDeliveryProofs ------------------------
(***************************************************************************)
(* Processing when the broker hands out no message twice.  Then a task has *)
(* one bearer at a time, a message or a worker, and its claims can be      *)
(* counted.  If a ticket is published only once as well, its one bearer    *)
(* makes up for the missing lock even when begin fails.                    *)
(***************************************************************************)
EXTENDS ProcessingProofs, FiniteSetTheorems

NoRedelivery == \A b \in Budgets : b["redeliver"] = 0

Busy(w) == pc[w] # "idle"

SameTask(m, n) == m.ticket = n.ticket /\ m.task = n.task

\* A task has one bearer at most, which is a message or a worker.
OneBearer ==
  /\ \A m \in BagToSet(queue) : queue[m] = 1
  /\ \A m, n \in BagToSet(queue) : SameTask(m, n) => m = n
  /\ \A m \in BagToSet(queue), w \in Workers : Busy(w) => ~ SameTask(m, job[w])
  /\ \A v, w \in Workers : Busy(v) /\ Busy(w) /\ SameTask(job[v], job[w]) => v = w

\* Tasks are numbered by the publications that made them.
TasksPublished ==
  /\ \A m \in BagToSet(queue) : m.task <= published[m.ticket]
  /\ \A w \in Workers : Busy(w) => job[w].task <= published[Ticket(w)]

BearerInv ==
  /\ TypeInv
  /\ faults["redeliver"] = 0
  /\ OneBearer
  /\ TasksPublished

-----------------------------------------------------------------------------
(***************************************************************************)
(* What the queue holds after a message was put in or taken out.           *)
(***************************************************************************)
LEMMA PutOne ==
  ASSUME NEW B, IsABag(B), NEW m, NEW C, C = B (+) SetToBag({m})
  PROVE  /\ BagToSet(C) = BagToSet(B) \cup {m}
         /\ \A n \in BagToSet(B) \ {m} : C[n] = B[n]
         /\ m \notin BagToSet(B) => C[m] = 1
BY DEF IsABag, BagToSet, SetToBag, (+)

LEMMA QueuePut ==
  ASSUME IsABag(queue), NEW m, m \notin BagToSet(queue), queue' = queue (+) SetToBag({m})
  PROVE  /\ BagToSet(queue') = BagToSet(queue) \cup {m}
         /\ \A n \in BagToSet(queue) : queue'[n] = queue[n]
         /\ queue'[m] = 1
<1>1. /\ BagToSet(queue') = BagToSet(queue) \cup {m}
      /\ \A n \in BagToSet(queue) \ {m} : queue'[n] = queue[n]
      /\ m \notin BagToSet(queue) => queue'[m] = 1
  BY PutOne
<1> QED
  BY <1>1

LEMMA TakeOne ==
  ASSUME NEW B, IsABag(B), NEW m \in BagToSet(B), B[m] = 1, NEW C, C = B (-) SetToBag({m})
  PROVE  /\ BagToSet(C) = BagToSet(B) \ {m}
         /\ \A n \in BagToSet(B) \ {m} : C[n] = B[n]
BY DEF IsABag, BagToSet, SetToBag, (-)

LEMMA BearerStart == Init /\ faults["redeliver"] = 0 => BearerInv
<1> SUFFICES ASSUME Init, faults["redeliver"] = 0 PROVE BearerInv
  OBVIOUS
<1>1. TypeInv
  BY TypeInvInit
<1>2. BagToSet(queue) = {}
  BY DEF Init, EmptyBag, SetToBag, BagToSet
<1>3. OneBearer /\ TasksPublished
  BY <1>2 DEF Init, OneBearer, TasksPublished, Busy
<1> QED
  BY <1>1, <1>3 DEF BearerInv

LEMMA BearerInit == NoRedelivery /\ Init => BearerInv
BY BearerStart DEF NoRedelivery, Init

-----------------------------------------------------------------------------
(***************************************************************************)
(* What a step does to bearers: a worker drops its task or goes on with    *)
(* it, takes a message, or puts its task back; a relay adds a new task.    *)
(***************************************************************************)
GoesOn(w) ==
  /\ Busy(w) /\ queue' = queue
  /\ Busy(w)' => pc'[w] # "begin" /\ job'[w] = job[w]

Takes(w, m) ==
  /\ ~ Busy(w) /\ queue' = queue (-) SetToBag({m})
  /\ pc'[w] = "begin" /\ job'[w] = m

PutsBack(w) ==
  /\ pc[w] = "retry" /\ ~ Busy(w)'
  /\ queue' = queue (+) SetToBag({[job[w] EXCEPT !.retries = @ + 1]})

LEMMA WorkerBears ==
  ASSUME TypeOK, faults["redeliver"] = 0, NEW w \in Workers, WorkerStep(w) \/ WorkerFault(w)
  PROVE  /\ Others(w) /\ published' = published
         /\ GoesOn(w) \/ (\E m \in BagToSet(queue) : Takes(w, m)) \/ PutsBack(w)
<1> USE DEF Busy
<1>1. ASSUME NEW m \in BagToSet(queue), Receive(w, m)
      PROVE  Others(w) /\ published' = published /\ Takes(w, m)
  BY <1>1 DEF Receive, Take, Others, Takes, TypeOK
<1>2. ASSUME NEW m \in BagToSet(queue), Redeliver(w, m) PROVE FALSE
  BY <1>2 DEF Redeliver, Spend
<1>3. ASSUME NEW step \in Steps \ {"begin"}, pc[w] # "idle", Goto(w, step), UNCHANGED broker
      PROVE  Others(w) /\ published' = published /\ GoesOn(w)
  BY <1>3, GotoOthers DEF GoesOn, broker
<1>4. ASSUME pc[w] # "idle", Finish(w), UNCHANGED broker
      PROVE  Others(w) /\ published' = published /\ GoesOn(w)
  BY <1>4, FinishOthers DEF Finish, TypeOK, GoesOn, broker
<1>5. ASSUME pc[w] # "idle", AfterFail(w), UNCHANGED broker
      PROVE  Others(w) /\ published' = published /\ GoesOn(w)
  <2>1. CASE MayRetry(w)
    BY <1>5, <2>1, AfterFailOthers DEF AfterFail, TypeOK, GoesOn, broker
  <2> QED
    BY <1>4, <1>5, <2>1 DEF AfterFail
<1>6. CASE Claim(w) \/ BeginRaises(w) \/ CompleteRaises(w) \/ ActorConflict(w)
  BY <1>3, <1>6
     DEF Claim, BeginRaises, CompleteRaises, ActorConflict, InsertConflicts, Steps
<1>7. CASE SkipClaim(w) \/ CommitComplete(w) \/ FailRaises(w) \/ RetryRaises(w) \/ WorkerDies(w)
  BY <1>4, <1>7 DEF SkipClaim, CommitComplete, FailRaises, RetryRaises, WorkerDies
<1>8. CASE LoadForComplete(w)
  BY <1>3, <1>4, <1>8 DEF LoadForComplete, Steps
<1>9. CASE FindSystemActor(w)
  BY <1>3, <1>9 DEF FindSystemActor, Steps, TypeOK, ActorTypes
<1>10. CASE CommitFail(w)
  BY <1>5, <1>10 DEF CommitFail
<1>11. CASE LoadForFail(w)
  <2>1. CASE FailApplies(w)
    BY <1>11, <2>1 DEF LoadForFail, Others, GoesOn, TypeOK, broker
  <2> QED
    BY <1>5, <1>11, <2>1 DEF LoadForFail
<1>12. CASE Retry(w)
  BY <1>12, FinishOthers DEF Retry, Requeue, Finish, TypeOK, PutsBack
<1> QED
  BY <1>1, <1>2, <1>6, <1>7, <1>8, <1>9, <1>10, <1>11, <1>12 DEF WorkerStep, WorkerFault

LEMMA RelayBears ==
  ASSUME NEW r \in Relays, RelayStep(r) \/ RelayFault(r)
  PROVE  UNCHANGED worker /\ (UNCHANGED broker \/ \E t \in Tickets : Enqueue(t))
BY DEF RelayStep, RelayFault, RelaySelect, RelayPublish, RelayCommit,
       RelayPublishRaises, RelayDies

-----------------------------------------------------------------------------
LEMMA TakesKeepsOne ==
  ASSUME BearerInv, NEW w \in Workers, Others(w), published' = published,
         NEW m \in BagToSet(queue), Takes(w, m)
  PROVE  OneBearer' /\ TasksPublished'
<1>1. IsABag(queue) /\ queue[m] = 1
  BY DEF BearerInv, TypeInv, TypeOK, OneBearer
<1>2. /\ BagToSet(queue') = BagToSet(queue) \ {m}
      /\ \A n \in BagToSet(queue) \ {m} : queue'[n] = queue[n]
  BY <1>1, TakeOne DEF Takes
<1>3. job'[w] = m /\ ~ Busy(w)
  BY DEF Takes
<1>4. \A v \in Workers \ {w} : Busy(v)' = Busy(v) /\ job'[v] = job[v]
  BY DEF Others, Busy
<1>5. OneBearer'
  BY <1>2, <1>3, <1>4 DEF BearerInv, OneBearer, SameTask
<1>6. TasksPublished'
  BY <1>2, <1>3, <1>4 DEF BearerInv, TasksPublished, Ticket
<1> QED
  BY <1>5, <1>6

LEMMA GoesOnKeepsOne ==
  ASSUME BearerInv, NEW w \in Workers, Others(w), published' = published, GoesOn(w)
  PROVE  OneBearer' /\ TasksPublished'
<1>1. \A v \in Workers : Busy(v)' => Busy(v) /\ job'[v] = job[v]
  BY DEF Others, Busy, GoesOn
<1> QED
  BY <1>1 DEF BearerInv, OneBearer, TasksPublished, Ticket, GoesOn

LEMMA PutsBackKeepsOne ==
  ASSUME BearerInv, NEW w \in Workers, Others(w), published' = published, PutsBack(w)
  PROVE  OneBearer' /\ TasksPublished'
<1>1. PICK m : m = [job[w] EXCEPT !.retries = @ + 1]
  OBVIOUS
<1>2. Busy(w) /\ job[w] \in Message /\ IsABag(queue)
  BY DEF BearerInv, TypeInv, TypeOK, PutsBack, Busy
<1>3. m.ticket = job[w].ticket /\ m.task = job[w].task
  BY <1>1, <1>2 DEF Message
<1>4. m \notin BagToSet(queue)
  BY <1>2, <1>3 DEF BearerInv, OneBearer, SameTask
<1>5. /\ BagToSet(queue') = BagToSet(queue) \cup {m}
      /\ \A n \in BagToSet(queue) : queue'[n] = queue[n]
      /\ queue'[m] = 1
  <2>1. IsABag(queue) /\ queue' = queue (+) SetToBag({m})
    BY <1>1, <1>2 DEF PutsBack
  <2> QED
    BY <1>4, <2>1, QueuePut
<1>6. \A v \in Workers : Busy(v)' => v # w /\ Busy(v) /\ job'[v] = job[v]
  BY DEF Others, Busy, PutsBack
<1>7. OneBearer'
  BY <1>2, <1>3, <1>5, <1>6 DEF BearerInv, OneBearer, SameTask
<1>8. TasksPublished'
  BY <1>2, <1>3, <1>5, <1>6 DEF BearerInv, TasksPublished, Ticket
<1> QED
  BY <1>7, <1>8

LEMMA EnqueueKeepsOne ==
  ASSUME BearerInv, NEW t \in Tickets, Enqueue(t), UNCHANGED worker
  PROVE  OneBearer' /\ TasksPublished'
<1>1. PICK m : m = [ticket |-> t, task |-> published[t] + 1, retries |-> 0]
  OBVIOUS
<1>2. /\ published[t] \in Nat /\ published' = [published EXCEPT ![t] = published[t] + 1]
      /\ queue' = queue (+) SetToBag({m}) /\ IsABag(queue)
      /\ \A n \in BagToSet(queue) : n \in Message
      /\ \A w \in Workers : Busy(w) => job[w] \in Message
      /\ published \in [Tickets -> Nat]
  BY <1>1 DEF Enqueue, BearerInv, TypeInv, TypeOK, Busy
<1>3. m.ticket = t /\ m.task = published[t] + 1
  BY <1>1
<1>4. \A n \in BagToSet(queue) : ~ SameTask(m, n)
  BY <1>2, <1>3 DEF BearerInv, TasksPublished, SameTask, Message
<1>5. \A w \in Workers : Busy(w) => ~ SameTask(m, job[w])
  BY <1>2, <1>3 DEF BearerInv, TasksPublished, SameTask, Message, Ticket
<1>6. m \notin BagToSet(queue)
  BY <1>4 DEF SameTask
<1>7. /\ BagToSet(queue') = BagToSet(queue) \cup {m}
      /\ \A n \in BagToSet(queue) : queue'[n] = queue[n]
      /\ queue'[m] = 1
  <2>1. IsABag(queue) /\ queue' = queue (+) SetToBag({m})
    BY <1>2
  <2> QED
    BY <1>6, <2>1, QueuePut
<1>8. OneBearer'
  BY <1>4, <1>5, <1>7 DEF BearerInv, OneBearer, SameTask, worker, Busy
<1>9. published'[t] = published[t] + 1 /\ \A u \in Tickets \ {t} : published'[u] = published[u]
  BY <1>2
<1>10. \A u \in Tickets : published[u] \in Nat /\ published[u] <= published'[u]
  BY <1>2, <1>9
<1>11. TasksPublished'
  <2>1. ASSUME NEW n \in BagToSet(queue') PROVE n.task <= published'[n.ticket]
    <3>1. CASE n = m
      BY <1>2, <1>3, <1>9, <3>1
    <3>2. CASE n \in BagToSet(queue)
      <4>1. n.ticket \in Tickets /\ n.task \in Nat /\ n.task <= published[n.ticket]
        BY <1>2, <3>2 DEF BearerInv, TasksPublished, Message
      <4> QED
        BY <1>2, <1>9, <4>1
    <3> QED
      BY <1>7, <3>1, <3>2
  <2>2. ASSUME NEW w \in Workers, Busy(w)' PROVE job'[w].task <= published'[Ticket(w)']
    <3>1. Busy(w) /\ job'[w] = job[w] /\ Ticket(w)' = Ticket(w)
      BY <2>2 DEF worker, Busy, Ticket
    <3>2. Ticket(w) \in Tickets /\ job[w].task \in Nat /\ job[w].task <= published[Ticket(w)]
      BY <1>2, <3>1 DEF BearerInv, TasksPublished, Message, Ticket
    <3> QED
      BY <1>2, <1>9, <3>1, <3>2
  <2> QED
    BY <2>1, <2>2 DEF TasksPublished
<1> QED
  BY <1>8, <1>11

LEMMA StillKeepsOne ==
  ASSUME BearerInv, UNCHANGED <<broker, worker>>
  PROVE  OneBearer' /\ TasksPublished'
BY DEF BearerInv, OneBearer, TasksPublished, Busy, Ticket, broker, worker

LEMMA BearerNext == BearerInv /\ [Next]_vars => BearerInv'
<1> SUFFICES ASSUME BearerInv, [Next]_vars PROVE BearerInv'
  OBVIOUS
<1>1. TypeInv' /\ faults'["redeliver"] = 0
  BY TypeInvNext, FaultStays DEF BearerInv, TypeInv, FaultKinds
<1>2. ASSUME NEW t \in Tickets, CreateTicket(t) PROVE OneBearer' /\ TasksPublished'
  BY <1>2, StillKeepsOne DEF CreateTicket
<1>3. ASSUME NEW r \in Relays, RelayStep(r) \/ RelayFault(r)
      PROVE  OneBearer' /\ TasksPublished'
  BY <1>3, RelayBears, EnqueueKeepsOne, StillKeepsOne
<1>4. ASSUME NEW w \in Workers, WorkerStep(w) \/ WorkerFault(w)
      PROVE  OneBearer' /\ TasksPublished'
  BY <1>4, WorkerBears, GoesOnKeepsOne, TakesKeepsOne, PutsBackKeepsOne DEF BearerInv, TypeInv
<1>5. ASSUME UNCHANGED vars PROVE OneBearer' /\ TasksPublished'
  BY <1>5, StillKeepsOne DEF vars, broker, worker
<1>6. OneBearer' /\ TasksPublished'
  BY <1>2, <1>3, <1>4, <1>5 DEF Next
<1> QED
  BY <1>1, <1>6 DEF BearerInv

LEMMA BearerInvariant ==
  ASSUME NoRedelivery
  PROVE  Spec => []BearerInv
BY BearerInit, BearerNext, PTL DEF Spec

-----------------------------------------------------------------------------
(***************************************************************************)
(* Counting claims.  Each claim is paid for by a publication and a number  *)
(* of retries.  What a bearer may still claim has not been spent, so that  *)
(* there are at least as many spent pairs as attempts.                     *)
(***************************************************************************)
\* The number of retries under which the bearer w claims next, if it does.
NextClaim(w) == IF pc[w] = "begin" THEN job[w].retries ELSE job[w].retries + 1

Due(t, k, r) ==
  \/ \E m \in BagToSet(queue) : m.ticket = t /\ m.task = k /\ m.retries <= r
  \/ \E w \in Workers : Busy(w) /\ Ticket(w) = t /\ job[w].task = k /\ NextClaim(w) <= r

Chances(t) == (1..published[t]) \X (0..MaxRetries)

Spent(t) == {p \in Chances(t) : ~ Due(t, p[1], p[2])}

Paid(t) == row[t].attempts <= Cardinality(Spent(t))

CountInv == BearerInv /\ \A t \in Tickets : Paid(t)

LEMMA ChancesCount ==
  ASSUME NEW n \in Nat, NEW S \in SUBSET ((1..n) \X (0..MaxRetries))
  PROVE  /\ IsFiniteSet(S) /\ Cardinality(S) \in Nat
         /\ Cardinality(S) <= n * (MaxRetries + 1)
<1> DEFINE Tasks == 1..n
           Numbers == 0..MaxRetries
<1>1. /\ IsFiniteSet(Tasks) /\ Cardinality(Tasks) = n
      /\ IsFiniteSet(Numbers) /\ Cardinality(Numbers) = MaxRetries + 1
  BY FS_Interval, ConstantsAssumption
<1> HIDE DEF Tasks, Numbers
<1>2. /\ IsFiniteSet(Tasks \X Numbers)
      /\ Cardinality(Tasks \X Numbers) = Cardinality(Tasks) * Cardinality(Numbers)
  BY <1>1, FS_Product
<1>3. S \in SUBSET (Tasks \X Numbers)
  BY DEF Tasks, Numbers
<1>4. IsFiniteSet(S) /\ Cardinality(S) <= Cardinality(Tasks \X Numbers)
  BY <1>2, <1>3, FS_Subset
<1>5. Cardinality(S) \in Nat
  BY <1>4, FS_CardinalityType
<1> QED
  BY <1>1, <1>2, <1>4, <1>5

\* Nothing that was spent comes back, and the row keeps its attempts.
LEMMA SpentGrows ==
  ASSUME TypeOK, TypeOK', NEW t \in Tickets, Paid(t),
         row'[t].attempts = row[t].attempts, published[t] <= published'[t],
         \A k \in 1..published[t], r \in 0..MaxRetries : Due(t, k, r)' => Due(t, k, r)
  PROVE  Paid(t)'
<1>1. published[t] \in Nat /\ published'[t] \in Nat
  BY DEF TypeOK
<1>2. Spent(t) \in SUBSET Spent(t)'
  BY <1>1 DEF Spent, Chances
<1>3. IsFiniteSet(Spent(t)') /\ Cardinality(Spent(t)') \in Nat /\ Cardinality(Spent(t)) \in Nat
  <2>1. /\ Spent(t) \in SUBSET ((1..published[t]) \X (0..MaxRetries))
        /\ Spent(t)' \in SUBSET ((1..published'[t]) \X (0..MaxRetries))
    BY DEF Spent, Chances
  <2> QED
    BY <1>1, <2>1, ChancesCount
<1>4. Cardinality(Spent(t)) <= Cardinality(Spent(t)')
  BY <1>2, <1>3, FS_Subset
<1>5. row[t].attempts \in Nat
  BY DEF TypeOK, Row
<1> QED
  BY <1>3, <1>4, <1>5 DEF Paid

\* A claim spends the pair of its task and its retries.
LEMMA ClaimSpends ==
  ASSUME TypeOK, TypeOK', NEW t \in Tickets, Paid(t),
         row'[t].attempts = row[t].attempts + 1, published'[t] = published[t],
         NEW k \in 1..published[t], NEW r \in 0..MaxRetries,
         Due(t, k, r), ~ Due(t, k, r)',
         \A j \in 1..published[t], s \in 0..MaxRetries : Due(t, j, s)' => Due(t, j, s)
  PROVE  Paid(t)'
<1> DEFINE p == <<k, r>>
<1>1. Spent(t) \cup {p} \in SUBSET Spent(t)' /\ p \notin Spent(t)
  BY DEF Spent, Chances
<1>2. /\ IsFiniteSet(Spent(t)) /\ IsFiniteSet(Spent(t)')
      /\ Cardinality(Spent(t)') \in Nat /\ Cardinality(Spent(t)) \in Nat
  <2>1. /\ Spent(t) \in SUBSET ((1..published[t]) \X (0..MaxRetries))
        /\ Spent(t)' \in SUBSET ((1..published'[t]) \X (0..MaxRetries))
        /\ published[t] \in Nat /\ published'[t] \in Nat
    BY DEF Spent, Chances, TypeOK
  <2> QED
    BY <2>1, ChancesCount
<1>3. Cardinality(Spent(t) \cup {p}) = Cardinality(Spent(t)) + 1
  BY <1>1, <1>2, FS_AddElement
<1>4. Cardinality(Spent(t) \cup {p}) <= Cardinality(Spent(t)')
  BY <1>1, <1>2, FS_Subset
<1>5. row[t].attempts \in Nat
  BY DEF TypeOK, Row
<1> QED
  BY <1>2, <1>3, <1>4, <1>5 DEF Paid

-----------------------------------------------------------------------------
LEMMA WorkerDue ==
  ASSUME BearerInv, NEW w \in Workers, WorkerStep(w) \/ WorkerFault(w),
         NEW t \in Tickets, NEW k \in Nat, NEW r \in 0..MaxRetries, Due(t, k, r)'
  PROVE  Due(t, k, r)
<1>1. TypeOK /\ faults["redeliver"] = 0 /\ IsABag(queue)
  BY DEF BearerInv, TypeInv, TypeOK
<1>2. Others(w)
  BY <1>1, WorkerBears
<1>3. ASSUME NEW v \in Workers \ {w}, Busy(v)', Ticket(v)' = t, job'[v].task = k,
             NextClaim(v)' <= r
      PROVE  Due(t, k, r)
  <2>1. Busy(v) /\ Ticket(v) = t /\ job[v].task = k /\ NextClaim(v) <= r
    BY <1>2, <1>3 DEF Others, Busy, Ticket, NextClaim
  <2> QED
    BY <2>1 DEF Due
<1>4. CASE GoesOn(w)
  <2>1. ASSUME Busy(w)', Ticket(w)' = t, job'[w].task = k, NextClaim(w)' <= r
        PROVE  Due(t, k, r)
    <3>1. Busy(w) /\ job'[w] = job[w] /\ pc'[w] # "begin" /\ job[w].retries \in Nat
      BY <1>1, <1>4, <2>1, JobType DEF GoesOn, Busy
    <3>2. Ticket(w) = t /\ job[w].task = k /\ NextClaim(w) <= r
      BY <2>1, <3>1 DEF Ticket, NextClaim
    <3> QED
      BY <3>1, <3>2 DEF Due
  <2>2. queue' = queue
    BY <1>4 DEF GoesOn
  <2> QED
    BY <1>3, <2>1, <2>2 DEF Due
<1>5. ASSUME NEW m \in BagToSet(queue), Takes(w, m) PROVE Due(t, k, r)
  <2>1. queue[m] = 1
    BY <1>5 DEF BearerInv, OneBearer
  <2>2. BagToSet(queue') = BagToSet(queue) \ {m}
    BY <1>1, <1>5, <2>1, TakeOne DEF Takes
  <2>3. ASSUME Busy(w)', Ticket(w)' = t, job'[w].task = k, NextClaim(w)' <= r
        PROVE  Due(t, k, r)
    BY <1>5, <2>3 DEF Takes, Ticket, NextClaim, Due
  <2> QED
    BY <1>3, <2>2, <2>3 DEF Due
<1>6. CASE PutsBack(w)
  <2>1. PICK m : m = [job[w] EXCEPT !.retries = @ + 1]
    OBVIOUS
  <2>2. queue' = queue (+) SetToBag({m}) /\ Busy(w) /\ job[w] \in Message
    BY <1>1, <1>6, <2>1 DEF PutsBack, TypeOK, Busy
  <2>3. BagToSet(queue') = BagToSet(queue) \cup {m}
    BY <1>1, <2>2, PutOne
  <2>4. /\ m.ticket = Ticket(w) /\ m.task = job[w].task /\ m.retries = NextClaim(w)
    BY <1>6, <2>1, <2>2 DEF Message, NextClaim, PutsBack, Ticket
  <2>5. ~ Busy(w)'
    BY <1>6 DEF PutsBack
  <2> QED
    BY <1>3, <2>2, <2>3, <2>4, <2>5 DEF Due
<1> QED
  BY <1>1, <1>4, <1>5, <1>6, WorkerBears

\* After its claim the task has no bearer that may make the same claim again.
LEMMA ClaimNotDue ==
  ASSUME BearerInv, NEW w \in Workers, NEW step \in Steps \ {"idle", "begin"}, Goto(w, step),
         pc[w] = "begin", queue' = queue,
         NEW t, t = Ticket(w), NEW k, k = job[w].task, NEW r, r = job[w].retries
  PROVE  Due(t, k, r) /\ ~ Due(t, k, r)'
<1>1. TypeOK /\ Busy(w) /\ job[w].retries \in Nat /\ job[w] \in Message
  BY JobType DEF BearerInv, TypeInv, Busy
<1>2. Others(w) /\ pc'[w] = step /\ job'[w] = job[w]
  BY <1>1, GotoOthers
<1>3. Due(t, k, r)
  BY <1>1 DEF Due, NextClaim
<1>4. ~ \E m \in BagToSet(queue) : m.ticket = t /\ m.task = k
  BY <1>1 DEF BearerInv, OneBearer, SameTask, Ticket
<1>5. ASSUME NEW v \in Workers, Busy(v)', Ticket(v)' = t, job'[v].task = k PROVE v = w
  <2>1. v # w => Busy(v) /\ job'[v] = job[v]
    BY <1>2, <1>5 DEF Others, Busy
  <2> QED
    BY <1>1, <1>5, <2>1 DEF BearerInv, OneBearer, SameTask, Ticket
<1>6. ~ (NextClaim(w)' <= r)
  BY <1>1, <1>2 DEF NextClaim
<1>7. ~ Due(t, k, r)'
  <2> SUFFICES ASSUME Due(t, k, r)' PROVE FALSE
    OBVIOUS
  <2>1. \E v \in Workers : /\ Busy(v)' /\ Ticket(v)' = t /\ job'[v].task = k
                          /\ NextClaim(v)' <= r
    BY <1>4 DEF Due
  <2> QED
    BY <1>5, <1>6, <2>1
<1> QED
  BY <1>3, <1>7

Claims(w) ==
  /\ pc[w] = "begin" /\ row' = Claimed(w) /\ queue' = queue
  /\ Goto(w, "complete") \/ Goto(w, "fail")

LEMMA WorkerAttempts ==
  ASSUME TypeOK, NEW w \in Workers, WorkerStep(w) \/ WorkerFault(w)
  PROVE  Claims(w) \/ \A t \in Tickets : row'[t].attempts = row[t].attempts
<1>1. ASSUME pc[w] # "idle", Triage(w)
      PROVE  \A t \in Tickets : row'[t].attempts = row[t].attempts
  <2>1. Ticket(w) \in Tickets /\ row[Ticket(w)] \in Row /\ row \in [Tickets -> Row]
    BY <1>1, JobType DEF TypeOK
  <2>2. [row[Ticket(w)] EXCEPT !.status = "COMPLETED"].attempts = row[Ticket(w)].attempts
    BY <2>1 DEF Row
  <2> QED
    BY <1>1, <2>1, <2>2 DEF Triage
<1>2. ASSUME pc[w] # "idle", WriteFailure(w)
      PROVE  \A t \in Tickets : row'[t].attempts = row[t].attempts
  <2>1. Ticket(w) \in Tickets /\ row[Ticket(w)] \in Row /\ row \in [Tickets -> Row]
    BY <1>2, JobType DEF TypeOK
  <2>2. PICK new \in FailedRow(w) : row' = [row EXCEPT ![Ticket(w)] = new]
    BY <1>2 DEF WriteFailure
  <2>3. new.attempts = row[Ticket(w)].attempts
    BY <2>1, <2>2 DEF FailedRow, Row
  <2> QED
    BY <2>1, <2>2, <2>3
<1>3. CASE Claim(w) \/ BeginRaises(w)
  BY <1>3 DEF Claim, BeginRaises, Claims, broker
<1>4. CASE CommitComplete(w) \/ CompleteRaises(w)
  BY <1>1, <1>4 DEF CommitComplete, CompleteRaises, database
<1>5. CASE CommitFail(w) \/ FailRaises(w)
  BY <1>2, <1>5 DEF CommitFail, FailRaises, database
<1> QED
  BY <1>3, <1>4, <1>5
     DEF WorkerStep, WorkerFault, Receive, Redeliver, Take, SkipClaim, LoadForComplete,
         FindSystemActor, ActorConflict, LoadForFail, Retry, RetryRaises, WorkerDies, database

LEMMA WorkerCounts ==
  ASSUME CountInv, TypeOK', NEW w \in Workers, WorkerStep(w) \/ WorkerFault(w),
         NEW t \in Tickets
  PROVE  Paid(t)'
<1>1. BearerInv /\ TypeOK /\ Paid(t) /\ faults["redeliver"] = 0
  BY DEF CountInv, BearerInv, TypeInv
<1>2. published' = published
  BY <1>1, WorkerBears
<1>3. published[t] \in Nat
  BY <1>1 DEF TypeOK
<1>4. \A k \in 1..published[t], r \in 0..MaxRetries : Due(t, k, r)' => Due(t, k, r)
  BY <1>1, <1>3, WorkerDue
<1>5. CASE row'[t].attempts = row[t].attempts
  BY <1>1, <1>2, <1>3, <1>4, <1>5, SpentGrows
<1>6. CASE Claims(w)
  <2>1. pc[w] = "begin" /\ row' = Claimed(w) /\ queue' = queue
    BY <1>6 DEF Claims
  <2>2. Ticket(w) \in Tickets /\ job[w] \in Message /\ Busy(w)
    BY <1>1, <2>1, JobType DEF Busy
  <2>3. CASE t # Ticket(w)
    BY <1>1, <1>5, <2>1, <2>2, <2>3 DEF Claimed, TypeOK
  <2>4. CASE t = Ticket(w)
    <3>1. row'[t].attempts = row[t].attempts + 1
      BY <1>1, <2>1, <2>2, <2>4 DEF Claimed, TypeOK
    <3>2. PICK k, r : k = job[w].task /\ r = job[w].retries
      OBVIOUS
    <3>3. k \in 1..published[t] /\ r \in 0..MaxRetries
      BY <1>1, <1>3, <2>2, <2>4, <3>2 DEF BearerInv, TasksPublished, Message
    <3>4. Due(t, k, r) /\ ~ Due(t, k, r)'
      BY <1>1, <1>6, <2>1, <2>4, <3>2, ClaimNotDue DEF Claims, Steps
    <3> QED
      BY <1>1, <1>2, <1>4, <3>1, <3>3, <3>4, ClaimSpends
  <2> QED
    BY <2>3, <2>4
<1> QED
  BY <1>1, <1>5, <1>6, WorkerAttempts

LEMMA EnqueueDue ==
  ASSUME TypeOK, NEW t \in Tickets, Enqueue(t), UNCHANGED worker,
         NEW u \in Tickets, NEW k \in 1..published[u], NEW r, Due(u, k, r)'
  PROVE  Due(u, k, r)
<1>1. PICK m : m = [ticket |-> t, task |-> published[t] + 1, retries |-> 0]
  OBVIOUS
<1>2. queue' = queue (+) SetToBag({m}) /\ IsABag(queue)
  BY <1>1 DEF Enqueue, TypeOK
<1>3. BagToSet(queue') = BagToSet(queue) \cup {m}
  BY <1>2, PutOne
<1>4. ~ (m.ticket = u /\ m.task = k)
  BY <1>1 DEF TypeOK
<1>5. \A w \in Workers : /\ Busy(w)' = Busy(w) /\ Ticket(w)' = Ticket(w)
                        /\ job'[w] = job[w] /\ NextClaim(w)' = NextClaim(w)
  BY DEF worker, Busy, Ticket, NextClaim
<1> QED
  BY <1>3, <1>4, <1>5 DEF Due

LEMMA StillDue ==
  ASSUME UNCHANGED <<broker, worker>>, NEW t, NEW k, NEW r
  PROVE  Due(t, k, r)' = Due(t, k, r)
BY DEF Due, broker, worker, Busy, Ticket, NextClaim

LEMMA CountInit == NoRedelivery /\ Init => CountInv
<1> SUFFICES ASSUME NoRedelivery, Init PROVE CountInv
  OBVIOUS
<1>1. BearerInv
  BY BearerInit
<1>2. ASSUME NEW t \in Tickets PROVE Paid(t)
  <2>1. published[t] = 0 /\ row[t].attempts = 0
    BY DEF Init, NoRow
  <2>2. Spent(t) \in SUBSET ((1..0) \X (0..MaxRetries))
    BY <2>1 DEF Spent, Chances
  <2>3. Cardinality(Spent(t)) \in Nat
    BY <2>2, ChancesCount
  <2> QED
    BY <2>1, <2>3 DEF Paid
<1> QED
  BY <1>1, <1>2 DEF CountInv

LEMMA CountNext == CountInv /\ [Next]_vars => CountInv'
<1> SUFFICES ASSUME CountInv, [Next]_vars PROVE CountInv'
  OBVIOUS
<1>1. BearerInv' /\ TypeOK' /\ TypeOK
  BY BearerNext DEF CountInv, BearerInv, TypeInv
<1>2. ASSUME NEW t \in Tickets PROVE Paid(t)'
  <2>0. Paid(t) /\ published[t] \in Nat
    BY <1>1, <1>2 DEF CountInv, TypeOK
  <2>1. ASSUME NEW u \in Tickets, CreateTicket(u) PROVE Paid(t)'
    <3>1. row'[t].attempts = row[t].attempts /\ UNCHANGED <<broker, worker>>
      BY <1>1, <1>2, <2>1 DEF CreateTicket, NoRow, TypeOK
    <3>2. published'[t] = published[t]
      BY <3>1 DEF broker
    <3> QED
      BY <1>1, <1>2, <2>0, <3>1, <3>2, StillDue, SpentGrows
  <2>2. ASSUME NEW r \in Relays, RelayStep(r) \/ RelayFault(r) PROVE Paid(t)'
    <3>1. row' = row /\ UNCHANGED worker
      BY <2>2, RelayQuiet DEF RowsUnchanged
    <3>2. CASE UNCHANGED broker
      <4>1. published'[t] = published[t]
        BY <3>2 DEF broker
      <4> QED
        BY <1>1, <1>2, <2>0, <3>1, <3>2, <4>1, StillDue, SpentGrows
    <3>3. ASSUME NEW u \in Tickets, Enqueue(u) PROVE Paid(t)'
      <4>1. published[t] <= published'[t]
        BY <1>1, <2>0, <3>3 DEF Enqueue, TypeOK
      <4> QED
        BY <1>1, <1>2, <2>0, <3>1, <3>3, <4>1, EnqueueDue, SpentGrows
    <3> QED
      BY <2>2, <3>2, <3>3, RelayBears
  <2>3. ASSUME NEW w \in Workers, WorkerStep(w) \/ WorkerFault(w) PROVE Paid(t)'
    BY <1>1, <1>2, <2>3, WorkerCounts
  <2>4. ASSUME UNCHANGED vars PROVE Paid(t)'
    <3>1. row' = row /\ published' = published /\ UNCHANGED <<broker, worker>>
      BY <2>4 DEF vars, broker, worker
    <3> QED
      BY <1>1, <1>2, <2>0, <3>1, StillDue, SpentGrows
  <2> QED
    BY <2>1, <2>2, <2>3, <2>4 DEF Next
<1> QED
  BY <1>1, <1>2 DEF CountInv

(***************************************************************************)
(* max_retries bounds the attempts: if no message is handed out twice,     *)
(* each publication of a ticket pays for MaxRetries + 1 claims at most,    *)
(* whatever raises, in whichever order, and however often relays publish.  *)
(***************************************************************************)
THEOREM RetriesAreBounded ==
  ASSUME NoRedelivery
  PROVE  Spec => []AttemptsBounded
<1>1. CountInv => AttemptsBounded
  <2> SUFFICES ASSUME CountInv, NEW t \in Tickets
               PROVE  row[t].attempts <= (MaxRetries + 1) * published[t]
    BY DEF AttemptsBounded
  <2>1. published[t] \in Nat /\ row[t].attempts \in Nat /\ Paid(t)
    BY DEF CountInv, BearerInv, TypeInv, TypeOK, Row
  <2>2. Spent(t) \in SUBSET ((1..published[t]) \X (0..MaxRetries))
    BY DEF Spent, Chances
  <2>3. /\ Cardinality(Spent(t)) \in Nat
        /\ Cardinality(Spent(t)) <= published[t] * (MaxRetries + 1)
    BY <2>1, <2>2, ChancesCount
  <2>4. published[t] * (MaxRetries + 1) = (MaxRetries + 1) * published[t]
    BY <2>1, ConstantsAssumption
  <2> QED
    BY <2>1, <2>3, <2>4, ConstantsAssumption DEF Paid
<1>2. Spec => []CountInv
  BY CountInit, CountNext, PTL DEF Spec
<1> QED
  BY <1>1, <1>2, PTL

-----------------------------------------------------------------------------
(***************************************************************************)
(* One publication.  If relays do not fail either, a ticket is published   *)
(* once and has one task.  Its one bearer then acts on the row alone, even *)
(* if it enters fail without a claim.                                      *)
(***************************************************************************)
DeliversOnce(budget) ==
  budget["redeliver"] = 0 /\ budget["publish"] = 0 /\ budget["relay"] = 0

\* No behaviour has both: an error of begin, and a message that comes again.
NeverBoth == \A b \in Budgets : b["begin"] = 0 \/ DeliversOnce(b)

PublishedOnce ==
  /\ \A r \in Relays : todo[r] \subseteq batch[r] /\ sent[r] = batch[r] \ todo[r]
  /\ \A q, r \in Relays : q # r => batch[q] \cap batch[r] = {}
  /\ \A r \in Relays : \A t \in batch[r] : outbox[t] = "PENDING"
  /\ \A t \in Tickets :
       published[t] = IF outbox[t] = "PUBLISHED" \/ \E r \in Relays : t \in sent[r] THEN 1 ELSE 0

\* Before it is published a ticket only waits.
WaitsForPublication ==
  \A t \in Tickets :
    /\ row[t].status = "ABSENT" <=> outbox[t] = "ABSENT"
    /\ published[t] = 0 => row[t].status \in {"ABSENT", "PENDING"}

\* While there is a bearer, the ticket is not given up.
Alive == {"PENDING", "PROCESSING", "COMPLETED"}

Holds(w) ==
  LET now == row[Ticket(w)] IN
  /\ now.status \in Alive
  /\ pc[w] \in {"actor", "commit", "insert"} => Owned(w)
  /\ pc[w] = "failcommit" =>
       /\ now.status \in {"PENDING", "PROCESSING"} /\ now.owner = job[w].task
       /\ seen[w] = now

BearersHold ==
  /\ \A w \in Workers : Busy(w) => Holds(w)
  /\ \A m \in BagToSet(queue) : row[m.ticket].status \in Alive

SoleInv ==
  /\ BearerInv
  /\ faults["publish"] = 0 /\ faults["relay"] = 0
  /\ PublishedOnce
  /\ WaitsForPublication
  /\ BearersHold
  /\ RowsOK

LEMMA SoleStart == Init /\ DeliversOnce(faults) => SoleInv
<1> SUFFICES ASSUME Init, DeliversOnce(faults) PROVE SoleInv
  OBVIOUS
<1>1. BearerInv
  BY BearerStart DEF DeliversOnce
<1>2. faults["publish"] = 0 /\ faults["relay"] = 0
  BY DEF DeliversOnce
<1>3. BagToSet(queue) = {}
  BY DEF Init, EmptyBag, SetToBag, BagToSet
<1>4. PublishedOnce /\ WaitsForPublication
  BY DEF Init, NoRow, PublishedOnce, WaitsForPublication
<1>5. BearersHold /\ RowsOK
  BY <1>3 DEF Init, NoRow, BearersHold, Busy, RowsOK, RowOK
<1> QED
  BY <1>1, <1>2, <1>4, <1>5 DEF SoleInv

\* A busy worker is the only bearer of its ticket.
LEMMA SoleBearer ==
  ASSUME SoleInv, NEW w \in Workers, Busy(w)
  PROVE  /\ published[Ticket(w)] = 1
         /\ \A v \in Workers \ {w} : Busy(v) => Ticket(v) # Ticket(w)
         /\ \A m \in BagToSet(queue) : m.ticket # Ticket(w)
<1>1. TypeOK /\ OneBearer /\ TasksPublished
  BY DEF SoleInv, BearerInv, TypeInv
<1>2. \A t \in Tickets : published[t] \in 0..1
  BY DEF SoleInv, PublishedOnce
<1>3. \A v \in Workers : Busy(v) => Ticket(v) \in Tickets /\ job[v].task = 1
                                    /\ published[Ticket(v)] = 1
  BY <1>1, <1>2 DEF TypeOK, TasksPublished, Message, Busy, Ticket
<1>4. \A m \in BagToSet(queue) : m.task = 1
  BY <1>1, <1>2 DEF TypeOK, TasksPublished, Message
<1> QED
  BY <1>1, <1>3, <1>4 DEF OneBearer, SameTask, Ticket

-----------------------------------------------------------------------------
(***************************************************************************)
(* The relays.                                                             *)
(***************************************************************************)
LEMMA RelayPublishesOnce ==
  ASSUME SoleInv, NEW r \in Relays, RelayStep(r) \/ RelayFault(r)
  PROVE  PublishedOnce' /\ WaitsForPublication' /\ BearersHold'
<1>0. TypeOK /\ PublishedOnce /\ WaitsForPublication /\ BearersHold
  BY DEF SoleInv, BearerInv, TypeInv
<1>1. row' = row /\ UNCHANGED worker
  BY RelayQuiet DEF RowsUnchanged
<1>2. \A w \in Workers : Busy(w)' = Busy(w) /\ Holds(w)' = Holds(w)
  BY <1>1 DEF worker, Busy, Holds, Owned, Ticket
<1>3. ASSUME UNCHANGED broker PROVE BearersHold'
  BY <1>0, <1>1, <1>2, <1>3 DEF BearersHold, broker
<1>4. CASE RelaySelect(r)
  <2>1. PICK rows \in SUBSET (PendingOutbox \ Locked) :
          batch' = [batch EXCEPT ![r] = rows] /\ todo' = [todo EXCEPT ![r] = rows]
    BY <1>4 DEF RelaySelect
  <2>2. /\ batch[r] = {} /\ UNCHANGED <<outbox, published, sent>> /\ UNCHANGED broker
        /\ batch'[r] = rows /\ todo'[r] = rows
        /\ \A q \in Relays \ {r} : batch'[q] = batch[q] /\ todo'[q] = todo[q]
    BY <1>0, <1>4, <2>1 DEF RelaySelect, broker, TypeOK
  <2>3. \A q \in Relays : batch[q] \cap rows = {}
    BY <2>1 DEF Locked
  <2>4. \A t \in rows : outbox[t] = "PENDING"
    BY <2>1 DEF PendingOutbox
  <2>5. PublishedOnce'
    BY <1>0, <2>2, <2>3, <2>4 DEF PublishedOnce
  <2> QED
    BY <1>0, <1>1, <1>3, <2>2, <2>5 DEF WaitsForPublication
<1>5. ASSUME NEW t \in Tickets, RelayPublish(r, t)
      PROVE  PublishedOnce' /\ WaitsForPublication' /\ BearersHold'
  <2>1. PICK m : m = [ticket |-> t, task |-> published[t] + 1, retries |-> 0]
    OBVIOUS
  <2>2. /\ t \in todo[r] /\ UNCHANGED <<outbox, batch>>
        /\ todo'[r] = todo[r] \ {t} /\ sent'[r] = sent[r] \cup {t}
        /\ \A q \in Relays \ {r} : todo'[q] = todo[q] /\ sent'[q] = sent[q]
        /\ published'[t] = published[t] + 1
        /\ \A u \in Tickets \ {t} : published'[u] = published[u]
        /\ queue' = queue (+) SetToBag({m}) /\ IsABag(queue)
    BY <1>0, <1>5, <2>1 DEF RelayPublish, Enqueue, TypeOK
  <2>3. /\ t \in batch[r] /\ outbox[t] = "PENDING" /\ published[t] = 0
        /\ \A q \in Relays \ {r} : t \notin sent[q]
    BY <1>0, <2>2 DEF PublishedOnce
  <2>4. PublishedOnce'
    BY <1>0, <2>2, <2>3 DEF PublishedOnce
  <2>5. row[t].status = "PENDING"
    BY <1>0, <2>3 DEF WaitsForPublication
  <2>6. WaitsForPublication'
    BY <1>0, <1>1, <2>2, <2>5 DEF WaitsForPublication
  <2>7. BagToSet(queue') = BagToSet(queue) \cup {m}
    <3>1. IsABag(queue) /\ queue' = queue (+) SetToBag({m})
      BY <2>2
    <3> QED
      BY <3>1, PutOne
  <2>8. BearersHold'
    BY <1>0, <1>1, <1>2, <2>1, <2>5, <2>7 DEF BearersHold, Alive
  <2> QED
    BY <2>4, <2>6, <2>8
<1>6. CASE RelayCommit(r)
  <2>1. /\ todo[r] = {} /\ todo'[r] = {} /\ sent'[r] = {} /\ batch'[r] = {}
        /\ \A q \in Relays \ {r} :
             todo'[q] = todo[q] /\ sent'[q] = sent[q] /\ batch'[q] = batch[q]
        /\ \A t \in Tickets :
             outbox'[t] = IF t \in sent[r] THEN "PUBLISHED" ELSE outbox[t]
        /\ UNCHANGED published /\ UNCHANGED broker
    BY <1>0, <1>6 DEF RelayCommit, RelayEnds, MarkedPublished, broker, TypeOK
  <2>2. \A q \in Relays : sent[q] \subseteq batch[q] /\ batch[q] \subseteq Tickets
    BY <1>0 DEF PublishedOnce, TypeOK
  <2>3. PublishedOnce'
    <3>1. /\ \A q \in Relays : todo'[q] \subseteq batch'[q] /\ sent'[q] = batch'[q] \ todo'[q]
          /\ \A p, q \in Relays : p # q => batch'[p] \cap batch'[q] = {}
      BY <1>0, <2>1 DEF PublishedOnce
    <3>2. \A q \in Relays : \A t \in batch'[q] : outbox'[t] = "PENDING"
      BY <1>0, <2>1, <2>2 DEF PublishedOnce
    <3>3. \A t \in Tickets :
            published'[t] = IF outbox'[t] = "PUBLISHED" \/ \E q \in Relays : t \in sent'[q]
                              THEN 1 ELSE 0
      BY <1>0, <2>1 DEF PublishedOnce
    <3> QED
      BY <3>1, <3>2, <3>3 DEF PublishedOnce
  <2>4. WaitsForPublication'
    BY <1>0, <1>1, <2>1, <2>2 DEF WaitsForPublication, PublishedOnce
  <2> QED
    BY <1>3, <2>1, <2>3, <2>4
<1>7. ~ RelayFault(r)
  BY DEF RelayFault, RelayPublishRaises, RelayDies, Spend, SoleInv
<1> QED
  BY <1>4, <1>5, <1>6, <1>7 DEF RelayStep

-----------------------------------------------------------------------------
(***************************************************************************)
(* The workers.  A step of a busy worker is about its own ticket T, whose  *)
(* row it leaves in order, and changes only if it is not settled.          *)
(***************************************************************************)
ActsAlone(w, T) ==
  /\ Busy(w) /\ Ticket(w) = T /\ Others(w)
  /\ OnlyRow(T)
  /\ RowsUnchanged \/ row[T].status \in {"PENDING", "PROCESSING"}
  /\ row'[T].status # "ABSENT"
  /\ Busy(w)' => Holds(w)' /\ Ticket(w)' = T
  /\ UNCHANGED <<outbox, published, relay>>
  /\ \A m \in BagToSet(queue') :
       m \in BagToSet(queue) \/ (m.ticket = T /\ row'[T].status \in Alive)

SoleParts == PublishedOnce /\ WaitsForPublication /\ BearersHold /\ RowsOK

LEMMA ActingKeeps ==
  ASSUME SoleInv, NEW w \in Workers, NEW T, ActsAlone(w, T)
  PROVE  SoleParts'
<1>1. /\ published[T] = 1 /\ T \in Tickets /\ Holds(w)
      /\ \A v \in Workers \ {w} : Busy(v) => Ticket(v) # T
      /\ \A m \in BagToSet(queue) : m.ticket # T
      /\ \A v \in Workers : Busy(v) => Ticket(v) \in Tickets
      /\ \A m \in BagToSet(queue) : m.ticket \in Tickets
  BY SoleBearer, JobType
     DEF ActsAlone, SoleInv, BearerInv, TypeInv, TypeOK, Message, BearersHold, Busy
<1>2. PublishedOnce'
  BY DEF ActsAlone, SoleInv, PublishedOnce, relay
<1>3. \A t \in Tickets \ {T} : row'[t] = row[t] /\ RowOK(t)' = RowOK(t)
  BY DEF ActsAlone, OnlyRow, RowOK
<1>4. RowsOK'
  BY <1>3 DEF ActsAlone, OnlyRow, SoleInv, RowsOK
<1>5. row[T].status # "ABSENT"
  BY <1>1 DEF Holds, Alive, ActsAlone
<1>6. WaitsForPublication'
  BY <1>1, <1>3, <1>5 DEF ActsAlone, SoleInv, WaitsForPublication
<1>7. ASSUME NEW v \in Workers \ {w}, Busy(v)' PROVE Holds(v)'
  <2>1. Busy(v) /\ pc'[v] = pc[v] /\ job'[v] = job[v] /\ seen'[v] = seen[v]
    BY <1>7 DEF ActsAlone, Others, Busy
  <2>2. Holds(v) /\ Ticket(v)' = Ticket(v) /\ row'[Ticket(v)] = row[Ticket(v)]
    BY <1>1, <1>3, <2>1 DEF SoleInv, BearersHold, Ticket
  <2> QED
    BY <2>1, <2>2 DEF Holds, Owned
<1>8. \A m \in BagToSet(queue') : row'[m.ticket].status \in Alive
  BY <1>1, <1>3 DEF ActsAlone, SoleInv, BearersHold
<1>9. BearersHold'
  BY <1>7, <1>8 DEF ActsAlone, BearersHold
<1> QED
  BY <1>2, <1>4, <1>6, <1>9 DEF SoleParts

LEMMA BusyFacts ==
  ASSUME SoleInv, NEW w \in Workers, Busy(w)
  PROVE  /\ TypeOK /\ pc[w] # "idle" /\ Ticket(w) \in Tickets /\ RowOK(Ticket(w)) /\ Holds(w)
         /\ job[w] \in Message /\ row[Ticket(w)].status \in Alive
BY JobType DEF SoleInv, BearerInv, TypeInv, BearersHold, RowsOK, Busy, Holds

\* The worker writes nothing and drops its task, puts it back, or keeps what it holds.
LEMMA QuietActs ==
  ASSUME SoleInv, NEW w \in Workers, Busy(w), Others(w), UNCHANGED <<database, outbox, relay>>,
         published' = published,
         Busy(w)' => Ticket(w)' = Ticket(w) /\ Holds(w)',
         \A m \in BagToSet(queue') : m \in BagToSet(queue) \/ m.ticket = Ticket(w)
  PROVE  ActsAlone(w, Ticket(w))
<1>1. PICK T : T = Ticket(w)
  OBVIOUS
<1>2. RowOK(T) /\ T \in Tickets /\ row[T].status \in Alive
  BY <1>1, BusyFacts
<1>3. RowsUnchanged /\ RowOK(T)'
  BY <1>2 DEF RowsUnchanged, database, RowOK
<1>4. OnlyRow(T)
  BY <1>3 DEF OnlyRow, RowsUnchanged
<1> QED
  BY <1>1, <1>2, <1>3, <1>4 DEF ActsAlone, RowsUnchanged, Alive

\* It goes to a step at which it need not own the row.
LEMMA GotoActs ==
  ASSUME SoleInv, NEW w \in Workers, Busy(w), NEW step \in Steps, Goto(w, step),
         step \in {"complete", "fail", "retry"}, UNCHANGED <<database, outbox, broker, relay>>
  PROVE  ActsAlone(w, Ticket(w))
<1>1. Others(w) /\ pc'[w] = step /\ job'[w] = job[w]
  BY BusyFacts, GotoOthers
<1>2. row[Ticket(w)].status \in Alive
  BY BusyFacts
<1>3. Ticket(w)' = Ticket(w) /\ Holds(w)'
  BY <1>1, <1>2 DEF Holds, Ticket, database
<1> QED
  BY <1>1, <1>3, QuietActs DEF broker

LEMMA FinishActs ==
  ASSUME SoleInv, NEW w \in Workers, Busy(w), Finish(w),
         UNCHANGED <<database, outbox, broker, relay>>
  PROVE  ActsAlone(w, Ticket(w))
<1>1. Others(w) /\ ~ Busy(w)'
  BY BusyFacts, FinishOthers DEF Finish, Busy, TypeOK
<1> QED
  BY <1>1, QuietActs DEF broker

\* What is written goes with an unsettled row, and leaves the ticket to the worker or to none.
LEMMA WritingActs ==
  ASSUME SoleInv, NEW w \in Workers, Busy(w), Others(w), NEW T, T = Ticket(w), OnlyRow(T),
         row[T].status \in {"PENDING", "PROCESSING"}, row'[T].status # "ABSENT",
         UNCHANGED <<outbox, broker, relay>>,
         Busy(w)' => /\ job'[w] = job[w] /\ row'[T].status \in Alive
                     /\ pc'[w] \in {"begin", "complete", "fail", "retry"}
  PROVE  ActsAlone(w, T)
<1>1. Busy(w)' => Ticket(w)' = T /\ Holds(w)'
  BY DEF Holds, Ticket
<1> QED
  BY <1>1 DEF ActsAlone, broker

LEMMA ClaimActs ==
  ASSUME SoleInv, NEW w \in Workers, pc[w] = "begin", Claimable(Ticket(w)), row' = Claimed(w),
         NEW step \in {"complete", "fail"}, Goto(w, step),
         UNCHANGED <<triaged, deadLetters, outbox, broker, relay>>
  PROVE  ActsAlone(w, Ticket(w))
<1>1. Busy(w)
  BY DEF Busy
<1>2. PICK T : T = Ticket(w)
  OBVIOUS
<1>3. TypeOK /\ RowOK(T) /\ Claimable(T)
  BY <1>1, <1>2, BusyFacts
<1>4. /\ RowOK(T)' /\ row'[T].status = "PROCESSING"
      /\ \A t \in Tickets \ {T} : row'[t] = row[t]
  BY <1>2, <1>3, ClaimRow
<1>5. Others(w) /\ pc'[w] = step /\ job'[w] = job[w]
  BY <1>3, GotoOthers
<1>6. OnlyRow(T)
  BY <1>4 DEF OnlyRow
<1> QED
  BY <1>1, <1>2, <1>3, <1>4, <1>5, <1>6, WritingActs DEF Claimable, Alive

LEMMA TriageActs ==
  ASSUME SoleInv, NEW w \in Workers, pc[w] \in {"commit", "insert"}, Triage(w), Others(w),
         Busy(w)' => pc'[w] = "fail" /\ job'[w] = job[w],
         UNCHANGED <<outbox, broker, relay>>
  PROVE  ActsAlone(w, Ticket(w))
<1>1. Busy(w)
  BY DEF Busy
<1>2. PICK T : T = Ticket(w)
  OBVIOUS
<1>3. TypeOK /\ RowOK(T) /\ Owned(w) /\ pc[w] # "idle" /\ row[T].status = "PROCESSING"
  BY <1>1, <1>2, BusyFacts DEF Holds, Owned
<1>4. /\ RowOK(T)' /\ row'[T].status = "COMPLETED" /\ deadLetters' = deadLetters
      /\ \A t \in Tickets \ {T} : row'[t] = row[t] /\ triaged'[t] = triaged[t]
  BY <1>2, <1>3, TriageRow
<1>5. OnlyRow(T)
  BY <1>4 DEF OnlyRow
<1> QED
  BY <1>1, <1>2, <1>3, <1>4, <1>5, WritingActs DEF Alive

LEMMA FailureActs ==
  ASSUME SoleInv, NEW w \in Workers, pc[w] = "failcommit", WriteFailure(w), Others(w),
         Busy(w)' => MayRetry(w) /\ pc'[w] = "retry" /\ job'[w] = job[w],
         UNCHANGED <<outbox, broker, relay>>
  PROVE  ActsAlone(w, Ticket(w))
<1>1. Busy(w)
  BY DEF Busy
<1>2. PICK T : T = Ticket(w)
  OBVIOUS
<1>3. /\ TypeOK /\ RowOK(T) /\ row[T].status \in {"PENDING", "PROCESSING"}
      /\ row[T].owner = job[w].task /\ seen[w] = row[T]
  BY <1>1, <1>2, BusyFacts DEF Holds
<1>4. /\ RowOK(T)' /\ row'[T].status = (IF MayRetry(w) THEN "PENDING" ELSE "FAILED")
      /\ triaged' = triaged
      /\ \A t \in Tickets \ {T} : row'[t] = row[t] /\ deadLetters'[t] = deadLetters[t]
  BY <1>2, <1>3, FailureRow
<1>5. OnlyRow(T)
  BY <1>4 DEF OnlyRow
<1>6. row'[T].status # "ABSENT" /\ (MayRetry(w) => row'[T].status \in Alive)
  BY <1>4 DEF Alive
<1> QED
  BY <1>1, <1>2, <1>3, <1>5, <1>6, WritingActs

LEMMA AfterFailActs ==
  ASSUME TypeOK, NEW w \in Workers, pc[w] # "idle", AfterFail(w)
  PROVE  /\ Others(w)
         /\ Busy(w)' => MayRetry(w) /\ pc'[w] = "retry" /\ job'[w] = job[w]
BY AfterFailOthers DEF AfterFail, Finish, TypeOK, Busy

LEMMA WorkerActs ==
  ASSUME SoleInv, NEW w \in Workers, WorkerStep(w) \/ WorkerFault(w), Busy(w)
  PROVE  ActsAlone(w, Ticket(w))
<1>t. TypeOK /\ pc[w] # "idle" /\ Holds(w) /\ row[Ticket(w)].status \in Alive
  BY BusyFacts
<1>1. ASSUME NEW m, Receive(w, m) \/ Redeliver(w, m) PROVE FALSE
  BY <1>1, <1>t DEF Receive, Redeliver, Take
<1>2. CASE Claim(w)
  BY <1>2, ClaimActs DEF Claim
<1>3. CASE SkipClaim(w) \/ RetryRaises(w) \/ WorkerDies(w)
  BY <1>3, FinishActs DEF SkipClaim, RetryRaises, WorkerDies
<1>4. CASE BeginRaises(w)
  <2>1. /\ pc[w] = "begin" /\ Goto(w, "fail")
        /\ UNCHANGED <<triaged, deadLetters, actor, outbox, broker, relay>>
        /\ UNCHANGED row \/ (Claimable(Ticket(w)) /\ row' = Claimed(w))
    BY <1>4 DEF BeginRaises
  <2>2. CASE UNCHANGED row
    BY <2>1, <2>2, GotoActs DEF Steps, database
  <2>3. CASE Claimable(Ticket(w)) /\ row' = Claimed(w)
    BY <2>1, <2>3, ClaimActs
  <2> QED
    BY <2>1, <2>2, <2>3
<1>5. CASE LoadForComplete(w)
  <2>1. CASE Owned(w)
    <3>1. pc[w] = "complete" /\ Goto(w, "actor") /\ UNCHANGED <<database, outbox, broker, relay>>
      BY <1>5, <2>1 DEF LoadForComplete
    <3>2. Others(w) /\ pc'[w] = "actor" /\ job'[w] = job[w]
      BY <1>t, <3>1, GotoOthers
    <3>3. Ticket(w)' = Ticket(w) /\ Holds(w)'
      BY <1>t, <2>1, <3>1, <3>2 DEF Holds, Owned, Ticket, database
    <3> QED
      BY <3>1, <3>2, <3>3, QuietActs DEF broker
  <2>2. CASE ~ Owned(w)
    BY <1>5, <2>2, FinishActs DEF LoadForComplete
  <2> QED
    BY <2>1, <2>2
<1>6. CASE FindSystemActor(w)
  <2>1. /\ pc[w] = "actor" /\ UNCHANGED <<database, outbox, broker, relay>>
        /\ \E step \in {"commit", "insert", "fail"} : Goto(w, step)
    BY <1>6, <1>t DEF FindSystemActor, TypeOK, ActorTypes
  <2>2. Owned(w)
    BY <1>t, <2>1 DEF Holds
  <2>3. PICK step \in {"commit", "insert", "fail"} : Goto(w, step)
    BY <2>1
  <2>4. Others(w) /\ pc'[w] = step /\ job'[w] = job[w]
    BY <1>t, <2>3, GotoOthers
  <2>5. Ticket(w)' = Ticket(w) /\ Holds(w)'
    BY <1>t, <2>1, <2>2, <2>4 DEF Holds, Owned, Ticket, database
  <2> QED
    BY <2>1, <2>4, <2>5, QuietActs DEF broker
<1>7. CASE CommitComplete(w)
  <2>1. Others(w) /\ ~ Busy(w)'
    BY <1>7, <1>t, FinishOthers DEF CommitComplete, Finish, Busy, TypeOK
  <2> QED
    BY <1>7, <2>1, TriageActs DEF CommitComplete
<1>8. CASE ActorConflict(w)
  BY <1>8, GotoActs DEF ActorConflict, Steps
<1>9. CASE CompleteRaises(w)
  <2>1. /\ Goto(w, "fail") /\ UNCHANGED <<outbox, broker, relay>>
        /\ UNCHANGED database \/ (pc[w] \in {"commit", "insert"} /\ Triage(w))
    BY <1>9 DEF CompleteRaises
  <2>2. CASE UNCHANGED database
    BY <2>1, <2>2, GotoActs DEF Steps
  <2>3. CASE pc[w] \in {"commit", "insert"} /\ Triage(w)
    <3>1. Others(w) /\ pc'[w] = "fail" /\ job'[w] = job[w]
      BY <1>t, <2>1, GotoOthers
    <3> QED
      BY <2>1, <2>3, <3>1, TriageActs
  <2> QED
    BY <2>1, <2>2, <2>3
<1>10. CASE LoadForFail(w)
  <2>1. CASE FailApplies(w)
    <3>1. /\ Others(w) /\ pc'[w] = "failcommit" /\ job'[w] = job[w]
          /\ seen'[w] = row[Ticket(w)] /\ UNCHANGED <<database, outbox, broker, relay>>
      BY <1>10, <2>1, <1>t DEF LoadForFail, Others, TypeOK
    <3>2. Ticket(w)' = Ticket(w) /\ Holds(w)'
      BY <1>t, <2>1, <3>1 DEF Holds, FailApplies, Ticket, database, Alive
    <3> QED
      BY <3>1, <3>2, QuietActs DEF broker
  <2>2. CASE ~ FailApplies(w)
    <3>1. AfterFail(w) /\ UNCHANGED <<database, outbox, broker, relay>>
      BY <1>10, <2>2 DEF LoadForFail
    <3>2. /\ Others(w)
          /\ Busy(w)' => pc'[w] = "retry" /\ job'[w] = job[w]
      BY <1>t, <3>1, AfterFailActs
    <3>3. Busy(w)' => Ticket(w)' = Ticket(w) /\ Holds(w)'
      BY <1>t, <3>1, <3>2 DEF Holds, Ticket, database
    <3> QED
      BY <3>1, <3>2, <3>3, QuietActs DEF broker
  <2> QED
    BY <2>1, <2>2
<1>11. CASE CommitFail(w)
  BY <1>11, <1>t, AfterFailActs, FailureActs DEF CommitFail
<1>12. CASE FailRaises(w)
  <2>1. CASE UNCHANGED database
    BY <1>12, <2>1, FinishActs DEF FailRaises
  <2>2. CASE pc[w] = "failcommit" /\ WriteFailure(w)
    <3>1. Others(w) /\ ~ Busy(w)'
      BY <1>12, <1>t, FinishOthers DEF FailRaises, Finish, Busy, TypeOK
    <3> QED
      BY <1>12, <2>2, <3>1, FailureActs DEF FailRaises
  <2> QED
    BY <1>12, <2>1, <2>2 DEF FailRaises
<1>13. CASE Retry(w)
  <2>1. PICK m : m = [job[w] EXCEPT !.retries = @ + 1]
    OBVIOUS
  <2>2. IsABag(queue) /\ queue' = queue (+) SetToBag({m})
    BY <1>13, <1>t, <2>1 DEF Retry, Requeue, TypeOK
  <2>3. BagToSet(queue') = BagToSet(queue) \cup {m}
    BY <2>2, PutOne
  <2>4. m.ticket = Ticket(w)
    BY <2>1, BusyFacts DEF Ticket, Message
  <2>5. Others(w) /\ ~ Busy(w)'
    BY <1>13, <1>t, FinishOthers DEF Retry, Finish, Busy, TypeOK
  <2> QED
    BY <1>13, <2>3, <2>4, <2>5, QuietActs DEF Retry
<1> QED
  BY <1>1, <1>2, <1>3, <1>4, <1>5, <1>6, <1>7, <1>8, <1>9, <1>10, <1>11, <1>12, <1>13
     DEF WorkerStep, WorkerFault

LEMMA TakingKeeps ==
  ASSUME SoleInv, NEW w \in Workers, ~ Busy(w), WorkerStep(w) \/ WorkerFault(w)
  PROVE  SoleParts' /\ RowsUnchanged
<1>t. TypeOK /\ IsABag(queue) /\ OneBearer
  BY DEF SoleInv, BearerInv, TypeInv, TypeOK
<1>1. PICK m \in BagToSet(queue) : Receive(w, m)
  BY DEF WorkerStep, WorkerFault, Claim, SkipClaim, LoadForComplete, FindSystemActor,
         CommitComplete, ActorConflict, InsertConflicts, LoadForFail, CommitFail, Retry,
         Redeliver, BeginRaises, CompleteRaises, FailRaises, RetryRaises, WorkerDies, Busy,
         SoleInv, BearerInv, Spend
<1>2. /\ UNCHANGED <<database, outbox, published, relay>> /\ Others(w)
      /\ pc'[w] = "begin" /\ job'[w] = m /\ queue' = queue (-) SetToBag({m})
  BY <1>1, <1>t DEF Receive, Take, Others, TypeOK
<1>3. queue[m] = 1
  BY <1>t DEF OneBearer
<1>4. BagToSet(queue') = BagToSet(queue) \ {m}
  BY <1>t, <1>2, <1>3, TakeOne
<1>5. Holds(w)'
  BY <1>2 DEF Holds, Ticket, database, SoleInv, BearersHold
<1>6. \A v \in Workers \ {w} : Busy(v)' = Busy(v) /\ Holds(v)' = Holds(v)
  BY <1>2 DEF Others, Busy, Holds, Owned, Ticket, database
<1>7. BearersHold'
  BY <1>2, <1>4, <1>5, <1>6 DEF SoleInv, BearersHold, database
<1>8. PublishedOnce' /\ WaitsForPublication' /\ RowsOK'
  BY <1>2 DEF SoleInv, PublishedOnce, WaitsForPublication, RowsOK, RowOK, database, relay
<1> QED
  BY <1>2, <1>7, <1>8 DEF SoleParts, RowsUnchanged, database

LEMMA CreateKeeps ==
  ASSUME SoleInv, NEW t \in Tickets, CreateTicket(t)
  PROVE  SoleParts'
<1>1. /\ row'[t].status = "PENDING" /\ outbox'[t] = "PENDING"
      /\ \A u \in Tickets \ {t} : row'[u] = row[u] /\ outbox'[u] = outbox[u]
      /\ UNCHANGED <<triaged, deadLetters, worker, broker, relay>>
  BY DEF CreateTicket, SoleInv, BearerInv, TypeInv, TypeOK, NoRow
<1>2. row[t].status = "ABSENT" /\ outbox[t] = "ABSENT" /\ RowOK(t)
  BY DEF CreateTicket, NoRow, SoleInv, RowsOK, WaitsForPublication
<1>3. RowsOK'
  BY <1>1, <1>2 DEF SoleInv, RowsOK, RowOK
<1>4. PublishedOnce'
  <2>1. \A r \in Relays : batch[r] \subseteq Tickets /\ t \notin batch[r]
    BY <1>2 DEF SoleInv, PublishedOnce, BearerInv, TypeInv, TypeOK
  <2> QED
    BY <1>1, <1>2, <2>1 DEF SoleInv, PublishedOnce, relay, broker
<1>5. WaitsForPublication'
  BY <1>1 DEF SoleInv, WaitsForPublication, broker
<1>6. BearersHold'
  <2>1. ASSUME NEW w \in Workers, Busy(w)' PROVE Holds(w)'
    <3>1. Busy(w) /\ Ticket(w)' = Ticket(w) /\ pc'[w] = pc[w] /\ job'[w] = job[w]
          /\ seen'[w] = seen[w]
      BY <1>1, <2>1 DEF worker, Busy, Ticket
    <3>2. Holds(w) /\ Ticket(w) \in Tickets
      BY <3>1, BusyFacts
    <3>3. row'[Ticket(w)] = row[Ticket(w)]
      BY <1>1, <1>2, <3>2 DEF Holds, Alive
    <3> QED
      BY <3>1, <3>2, <3>3 DEF Holds, Owned
  <2>2. ASSUME NEW m \in BagToSet(queue') PROVE row'[m.ticket].status \in Alive
    <3>1. row[m.ticket].status \in Alive /\ m.ticket \in Tickets
      BY <1>1, <2>2 DEF SoleInv, BearersHold, BearerInv, TypeInv, TypeOK, Message, broker
    <3> QED
      BY <1>1, <1>2, <3>1 DEF Alive
  <2> QED
    BY <2>1, <2>2 DEF BearersHold
<1> QED
  BY <1>3, <1>4, <1>5, <1>6 DEF SoleParts

LEMMA SoleStutter ==
  ASSUME SoleInv, UNCHANGED vars
  PROVE  SoleParts'
<1>1. \A w \in Workers : Busy(w)' = Busy(w) /\ Holds(w)' = Holds(w)
  BY DEF vars, Busy, Holds, Owned, Ticket
<1> QED
  BY <1>1 DEF vars, SoleInv, SoleParts, PublishedOnce, WaitsForPublication, BearersHold,
              RowsOK, RowOK

LEMMA SoleNext == SoleInv /\ [Next]_vars => SoleInv'
<1> SUFFICES ASSUME SoleInv, [Next]_vars PROVE SoleInv'
  OBVIOUS
<1>1. BearerInv' /\ faults'["publish"] = 0 /\ faults'["relay"] = 0
  BY BearerNext, FaultStays DEF SoleInv, BearerInv, TypeInv, FaultKinds
<1>2. ASSUME NEW r \in Relays, RelayStep(r) \/ RelayFault(r) PROVE SoleParts'
  <2>1. RowsOK'
    BY <1>2, RelayQuiet DEF SoleInv, RowsUnchanged, RowsOK, RowOK
  <2> QED
    BY <1>2, <2>1, RelayPublishesOnce DEF SoleParts
<1>3. ASSUME NEW w \in Workers, WorkerStep(w) \/ WorkerFault(w) PROVE SoleParts'
  BY <1>3, WorkerActs, ActingKeeps, TakingKeeps
<1>4. SoleParts'
  BY <1>2, <1>3, CreateKeeps, SoleStutter DEF Next
<1> QED
  BY <1>1, <1>4 DEF SoleInv, SoleParts

LEMMA SoleKeepsSettled == SoleInv /\ [Next]_vars => SettledKept
<1> SUFFICES ASSUME SoleInv, [Next]_vars, NEW t \in Tickets, Settled(t)
             PROVE  row'[t] = row[t] /\ triaged'[t] = triaged[t] /\ deadLetters'[t] = deadLetters[t]
  BY DEF SettledKept
<1>1. CASE RowsUnchanged
  BY <1>1 DEF RowsUnchanged
<1>2. ASSUME NEW w \in Workers, WorkerStep(w) \/ WorkerFault(w), ~ RowsUnchanged
      PROVE  row'[t] = row[t] /\ triaged'[t] = triaged[t] /\ deadLetters'[t] = deadLetters[t]
  <2>1. ActsAlone(w, Ticket(w))
    BY <1>2, WorkerActs, TakingKeeps
  <2>2. Ticket(w) # t
    BY <1>2, <2>1 DEF ActsAlone, Settled
  <2> QED
    BY <2>1, <2>2 DEF ActsAlone, OnlyRow
<1>3. ASSUME NEW u \in Tickets, CreateTicket(u)
      PROVE  row'[t] = row[t] /\ triaged'[t] = triaged[t] /\ deadLetters'[t] = deadLetters[t]
  <2>1. u # t
    BY <1>3 DEF CreateTicket, NoRow, Settled
  <2> QED
    BY <1>3, <2>1 DEF CreateTicket, SoleInv, BearerInv, TypeInv, TypeOK
<1>4. ASSUME UNCHANGED vars PROVE RowsUnchanged
  BY <1>4 DEF vars, RowsUnchanged
<1> QED
  BY <1>1, <1>2, <1>3, <1>4, RelayQuiet DEF Next

-----------------------------------------------------------------------------
(***************************************************************************)
(* A behaviour without errors of begin is safe by ownership (SafeInv), one *)
(* without repeated messages by its sole bearers (SoleInv).                *)
(***************************************************************************)
LEMMA EitherInvariant ==
  ASSUME NeverBoth
  PROVE  Spec => [](SafeInv \/ SoleInv)
<1>1. Init => SafeInv \/ SoleInv
  BY SafeStart, SoleStart DEF NeverBoth, Init
<1>2. (SafeInv \/ SoleInv) /\ [Next]_vars => (SafeInv \/ SoleInv)'
  BY SafeNext, SoleNext
<1> QED
  BY <1>1, <1>2, PTL DEF Spec

(***************************************************************************)
(* Even errors of begin do no harm where no message comes again: complete  *)
(* and fail take effect once, and the event and the dead letter are what   *)
(* the status says.                                                        *)
(***************************************************************************)
THEOREM OutcomesMatchUnlessBoth ==
  ASSUME NeverBoth
  PROVE  Spec => [](TriagedOnce /\ DeadLetterMatchesFailure /\ ErrorOfLastAttempt)
<1>1. SafeInv \/ SoleInv => TriagedOnce /\ DeadLetterMatchesFailure /\ ErrorOfLastAttempt
  BY RowsOKSplit DEF SafeInv, SoleInv
<1> QED
  BY <1>1, EitherInvariant, PTL

(***************************************************************************)
(* Under the same assumption one worker at most is past begin with a       *)
(* ticket: it owns the row, or is the only bearer that the ticket has.     *)
(***************************************************************************)
THEOREM ExclusiveUnlessBoth ==
  ASSUME NeverBoth
  PROVE  Spec => []ExclusiveClaim
<1>1. SoleInv => ExclusiveClaim
  BY SoleBearer DEF ExclusiveClaim, Engaged, Busy
<1>2. SafeInv \/ SoleInv => ExclusiveClaim
  BY <1>1 DEF SafeInv
<1> QED
  BY <1>2, EitherInvariant, PTL

(***************************************************************************)
(* Under the same assumption COMPLETED and FAILED are final, even if begin *)
(* fails after an attempt that had a claim: a ticket that was given up has *)
(* no bearer left.                                                         *)
(***************************************************************************)
THEOREM SettledStayUnlessBoth ==
  ASSUME NeverBoth
  PROVE  Spec => SettledIsFinal
<1>1. (SafeInv \/ SoleInv) /\ [Next]_vars => [SettledKept]_vars
  BY SafeKeepsSettled, SoleKeepsSettled
<1>2. Spec => [][SettledKept]_vars
  BY <1>1, EitherInvariant, PTL DEF Spec
<1> QED
  BY <1>2 DEF SettledIsFinal, SettledKept
=============================================================================
