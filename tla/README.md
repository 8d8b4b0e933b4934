# Verification of TicketFlow

TLA+ models of the support-ticket system in `src/`, model-checked with TLC, and
proofs about them checked with TLAPS.

TicketFlow is a FastAPI service over PostgreSQL with a Celery worker over Redis.
Almost nothing in it runs alone: API requests overlap on one row, relays and
workers race for messages, and a client, a worker or a relay may see an error
for something that took effect. The code takes no row lock except in the relay.
It relies on one conditional UPDATE, on unique indexes, and on checks made
before the commit. The models ask which of these carry, and where. The rest of
the system lives on what these parts leave behind: readers that page through
tables that move, a seed script that is interrupted and run again, and
migrations that rewrite the rows.

## The system

| part | source | state | operations |
|---|---|---|---|
| ticket creation | `app/services/tickets.py` 40-127, `app/main.py` 138-159 | tickets, customers, actors, idempotency keys, outbox | `create_ticket_idempotent`, `_create_ticket`, `_get_or_create_customer`, nudge of the relay |
| status update | `app/services/tickets.py` 129-181, `app/main.py` 193-205 | `tickets.status`, STATUS_CHANGED events, agents | `update_status`, `_get_or_create_agent` |
| outbox relay | `app/worker.py` 46-72 | `outbox_messages.status` | select with SKIP LOCKED, `delay` per row, one commit |
| ticket task | `app/worker.py` 23-43 | retries of the message | `begin`, `complete`; on error `fail`, then `self.retry` |
| processing service | `app/services/processing.py` | processing columns of `tickets`, AUTO_PROCESSED event, dead letters, system actor | `begin`, `complete`, `fail` |
| Celery and Redis (external) | used by `app/worker.py` | messages | delivery, early acknowledgement, redelivery |
| queries | `app/repositories.py` 47-79, `app/main.py` 160-190 | none; each statement sees what is committed | `get`, `list` |
| seed script | `scripts/seed.py` | its session; the tickets it makes | create, begin, complete, advance, replay; reruns |
| migrations | `migrations/versions`, `migrations/env.py` | tables, checks, the append-only trigger | seven revisions, up and down; 0003 rewrites customers and actors |
| identities | `app/models/identity.py` | actors with a unique `external_reference` | get-or-create in three services |
| schema | `app/models`, `app/db.py` | tables | constraints that the services rely on |
| HTTP, configuration, logging | `app/main.py`, `app/core` | none shared | error envelope, metrics, request ids |

Creation writes the ticket with its CREATED event and its outbox row in one
transaction and then nudges a relay; beat starts one every ten seconds as well.
A relay turns outbox rows into messages, a worker turns a message into a claim
(`begin`) and a result (`complete`) or a failure (`fail`). Status updates go
past all this: they touch other columns of the row and other events. The seed
script calls the same services in one process, while workers race it for the
tickets it has made. Migrations run between versions of the application; Redis
keeps its messages meanwhile.

What makes each part correct:

- **processing:** one claim at a time; each effect once; a failure leaves one
  dead letter; a settled ticket stays settled; no ticket is forgotten.
- **creation:** one ticket per Idempotency-Key; answers that fit; nobody waits
  for ever.
- **status:** the row agrees with its audit trail; only allowed transitions;
  CLOSED is the end.
- **queries:** a client that pages through a moving list misses nothing; a total
  fits its page; a detail fits its audit trail.
- **seed:** one ticket per scenario however often it is run; a crash costs one
  scenario and no more.
- **migrations:** customers and actors survive; a ticket is processed again only
  by a message that outlived a downgrade of 0005; where a revision can fail is known.

`PROJECT.json` lists under "hazards" every place where this is hard to test.

## Modules

| module | models | checked by |
|---|---|---|
| `Processing` | relay, queue, ticket task, processing service, with faults | `MCProcessing` and its configurations |
| `ProcessingLifecycle` | what the tables of that half promise (abstract) | property `FollowsLifecycle` of `Processing` |
| `ProcessingProofs` | theorems about `Processing`: claims, outcomes, refinement | TLAPS |
| `DeliveryProofs` | theorems about `Processing`: nothing is stranded | TLAPS |
| `SingleDeliveryProofs` | theorems about `Processing` when no message is delivered twice: attempts, and errors of `begin` | TLAPS |
| `TicketCreation` | POST /v1/tickets by overlapping requests | `MCTicketCreation` |
| `IdempotentCreation` | the promise behind Idempotency-Key (abstract) | property `KeepsPromise` of `TicketCreation` |
| `TicketCreationProofs` | theorems about `TicketCreation` | TLAPS |
| `StatusUpdate` | PATCH status by overlapping requests | `MCStatusUpdate` |
| `TicketStatuses` | the statuses and their allowed transitions | used by the next two and by `Seed` |
| `TicketLifecycle` | status moves along the allowed transitions (abstract) | property `FollowsLifecycle` of `StatusUpdate` |
| `StatusUpdateProofs` | theorems about `StatusUpdate` | TLAPS |
| `SeedScenarios` | the twenty scenarios of the dataset | used by `Seed` |
| `Seed` | `scripts/seed.py` with crashes, reruns and racing workers | as part of `TicketQueries` |
| `TicketQueries` | listing and detail, composed with `Seed` and with clients that create | `MCDemo` |
| `TicketQueriesProofs` | theorems about both | TLAPS |
| `DatasetProofs` | theorems about both: what the seed leaves behind | TLAPS |
| `Migrations` | the revisions 0001 to 0007, up and down, over rows that are written meanwhile | `MCMigrations` |
| `MigrationsProofs` | theorems about `Migrations` | TLAPS |

### How the models read the code

*Steps.* Sessions run at READ COMMITTED with `autoflush=False` (`app/db.py`).
An action is one transaction, or one part of a transaction that begins at a read
whose result the code uses later without a lock. `complete`, for example, is
three steps: the load with its check, the search for the system actor, and the
commit. `begin` is one, for its UPDATE reads and writes under the row lock.

*Writes.* SQLAlchemy writes at the flush, by primary key, only the columns whose
value changed since the load. `FailedRow` models this: a status that equals the
loaded one is not written, whatever the row holds by then.

*Uniqueness.* An INSERT of a value that an open transaction has inserted waits
for it and fails if it commits. `Processing` and `StatusUpdate` merge the wait
with the commit (`InsertConflicts`); `TicketCreation`, where requests may wait in
chains, shows the waiting (`held`).

*Errors.* Any database call may raise. The error of a COMMIT may hide a
success, so that each `...Raises` action has a disjunct where the effect is
there. A Celery message is acknowledged when its task starts, since
`task_acks_late` is not set: `WorkerDies` loses it.

*Faults.* `Processing` draws a budget from `Budgets` at the start, the number of
faults of each kind that may still happen. The configurations choose budgets; the proofs
take any set of budgets.

*Data.* A task id is the ordinal of the publication of its ticket. A payload
stands for its hash. Texts are left out; `Seed` keeps departments and spam scores.
Where PostgreSQL refuses what the schema of the API accepts, the model keeps which
values it refuses: `RefusedCustomers` (an e-mail whose `customer:<email>` is longer
than 120 characters) and `RefusedTickets` (a subject of blanks) in `TicketCreation`,
`LongEmails`, `OddEmails` and `ShortNames` in `Migrations`.

*One namespace.* Customers, agents and the worker share the unique
`external_reference`, and PATCH takes any actor name. `NameAgent` of `TicketCreation`
is such a PATCH: from then on the reference of a customer is an agent's. It is one
step, since a creation that meets the agent's open INSERT waits for it.

*Time.* The default of `created_at` is `now()`, which PostgreSQL fixes at the start of
the transaction. A ticket can therefore be dated before others that are committed
already. `Seed` and `TicketQueries` keep a clock of transaction starts for this; the
seed's one session dates a ticket by the transaction that an earlier refresh,
`ticket.id` read after a commit, or look-up has left open (`opened`).

*Seed and readers.* Each service call of the seed is one commit in `Seed`, since
what happens inside a call is the matter of the other modules. The script may die
between any two commits (`Crash`). `TicketQueries` composes the script, its workers,
clients that create tickets, and one reader, whose answers take two statements:
page and total, or ticket and events. Which behaviours happen together is drawn
at the start from `Plans`, which also bounds crashes, reruns, claims, creations and
reads.

*Migrations.* A revision is one step: PostgreSQL rolls back its DDL with the rest, and
`env.py` runs each upgrade in a transaction. The step's guard says that every
statement succeeds on the rows there are. The application that wrote under
revisions 1 and 2 is not in the repository. It is modelled as 0003 describes its
rows, and marked external. The application of `src/` writes at revision 7 only.
Redis is a set of tickets with a message: since a relay publishes before its commit,
and messages are redelivered and retried, publishing may leave the row PENDING and
processing may leave a message behind. The seed completes its tickets whatever the
relay does with their rows (`SeedProcesses`). `who`, `origin` and `outlived` are ghosts:
who caused an event, the address the customer gave, and how many downgrades of 0005
a message of the ticket was in Redis for.

`Processing`, state and code: `row` is the processing columns of `tickets`;
`triaged` counts AUTO_PROCESSED events; `deadLetters` is
`dead_letter_messages` by ticket; `actor` is what `worker:ticket-processor`
names; `outbox` the status of the ticket's outbox row; `queue` the broker's
messages; `batch`, `todo` and `sent` belong to the open transaction of a relay;
`pc`, `job` and `seen` to a worker, its message, and the row `fail` has loaded.

### Properties

`Processing`: `ExclusiveClaim` (one worker past `begin` per ticket),
`OwnershipHeld` (what a worker checked still holds at its commit),
`TriagedOnce`, `DeadLetterMatchesFailure`, `ErrorOfLastAttempt` (the row agrees
with events and dead letters), `SettledIsFinal`, `AttemptsBounded`,
`NothingStranded`, `FinalFailureIsPersisted`, `EventuallySettled`,
`FollowsLifecycle`.

`StatusUpdate`: `StatusIsLastEvent`, `EventsAreLegal`, `EventsAreByAgents` hold
for all overlaps; `ClosedIsTerminal`, `AnswerShowsRequest` and
`FollowsLifecycle` when no two requests overlap on one ticket.

`TicketCreation`: `OneTicketPerKey`, `AnswersFit`, `RacesPass` (a healthy
database answers 503 to a payload it would take only if the request found no customer
and could not make him: because another request has meanwhile, and a second try gets past
it, or because an agent has his reference, and no try does), `NameIsOfATicket` (a customer exists from his first
ticket on, under a name that one of his tickets came with), `EveryRequestAnswered`,
`KeepsPromise`.

`Seed`: `OneTicketPerScenario`, `CrashCostsOneScenario` (what a rerun cannot repair:
one scenario for each death), `DatasetComplete` (the assertion of the replay holds, and
the dataset covers what README.md:107 of the repository says), `SeedConfirms`
(restarted whenever it died, the script gets to its end).

`TicketQueries`: `WalkMissesNothing`, `TotalCoversPage`, `DetailFits`. The first two
exempt the filter by status, which changes under the reader; the first also
tickets with one `created_at`, which `ORDER BY created_at` leaves in any order.

`Migrations`: `IdentityKept` (a ticket stays with the customer who opened it),
`EventsKeepTheirActor`, `OnlyOldMessagesRepeat` (one AUTO_PROCESSED event for a ticket,
and one more at most for each downgrade of 0005 that a message of it has outlived), and
`WhereMigrationsFail`, which tells exactly when a revision from 0002 on cannot be run.

Each property has a mutant in `PROJECT.json`: a plausible mistake in a definition
of the model under which TLC finds the property violated.

## Runs

| run | instance | result |
|---|---|---|
| `processing_safety` | 2 tickets, 2 workers, 1 relay, batch 2, MaxRetries 1, any 2 faults but an error of `begin` | all safety properties and the refinement hold |
| `processing_single_delivery` | the same; 3 faults out of errors of begin, complete, fail, retry, and deaths; any system actor | triaged once, even with errors of `begin`; at most MaxRetries + 1 claims for a publication |
| `processing_recovery` | 2 tickets, 2 workers, 2 relays, batch 1; one relay crash, failed publication, redelivery or error of `complete`, or two errors of `complete`; fair | nothing stranded, final failures persisted, everything settles |
| `processing_worker_death` | 1 ticket, one death of a worker | **violated**: the ticket waits for ever |
| `processing_begin_errors` | 1 ticket, MaxRetries 3, `begin` fails four times | **violated**: no dead letter |
| `processing_redelivery` | 1 ticket, one redelivery, one error of `begin` | **violated**: triaged, and PENDING again |
| `status_overlap` | 2 clients, 5 requests on one ticket, 2 agents of any kind, 1 error | audit trail and row agree |
| `status_serial` | 2 clients with a ticket each, 5 requests, shared agents, 1 error | lifecycle followed |
| `status_closed` | 2 clients, 3 requests on one ticket | **violated**: a closed ticket leaves CLOSED |
| `creation` | 3 clients, 3 requests or agents named, 1 key, 5 payloads: one customer under 2 names, another one, an e-mail too long, a blank subject; 1 error; fair | the promise is kept, names go with tickets, each 503 has its cause, all are answered |
| `demo` | the real dataset with a crash and a racing worker; two scenarios with 2 crashes, a rerun and 2 claims; the same with a reader of details; one scenario with 2 creating clients and a reader that pages by 1 or 2; fair | all properties of `Seed` and `TicketQueries` hold |
| `migrations` | 2 tickets, 3 events, 5 downgrades, 5 addresses: 2 spellings of one, another, one that 0002 refuses, one too long; 2 names, one of them too short for 0002 | all properties of `Migrations` hold |

The largest are `migrations` (1.9 million states), `demo` (1.5 million) and `creation`
(0.3 million, without symmetry because of its liveness property); each takes between one
minute and three.

*Why the bounds are enough.* A violation in `Processing` takes two messages about one
ticket and two workers; every further message is paid for by a fault, and no property
relates more than one ticket except through the system actor and the relay's batch,
which two tickets cover. MaxRetries 1 has both a retry and a final failure; the run
about "three retries" uses 3. In `StatusUpdate` a lost update takes two clients, and
five requests pass through every status and back from RESOLVED. In `TicketCreation`
three requests give a chain of waiters, or a success, a replay and a mismatch of one
key. In `demo` the plans are separate because their actors meet only in the rows: a
crash with its rerun, a worker that takes the ticket first, a walk of up to three
pages while two transactions of overlapping starts commit, a detail between two
commits. Missing a ticket takes one insert between two pages. In `creation` the
payload that PostgreSQL refuses for its customer, the one it refuses for its ticket
and the taken reference each meet two other requests. Every payload comes with the
key; without one, where no request finds another's ticket, those of the first customer
are enough to race with them. In `migrations` five downgrades lead from 7 back to 2,
past every revision that rewrites rows, or from 7 to 4, and after the upgrades on to
5; two tickets with five addresses have one customer or two; three events are the two
creations and any label, or one creation and a ticket that is processed twice. The
bounds are `Budgets`, `MaxRequests`, `MaxErrors`, `Plans`, `MaxTickets`, `MaxEvents`
and `MaxDowngrades`.

CHECK_DEADLOCK is off everywhere, because the bounded systems come to rest when
nothing is left to do; that no request or ticket waits for ever is asked by
`EveryRequestAnswered` and `EventuallySettled`.

*Fairness.* Weak fairness of each relay's own steps (beat starts one every ten
seconds, `app/worker.py` 17-19), of each worker's steps (a live Celery process takes
messages and runs its task to the end), of each accepted request and of the seed:
its process goes on, and whoever runs it starts it again when it has died. The last is
an assumption about the operator, who is told at README.md:227 of the repository that
reruns are safe. A rerun after success is not fair. Faults are never fair;
creation, workers and readers of `demo` are not fair.

## What the violated runs show

1. *Worker death.* The relay's mark PUBLISHED and the early acknowledgement
   leave no durable trace of an unfinished task. Nothing looks for rows that stay
   PROCESSING. README.md:242 of the repository speaks of at-least-once delivery.
   An error of `fail` itself (`worker.py` 37) or of `self.retry` ends the same way.
2. *Errors of begin.* `begin` is inside the `try`. When it fails, `fail` runs for a
   task that holds no claim. If the ticket never had this task's id, `fail`
   returns at once, and the last attempt leaves neither FAILED nor a dead letter.
3. *Redelivery.* If the id matches, because the broker delivered one message
   twice, `fail` takes the claim away from the twin, and overwrites COMPLETED if
   it read the row before the twin's commit. A duplicate publication
   leads to the same overwriting after two errors of `begin`.
4. *Closed tickets.* `update_status` checks the status it read and writes without
   a predicate. README.md:66 of the repository says that a closed ticket is terminal.
   The audit trail still tells the truth about what was written
   (`StatusIsLastEvent`), but it is no path any more.

Points 2 and 3 are why the theorems of `ProcessingProofs` assume `NoBeginErrors`. Either half of
the cause is harmless alone: `SingleDeliveryProofs` has the same safety properties if no
behaviour has both an error of `begin` and a message that comes again.

## What passing runs show of limits

Some properties hold because they say what the code gives up.

- *A crash of the seed.* A rerun skips every ticket it finds. The scenario the script
  died in stays where it was: not at its target status, or PROCESSING for ever under
  the seed's task id. `CrashCostsOneScenario` shows that this is all: one scenario for
  each death, and nothing that makes a later run fail.
- *Names of customers taken by agents.* An agent who is named `customer:<email>` before
  that customer's first ticket keeps the reference: every creation for the address is
  answered 503, whatever the client tries. Blank subjects and e-mails of more than 111
  characters are answered 503 as well, although the schema accepts them.
- *Upgrading to 0003.* It fails exactly if a status was changed under the name of the
  worker or of a customer, since it types actors by their labels, or if a ticket has an
  address of more than 111 characters, since `customer:<email>` goes into 120.
- *Downgrading 0003.* It fails while a customer has a name or an address that the API
  accepts and the checks of 0002 do not (one letter and blanks; `a@b.c`). If it
  succeeds it is a dead end:
  it does not restore `ck_ticket_events_actor_nonempty` and
  `ck_ticket_events_status_shape`, so that both the upgrade to 0003 and the downgrade of
  0002 then fail on a constraint that is not there. README.md:227 of the repository
  speaks of forward revisions only.
- *0005 and 0006.* Every old ticket becomes PENDING, and the outbox starts empty. So no
  relay publishes a processed ticket again, but tickets that really waited wait for ever.
  A message that is still in Redis does process its ticket again: a duplicate of a relay
  that died before its commit, a retry, or the message of a ticket the seed completed
  itself. `OnlyOldMessagesRepeat` shows that this takes a message older than the
  downgrade, each time.
- *Paging.* A walk may show a ticket twice, and may miss one of two tickets with the
  same `created_at`, or one whose status changed under a filter by status.

## Proofs

`ProcessingProofs`, for any numbers of tickets, workers, relays, retries, any
batch limit and any budgets of faults:

- `TypeCorrect`: `TypeOK`, from `RetriesLeft`: a worker that is about to retry
  has retries left.
- `Safety`, `OutcomesMatch`: `ExclusiveClaim`, `OwnershipHeld`, `TriagedOnce`,
  `DeadLetterMatchesFailure`, `ErrorOfLastAttempt`.
- `SettledTicketsStay`: `SettledIsFinal`.
- `ImplementsLifecycle`: `Processing` implements `ProcessingLifecycle`.

All but the first assume `NoBeginErrors`: no budget has an error of `begin`. The run
`processing_redelivery` shows that they fail if a message may come twice as well.

*The argument.* `ExclusiveClaim` is not inductive: a second worker could pass
`begin` if the row of an engaged worker were PENDING. `OwnershipHeld` says that it is
not: the row is PROCESSING under the worker's own task id, or was COMPLETED
by this very worker, whose commit raised. Since two workers may hold one task id after a
redelivery, ownership in turn needs exclusiveness. So the two are proved together,
with the agreement of each row with its events and dead letters (`RowsOK`), as
`SafeInv`. A step of a worker changes only the row it owns (`EngagedFacts`,
`WorkerKeeps`); every other worker's ticket is another one. The lifecycle then follows
step by step: `StepMoves` says that a step leaves all rows alone or moves one.

`DeliveryProofs`, for the same, under `OnlyRecoverable`: no death of a worker and no error of
`begin`, `fail` or `retry`, but any number of relay deaths, failed publications,
redeliveries and errors of `complete`:

- `NothingIsLost`: `NothingStranded`.
- `GivingUpIsRecorded`: `FinalFailureIsPersisted`.

The runs `processing_worker_death` and `processing_begin_errors` show what each loses
without the assumption.

*The argument.* A row that a relay has published without a commit is as good as
PUBLISHED, since the commit may come at any time. So `Delivers` asks from the
publication on that a waiting ticket have a message or a worker (`Carried`). A step
of a worker is about one ticket T (`Serves`): it leaves T carried, claimed or
settled, and takes no message of another ticket. That a worker in `complete` or `fail`
finds its own row there, so that no attempt ends in silence, is `SafeInv` again.

`SingleDeliveryProofs`, for the same, but under assumptions about delivery:

- `RetriesAreBounded`: `AttemptsBounded`, assuming `NoRedelivery`. Any errors, deaths and
  repeated publications are allowed.
- `OutcomesMatchUnlessBoth`: `TriagedOnce`, `DeadLetterMatchesFailure` and
  `ErrorOfLastAttempt`; `ExclusiveUnlessBoth`: `ExclusiveClaim`; `SettledStayUnlessBoth`:
  `SettledIsFinal`. They assume `NeverBoth`: a behaviour with errors of `begin` has no
  redelivery, and no fault of a relay that publishes a ticket again. All else is allowed. For
  `ExclusiveClaim` one fault of each kind is enough to break it, and for the outcomes a
  redelivery with one error of `begin`, or a second publication with two.

*The argument.* A task has one bearer, a message or a worker (`OneBearer`), since Celery's retry
makes the next message only when the worker lets go of the last. `AttemptsBounded` is not
inductive, as it forgets which attempts are still to come. `CountInv` remembers: a claim uses
up a pair of a task and a number of retries that no bearer may still claim
(`Spent`), and these pairs are among (1..published) × (0..MaxRetries). For the others, a
behaviour without errors of `begin` keeps `SafeInv`. One without repeated messages keeps `SoleInv`: the
one bearer of a task becomes the one bearer of a ticket, because the ticket is published once. What
this worker has read of the row nobody changes (`Holds`), so that `fail` without a claim
finds either a row it does not know or its own. A FAILED ticket has no bearer, and
nobody is left to claim or complete it.

`StatusUpdateProofs`, for any tickets, clients, references, any actors at the
start and any numbers of requests and errors:

- `TypeCorrect`: `TypeOK`.
- `TrailMatchesRow`, `TrailIsLegal`, `TrailIsByAgents`: the properties
  `StatusIsLastEvent`, `EventsAreLegal` and `EventsAreByAgents`, with no assumption.
- `ClosedTicketsStay`, `AnswerIsRequest`, `ImplementsLifecycle`: the properties
  `ClosedIsTerminal`, `AnswerShowsRequest` and `FollowsLifecycle`, assuming `Serial`:
  no two clients update one ticket. The run `status_closed` shows that the first
  fails without it.

*The argument.* What a commit writes was decided when its transaction loaded the
ticket. `LoadedIsLegal` carries that over the time between: the loaded status was
the ticket's at some time, and the requested one is a legal step from it.
`AgentFound` does the same for the actor. That is enough for the audit trail and
holds for any overlap, since nothing ever removes an event or an agent. `Fresh` says
that the loaded status is still the ticket's. It needs `Serial`, and it alone makes
the difference between a trail of legal steps and a path.

`TicketCreationProofs`, for any clients, keys, payloads, and any numbers of requests
and errors, with no assumption but that `NoKey` and `NoName` are nothing else:

- `TypeCorrect`: `TypeOK`.
- `KeysAreUnique`: `OneTicketPerKey`.
- `AnswersAreRight`: `AnswersFit`.
- `LosersMayTryAgain`: `RacesPass`, for any payloads that PostgreSQL refuses and any
  agents who take references.
- `NamesAreSent`: `NameIsOfATicket`.
- `ImplementsPromise`: `TicketCreation` implements `IdempotentCreation`
  (`KeepsPromise`).

*The argument.* The look-up at the start proves nothing by the time of the commit.
`KeyIsFree` says what does: the request that is about to commit holds its key in
the unique index, and no ticket has that key. `HeldOnce`, that no value has two
holders, makes it inductive. `MadeIsMine` and `ShownExists` tie answers to tickets,
which are only ever added. For the refinement, `BoundGrows` and `BoundStays` say what
a commit does to the binding of keys, and `SettleAnswer` that every other answer is
one that `Settle` allows.

`TicketQueriesProofs`, for any scenarios, clients, filters, page sizes, and any numbers of
crashes, reruns, claims, creations and reads:

- `TypeCorrect`: `TypeOK`.
- `SeedIsIdempotent`: `OneTicketPerScenario`.
- `DetailsAreExplained`: `DetailFits`.
- `WalksMissNothing`: `WalkMissesNothing`.
- `TotalsCoverPages`: `TotalCoversPage`.

*The argument.* `Grows` is what every step of every actor has in common: rows stay, with
the columns that lists filter and sort by, and events are only added. A detail is
explained because its events are read after its row. For the walks, what matters of
a ticket is its rank, how many newer tickets match. `PageFacts` says what a page is good
for: a ticket whose rank is at least the offset is on the page, or its rank is
beyond the page too. Under a stable filter ranks only grow (`RankGrows`), so that
what a walk still owes is always ahead of it (`Ahead`). The walk ends when the total is
not greater than the rows it has gone past, and a ticket's rank is less than the
total (`RankBelowTotal`): nothing is owed then.

`DatasetProofs`, for the same:

- `CrashesAreCheap`: `CrashCostsOneScenario`.
- `DatasetIsComplete`: `DatasetComplete`, whose second half is about the twenty scenarios of
  the code.

*The argument.* A ticket's audit trail is the path to its status, with the event of the worker
somewhere in it once it is COMPLETED (`Stands`). Claims and results leave a ticket
where it stands, whoever makes them and whenever (`Stays`); a status change takes it one step on
(`MoveStands`). `MineStands` says for each step of the script where its ticket stands, so
that `update_status` never refuses what the script asks for. The script lets go of a ticket
only when that is finished (`LeavesFinished`), or by a crash, which adds one. Without a crash none is
unfinished, and a few scenarios show that the dataset covers what it should (`DatasetCovers`).

`MigrationsProofs`, for any addresses, names, agents and bounds:

- `TypeCorrect`: `TypeOK`.
- `CustomersKept`: `IdentityKept`.
- `TrailKept`: `EventsKeepTheirActor`.
- `ProcessedOncePerDowngrade`: `OnlyOldMessagesRepeat`.
- `FailuresKnown`: `WhereMigrationsFail`.

*The argument.* `MigrationsInv` says at each revision what the rows are (types and columns), which
constraints exist (`SchemaOK`), what can be read out of an actor (`ActorsOK`), and what the
labels of the old application are (`LabelsAsWritten`). With it 0003 and its downgrade are
inverse as far as identities go. `ProcessedOncePerDowngrade` needs `WaitingFresh`: a ticket
that has an outbox row or a message and is not COMPLETED was processed no more often than
its messages have outlived a downgrade. Only the downgrade of 0005 takes a ticket out of
COMPLETED; it drops no message and leaves no outbox row, so that a ticket it makes wait
either has a message, which is counted, or can never be processed again.

*Only model-checked:* liveness (`EventuallySettled`, `EveryRequestAnswered`, `SeedConfirms`).
Liveness under fairness, ENABLED and induction over data are out of the prover's reach. Every
invariant and action property of the passing runs is a theorem, some under the assumptions
named above.

## Not modelled

- The HTTP envelope, metrics, request ids, health checks, configuration and logging:
  they keep no shared state. How errors map to answers is part of `TicketCreation` and
  `StatusUpdate`. So is what the routes do, but for the 404 of an unknown ticket.
- The texts that schema and database validate differently (see *Data* for what is kept of
  them); the summary that triage writes.
- In `Migrations`: indexes, enums, column widths but that of `external_reference`, dead
  letters and the columns of idempotency keys, which no revision reads.
- Packaging and CI. Deletion: no operation deletes a row.

## Plan

1. Done: `Processing`, `StatusUpdate` and `TicketCreation`, each with its abstract
   specification and its proofs.
2. Done: `Seed` and `TicketQueries` as one system, `Migrations` with the namespace of
   `external_reference`, and the proofs of both.
3. Done: the proofs that nothing is stranded.
4. Done: the proofs about single delivery, and about what the seed leaves behind.
5. Left: no safety property. The refinement of `ProcessingLifecycle` is proved without errors
   of `begin` only, and must be: a task that holds no claim may release or bury its ticket.
