\* Every fault but an error of begin, two of them, on two tickets and two workers.
SPECIFICATION Spec
CONSTANTS
  t1 = t1
  t2 = t2
  w1 = w1
  w2 = w2
  r1 = r1
  r2 = r2
  NoJob = NoJob
  Tickets <- MCTickets
  Workers <- MCWorkers
  Relays <- OneRelay
  MaxRetries = 1
  BatchLimit = 2
  ActorsAtStart <- NoActorYet
  Budgets <- TwoSafeFaults
SYMMETRY Symmetry
\* The system rests when every ticket is settled and no message is left.
CHECK_DEADLOCK FALSE
INVARIANTS
  TypeOK
  ExclusiveClaim
  OwnershipHeld
  TriagedOnce
  DeadLetterMatchesFailure
  ErrorOfLastAttempt
PROPERTIES
  SettledIsFinal
  FollowsLifecycle
