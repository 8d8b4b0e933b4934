\* Two relays that share the outbox row by row, fair processes, and the faults the system recovers from.
SPECIFICATION FairSpec
CONSTANTS
  t1 = t1
  t2 = t2
  w1 = w1
  w2 = w2
  r1 = r1
  r2 = r2
  NoJob = NoJob
  Tickets <- MCTickets
  Workers <- MCWorkers
  Relays <- MCRelays
  MaxRetries = 1
  BatchLimit = 1
  ActorsAtStart <- AnyActor
  Budgets <- RecoverableFaults
\* The system rests when every ticket is settled and no message is left.
CHECK_DEADLOCK FALSE
INVARIANTS
  NothingStranded
PROPERTIES
  FinalFailureIsPersisted
  EventuallySettled
