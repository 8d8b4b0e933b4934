\* A redelivery, and an error of begin.
SPECIFICATION Spec
CONSTANTS
  t1 = t1
  t2 = t2
  w1 = w1
  w2 = w2
  r1 = r1
  r2 = r2
  NoJob = NoJob
  Tickets <- OneTicket
  Workers <- MCWorkers
  Relays <- OneRelay
  MaxRetries = 1
  BatchLimit = 1
  ActorsAtStart <- SystemActor
  Budgets <- RedeliveryAndBeginError
\* The system rests when every ticket is settled and no message is left.
CHECK_DEADLOCK FALSE
INVARIANTS
  TriagedOnce
