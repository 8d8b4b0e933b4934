\* begin fails on every attempt.
SPECIFICATION Spec
CONSTANTS
  t1 = t1
  t2 = t2
  w1 = w1
  w2 = w2
  r1 = r1
  r2 = r2
  NoJob = NoJob
  Tickets <- OneTicket
  Workers <- MCWorkers
  Relays <- OneRelay
  MaxRetries = 3
  BatchLimit = 1
  ActorsAtStart <- SystemActor
  Budgets <- BeginFailsEachTime
\* The system rests when every ticket is settled and no message is left.
CHECK_DEADLOCK FALSE
PROPERTIES
  FinalFailureIsPersisted
