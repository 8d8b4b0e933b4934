\* Two clients whose requests overlap on one ticket.
SPECIFICATION Spec
CONSTANTS
  t1 = t1
  t2 = t2
  c1 = c1
  c2 = c2
  alice = alice
  bob = bob
  NoRequest = NoRequest
  Tickets <- OneTicket
  Clients <- TwoClients
  References <- TwoAgents
  MayUpdate <- Overlapping
  ActorsAtStart <- AnyActors
  MaxRequests = 5
  MaxErrors = 1
SYMMETRY Symmetry
\* The system rests when MaxRequests requests are sent and answered.
CHECK_DEADLOCK FALSE
INVARIANTS
  TypeOK
  StatusIsLastEvent
  EventsAreLegal
  EventsAreByAgents
