\* Two clients with a ticket each, who name the same agents.
SPECIFICATION Spec
CONSTANTS
  t1 = t1
  t2 = t2
  c1 = c1
  c2 = c2
  alice = alice
  bob = bob
  NoRequest = NoRequest
  Tickets <- TwoTickets
  Clients <- TwoClients
  References <- TwoAgents
  MayUpdate <- Disjoint
  ActorsAtStart <- AnyActors
  MaxRequests = 5
  MaxErrors = 1
\* The system rests when MaxRequests requests are sent and answered.
CHECK_DEADLOCK FALSE
INVARIANTS
  AnswerShowsRequest
PROPERTIES
  ClosedIsTerminal
  FollowsLifecycle
