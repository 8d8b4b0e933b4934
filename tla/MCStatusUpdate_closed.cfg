\* Two clients update one ticket at the same time.
SPECIFICATION Spec
CONSTANTS
  t1 = t1
  t2 = t2
  c1 = c1
  c2 = c2
  alice = alice
  bob = bob
  NoRequest = NoRequest
  Tickets <- OneTicket
  Clients <- TwoClients
  References <- OneAgent
  MayUpdate <- Overlapping
  ActorsAtStart <- NoAgents
  MaxRequests = 3
  MaxErrors = 0
\* The system rests when MaxRequests requests are sent and answered.
CHECK_DEADLOCK FALSE
PROPERTIES
  ClosedIsTerminal
