\* Three requests of three clients, with and without a key, some of them retries.
SPECIFICATION FairSpec
CONSTANTS
  c1 = c1
  c2 = c2
  c3 = c3
  k1 = k1
  p1 = p1
  p2 = p2
  q = q
  long = long
  blank = blank
  NoKey = NoKey
  NoName = NoName
  Clients <- MCClients
  Keys <- MCKeys
  Payloads <- MCPayloads
  EmailOf <- MCEmailOf
  NameOf <- MCNameOf
  Requests <- MCRequests
  RefusedCustomers <- MCRefusedCustomers
  RefusedTickets <- MCRefusedTickets
  MaxRequests = 3
  MaxErrors = 1
\* The system rests when MaxRequests requests are sent and answered.
CHECK_DEADLOCK FALSE
INVARIANTS
  TypeOK
  OneTicketPerKey
  AnswersFit
  NameIsOfATicket
PROPERTIES
  RacesPass
  KeepsPromise
  EveryRequestAnswered
