\* The seed with the real dataset under one crash, and two scenarios under clients that
\* create and read.
SPECIFICATION FairSpec
CONSTANTS
  c1 = c1
  c2 = c2
  Plans <- MCPlans
  Clients <- MCClients
  NewCategories <- MCCategories
  Filters <- MCFilters
  PageSizes = {1, 2}
\* The system rests when the script is done and the bounds are reached.
CHECK_DEADLOCK FALSE
INVARIANTS
  TypeOK
  OneTicketPerScenario
  CrashCostsOneScenario
  DatasetComplete
  WalkMissesNothing
  TotalCoversPage
  DetailFits
PROPERTIES
  SeedConfirms
