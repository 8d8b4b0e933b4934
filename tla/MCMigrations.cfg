\* Revisions up and down over rows of two tickets.
SPECIFICATION Spec
CONSTANTS
  Emails <- MCEmails
  Lower <- MCLower
  CustomerRef <- MCCustomerRef
  LongEmails = {"long@x.org"}
  OddEmails = {"a@b.c"}
  Names = {"Ava", " A"}
  ShortNames = {" A"}
  Agents = {"agent:alex"}
  MaxTickets = 2
  MaxEvents = 3
  MaxDowngrades = 5
\* A database at revision 0 may have used up its downgrades.
CHECK_DEADLOCK FALSE
INVARIANTS
  TypeOK
  IdentityKept
  EventsKeepTheirActor
  OnlyOldMessagesRepeat
  WhereMigrationsFail
