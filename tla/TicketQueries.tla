---------------------------- MODULE TicketQueries ----------------------------
(***************************************************************************)
(* GET /v1/tickets and GET /v1/tickets/{id} (app/repositories.py, get and  *)
(* list) against the live system of module Seed, with API clients that     *)
(* create tickets as well.                                                 *)
(*                                                                         *)
(* An answer takes two statements, each of which sees what is committed    *)
(* when it starts.  A page is cut out of a list ordered by created_at,     *)
(* which is the start of the inserting transaction: tickets may appear     *)
(* behind others that are listed already, and equal values in any order.   *)
(***************************************************************************)
EXTENDS Seed

CONSTANTS
  Clients,        \* API clients that create tickets
  NewCategories,  \* the categories of their tickets
  Filters,        \* the filters, and
  PageSizes       \* the page sizes that a listing is asked for

ASSUME QueryAssumption ==
  /\ NewCategories \subseteq Categories
  /\ Filters # {} /\ PageSizes # {} /\ PageSizes \subseteq 1..100
  /\ \A f \in Filters : f.field \in {"none", "category", "priority", "status"}
  /\ \A p \in Plans : p.creations \in Nat /\ p.walks \in Nat /\ p.details \in Nat

VARIABLES
  begun,      \* start of the open transaction of each client, or 0
  creations,  \* tickets the clients began to create
  step,       \* what the reader does next
  query,      \* the listing it walks through: filter and page size
  page,       \* the page it is at
  due,        \* ghost: what matched the filter when its walk began
  got,        \* what it has seen in this walk
  items,      \* the items and
  total,      \* the total of the last answer
  ticket,     \* the ticket it wants the detail of
  shown,      \* that detail: status, processing status, events
  walks,      \* walks and
  details     \* details so far

api == <<begun, creations>>
reader == <<step, query, page, due, got, items, total, ticket, shown, walks, details>>
vars == <<tickets, clock, plan, script, claims, api, reader>>

Query == [filter : Filters, size : PageSizes]

NoQuery == CHOOSE q \in Query : TRUE
NoDetail == [status |-> "OPEN", processing |-> "PENDING", events |-> {}]

TypeOK ==
  /\ SeedTypeOK
  /\ begun \in [Clients -> Nat]
  /\ creations \in 0..plan.creations
  /\ step \in {"idle", "items", "total", "answered", "events", "shown"}
  /\ query \in Query
  /\ page \in Nat /\ total \in Nat
  /\ due \subseteq DOMAIN tickets /\ got \subseteq DOMAIN tickets
  /\ items \subseteq got
  /\ ticket \in 0..Len(tickets)
  /\ shown \in [status : TicketStatus, processing : {"PENDING", "PROCESSING", "COMPLETED"},
               events : SUBSET EventKinds]
  /\ walks \in 0..plan.walks /\ details \in 0..plan.details

Init ==
  /\ SeedInit
  /\ begun = [c \in Clients |-> 0]
  /\ creations = 0
  /\ step = "idle"
  /\ query = NoQuery
  /\ page = 1
  /\ due = {} /\ got = {} /\ items = {}
  /\ total = 0
  /\ ticket = 0
  /\ shown = NoDetail
  /\ walks = 0 /\ details = 0

-----------------------------------------------------------------------------
(***************************************************************************)
(* POST /v1/tickets: the row is dated when its transaction starts, which   *)
(* may be the very time another one did.                                   *)
(***************************************************************************)
BeginCreation(c) ==
  /\ begun[c] = 0 /\ creations < plan.creations
  /\ \E now \in {clock, clock + 1} \ {0} :
       begun' = [begun EXCEPT ![c] = now] /\ clock' = now
  /\ creations' = creations + 1
  /\ UNCHANGED <<tickets, plan, script, claims, reader>>

CommitCreation(c) ==
  /\ begun[c] # 0
  /\ \E category \in NewCategories :
       tickets' = Append(tickets, NewTicket(0, "MEDIUM", category, FALSE, begun[c]))
  /\ begun' = [begun EXCEPT ![c] = 0]
  /\ UNCHANGED <<clock, plan, script, claims, creations, reader>>

-----------------------------------------------------------------------------
(***************************************************************************)
(* Listing.                                                                *)
(***************************************************************************)
Matching(f) ==
  {i \in DOMAIN tickets : f.field = "none" \/ tickets[i][f.field] = f.value}

NotOlder(S, T) == \A i \in S, j \in T : tickets[i].created >= tickets[j].created

\* Mutant: the pages are counted from 0, the offset from 1.
MutOffset(n, size) == n * size

Offset(n, size) == (n - 1) * size

Least(m, n) == IF m < n THEN m ELSE n

\* P is a page of some order of the rows by created_at, the newest first.
IsPage(P, rows, offset, limit) ==
  \E before \in SUBSET (rows \ P) :
    LET rest == rows \ before IN
    /\ Cardinality(before) = Least(offset, Cardinality(rows))
    /\ Cardinality(P) = Least(limit, Cardinality(rest))
    /\ NotOlder(before, rest)
    /\ NotOlder(P, rest \ P)

StartWalk(q) ==
  /\ step = "idle" /\ walks < plan.walks
  /\ step' = "items"
  /\ query' = q
  /\ page' = 1
  /\ due' = Matching(q.filter)
  /\ got' = {}
  /\ walks' = walks + 1
  /\ UNCHANGED <<tickets, clock, plan, script, claims, api, items, total, ticket, shown,
                 details>>

ReadItems ==
  /\ step = "items"
  /\ \E P \in SUBSET Matching(query.filter) :
       /\ IsPage(P, Matching(query.filter), Offset(page, query.size), query.size)
       /\ items' = P
       /\ got' = got \cup P
  /\ step' = "total"
  /\ UNCHANGED <<tickets, clock, plan, script, claims, api, query, page, due, total,
                 ticket, shown, walks, details>>

\* Mutant: the total is kept from when the walk began.
MutKeptTotal(f) == Cardinality({i \in due : i \in Matching(f)})

Total(f) == Cardinality(Matching(f))

ReadTotal ==
  /\ step = "total"
  /\ total' = Total(query.filter)
  /\ step' = "answered"
  /\ UNCHANGED <<tickets, clock, plan, script, claims, api, query, page, due, got, items,
                 ticket, shown, walks, details>>

AtLastPage == page * query.size >= total

\* The client asks for the next page until the total says it has them all.
NextPage ==
  /\ step = "answered" /\ ~ AtLastPage
  /\ page' = page + 1
  /\ step' = "items"
  /\ UNCHANGED <<tickets, clock, plan, script, claims, api, query, due, got, items, total,
                 ticket, shown, walks, details>>

-----------------------------------------------------------------------------
(***************************************************************************)
(* Detail: the SELECT of the row, then the one of selectinload.            *)
(***************************************************************************)
ReadTicket(i) ==
  /\ step = "idle" /\ details < plan.details
  /\ ticket' = i
  /\ shown' = [NoDetail EXCEPT !.status = tickets[i].status,
                               !.processing = tickets[i].processing]
  /\ step' = "events"
  /\ details' = details + 1
  /\ UNCHANGED <<tickets, clock, plan, script, claims, api, query, page, due, got, items,
                 total, walks>>

ReadEvents ==
  /\ step = "events"
  /\ shown' = [shown EXCEPT !.events =
                 {tickets[ticket].events[k] : k \in DOMAIN tickets[ticket].events}]
  /\ step' = "shown"
  /\ UNCHANGED <<tickets, clock, plan, script, claims, api, query, page, due, got, items,
                 total, ticket, walks, details>>

\* The reader has its answer and forgets it.
EndRead ==
  /\ step = "shown" \/ (step = "answered" /\ AtLastPage)
  /\ step' = "idle"
  /\ query' = NoQuery
  /\ page' = 1
  /\ due' = {} /\ got' = {} /\ items' = {}
  /\ total' = 0
  /\ ticket' = 0
  /\ shown' = NoDetail
  /\ UNCHANGED <<tickets, clock, plan, script, claims, api, walks, details>>

Next ==
  \/ SeedNext /\ UNCHANGED <<api, reader>>
  \/ \E c \in Clients : BeginCreation(c) \/ CommitCreation(c)
  \/ \E q \in Query : StartWalk(q)
  \/ ReadItems \/ ReadTotal \/ NextPage
  \/ \E i \in DOMAIN tickets : ReadTicket(i)
  \/ ReadEvents \/ EndRead

Spec == Init /\ [][Next]_vars

FairSpec == Spec /\ SeedFairness

-----------------------------------------------------------------------------
\* No step changes what this filter looks at.
Stable(f) == f.field # "status"

SharesDate(i) == \E j \in DOMAIN tickets \ {i} : tickets[j].created = tickets[i].created

(***************************************************************************)
(* Offset pages over a list that moves: a client that walks through all    *)
(* pages meets every ticket that was there when it began, although new     *)
(* ones push the list down, or come to light behind it because of their    *)
(* earlier created_at.  It may see a ticket twice.  There are two          *)
(* exceptions: filtering by status, which changes meanwhile, and tickets   *)
(* that share their created_at, which nothing orders.                      *)
(***************************************************************************)
WalkMissesNothing ==
  step = "answered" /\ AtLastPage /\ Stable(query.filter) =>
    \A i \in due : SharesDate(i) \/ i \in got

(***************************************************************************)
(* The total never contradicts the page it comes with: it counts at least  *)
(* the items shown and those before them.                                  *)
(***************************************************************************)
TotalCoversPage ==
  step = "answered" /\ Stable(query.filter) /\ items # {} =>
    total >= Offset(page, query.size) + Cardinality(items)

(***************************************************************************)
(* A detail is never ahead of its own audit trail, although status and     *)
(* events come from different snapshots: the event that led to the status  *)
(* shown is shown too, and COMPLETED comes with its AUTO_PROCESSED event.  *)
(***************************************************************************)
DetailFits ==
  step = "shown" =>
    /\ shown.status \in shown.events
    /\ shown.processing = "COMPLETED" => "AUTO_PROCESSED" \in shown.events
=============================================================================
