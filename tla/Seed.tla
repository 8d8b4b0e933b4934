-------------------------------- MODULE Seed --------------------------------
(***************************************************************************)
(* scripts/seed.py, run and run again against a live system: the script    *)
(* may die between any two of its commits, and Celery workers race it for  *)
(* the tickets it has created.                                             *)
(*                                                                         *)
(* Each call of a service is one transaction here; how the services behave *)
(* inside is the matter of TicketCreation, StatusUpdate and Processing.    *)
(* The one session of the script matters for created_at, which is the      *)
(* start of the inserting transaction: what reads a ticket after a commit, *)
(* be it a refresh or only ticket.id, which the commit has expired, leaves *)
(* a transaction open, and so does a look at a ticket that exists.         *)
(***************************************************************************)
EXTENDS SeedScenarios, TicketStatuses, Naturals, Sequences, FiniteSets

CONSTANTS
  Plans  \* what a behaviour may contain, one of these: scenarios and bounds

VARIABLES
  tickets,  \* rows of tickets with their events, in the order of their ids
  clock,    \* start of the latest transaction
  plan,     \* the plan of this behaviour
  pc,       \* next step of the script
  at,       \* the scenario it is at
  mine,     \* position of the ticket it made for that scenario, or 0
  opened,   \* start of the transaction its session has open, or 0
  crashes,  \* times it has died
  reruns,   \* times it was started again after it ended well
  claims    \* tickets claimed by workers

script == <<pc, at, mine, opened, crashes, reruns>>
seedVars == <<tickets, clock, plan, script, claims>>

Steps == {"stopped", "create", "begin", "complete", "advance", "finish", "replay", "done"}

Priorities == {"LOW", "MEDIUM", "HIGH", "URGENT"}
Categories == {"ACCOUNT", "BILLING", "CARD", "PAYMENT", "TECHNICAL", "OTHER"}

\* The department a category is routed to.
Routing ==
  [c \in Categories |->
     CASE c \in {"BILLING", "PAYMENT"} -> "payments"
       [] c = "CARD"                   -> "card-operations"
       [] c = "ACCOUNT"                -> "identity"
       [] c = "TECHNICAL"              -> "platform"
       [] OTHER                        -> "general-support"]

NoResult == [department |-> "NULL", spam |-> 0]

\* Mutant: the category is stored for the department.
MutResult(t) == [department |-> t.category, spam |-> IF t.spamLike THEN 90 ELSE 3]

Result(t) == [department |-> Routing[t.category], spam |-> IF t.spamLike THEN 90 ELSE 3]

\* A row of tickets; scenario is what its idempotency key names, 0 without one.
NewTicket(scenario, priority, category, spamLike, created) ==
  [scenario |-> scenario, priority |-> priority, category |-> category,
   spamLike |-> spamLike, created |-> created, status |-> "OPEN",
   processing |-> "PENDING", owner |-> "NULL", result |-> NoResult,
   events |-> <<"OPEN">>]

\* Of an event, the status it leads to, or that it is the one of the worker.
EventKinds == TicketStatus \cup {"AUTO_PROCESSED"}

ScenarioRow ==
  [customer : STRING, priority : Priorities, category : Categories, target : TicketStatus,
   agent : STRING, spamLike : BOOLEAN]

ASSUME SeedAssumption ==
  \A p \in Plans :
    /\ p.scenarios \in Seq(ScenarioRow) /\ p.scenarios # <<>>
    \* advance_status raises a ValueError otherwise.
    /\ \A s \in DOMAIN p.scenarios :
         p.scenarios[s].target # "OPEN" => p.scenarios[s].agent # NoAgent
    /\ p.crashes \in Nat /\ p.reruns \in Nat /\ p.claims \in Nat

TicketRow ==
  [scenario : Nat, priority : Priorities, category : Categories, spamLike : BOOLEAN,
   created : Nat, status : TicketStatus,
   processing : {"PENDING", "PROCESSING", "COMPLETED"},
   owner : {"NULL", "seed", "worker"},
   result : {NoResult} \cup [department : {Routing[c] : c \in Categories}, spam : {3, 90}],
   events : Seq(EventKinds)]

SeedTypeOK ==
  /\ tickets \in Seq(TicketRow)
  /\ clock \in Nat
  /\ plan \in Plans
  /\ pc \in Steps
  /\ at \in DOMAIN plan.scenarios
  /\ mine \in 0..Len(tickets)
  /\ opened \in 0..clock
  /\ crashes \in 0..plan.crashes
  /\ reruns \in 0..plan.reruns
  /\ claims \in 0..plan.claims

SeedInit ==
  /\ tickets = <<>>
  /\ clock = 0
  /\ plan \in Plans
  /\ pc = "stopped"
  /\ at = 1
  /\ mine = 0
  /\ opened = 0
  /\ crashes = 0
  /\ reruns = 0
  /\ claims = 0

Current == plan.scenarios[at]

\* Mutant: the key of a closed ticket may be used again.
MutOf(s) == {i \in DOMAIN tickets : tickets[i].scenario = s /\ tickets[i].status # "CLOSED"}

Of(s) == {i \in DOMAIN tickets : tickets[i].scenario = s}

\* The start of the transaction that a statement of the script runs in.
Since == IF opened = 0 THEN clock + 1 ELSE opened
Elapsed == IF opened = 0 THEN clock + 1 ELSE clock

\* A commit, after which the ticket is read again.
CommitsAndReads == clock' = Elapsed + 1 /\ opened' = Elapsed + 1

Goto(step) == pc' = step /\ UNCHANGED <<at, mine, crashes, reruns>>

\* On to the next scenario, and after the last one to the replay of the first.
Proceed ==
  /\ IF at < Len(plan.scenarios) THEN pc' = "create" /\ at' = at + 1
                                 ELSE pc' = "replay" /\ at' = at
  /\ mine' = 0
  /\ UNCHANGED <<crashes, reruns>>

\* The script ends, and its session is closed.
Ends(step) ==
  /\ pc' = step
  /\ at' = 1
  /\ mine' = 0
  /\ opened' = 0
  /\ UNCHANGED clock

-----------------------------------------------------------------------------
(***************************************************************************)
(* What the services do to a row.                                          *)
(***************************************************************************)
Claimable(i) == tickets[i].processing = "PENDING"

Claimed(i, owner) ==
  [tickets EXCEPT ![i].processing = "PROCESSING", ![i].owner = owner]

Owned(i, owner) == tickets[i].processing = "PROCESSING" /\ tickets[i].owner = owner

\* Mutant: the result is committed without its event.
MutCompletedSilently(i) ==
  [tickets EXCEPT ![i].processing = "COMPLETED", ![i].result = Result(tickets[i])]

Completed(i) ==
  [tickets EXCEPT ![i].processing = "COMPLETED", ![i].result = Result(tickets[i]),
                  ![i].events = Append(@, "AUTO_PROCESSED")]

Permitted(i, next) == next \in ALLOWED_TRANSITIONS[tickets[i].status]

MovedTo(i, next) ==
  [tickets EXCEPT ![i].status = next, ![i].events = Append(@, next)]

-----------------------------------------------------------------------------
(***************************************************************************)
(* The script.                                                             *)
(***************************************************************************)
Run ==
  /\ \/ pc = "stopped" /\ UNCHANGED reruns
     \/ pc = "done" /\ reruns < plan.reruns /\ reruns' = reruns + 1
  /\ pc' = "create"
  /\ UNCHANGED <<tickets, clock, plan, at, mine, opened, crashes, claims>>

\* create_ticket_idempotent finds no ticket of the scenario and makes one.
Create ==
  /\ pc = "create"
  /\ Of(at) = {}
  /\ tickets' = Append(tickets, NewTicket(at, Current.priority, Current.category,
                                          Current.spamLike, Since))
  /\ pc' = "begin"
  /\ mine' = Len(tickets) + 1
  /\ CommitsAndReads
  /\ UNCHANGED <<plan, at, crashes, reruns, claims>>

\* Mutant: the key that is there is an error.
MutReuseRaises ==
  /\ pc = "create"
  /\ Of(at) # {}
  /\ Ends("stopped")
  /\ UNCHANGED <<tickets, plan, crashes, reruns, claims>>

\* Mutant: the script takes the rest for done as well.
MutReuseEnds ==
  /\ pc = "create"
  /\ Of(at) # {}
  /\ Goto("replay")
  /\ opened' = Since /\ clock' = Elapsed
  /\ UNCHANGED <<tickets, plan, claims>>

Reuse ==
  /\ pc = "create"
  /\ Of(at) # {}
  /\ Proceed
  /\ opened' = Since /\ clock' = Elapsed
  /\ UNCHANGED <<tickets, plan, claims>>

\* begin of the script: its UPDATE claims the ticket, unless a worker did first.
Begin ==
  /\ pc = "begin"
  /\ Claimable(mine)
  /\ tickets' = Claimed(mine, "seed")
  /\ CommitsAndReads
  /\ Goto("complete")
  /\ UNCHANGED <<plan, claims>>

SkipClaimed ==
  /\ pc = "begin"
  /\ ~ Claimable(mine)
  /\ Goto("advance")
  /\ UNCHANGED <<tickets, clock, plan, opened, claims>>

Complete ==
  /\ pc = "complete"
  /\ IF Owned(mine, "seed")
       THEN tickets' = Completed(mine) /\ CommitsAndReads
       ELSE UNCHANGED <<tickets, clock, opened>>
  /\ Goto("advance")
  /\ UNCHANGED <<plan, claims>>

\* update_status for the script: what the service refuses ends it.
UpdateStatus(next, Then) ==
  /\ IF Permitted(mine, next)
       THEN tickets' = MovedTo(mine, next) /\ CommitsAndReads /\ Then
       ELSE Ends("stopped") /\ UNCHANGED <<tickets, crashes, reruns>>
  /\ UNCHANGED <<plan, claims>>

\* advance_status: nothing to do, or the first step of the ticket.
StayOpen ==
  /\ pc = "advance"
  /\ Current.target = "OPEN"
  /\ Proceed
  /\ UNCHANGED <<tickets, clock, plan, opened, claims>>

Advance ==
  /\ pc = "advance"
  /\ Current.target # "OPEN"
  /\ UpdateStatus("IN_PROGRESS",
       IF Current.target = "IN_PROGRESS" THEN Proceed ELSE Goto("finish"))

\* Mutant: a ticket to be closed is resolved.
MutFinish ==
  /\ pc = "finish"
  /\ UpdateStatus("RESOLVED", Proceed)

Finish ==
  /\ pc = "finish"
  /\ UpdateStatus(Current.target, Proceed)

\* The replay of the first scenario finds its ticket: the script asserts it.
Replay ==
  /\ pc = "replay"
  /\ Of(1) # {}
  /\ Ends("done")
  /\ UNCHANGED <<tickets, plan, crashes, reruns, claims>>

\* The process dies, or a statement raises: what it has not committed is lost.
Crash ==
  /\ pc \notin {"stopped", "done"} /\ crashes < plan.crashes
  /\ crashes' = crashes + 1
  /\ Ends("stopped")
  /\ UNCHANGED <<tickets, plan, reruns, claims>>

-----------------------------------------------------------------------------
\* A worker that got the message of the ticket.
WorkerBegin(i) ==
  /\ Claimable(i) /\ claims < plan.claims
  /\ tickets' = Claimed(i, "worker")
  /\ claims' = claims + 1
  /\ UNCHANGED <<clock, plan, script>>

WorkerComplete(i) ==
  /\ Owned(i, "worker")
  /\ tickets' = Completed(i)
  /\ UNCHANGED <<clock, plan, script, claims>>

ScriptStep ==
  \/ Create \/ Reuse \/ Begin \/ SkipClaimed \/ Complete
  \/ StayOpen \/ Advance \/ Finish \/ Replay

SeedNext ==
  \/ Run \/ ScriptStep \/ Crash
  \/ \E i \in DOMAIN tickets : WorkerBegin(i) \/ WorkerComplete(i)

SeedSpec == SeedInit /\ [][SeedNext]_seedVars

-----------------------------------------------------------------------------
(***************************************************************************)
(* "Idempotent": however often the script dies and is run again, and       *)
(* whatever it did before, each scenario has one ticket at most.           *)
(***************************************************************************)
OneTicketPerScenario ==
  \A i, j \in DOMAIN tickets :
    tickets[i].scenario = tickets[j].scenario /\ tickets[i].scenario # 0 => i = j

\* The path advance_status takes to a status.
PathTo(target) ==
  CASE target = "OPEN"        -> <<"OPEN">>
    [] target = "IN_PROGRESS" -> <<"OPEN", "IN_PROGRESS">>
    [] OTHER                  -> <<"OPEN", "IN_PROGRESS", target>>

\* The path with the event of the worker after its first k steps.
Processed(path, k) ==
  SubSeq(path, 1, k) \o <<"AUTO_PROCESSED">> \o SubSeq(path, k + 1, Len(path))

\* The audit trail of t is the path, and the event of the worker once it is processed.
Follows(t, path) ==
  IF t.processing = "COMPLETED" THEN \E k \in 1..Len(path) : t.events = Processed(path, k)
                                ELSE t.events = path

\* The ticket came to that status along its path, and no further.
Stands(t, status) == t.status = status /\ Follows(t, PathTo(status))

\* The ticket was processed, or a worker does it.
Treated(t) == t.processing = "COMPLETED" \/ t.owner = "worker"

Finished(t) == Stands(t, plan.scenarios[t.scenario].target) /\ Treated(t)

Unfinished ==
  {i \in DOMAIN tickets \ {mine} : tickets[i].scenario # 0 /\ ~ Finished(tickets[i])}

(***************************************************************************)
(* The price of a crash: since a rerun skips every ticket it finds, a      *)
(* scenario the script died in stays as it was left, away from its target  *)
(* or PROCESSING for ever.  It is one scenario at most for each crash, and *)
(* every other ticket is as the dataset wants it, whoever processed it.    *)
(***************************************************************************)
CrashCostsOneScenario == Cardinality(Unfinished) <= crashes

\* What README.md:107 says of the dataset: it covers every category, priority and
\* lifecycle state, repeated customers, several agents, and a ticket the triage takes
\* for spam.
Covers ==
  LET rows == {tickets[i] : i \in DOMAIN tickets}
      used == {plan.scenarios[s] : s \in DOMAIN plan.scenarios}
  IN
  /\ Categories = {t.category : t \in rows}
  /\ Priorities = {t.priority : t \in rows}
  /\ TicketStatus = {t.status : t \in rows}
  /\ Cardinality({s.customer : s \in used}) < Len(plan.scenarios)
  /\ Cardinality({s.agent : s \in used} \ {NoAgent}) > 1
  /\ \E t \in rows : t.result.spam = 90 \/ (t.spamLike /\ t.owner = "worker")

(***************************************************************************)
(* When the script confirms its replay every scenario has a ticket, so     *)
(* that its assertion cannot fail; and of the real dataset holds what the  *)
(* README says, unless a crash cost a scenario.                            *)
(***************************************************************************)
DatasetComplete ==
  pc \in {"replay", "done"} =>
    /\ \A s \in DOMAIN plan.scenarios : Of(s) # {}
    /\ crashes = 0 /\ plan.scenarios = SCENARIOS => Covers

(***************************************************************************)
(* A script that is started again whenever it has died confirms the        *)
(* dataset at last: nothing it left behind makes it fail.                  *)
(***************************************************************************)
SeedConfirms == pc = "stopped" ~> pc = "done"

SeedFairness == WF_seedVars(ScriptStep) /\ WF_seedVars(pc = "stopped" /\ Run)
=============================================================================
