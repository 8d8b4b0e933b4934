------------------------ MODULE TicketQueriesProofs ------------------------
(***************************************************************************)
(* Theorems about Seed and TicketQueries, for any scenarios, clients,      *)
(* filters and page sizes, and any number of crashes, reruns, claims,      *)
(* creations and reads.                                                    *)
(***************************************************************************)
EXTENDS TicketQueries, TLAPS, FiniteSetTheorems

\* The script has a ticket while it works on one.
MineExists == pc \in {"begin", "complete", "advance", "finish"} => mine # 0

EventsOf(t) == {t.events[k] : k \in DOMAIN t.events}

\* The row is not ahead of its audit trail.
TellsItself(t) ==
  /\ t.status \in EventsOf(t)
  /\ t.processing = "COMPLETED" => "AUTO_PROCESSED" \in EventsOf(t)

\* What a step may do to a row: what listings filter and order by stays, and events
\* are only added.
Succeeds(r, t) ==
  /\ r \in TicketRow
  /\ r.scenario = t.scenario /\ r.created = t.created
  /\ r.category = t.category /\ r.priority = t.priority
  /\ EventsOf(t) \subseteq EventsOf(r)
  /\ TellsItself(t) => TellsItself(r)

-----------------------------------------------------------------------------
(***************************************************************************)
(* Rows and what the services do to them.                                  *)
(***************************************************************************)
LEMMA AppendFacts ==
  ASSUME NEW S, NEW s \in Seq(S), NEW x \in S
  PROVE  /\ Append(s, x) \in Seq(S)
         /\ Len(s) \in Nat /\ DOMAIN s = 1..Len(s)
         /\ Len(Append(s, x)) = Len(s) + 1
         /\ DOMAIN Append(s, x) = DOMAIN s \cup {Len(s) + 1}
         /\ Len(s) + 1 \notin DOMAIN s
         /\ Append(s, x)[Len(s) + 1] = x
         /\ \A i \in DOMAIN s : Append(s, x)[i] = s[i]
OBVIOUS

LEMMA ExceptFacts ==
  ASSUME NEW S, NEW s \in Seq(S), NEW i \in DOMAIN s, NEW x \in S
  PROVE  LET u == [s EXCEPT ![i] = x] IN
         /\ u \in Seq(S) /\ Len(u) = Len(s) /\ DOMAIN u = DOMAIN s
         /\ u[i] = x /\ \A j \in DOMAIN s : j # i => u[j] = s[j]
OBVIOUS

LEMMA ClaimedRow ==
  ASSUME NEW t \in TicketRow, NEW owner \in {"seed", "worker"}
  PROVE  Succeeds([t EXCEPT !.processing = "PROCESSING", !.owner = owner], t)
<1> DEFINE r == [t EXCEPT !.processing = "PROCESSING", !.owner = owner]
<1>1. /\ r \in TicketRow /\ r.scenario = t.scenario /\ r.created = t.created
      /\ r.category = t.category /\ r.priority = t.priority /\ r.events = t.events
      /\ r.status = t.status /\ r.processing = "PROCESSING"
  BY DEF TicketRow
<1> HIDE DEF r
<1>2. EventsOf(r) = EventsOf(t)
  BY <1>1 DEF EventsOf
<1> QED
  BY <1>1, <1>2 DEF Succeeds, TellsItself, r

LEMMA LongerTrail ==
  ASSUME NEW t \in TicketRow, NEW e \in EventKinds, NEW r, r.events = Append(t.events, e)
  PROVE  r.events \in Seq(EventKinds) /\ EventsOf(r) = EventsOf(t) \cup {e}
<1>1. t.events \in Seq(EventKinds)
  BY DEF TicketRow
<1> QED
  BY <1>1, AppendFacts DEF EventsOf

LEMMA CompletedRow ==
  ASSUME NEW t \in TicketRow
  PROVE  Succeeds([t EXCEPT !.processing = "COMPLETED", !.result = Result(t),
                            !.events = Append(t.events, "AUTO_PROCESSED")], t)
<1> DEFINE r == [t EXCEPT !.processing = "COMPLETED", !.result = Result(t),
                          !.events = Append(t.events, "AUTO_PROCESSED")]
<1>1. /\ Result(t) \in [department : {Routing[c] : c \in Categories}, spam : {3, 90}]
      /\ "AUTO_PROCESSED" \in EventKinds
  BY DEF Result, TicketRow, EventKinds
<1>2. /\ r.events = Append(t.events, "AUTO_PROCESSED")
      /\ r.scenario = t.scenario /\ r.created = t.created
      /\ r.category = t.category /\ r.priority = t.priority
      /\ r.status = t.status /\ r.processing = "COMPLETED"
  BY DEF TicketRow
<1>3. Append(t.events, "AUTO_PROCESSED") \in Seq(EventKinds)
  BY <1>1, AppendFacts DEF TicketRow
<1>4. r \in TicketRow
  BY <1>1, <1>3 DEF TicketRow
<1> HIDE DEF r
<1>5. EventsOf(r) = EventsOf(t) \cup {"AUTO_PROCESSED"}
  BY <1>1, <1>2, LongerTrail
<1> QED
  BY <1>2, <1>4, <1>5 DEF Succeeds, TellsItself, r

LEMMA MovedRow ==
  ASSUME NEW t \in TicketRow, NEW next \in TicketStatus
  PROVE  Succeeds([t EXCEPT !.status = next, !.events = Append(t.events, next)], t)
<1> DEFINE r == [t EXCEPT !.status = next, !.events = Append(t.events, next)]
<1>1. next \in EventKinds
  BY DEF EventKinds
<1>2. /\ r.events = Append(t.events, next)
      /\ r.scenario = t.scenario /\ r.created = t.created
      /\ r.category = t.category /\ r.priority = t.priority
      /\ r.status = next /\ r.processing = t.processing
  BY DEF TicketRow
<1>3. Append(t.events, next) \in Seq(EventKinds)
  BY <1>1, AppendFacts DEF TicketRow
<1>4. r \in TicketRow
  BY <1>3 DEF TicketRow
<1> HIDE DEF r
<1>5. EventsOf(r) = EventsOf(t) \cup {next}
  BY <1>1, <1>2, LongerTrail
<1> QED
  BY <1>2, <1>4, <1>5 DEF Succeeds, TellsItself, r

\* No two tickets but those of the API have one scenario.
Lone(i) == tickets[i].scenario # 0 =>
             \A j \in DOMAIN tickets : tickets[j].scenario = tickets[i].scenario => j = i

\* What a step does to all rows.
Grows ==
  /\ tickets' \in Seq(TicketRow)
  /\ Len(tickets) \in Nat /\ Len(tickets') \in Nat /\ Len(tickets') >= Len(tickets)
  /\ DOMAIN tickets = 1..Len(tickets) /\ DOMAIN tickets' = 1..Len(tickets')
  /\ \A i \in DOMAIN tickets : Succeeds(tickets'[i], tickets[i])
  /\ \A i \in DOMAIN tickets' \ DOMAIN tickets : TellsItself(tickets'[i]) /\ Lone(i)'

LEMMA RowStep ==
  ASSUME tickets \in Seq(TicketRow), NEW i \in DOMAIN tickets, NEW r,
         Succeeds(r, tickets[i]), tickets' = [tickets EXCEPT ![i] = r]
  PROVE  Grows /\ Len(tickets') = Len(tickets)
<1>1. r \in TicketRow
  BY DEF Succeeds
<1>2. /\ tickets' \in Seq(TicketRow) /\ Len(tickets') = Len(tickets)
      /\ DOMAIN tickets' = DOMAIN tickets
      /\ tickets'[i] = r /\ \A j \in DOMAIN tickets : j # i => tickets'[j] = tickets[j]
  BY <1>1, ExceptFacts
<1>3. Len(tickets) \in Nat /\ DOMAIN tickets = 1..Len(tickets)
  OBVIOUS
<1>4. \A j \in DOMAIN tickets : Succeeds(tickets[j], tickets[j])
  BY DEF Succeeds
<1>5. \A j \in DOMAIN tickets : Succeeds(tickets'[j], tickets[j])
  BY <1>2, <1>4
<1> QED
  BY <1>2, <1>3, <1>5 DEF Grows

LEMMA ClaimedStep ==
  ASSUME tickets \in Seq(TicketRow), NEW i \in DOMAIN tickets, NEW owner \in {"seed", "worker"},
         tickets' = Claimed(i, owner)
  PROVE  Grows /\ Len(tickets') = Len(tickets)
<1> DEFINE r == [tickets[i] EXCEPT !.processing = "PROCESSING", !.owner = owner]
<1>1. tickets[i] \in TicketRow
  OBVIOUS
<1>2. Succeeds(r, tickets[i])
  BY <1>1, ClaimedRow
<1>3. tickets' = [tickets EXCEPT ![i] = r]
  BY DEF Claimed
<1> HIDE DEF r
<1> QED
  BY <1>2, <1>3, RowStep

LEMMA CompletedStep ==
  ASSUME tickets \in Seq(TicketRow), NEW i \in DOMAIN tickets, tickets' = Completed(i)
  PROVE  Grows /\ Len(tickets') = Len(tickets)
<1> DEFINE t == tickets[i]
           r == [t EXCEPT !.processing = "COMPLETED", !.result = Result(t),
                          !.events = Append(t.events, "AUTO_PROCESSED")]
<1>1. t \in TicketRow
  OBVIOUS
<1>2. tickets' = [tickets EXCEPT ![i] = r]
  BY DEF Completed
<1> HIDE DEF t
<1>3. Succeeds(r, t)
  BY <1>1, CompletedRow
<1> HIDE DEF r
<1> QED
  BY <1>2, <1>3, RowStep DEF t

LEMMA MovedStep ==
  ASSUME tickets \in Seq(TicketRow), NEW i \in DOMAIN tickets, NEW next \in TicketStatus,
         tickets' = MovedTo(i, next)
  PROVE  Grows /\ Len(tickets') = Len(tickets)
<1> DEFINE t == tickets[i]
           r == [t EXCEPT !.status = next, !.events = Append(t.events, next)]
<1>1. t \in TicketRow
  OBVIOUS
<1>2. tickets' = [tickets EXCEPT ![i] = r]
  BY DEF MovedTo
<1> HIDE DEF t
<1>3. Succeeds(r, t)
  BY <1>1, MovedRow
<1> HIDE DEF r
<1> QED
  BY <1>2, <1>3, RowStep DEF t

LEMMA NewStep ==
  ASSUME tickets \in Seq(TicketRow), NEW s \in Nat, NEW priority \in Priorities,
         NEW category \in Categories, NEW spamLike \in BOOLEAN, NEW created \in Nat,
         s = 0 \/ Of(s) = {},
         tickets' = Append(tickets, NewTicket(s, priority, category, spamLike, created))
  PROVE  Grows /\ Len(tickets') = Len(tickets) + 1
<1> DEFINE t == NewTicket(s, priority, category, spamLike, created)
           n == Len(tickets) + 1
<1>1. <<"OPEN">> \in Seq(EventKinds)
  BY DEF EventKinds, TicketStatus
<1>2. t \in TicketRow
  BY <1>1 DEF NewTicket, TicketRow, TicketStatus
<1>3. t.scenario = s /\ TellsItself(t)
  <2>1. /\ t.scenario = s /\ t.status = "OPEN" /\ t.processing = "PENDING"
        /\ t.events = <<"OPEN">>
    BY DEF NewTicket
  <2>2. 1 \in DOMAIN <<"OPEN">> /\ <<"OPEN">>[1] = "OPEN"
    OBVIOUS
  <2> HIDE DEF t
  <2> QED
    BY <2>1, <2>2 DEF TellsItself, EventsOf
<1> HIDE DEF t
<1>4. /\ tickets' \in Seq(TicketRow)
      /\ Len(tickets) \in Nat /\ DOMAIN tickets = 1..Len(tickets)
      /\ Len(tickets') = Len(tickets) + 1
      /\ DOMAIN tickets' = DOMAIN tickets \cup {n} /\ n \notin DOMAIN tickets
      /\ tickets'[n] = t /\ \A i \in DOMAIN tickets : tickets'[i] = tickets[i]
  BY <1>2, AppendFacts DEF t
<1>5. DOMAIN tickets' = 1..Len(tickets')
  BY <1>4
<1>6. \A j \in DOMAIN tickets : Succeeds(tickets'[j], tickets[j])
  <2>1. \A j \in DOMAIN tickets : Succeeds(tickets[j], tickets[j])
    BY DEF Succeeds
  <2> QED
    BY <1>4, <2>1
<1>7. s # 0 => \A j \in DOMAIN tickets : tickets[j].scenario # s
  BY DEF Of
<1>8. DOMAIN tickets' \ DOMAIN tickets = {n}
  BY <1>4
<1> HIDE DEF n
<1>9. ASSUME NEW i \in DOMAIN tickets' \ DOMAIN tickets
      PROVE  TellsItself(tickets'[i]) /\ Lone(i)'
  <2>1. i = n
    BY <1>8
  <2>2. tickets'[i] = t
    BY <1>4, <2>1
  <2>3. Lone(i)'
    BY <1>3, <1>4, <1>7, <2>1, <2>2 DEF Lone
  <2> QED
    BY <1>3, <2>2, <2>3
<1>10. Len(tickets') \in Nat /\ Len(tickets') >= Len(tickets)
  BY <1>4
<1> QED
  BY <1>4, <1>5, <1>6, <1>9, <1>10 DEF Grows

LEMMA SameStep ==
  ASSUME tickets \in Seq(TicketRow), UNCHANGED tickets
  PROVE  Grows
<1>1. Len(tickets) \in Nat /\ DOMAIN tickets = 1..Len(tickets)
  OBVIOUS
<1>2. \A j \in DOMAIN tickets : Succeeds(tickets[j], tickets[j])
  BY DEF Succeeds
<1> QED
  BY <1>1, <1>2 DEF Grows

-----------------------------------------------------------------------------
(***************************************************************************)
(* Types, and that rows only grow.                                         *)
(***************************************************************************)
LEMMA PlanFacts ==
  ASSUME SeedTypeOK
  PROVE  /\ plan.scenarios \in Seq(ScenarioRow)
         /\ Len(plan.scenarios) \in Nat \ {0}
         /\ DOMAIN plan.scenarios = 1..Len(plan.scenarios)
         /\ at \in Nat /\ Current \in ScenarioRow
         /\ plan.crashes \in Nat /\ plan.reruns \in Nat /\ plan.claims \in Nat
BY SeedAssumption DEF SeedTypeOK, Current

\* What of the types of Seed the script's own variables are.
ScriptOK ==
  /\ plan \in Plans
  /\ clock \in Nat
  /\ pc \in Steps
  /\ at \in DOMAIN plan.scenarios
  /\ mine \in 0..Len(tickets)
  /\ opened \in 0..clock
  /\ crashes \in 0..plan.crashes
  /\ reruns \in 0..plan.reruns
  /\ claims \in 0..plan.claims
  /\ MineExists

LEMMA SinceFacts ==
  ASSUME clock \in Nat, opened \in 0..clock
  PROVE  Since \in Nat /\ Elapsed \in Nat /\ Since \in 0..Elapsed
BY DEF Since, Elapsed

LEMMA CommitsFacts ==
  ASSUME clock \in Nat, opened \in 0..clock, CommitsAndReads
  PROVE  clock' \in Nat /\ opened' \in 0..clock'
BY DEF CommitsAndReads, Elapsed

LEMMA ProceedFacts ==
  ASSUME SeedTypeOK, Proceed
  PROVE  /\ pc' \in {"create", "replay"} /\ at' \in DOMAIN plan.scenarios /\ mine' = 0
         /\ UNCHANGED <<crashes, reruns>>
BY PlanFacts DEF Proceed, SeedTypeOK

LEMMA EndsFacts ==
  ASSUME SeedTypeOK, NEW last \in Steps, Ends(last)
  PROVE  /\ pc' = last /\ at' \in DOMAIN plan.scenarios /\ mine' = 0
         /\ clock' \in Nat /\ opened' \in 0..clock'
BY PlanFacts DEF Ends, SeedTypeOK

LEMMA UpdateFacts ==
  ASSUME SeedTypeOK, mine # 0, NEW next \in TicketStatus,
         \/ /\ Permitted(mine, next) /\ tickets' = MovedTo(mine, next)
            /\ CommitsAndReads
            /\ Proceed \/ Goto("finish")
         \/ Ends("stopped") /\ UNCHANGED <<tickets, crashes, reruns>>,
         UNCHANGED <<plan, claims>>
  PROVE  Grows /\ ScriptOK'
<1>1. /\ tickets \in Seq(TicketRow) /\ mine \in DOMAIN tickets
      /\ Len(tickets) \in Nat
  BY DEF SeedTypeOK
<1>2. CASE Ends("stopped") /\ UNCHANGED <<tickets, crashes, reruns>>
  BY <1>1, <1>2, EndsFacts, SameStep DEF Steps, ScriptOK, MineExists, SeedTypeOK
<1>3. CASE /\ tickets' = MovedTo(mine, next) /\ CommitsAndReads
           /\ Proceed \/ Goto("finish")
  <2>1. Grows /\ Len(tickets') = Len(tickets)
    BY <1>1, <1>3, MovedStep
  <2>2. clock' \in Nat /\ opened' \in 0..clock'
    BY <1>3, CommitsFacts DEF SeedTypeOK
  <2>3. CASE Proceed
    BY <1>1, <2>1, <2>2, <2>3, ProceedFacts DEF Steps, ScriptOK, MineExists, SeedTypeOK
  <2>4. CASE Goto("finish")
    BY <1>1, <2>1, <2>2, <2>4 DEF Goto, Steps, ScriptOK, MineExists, SeedTypeOK
  <2> QED
    BY <1>3, <2>3, <2>4
<1> QED
  BY <1>2, <1>3

LEMMA SeedStep ==
  ASSUME SeedTypeOK, MineExists, SeedNext
  PROVE  Grows /\ ScriptOK'
<1>1. /\ tickets \in Seq(TicketRow) /\ Len(tickets) \in Nat
      /\ DOMAIN tickets = 1..Len(tickets)
      /\ clock \in Nat /\ opened \in 0..clock /\ plan \in Plans
      /\ at \in DOMAIN plan.scenarios /\ mine \in 0..Len(tickets)
      /\ pc \in Steps
      /\ crashes \in 0..plan.crashes /\ reruns \in 0..plan.reruns /\ claims \in 0..plan.claims
  BY DEF SeedTypeOK
<1>2. CASE Run
  <2>1. /\ pc' = "create" /\ UNCHANGED <<tickets, clock, plan, at, mine, opened, crashes, claims>>
        /\ reruns' \in 0..plan.reruns
    BY <1>1, <1>2, PlanFacts DEF Run
  <2> QED
    BY <1>1, <2>1, SameStep DEF ScriptOK, MineExists, Steps
<1>3. CASE Create
  <2>1. /\ Of(at) = {} /\ CommitsAndReads
        /\ tickets' = Append(tickets, NewTicket(at, Current.priority, Current.category,
                                                Current.spamLike, Since))
        /\ pc' = "begin" /\ mine' = Len(tickets) + 1
        /\ UNCHANGED <<plan, at, crashes, reruns, claims>>
    BY <1>3 DEF Create
  <2>2. /\ Current.priority \in Priorities /\ Current.category \in Categories
        /\ Current.spamLike \in BOOLEAN /\ at \in Nat
    BY PlanFacts DEF ScenarioRow
  <2>3. Since \in Nat
    BY <1>1, SinceFacts
  <2>4. Grows /\ Len(tickets') = Len(tickets) + 1
    <3> DEFINE p == Current.priority
               c == Current.category
               b == Current.spamLike
               n == Since
               a == at
    <3>1. p \in Priorities /\ c \in Categories /\ b \in BOOLEAN /\ n \in Nat /\ a \in Nat
      BY <2>2, <2>3
    <3>2. tickets' = Append(tickets, NewTicket(a, p, c, b, n)) /\ Of(a) = {}
      BY <2>1
    <3> HIDE DEF p, c, b, n, a
    <3> QED
      BY <1>1, <3>1, <3>2, NewStep
  <2>5. clock' \in Nat /\ opened' \in 0..clock'
    BY <1>1, <2>1, CommitsFacts
  <2>6. mine' \in 0..Len(tickets') /\ mine' # 0
    BY <1>1, <2>1, <2>4
  <2> QED
    BY <1>1, <2>1, <2>4, <2>5, <2>6 DEF ScriptOK, MineExists, Steps
<1>4. CASE Reuse
  <2>1. /\ Proceed /\ opened' = Since /\ clock' = Elapsed /\ UNCHANGED <<tickets, plan, claims>>
    BY <1>4 DEF Reuse
  <2> QED
    BY <1>1, <2>1, ProceedFacts, SinceFacts, SameStep DEF ScriptOK, MineExists, Steps
<1>5. CASE Begin
  <2>1. /\ mine \in DOMAIN tickets /\ tickets' = Claimed(mine, "seed") /\ CommitsAndReads
        /\ Goto("complete") /\ UNCHANGED <<plan, claims>>
    BY <1>1, <1>5 DEF Begin, MineExists
  <2>2. Grows /\ Len(tickets') = Len(tickets)
    BY <1>1, <2>1, ClaimedStep
  <2>3. clock' \in Nat /\ opened' \in 0..clock'
    BY <1>1, <2>1, CommitsFacts
  <2> QED
    BY <1>1, <2>1, <2>2, <2>3 DEF Goto, ScriptOK, MineExists, Steps
<1>6. CASE SkipClaimed
  <2>1. /\ Goto("advance") /\ mine # 0 /\ UNCHANGED <<tickets, clock, plan, opened, claims>>
    BY <1>6 DEF SkipClaimed, MineExists
  <2> QED
    BY <1>1, <2>1, SameStep DEF Goto, ScriptOK, MineExists, Steps
<1>7. CASE Complete
  <2>1. /\ mine \in DOMAIN tickets /\ Goto("advance") /\ UNCHANGED <<plan, claims>>
        /\ \/ tickets' = Completed(mine) /\ CommitsAndReads
           \/ UNCHANGED <<tickets, clock, opened>>
    BY <1>1, <1>7 DEF Complete, MineExists
  <2>2. Grows /\ Len(tickets') = Len(tickets)
    BY <1>1, <2>1, CompletedStep, SameStep
  <2>3. clock' \in Nat /\ opened' \in 0..clock'
    BY <1>1, <2>1, CommitsFacts
  <2> QED
    BY <1>1, <2>1, <2>2, <2>3 DEF Goto, ScriptOK, MineExists, Steps
<1>8. CASE StayOpen
  <2>1. Proceed /\ UNCHANGED <<tickets, clock, plan, opened, claims>>
    BY <1>8 DEF StayOpen
  <2> QED
    BY <1>1, <2>1, ProceedFacts, SameStep DEF ScriptOK, MineExists, Steps
<1>9. CASE Advance
  <2>1. mine # 0 /\ UNCHANGED <<plan, claims>>
        /\ \/ /\ Permitted(mine, "IN_PROGRESS") /\ tickets' = MovedTo(mine, "IN_PROGRESS")
              /\ CommitsAndReads
              /\ Proceed \/ Goto("finish")
           \/ Ends("stopped") /\ UNCHANGED <<tickets, crashes, reruns>>
    BY <1>9 DEF Advance, UpdateStatus, MineExists
  <2> QED
    BY <2>1, UpdateFacts DEF TicketStatus
<1>10. CASE Finish
  <2>1. PICK next \in TicketStatus : next = Current.target
    BY PlanFacts DEF ScenarioRow
  <2>2. mine # 0 /\ UNCHANGED <<plan, claims>>
        /\ \/ /\ Permitted(mine, next) /\ tickets' = MovedTo(mine, next)
              /\ CommitsAndReads
              /\ Proceed \/ Goto("finish")
           \/ Ends("stopped") /\ UNCHANGED <<tickets, crashes, reruns>>
    BY <1>10, <2>1 DEF Finish, UpdateStatus, MineExists
  <2> QED
    BY <2>2, UpdateFacts
<1>11. CASE Replay \/ Crash
  <2>1. /\ Ends("done") \/ Ends("stopped")
        /\ UNCHANGED <<tickets, plan, reruns, claims>> /\ crashes' \in 0..plan.crashes
    BY <1>1, <1>11, PlanFacts DEF Replay, Crash
  <2> QED
    BY <1>1, <2>1, EndsFacts, SameStep DEF ScriptOK, MineExists, Steps
<1>12. ASSUME NEW i \in DOMAIN tickets, WorkerBegin(i) \/ WorkerComplete(i)
       PROVE  Grows /\ ScriptOK'
  <2>1. /\ tickets' = Claimed(i, "worker") \/ tickets' = Completed(i)
        /\ claims' \in 0..plan.claims
        /\ UNCHANGED <<clock, plan, pc, at, mine, opened, crashes, reruns>>
    BY <1>1, <1>12, PlanFacts DEF WorkerBegin, WorkerComplete, script
  <2>2. Grows /\ Len(tickets') = Len(tickets)
    BY <1>1, <2>1, ClaimedStep, CompletedStep
  <2> QED
    BY <1>1, <2>1, <2>2 DEF ScriptOK, MineExists
<1> QED
  BY <1>2, <1>3, <1>4, <1>5, <1>6, <1>7, <1>8, <1>9, <1>10, <1>11, <1>12
     DEF SeedNext, ScriptStep

LEMMA QueryFacts ==
  /\ NoQuery \in Query
  /\ \A q \in Query : q.filter \in Filters /\ q.size \in 1..100
  /\ \A f \in Filters : f.field \in {"none", "category", "priority", "status"}
<1>1. \E q \in Query : TRUE
  <2>1. PICK f \in Filters, n \in PageSizes : TRUE
    BY QueryAssumption
  <2>2. [filter |-> f, size |-> n] \in Query
    BY <2>1 DEF Query
  <2> QED
    BY <2>2
<1>2. NoQuery \in Query
  BY <1>1 DEF NoQuery
<1>3. \A q \in Query : q.filter \in Filters /\ q.size \in 1..100
  BY QueryAssumption DEF Query
<1> QED
  BY <1>2, <1>3, QueryAssumption

\* What of the types the variables of the API and the reader are.
ReaderOK ==
  /\ begun \in [Clients -> Nat]
  /\ creations \in 0..plan.creations
  /\ step \in {"idle", "items", "total", "answered", "events", "shown"}
  /\ query \in Query
  /\ page \in Nat /\ total \in Nat
  /\ due \subseteq DOMAIN tickets /\ got \subseteq DOMAIN tickets
  /\ items \subseteq got
  /\ ticket \in 0..Len(tickets)
  /\ shown \in [status : TicketStatus, processing : {"PENDING", "PROCESSING", "COMPLETED"},
               events : SUBSET EventKinds]
  /\ walks \in 0..plan.walks /\ details \in 0..plan.details

\* The reader knows the ticket whose events it is about to read, and has forgotten its
\* last answer when it is idle.
ReaderSteps ==
  /\ step \in {"events", "shown"} => ticket # 0
  /\ step = "idle" => items = {}

DemoInv == SeedTypeOK /\ MineExists /\ ReaderOK /\ ReaderSteps

LEMMA TypesAgree == TypeOK <=> SeedTypeOK /\ ReaderOK
BY DEF TypeOK, ReaderOK

LEMMA MatchingExists ==
  ASSUME tickets \in Seq(TicketRow), NEW f
  PROVE  Matching(f) \subseteq DOMAIN tickets /\ IsFiniteSet(Matching(f))
         /\ Cardinality(Matching(f)) \in Nat
<1>1. Len(tickets) \in Nat /\ DOMAIN tickets = 1..Len(tickets)
  OBVIOUS
<1>2. Matching(f) \subseteq DOMAIN tickets
  BY DEF Matching
<1>3. IsFiniteSet(1..Len(tickets))
  BY <1>1, FS_Interval
<1> QED
  BY <1>1, <1>2, <1>3, FS_Subset, FS_CardinalityType

LEMMA NewStepOfClient ==
  ASSUME SeedTypeOK, ReaderOK, NEW c \in Clients, CommitCreation(c)
  PROVE  Grows
<1>1. PICK category \in NewCategories :
        tickets' = Append(tickets, NewTicket(0, "MEDIUM", category, FALSE, begun[c]))
  BY DEF CommitCreation
<1> DEFINE b == begun[c]
<1>2. b \in Nat /\ category \in Categories /\ "MEDIUM" \in Priorities
  BY QueryAssumption DEF ReaderOK, Priorities
<1>3. FALSE \in BOOLEAN
  OBVIOUS
<1>4. tickets' = Append(tickets, NewTicket(0, "MEDIUM", category, FALSE, b))
  BY <1>1
<1>5. tickets \in Seq(TicketRow)
  BY DEF SeedTypeOK
<1> HIDE DEF b
<1> QED
  BY <1>2, <1>3, <1>4, <1>5, NewStep

LEMMA DemoStep ==
  ASSUME DemoInv, [Next]_vars
  PROVE  DemoInv' /\ Grows
<1>1. /\ SeedTypeOK /\ MineExists /\ ReaderOK /\ ReaderSteps
      /\ tickets \in Seq(TicketRow) /\ Len(tickets) \in Nat /\ DOMAIN tickets = 1..Len(tickets)
      /\ plan \in Plans
      /\ plan.creations \in Nat /\ plan.walks \in Nat /\ plan.details \in Nat
  BY QueryAssumption DEF DemoInv, SeedTypeOK
\* A step that leaves the script alone, and one that leaves the reader alone.
<1>2. ASSUME Grows, clock' \in Nat, clock' >= clock, UNCHANGED <<plan, script, claims>>
      PROVE  SeedTypeOK' /\ MineExists'
  BY <1>1, <1>2 DEF Grows, SeedTypeOK, MineExists, script
<1>3. ASSUME Grows, UNCHANGED reader, plan' = plan, begun' \in [Clients -> Nat],
             creations' \in 0..plan.creations
      PROVE  ReaderOK' /\ ReaderSteps'
  BY <1>1, <1>3 DEF Grows, ReaderOK, ReaderSteps, reader
<1>4. CASE SeedNext /\ UNCHANGED <<api, reader>>
  <2>1. Grows /\ ScriptOK'
    BY <1>1, <1>4, SeedStep
  <2>2. plan' = plan
    BY <1>4 DEF SeedNext, Run, ScriptStep, Create, Reuse, Begin, SkipClaimed, Complete, StayOpen,
         Advance, Finish, UpdateStatus, Replay, Crash, WorkerBegin, WorkerComplete
  <2>3. SeedTypeOK' /\ MineExists'
    BY <2>1 DEF Grows, ScriptOK, SeedTypeOK
  <2>4. ReaderOK' /\ ReaderSteps'
    BY <1>1, <1>3, <1>4, <2>1, <2>2 DEF api, ReaderOK
  <2> QED
    BY <2>1, <2>3, <2>4 DEF DemoInv
<1>5. ASSUME NEW c \in Clients, BeginCreation(c)
      PROVE  DemoInv' /\ Grows
  <2>1. /\ begun' \in [Clients -> Nat] /\ clock' \in Nat /\ clock' >= clock
        /\ creations' \in 0..plan.creations
        /\ UNCHANGED <<tickets, plan, script, claims, reader>>
    BY <1>1, <1>5 DEF BeginCreation, ReaderOK, SeedTypeOK
  <2> QED
    BY <1>1, <1>2, <1>3, <2>1, SameStep DEF DemoInv
<1>6. ASSUME NEW c \in Clients, CommitCreation(c)
      PROVE  DemoInv' /\ Grows
  <2>1. /\ begun' \in [Clients -> Nat]
        /\ UNCHANGED <<clock, plan, script, claims, creations, reader>>
    BY <1>1, <1>6 DEF CommitCreation, ReaderOK
  <2>2. Grows
    BY <1>1, <1>6, NewStepOfClient
  <2>3. clock' \in Nat /\ clock' >= clock /\ creations' \in 0..plan.creations
    BY <1>1, <2>1 DEF ReaderOK, SeedTypeOK
  <2> QED
    BY <1>2, <1>3, <2>1, <2>2, <2>3 DEF DemoInv
\* The reader changes nothing but its own variables.
<1>7. ASSUME UNCHANGED <<tickets, clock, plan, script, claims, api>>, ReaderOK', ReaderSteps'
      PROVE  DemoInv' /\ Grows
  <2>1. Grows
    BY <1>1, <1>7, SameStep
  <2>2. clock' \in Nat /\ clock' >= clock
    BY <1>1, <1>7 DEF SeedTypeOK
  <2> QED
    BY <1>2, <1>7, <2>1, <2>2 DEF DemoInv
<1>8. ASSUME NEW q \in Query, StartWalk(q)
      PROVE  DemoInv' /\ Grows
  <2>1. UNCHANGED <<tickets, clock, plan, script, claims, api>>
    BY <1>8 DEF StartWalk
  <2>2. Matching(q.filter) \subseteq DOMAIN tickets
    BY <1>1, MatchingExists
  <2>3. ReaderOK' /\ ReaderSteps'
    BY <1>1, <1>8, <2>2 DEF StartWalk, ReaderOK, ReaderSteps, api
  <2> QED
    BY <1>7, <2>1, <2>3
<1>9. CASE ReadItems
  <2>1. UNCHANGED <<tickets, clock, plan, script, claims, api>>
    BY <1>9 DEF ReadItems
  <2>2. Matching(query.filter) \subseteq DOMAIN tickets
    BY <1>1, MatchingExists
  <2>3. PICK P \in SUBSET Matching(query.filter) : items' = P /\ got' = got \cup P
    BY <1>9 DEF ReadItems
  <2>4. ReaderOK' /\ ReaderSteps'
    BY <1>1, <1>9, <2>2, <2>3 DEF ReadItems, ReaderOK, ReaderSteps, api
  <2> QED
    BY <1>7, <2>1, <2>4
<1>10. CASE ReadTotal
  <2>1. UNCHANGED <<tickets, clock, plan, script, claims, api>>
    BY <1>10 DEF ReadTotal
  <2>2. Total(query.filter) \in Nat
    BY <1>1, MatchingExists DEF Total
  <2>3. ReaderOK' /\ ReaderSteps'
    BY <1>1, <1>10, <2>2 DEF ReadTotal, ReaderOK, ReaderSteps, api
  <2> QED
    BY <1>7, <2>1, <2>3
<1>11. CASE NextPage
  <2>1. UNCHANGED <<tickets, clock, plan, script, claims, api>>
    BY <1>11 DEF NextPage
  <2>2. ReaderOK' /\ ReaderSteps'
    BY <1>1, <1>11 DEF NextPage, ReaderOK, ReaderSteps, api
  <2> QED
    BY <1>7, <2>1, <2>2
<1>12. ASSUME NEW i \in DOMAIN tickets, ReadTicket(i)
       PROVE  DemoInv' /\ Grows
  <2>1. UNCHANGED <<tickets, clock, plan, script, claims, api>>
    BY <1>12 DEF ReadTicket
  <2>5. tickets[i] \in TicketRow
    BY <1>1
  <2>2. /\ tickets[i].status \in TicketStatus
        /\ tickets[i].processing \in {"PENDING", "PROCESSING", "COMPLETED"}
    BY <2>5 DEF TicketRow
  <2>3. shown' \in [status : TicketStatus, processing : {"PENDING", "PROCESSING", "COMPLETED"},
                    events : SUBSET EventKinds]
    BY <1>12, <2>2 DEF ReadTicket, NoDetail
  <2>4. ReaderOK' /\ ReaderSteps'
    BY <1>1, <1>12, <2>3 DEF ReadTicket, ReaderOK, ReaderSteps, api
  <2> QED
    BY <1>7, <2>1, <2>4
<1>13. CASE ReadEvents
  <2>1. UNCHANGED <<tickets, clock, plan, script, claims, api>>
    BY <1>13 DEF ReadEvents
  <2>2. ticket \in DOMAIN tickets
    BY <1>1, <1>13 DEF ReadEvents, ReaderOK, ReaderSteps
  <2>6. tickets[ticket] \in TicketRow
    BY <1>1, <2>2
  <2>3. tickets[ticket].events \in Seq(EventKinds)
    BY <2>6 DEF TicketRow
  <2>4. shown' \in [status : TicketStatus, processing : {"PENDING", "PROCESSING", "COMPLETED"},
                    events : SUBSET EventKinds]
    BY <1>1, <1>13, <2>3 DEF ReadEvents, ReaderOK
  <2>5. ReaderOK' /\ ReaderSteps'
    BY <1>1, <1>13, <2>4 DEF ReadEvents, ReaderOK, ReaderSteps, api
  <2> QED
    BY <1>7, <2>1, <2>5
<1>14. CASE EndRead
  <2>1. UNCHANGED <<tickets, clock, plan, script, claims, api>>
    BY <1>14 DEF EndRead
  <2>2. NoDetail \in [status : TicketStatus, processing : {"PENDING", "PROCESSING", "COMPLETED"},
                      events : SUBSET EventKinds]
    BY DEF NoDetail, TicketStatus
  <2>3. ReaderOK' /\ ReaderSteps'
    BY <1>1, <1>14, <2>2, QueryFacts DEF EndRead, ReaderOK, ReaderSteps, api
  <2> QED
    BY <1>7, <2>1, <2>3
<1>15. CASE UNCHANGED vars
  <2>1. UNCHANGED <<tickets, clock, plan, script, claims, api, reader>>
    BY <1>15 DEF vars
  <2>2. clock' \in Nat /\ clock' >= clock
    BY <1>1, <2>1 DEF SeedTypeOK
  <2> QED
    BY <1>1, <1>2, <1>3, <2>1, <2>2, SameStep DEF DemoInv, api, ReaderOK
<1> QED
  BY <1>4, <1>5, <1>6, <1>8, <1>9, <1>10, <1>11, <1>12, <1>13, <1>14, <1>15 DEF Next

LEMMA DemoInit == Init => DemoInv
<1> SUFFICES ASSUME Init PROVE DemoInv
  OBVIOUS
<1>1. tickets = <<>> /\ Len(tickets) = 0 /\ DOMAIN tickets = {} /\ tickets \in Seq(TicketRow)
  BY DEF Init, SeedInit
<1>2. /\ plan \in Plans /\ clock = 0 /\ pc = "stopped" /\ at = 1 /\ mine = 0 /\ opened = 0
      /\ crashes = 0 /\ reruns = 0 /\ claims = 0
  BY DEF Init, SeedInit
<1>3. /\ plan.scenarios \in Seq(ScenarioRow) /\ plan.scenarios # <<>>
      /\ plan.crashes \in Nat /\ plan.reruns \in Nat /\ plan.claims \in Nat
      /\ plan.creations \in Nat /\ plan.walks \in Nat /\ plan.details \in Nat
  BY <1>2, SeedAssumption, QueryAssumption
<1>4. at \in DOMAIN plan.scenarios
  BY <1>2, <1>3
<1>5. SeedTypeOK /\ MineExists
  BY <1>1, <1>2, <1>3, <1>4 DEF SeedTypeOK, MineExists, Steps
<1>6. NoDetail \in [status : TicketStatus, processing : {"PENDING", "PROCESSING", "COMPLETED"},
                    events : SUBSET EventKinds]
  BY DEF NoDetail, TicketStatus
<1>7. ReaderOK /\ ReaderSteps
  BY <1>1, <1>3, <1>6, QueryFacts DEF Init, ReaderOK, ReaderSteps
<1> QED
  BY <1>5, <1>7 DEF DemoInv

LEMMA DemoInvariant == Spec => []DemoInv
<1>1. DemoInv /\ [Next]_vars => DemoInv'
  BY DemoStep
<1> QED
  BY <1>1, DemoInit, PTL DEF Spec

(***************************************************************************)
(* Every state of the demo, of the seed and of the queries has its types.  *)
(***************************************************************************)
THEOREM TypeCorrect == Spec => []TypeOK
<1>1. DemoInv => TypeOK
  BY TypesAgree DEF DemoInv
<1> QED
  BY <1>1, DemoInvariant, PTL

(***************************************************************************)
(* However often the seed dies and is run again, among whatever workers    *)
(* and clients, a scenario has one ticket at most.                         *)
(***************************************************************************)
THEOREM SeedIsIdempotent == Spec => []OneTicketPerScenario
<1>1. Init => OneTicketPerScenario
  BY DEF Init, SeedInit, OneTicketPerScenario
<1>2. OneTicketPerScenario /\ Grows => OneTicketPerScenario'
  <2> SUFFICES ASSUME OneTicketPerScenario, Grows, NEW i \in DOMAIN tickets',
                      NEW j \in DOMAIN tickets', tickets'[i].scenario = tickets'[j].scenario,
                      tickets'[i].scenario # 0
               PROVE  i = j
    BY DEF OneTicketPerScenario
  <2>1. CASE i \in DOMAIN tickets /\ j \in DOMAIN tickets
    BY <2>1 DEF Grows, Succeeds, OneTicketPerScenario
  <2>2. CASE i \notin DOMAIN tickets
    BY <2>2 DEF Grows, Lone
  <2>3. CASE j \notin DOMAIN tickets
    BY <2>3 DEF Grows, Lone
  <2> QED
    BY <2>1, <2>2, <2>3
<1>3. DemoInv /\ OneTicketPerScenario /\ [Next]_vars => OneTicketPerScenario'
  BY <1>2, DemoStep
<1> QED
  BY <1>1, <1>3, DemoInvariant, PTL DEF Spec

-----------------------------------------------------------------------------
(***************************************************************************)
(* Detail: events are only added between the two statements.               *)
(***************************************************************************)
Fits(status, processing, kinds) ==
  /\ status \in kinds
  /\ processing = "COMPLETED" => "AUTO_PROCESSED" \in kinds

DetailInv ==
  /\ \A i \in DOMAIN tickets : TellsItself(tickets[i])
  /\ step = "events" => Fits(shown.status, shown.processing, EventsOf(tickets[ticket]))
  /\ step = "shown" => Fits(shown.status, shown.processing, shown.events)

LEMMA DetailStep ==
  ASSUME DemoInv, DetailInv, [Next]_vars
  PROVE  DetailInv'
<1>1. DemoInv' /\ Grows /\ ReaderOK /\ ReaderSteps
  BY DemoStep DEF DemoInv
<1>2. \A i \in DOMAIN tickets' : TellsItself(tickets'[i])
  BY <1>1 DEF Grows, Succeeds, DetailInv
<1>3. ASSUME UNCHANGED <<step, shown, ticket>> PROVE DetailInv'
  <2>1. step = "events" => EventsOf(tickets[ticket]) \subseteq EventsOf(tickets'[ticket])
    BY <1>1 DEF Grows, Succeeds, ReaderOK, ReaderSteps
  <2>2. step' = "events" => Fits(shown'.status, shown'.processing, EventsOf(tickets'[ticket']))
    BY <1>3, <2>1 DEF DetailInv, Fits
  <2>3. step' = "shown" => Fits(shown'.status, shown'.processing, shown'.events)
    BY <1>3 DEF DetailInv
  <2> QED
    BY <1>2, <2>2, <2>3 DEF DetailInv, TellsItself, EventsOf, Fits
<1>4. ASSUME step' \notin {"events", "shown"} PROVE DetailInv'
  BY <1>2, <1>4 DEF DetailInv, TellsItself, EventsOf
<1>5. ASSUME NEW i \in DOMAIN tickets, ReadTicket(i) PROVE DetailInv'
  <2>1. /\ UNCHANGED tickets /\ step' = "events" /\ ticket' = i
        /\ shown'.status = tickets[i].status /\ shown'.processing = tickets[i].processing
    BY <1>5 DEF ReadTicket, NoDetail
  <2>2. Fits(shown'.status, shown'.processing, EventsOf(tickets'[ticket']))
    BY <2>1 DEF DetailInv, TellsItself, Fits
  <2> QED
    BY <1>2, <2>1, <2>2 DEF DetailInv, TellsItself, EventsOf, Fits
<1>6. CASE ReadEvents
  <2>1. /\ UNCHANGED tickets /\ step = "events" /\ step' = "shown"
        /\ shown'.status = shown.status /\ shown'.processing = shown.processing
        /\ shown'.events = EventsOf(tickets[ticket])
    BY <1>1, <1>6 DEF ReadEvents, ReaderOK, EventsOf
  <2>2. Fits(shown'.status, shown'.processing, shown'.events)
    BY <2>1 DEF DetailInv
  <2> QED
    BY <1>2, <2>1, <2>2 DEF DetailInv, TellsItself, EventsOf, Fits
<1>7. CASE \/ SeedNext /\ UNCHANGED <<api, reader>>
           \/ \E c \in Clients : BeginCreation(c) \/ CommitCreation(c)
           \/ UNCHANGED vars
  BY <1>3, <1>7 DEF reader, BeginCreation, CommitCreation, vars
<1>8. CASE (\E q \in Query : StartWalk(q)) \/ ReadItems \/ ReadTotal \/ NextPage \/ EndRead
  BY <1>4, <1>8 DEF StartWalk, ReadItems, ReadTotal, NextPage, EndRead
<1> QED
  BY <1>5, <1>6, <1>7, <1>8 DEF Next

(***************************************************************************)
(* A detail shows the events that explain its status and its processing.   *)
(***************************************************************************)
THEOREM DetailsAreExplained == Spec => []DetailFits
<1>1. Init => DetailInv
  BY DEF Init, SeedInit, DetailInv
<1>2. DemoInv /\ DetailInv /\ [Next]_vars => DetailInv'
  BY DetailStep
<1>3. DetailInv => DetailFits
  BY DEF DetailInv, DetailFits, Fits
<1> QED
  BY <1>1, <1>2, <1>3, DemoInvariant, PTL DEF Spec

-----------------------------------------------------------------------------
(***************************************************************************)
(* Pages.  What matters of a ticket is how many newer ones match.  For a   *)
(* filter that no step disturbs that number only grows, and a page takes   *)
(* in a ticket, or shows that the number is beyond the page.               *)
(***************************************************************************)
Newer(f, i) == {j \in Matching(f) : tickets[j].created > tickets[i].created}
Rank(f, i) == Cardinality(Newer(f, i))

LEMMA StableRow ==
  ASSUME NEW f \in Filters, Stable(f), NEW t \in TicketRow, NEW r, Succeeds(r, t)
  PROVE  f.field = "none" \/ t[f.field] = f.value => f.field = "none" \/ r[f.field] = f.value
<1>1. f.field \in {"none", "category", "priority"}
  BY QueryFacts DEF Stable
<1>2. r \in TicketRow /\ r.category = t.category /\ r.priority = t.priority
  BY DEF Succeeds
<1> QED
  BY <1>1, <1>2 DEF TicketRow

LEMMA MatchingGrows ==
  ASSUME SeedTypeOK, Grows, NEW f \in Filters, Stable(f)
  PROVE  Matching(f) \subseteq Matching(f)'
<1> SUFFICES ASSUME NEW i \in DOMAIN tickets,
                    f.field = "none" \/ tickets[i][f.field] = f.value
             PROVE  /\ i \in DOMAIN tickets'
                    /\ f.field = "none" \/ tickets'[i][f.field] = f.value
  BY DEF Matching
<1>1. tickets[i] \in TicketRow /\ Succeeds(tickets'[i], tickets[i])
  BY DEF SeedTypeOK, Grows
<1>2. i \in DOMAIN tickets'
  BY DEF Grows
<1> QED
  BY <1>1, <1>2, StableRow

LEMMA RankGrows ==
  ASSUME SeedTypeOK, Grows, NEW f \in Filters, Stable(f), NEW i \in DOMAIN tickets
  PROVE  /\ Rank(f, i) \in Nat /\ Rank(f, i)' \in Nat /\ Rank(f, i)' >= Rank(f, i)
         /\ SharesDate(i) => SharesDate(i)'
<1>1. \A j \in DOMAIN tickets : j \in DOMAIN tickets' /\ tickets'[j].created = tickets[j].created
  BY DEF Grows, Succeeds
<1>2. /\ Matching(f) \subseteq Matching(f)' /\ Matching(f) \subseteq DOMAIN tickets
      /\ IsFiniteSet(Matching(f))
  BY MatchingGrows, MatchingExists DEF SeedTypeOK
<1>3. IsFiniteSet(Matching(f)')
  <2>1. Len(tickets') \in Nat /\ DOMAIN tickets' = 1..Len(tickets')
    BY DEF Grows
  <2>2. IsFiniteSet(1..Len(tickets'))
    BY <2>1, FS_Interval
  <2>3. Matching(f)' \subseteq DOMAIN tickets'
    BY DEF Matching
  <2> QED
    BY <2>1, <2>2, <2>3, FS_Subset
<1>4. Newer(f, i) \subseteq Newer(f, i)'
  BY <1>1, <1>2 DEF Newer
<1>5. Newer(f, i) \subseteq Matching(f) /\ Newer(f, i)' \subseteq Matching(f)'
  BY DEF Newer
<1>6. IsFiniteSet(Newer(f, i)) /\ IsFiniteSet(Newer(f, i)')
  BY <1>2, <1>3, <1>5, FS_Subset
<1>7. Cardinality(Newer(f, i)) <= Cardinality(Newer(f, i)')
  BY <1>4, <1>6, FS_Subset
<1>8. Cardinality(Newer(f, i)) \in Nat /\ Cardinality(Newer(f, i)') \in Nat
  BY <1>6, FS_CardinalityType
<1>9. SharesDate(i) => SharesDate(i)'
  BY <1>1 DEF SharesDate
<1> QED
  BY <1>7, <1>8, <1>9 DEF Rank

\* A ticket is itself among the rows that match, so that these outnumber its rank.
LEMMA RankBelowTotal ==
  ASSUME SeedTypeOK, NEW f, NEW i \in Matching(f)
  PROVE  Rank(f, i) \in Nat /\ Rank(f, i) < Cardinality(Matching(f))
<1>1. /\ IsFiniteSet(Matching(f)) /\ Cardinality(Matching(f)) \in Nat
      /\ tickets \in Seq(TicketRow) /\ i \in DOMAIN tickets
  BY MatchingExists DEF SeedTypeOK
<1>2. tickets[i].created \in Nat
  <2>1. tickets[i] \in TicketRow
    BY <1>1
  <2> QED
    BY <2>1 DEF TicketRow
<1>3. Newer(f, i) \subseteq Matching(f) /\ i \notin Newer(f, i)
  BY <1>2 DEF Newer
<1>4. IsFiniteSet(Newer(f, i)) /\ Cardinality(Newer(f, i)) <= Cardinality(Matching(f))
      /\ (Cardinality(Matching(f)) = Cardinality(Newer(f, i)) => Matching(f) = Newer(f, i))
  BY <1>1, <1>3, FS_Subset
<1>5. Cardinality(Newer(f, i)) \in Nat
  BY <1>4, FS_CardinalityType
<1> QED
  BY <1>1, <1>3, <1>4, <1>5 DEF Rank

LEMMA PageFacts ==
  ASSUME SeedTypeOK, NEW f, NEW P \in SUBSET Matching(f), NEW offset \in Nat, NEW limit \in Nat,
         IsPage(P, Matching(f), offset, limit)
  PROVE  /\ P # {} => Cardinality(Matching(f)) >= offset + Cardinality(P)
         /\ Cardinality(P) \in Nat
         /\ \A i \in Matching(f) \ P :
              ~ SharesDate(i) /\ Rank(f, i) >= offset => Rank(f, i) >= offset + limit
<1> DEFINE rows == Matching(f)
<1>1. /\ IsFiniteSet(rows) /\ Cardinality(rows) \in Nat /\ rows \subseteq DOMAIN tickets
      /\ tickets \in Seq(TicketRow)
  BY MatchingExists DEF SeedTypeOK
<1>2. PICK before \in SUBSET (rows \ P) :
        /\ Cardinality(before) = Least(offset, Cardinality(rows))
        /\ Cardinality(P) = Least(limit, Cardinality(rows \ before))
        /\ NotOlder(before, rows \ before)
        /\ NotOlder(P, (rows \ before) \ P)
  BY DEF IsPage
<1>3. /\ IsFiniteSet(before) /\ IsFiniteSet(P) /\ IsFiniteSet(before \cup P)
      /\ IsFiniteSet(rows \ before)
      /\ Cardinality(before) \in Nat /\ Cardinality(P) \in Nat
      /\ Cardinality(rows \ before) \in Nat
  <2>1. before \subseteq rows /\ P \subseteq rows /\ before \cup P \subseteq rows
        /\ rows \ before \subseteq rows
    BY <1>2
  <2>2. IsFiniteSet(before) /\ IsFiniteSet(P) /\ IsFiniteSet(before \cup P)
        /\ IsFiniteSet(rows \ before)
    BY <1>1, <2>1, FS_Subset
  <2> QED
    BY <2>2, FS_CardinalityType
<1>4. Cardinality(before \cup P) = Cardinality(before) + Cardinality(P)
  <2>1. before \cap P = {}
    BY <1>2
  <2>2. Cardinality(before \cup P)
          = Cardinality(before) + Cardinality(P) - Cardinality(before \cap P)
    BY <1>3, FS_Union
  <2>3. Cardinality(before \cap P) = 0
    BY <2>1, FS_EmptySet
  <2> QED
    BY <1>3, <2>2, <2>3
<1>5. before # rows => Cardinality(before) = offset
  <2>1. before \in SUBSET rows
    BY <1>2
  <2>2. Cardinality(rows) = Cardinality(before) => rows = before
    BY <1>1, <2>1, FS_Subset
  <2> QED
    BY <1>1, <1>2, <1>3, <2>2 DEF Least
<1>6. P # {} => Cardinality(rows) >= offset + Cardinality(P)
  <2> SUFFICES ASSUME P # {} PROVE Cardinality(rows) >= offset + Cardinality(P)
    OBVIOUS
  <2>1. before # rows
    BY <1>2
  <2>2. before \cup P \in SUBSET rows
    BY <1>2
  <2>3. Cardinality(before \cup P) <= Cardinality(rows)
    BY <1>1, <2>2, FS_Subset
  <2> QED
    BY <1>3, <1>4, <1>5, <2>1, <2>3
<1>7. ASSUME NEW i \in rows \ P, ~ SharesDate(i), Rank(f, i) >= offset
      PROVE  Rank(f, i) >= offset + limit
  <2>1. \A j \in rows : tickets[j].created \in Nat /\ j \in DOMAIN tickets
    <3>1. \A j \in rows : tickets[j] \in TicketRow /\ j \in DOMAIN tickets
      BY <1>1
    <3> QED
      BY <3>1 DEF TicketRow
  <2>2. \A j \in rows : j # i => tickets[j].created # tickets[i].created
    BY <1>1, <1>7 DEF SharesDate
  <2>3. i \notin before
    <3> SUFFICES ASSUME i \in before PROVE FALSE
      OBVIOUS
    <3>1. \A j \in rows \ before : tickets[i].created >= tickets[j].created
      BY <1>2 DEF NotOlder
    <3>2. Newer(f, i) \subseteq before \ {i}
      BY <2>1, <3>1 DEF Newer
    <3>3. Cardinality(before \ {i}) = Cardinality(before) - 1 /\ IsFiniteSet(before \ {i})
      BY <1>3, FS_RemoveElement
    <3>4. Cardinality(Newer(f, i)) <= Cardinality(before \ {i})
      BY <3>2, <3>3, FS_Subset
    <3>5. Cardinality(before) <= offset
      BY <1>1, <1>2 DEF Least
    <3>6. Rank(f, i) \in Nat
      BY <1>7, RankBelowTotal
    <3> QED
      BY <1>3, <1>7, <3>3, <3>4, <3>5, <3>6 DEF Rank
  <2>4. Cardinality(before) = offset
    BY <1>5, <1>7, <2>3
  <2>5. Cardinality(P) = limit
    <3>1. P \in SUBSET (rows \ before) /\ P # rows \ before
      BY <1>2, <1>7, <2>3
    <3>2. Cardinality(rows \ before) # Cardinality(P)
      BY <1>3, <3>1, FS_Subset
    <3> QED
      BY <1>2, <1>3, <3>2 DEF Least
  <2>6. before \cup P \subseteq Newer(f, i)
    <3>1. \A j \in before \cup P : tickets[j].created >= tickets[i].created /\ j \in rows /\ j # i
      BY <1>2, <1>7, <2>3 DEF NotOlder
    <3> QED
      BY <2>1, <2>2, <3>1 DEF Newer
  <2>7. IsFiniteSet(Newer(f, i))
    BY <1>1, FS_Subset DEF Newer
  <2>8. Cardinality(before \cup P) <= Cardinality(Newer(f, i))
    BY <2>6, <2>7, FS_Subset
  <2>9. Rank(f, i) \in Nat
    BY <1>7, RankBelowTotal
  <2> QED
    BY <1>4, <2>4, <2>5, <2>8, <2>9 DEF Rank
<1> QED
  BY <1>3, <1>6, <1>7

LEMMA OffsetFacts ==
  ASSUME NEW n \in Nat \ {0}, NEW size \in Nat
  PROVE  /\ Offset(n, size) \in Nat /\ Offset(n + 1, size) \in Nat
         /\ Offset(n + 1, size) = Offset(n, size) + size
         /\ Offset(n + 1, size) = n * size
         /\ Offset(1, size) = 0
<1>1. n - 1 \in Nat /\ (n + 1) - 1 = n /\ 1 - 1 = 0
  OBVIOUS
<1>2. (n - 1) * size \in Nat /\ n * size \in Nat /\ 0 * size = 0
  BY <1>1
<1>3. n * size = (n - 1) * size + size
  OBVIOUS
<1> QED
  BY <1>1, <1>2, <1>3 DEF Offset

-----------------------------------------------------------------------------
(***************************************************************************)
(* Walks.  What a walk owes and has not shown yet is still ahead of it:    *)
(* as many newer tickets match as its pages have gone past.                *)
(***************************************************************************)
Ahead(f, missing, offset) ==
  \A i \in missing : i \in Matching(f) /\ (SharesDate(i) \/ Rank(f, i) >= offset)

Announced(missing, n) == \A i \in missing : SharesDate(i) \/ total > n

Walking(f, size, n, missing) ==
  query.filter = f /\ query.size = size /\ page = n /\ missing = due \ got

\* The state of a walk on its page n.
WalkOn(f, size, n, missing) ==
  /\ step = "items" => Ahead(f, missing, Offset(n, size))
  /\ step \in {"total", "answered"} => Ahead(f, missing, Offset(n + 1, size))
  /\ step = "total" /\ items # {} => Total(f) >= Offset(n, size) + Cardinality(items)
  /\ step = "answered" => Announced(missing, n * size)
  /\ step = "answered" /\ items # {} => total >= Offset(n, size) + Cardinality(items)

WalkInv ==
  /\ page \in Nat \ {0}
  /\ \A f \in Filters, size \in 1..100, n \in Nat \ {0}, missing \in SUBSET Nat :
       Stable(f) /\ Walking(f, size, n, missing) => WalkOn(f, size, n, missing)

LEMMA AheadGrows ==
  ASSUME SeedTypeOK, Grows, NEW f \in Filters, Stable(f), NEW missing, NEW offset \in Nat,
         Ahead(f, missing, offset)
  PROVE  Ahead(f, missing, offset)'
<1> SUFFICES ASSUME NEW i \in missing
             PROVE  i \in Matching(f)' /\ (SharesDate(i)' \/ Rank(f, i)' >= offset)
  BY DEF Ahead
<1>1. i \in Matching(f) /\ (SharesDate(i) \/ Rank(f, i) >= offset)
  BY DEF Ahead
<1>2. i \in Matching(f)' /\ i \in DOMAIN tickets
  BY <1>1, MatchingGrows DEF Matching
<1>3. /\ Rank(f, i) \in Nat /\ Rank(f, i)' \in Nat /\ Rank(f, i)' >= Rank(f, i)
      /\ SharesDate(i) => SharesDate(i)'
  BY <1>2, RankGrows
<1> QED
  BY <1>1, <1>2, <1>3

LEMMA AnnouncedStays ==
  ASSUME Grows, UNCHANGED total, NEW missing \in SUBSET DOMAIN tickets, NEW n,
         Announced(missing, n)
  PROVE  Announced(missing, n)'
<1>1. \A j \in DOMAIN tickets : j \in DOMAIN tickets' /\ tickets'[j].created = tickets[j].created
  BY DEF Grows, Succeeds
<1>2. \A i \in missing : SharesDate(i) => SharesDate(i)'
  BY <1>1 DEF SharesDate
<1> QED
  BY <1>2 DEF Announced

LEMMA TotalGrows ==
  ASSUME SeedTypeOK, SeedTypeOK', Grows, NEW f \in Filters, Stable(f)
  PROVE  Total(f) \in Nat /\ Total(f)' \in Nat /\ Total(f)' >= Total(f)
<1>1. Matching(f) \subseteq Matching(f)'
  BY MatchingGrows DEF SeedTypeOK
<1>2. IsFiniteSet(Matching(f)) /\ Cardinality(Matching(f)) \in Nat
  BY MatchingExists DEF SeedTypeOK
<1>3. Matching(f)' \subseteq DOMAIN tickets' /\ IsFiniteSet(DOMAIN tickets')
  <2>1. Len(tickets') \in Nat /\ DOMAIN tickets' = 1..Len(tickets')
    BY DEF Grows
  <2> QED
    BY <2>1, FS_Interval DEF Matching
<1>4. IsFiniteSet(Matching(f)')
  BY <1>3, FS_Subset
<1> QED
  BY <1>1, <1>2, <1>4, FS_Subset, FS_CardinalityType DEF Total

LEMMA WalkStays ==
  ASSUME DemoInv, DemoInv', Grows, UNCHANGED <<step, due, got, items, total>>,
         NEW f \in Filters, Stable(f), NEW size \in 1..100, NEW n \in Nat \ {0},
         NEW missing \in SUBSET DOMAIN tickets, WalkOn(f, size, n, missing)
  PROVE  WalkOn(f, size, n, missing)'
<1>1. SeedTypeOK /\ SeedTypeOK' /\ ReaderOK
  BY DEF DemoInv
<1>2. size \in Nat /\ Offset(n, size) \in Nat /\ Offset(n + 1, size) \in Nat
  <2>1. size \in Nat
    OBVIOUS
  <2> QED
    BY <2>1, OffsetFacts
<1>3. step' = "items" => Ahead(f, missing, Offset(n, size))'
  BY <1>1, <1>2, AheadGrows DEF WalkOn
<1>4. step' \in {"total", "answered"} => Ahead(f, missing, Offset(n + 1, size))'
  BY <1>1, <1>2, AheadGrows DEF WalkOn
<1>5. step' = "answered" => Announced(missing, n * size)'
  BY AnnouncedStays DEF WalkOn
<1>6. items' \subseteq DOMAIN tickets /\ Cardinality(items') \in Nat
  <2>1. items \subseteq 1..Len(tickets) /\ Len(tickets) \in Nat
    BY <1>1 DEF ReaderOK, Grows
  <2>2. IsFiniteSet(1..Len(tickets))
    BY <2>1, FS_Interval
  <2>3. IsFiniteSet(items)
    BY <2>1, <2>2, FS_Subset
  <2>4. Cardinality(items) \in Nat
    BY <2>3, FS_CardinalityType
  <2> QED
    BY <2>1, <2>4 DEF Grows
<1>7. step' = "total" /\ items' # {} => Total(f)' >= Offset(n, size) + Cardinality(items')
  <2>1. Total(f) \in Nat /\ Total(f)' \in Nat /\ Total(f)' >= Total(f)
    BY <1>1, TotalGrows
  <2> QED
    BY <1>2, <1>6, <2>1 DEF WalkOn
<1>8. step' = "answered" /\ items' # {} => total' >= Offset(n, size) + Cardinality(items')
  BY DEF WalkOn
<1> QED
  BY <1>3, <1>4, <1>5, <1>7, <1>8 DEF WalkOn

LEMMA WalkStep ==
  ASSUME DemoInv, WalkInv, [Next]_vars
  PROVE  WalkInv'
<1>1. DemoInv' /\ Grows
  BY DemoStep
<1>2. /\ SeedTypeOK /\ SeedTypeOK' /\ ReaderOK /\ query \in Query
      /\ tickets \in Seq(TicketRow) /\ Len(tickets) \in Nat /\ DOMAIN tickets = 1..Len(tickets)
      /\ due \subseteq DOMAIN tickets /\ got \subseteq DOMAIN tickets
  <2>1. SeedTypeOK /\ SeedTypeOK' /\ ReaderOK
    BY <1>1 DEF DemoInv
  <2>2. tickets \in Seq(TicketRow) /\ Len(tickets) \in Nat /\ DOMAIN tickets = 1..Len(tickets)
    BY <2>1 DEF SeedTypeOK
  <2> QED
    BY <2>1, <2>2 DEF ReaderOK
<1>3. page' \in Nat \ {0}
  <2>1. page \in Nat \ {0} /\ page + 1 \in Nat \ {0}
    BY DEF WalkInv
  <2>2. page' \in {page, 1, page + 1}
    BY DEF Next, vars, reader, BeginCreation, CommitCreation, StartWalk, ReadItems, ReadTotal,
         NextPage, ReadTicket, ReadEvents, EndRead
  <2> QED
    BY <2>1, <2>2
<1> SUFFICES ASSUME NEW f \in Filters, NEW size \in 1..100, NEW n \in Nat \ {0},
                    NEW missing \in SUBSET Nat, Stable(f), Walking(f, size, n, missing)'
             PROVE  WalkOn(f, size, n, missing)'
  BY <1>3 DEF WalkInv
<1>4. query'.filter = f /\ query'.size = size /\ page' = n /\ missing = due' \ got'
  BY DEF Walking
<1>5. /\ Offset(n, size) \in Nat /\ Offset(n + 1, size) \in Nat
      /\ Offset(n + 1, size) = Offset(n, size) + size /\ Offset(n + 1, size) = n * size
      /\ Offset(1, size) = 0 /\ size \in Nat
  <2>1. size \in Nat
    OBVIOUS
  <2> QED
    BY <2>1, OffsetFacts
<1>6. ASSUME UNCHANGED <<step, query, page, due, got, items, total>>
      PROVE  WalkOn(f, size, n, missing)'
  <2>1. Walking(f, size, n, missing) /\ missing \in SUBSET DOMAIN tickets
    BY <1>2, <1>4, <1>6 DEF Walking
  <2>2. WalkOn(f, size, n, missing)
    BY <2>1 DEF WalkInv
  <2> QED
    BY <1>1, <1>6, <2>1, <2>2, WalkStays
<1>7. ASSUME step' \notin {"items", "total", "answered"} PROVE WalkOn(f, size, n, missing)'
  BY <1>7 DEF WalkOn
<1>8. CASE \/ SeedNext /\ UNCHANGED <<api, reader>>
           \/ \E c \in Clients : BeginCreation(c) \/ CommitCreation(c)
           \/ UNCHANGED vars
  BY <1>6, <1>8 DEF reader, BeginCreation, CommitCreation, vars
<1>9. CASE (\E i \in DOMAIN tickets : ReadTicket(i)) \/ ReadEvents \/ EndRead
  BY <1>7, <1>9 DEF ReadTicket, ReadEvents, EndRead
<1>10. ASSUME NEW q \in Query, StartWalk(q)
       PROVE  WalkOn(f, size, n, missing)'
  <2>1. step' = "items" /\ n = 1 /\ missing = Matching(f)
    BY <1>4, <1>10 DEF StartWalk
  <2>2. \A i \in Matching(f) : Rank(f, i) \in Nat
    BY <1>2, RankBelowTotal
  <2>3. Ahead(f, missing, 0)
    BY <2>1, <2>2 DEF Ahead
  <2>4. Ahead(f, missing, 0)'
    BY <1>1, <1>2, <2>3, AheadGrows
  <2>5. Ahead(f, missing, Offset(n, size))'
    BY <1>5, <2>1, <2>4
  <2> QED
    BY <2>1, <2>5 DEF WalkOn
<1>11. CASE ReadItems
  <2>1. step = "items" /\ step' = "total" /\ UNCHANGED <<tickets, query, page, due>>
    BY <1>11 DEF ReadItems
  <2>2. query.filter = f /\ query.size = size /\ page = n
    BY <1>4, <2>1
  <2>3. PICK P \in SUBSET Matching(f) :
          IsPage(P, Matching(f), Offset(n, size), size) /\ items' = P /\ got' = got \cup P
    BY <1>11, <2>2 DEF ReadItems
  <2>4. PICK owed \in SUBSET Nat : owed = due \ got
    <3>1. due \ got \in SUBSET Nat
      BY <1>2
    <3> QED
      BY <3>1
  <2>5. Ahead(f, owed, Offset(n, size))
    BY <2>1, <2>2, <2>4 DEF WalkInv, Walking, WalkOn
  <2>6. missing = owed \ P
    BY <1>4, <2>1, <2>3, <2>4
  <2>7. /\ P # {} => Cardinality(Matching(f)) >= Offset(n, size) + Cardinality(P)
        /\ Cardinality(P) \in Nat
        /\ \A i \in Matching(f) \ P :
             ~ SharesDate(i) /\ Rank(f, i) >= Offset(n, size)
               => Rank(f, i) >= Offset(n, size) + size
    BY <1>2, <1>5, <2>3, PageFacts
  <2>8. Ahead(f, missing, Offset(n + 1, size))
    BY <1>5, <2>5, <2>6, <2>7 DEF Ahead
  <2>9. Ahead(f, missing, Offset(n + 1, size))'
    BY <1>1, <1>2, <1>5, <2>8, AheadGrows
  <2>10. Total(f) \in Nat /\ Total(f)' \in Nat /\ Total(f)' >= Total(f)
    BY <1>1, <1>2, TotalGrows
  <2>11. items' # {} => Total(f)' >= Offset(n, size) + Cardinality(items')
    BY <1>5, <2>3, <2>7, <2>10 DEF Total
  <2> QED
    BY <2>1, <2>9, <2>11 DEF WalkOn
<1>12. CASE ReadTotal
  <2>1. /\ step = "total" /\ step' = "answered"
        /\ UNCHANGED <<tickets, query, page, due, got, items>>
    BY <1>12 DEF ReadTotal
  <2>2. Walking(f, size, n, missing) /\ query.filter = f
    BY <1>4, <2>1 DEF Walking
  <2>3. WalkOn(f, size, n, missing)
    BY <2>2 DEF WalkInv
  <2>4. total' = Total(f)
    BY <1>12, <2>2 DEF ReadTotal
  <2>5. Ahead(f, missing, Offset(n + 1, size))
    BY <2>1, <2>3 DEF WalkOn
  <2>6. Ahead(f, missing, Offset(n + 1, size))'
    BY <1>1, <1>2, <1>5, <2>5, AheadGrows
  <2>7. \A i \in missing : SharesDate(i) \/ total' > n * size
    <3>1. \A i \in Matching(f) :
            /\ Rank(f, i) \in Nat /\ Total(f) \in Nat
            /\ Rank(f, i) < Total(f)
      BY <1>2, RankBelowTotal, MatchingExists DEF Total
    <3> QED
      BY <1>5, <2>4, <2>5, <3>1 DEF Ahead
  <2>8. Announced(missing, n * size)'
    BY <2>1, <2>7 DEF Announced, SharesDate
  <2>9. items' # {} => total' >= Offset(n, size) + Cardinality(items')
    BY <2>1, <2>3, <2>4 DEF WalkOn
  <2> QED
    BY <2>1, <2>6, <2>8, <2>9 DEF WalkOn
<1>13. CASE NextPage
  <2>1. /\ step = "answered" /\ step' = "items" /\ page' = page + 1
        /\ UNCHANGED <<tickets, query, due, got>>
    BY <1>13 DEF NextPage
  <2>2. PICK k \in Nat \ {0} : k = page
    BY DEF WalkInv
  <2>3. n = k + 1
    BY <1>4, <2>1, <2>2
  <2>4. Walking(f, size, k, missing)
    BY <1>4, <2>1, <2>2 DEF Walking
  <2>5. WalkOn(f, size, k, missing)
    BY <2>4 DEF WalkInv
  <2>6. Ahead(f, missing, Offset(n, size))
    BY <2>1, <2>3, <2>5 DEF WalkOn
  <2>7. Ahead(f, missing, Offset(n, size))'
    BY <1>1, <1>2, <1>5, <2>6, AheadGrows
  <2> QED
    BY <2>1, <2>7 DEF WalkOn
<1> QED
  BY <1>8, <1>9, <1>10, <1>11, <1>12, <1>13 DEF Next

LEMMA WalkInvariant == Spec => []WalkInv
<1>1. Init => WalkInv
  BY DEF Init, WalkInv, WalkOn
<1>2. DemoInv /\ WalkInv /\ [Next]_vars => WalkInv'
  BY WalkStep
<1> QED
  BY <1>1, <1>2, DemoInvariant, PTL DEF Spec

\* What the invariant says of the walk there is.
LEMMA WalkNow ==
  ASSUME DemoInv, WalkInv, Stable(query.filter)
  PROVE  /\ page \in Nat \ {0} /\ query.size \in 1..100 /\ total \in Nat
         /\ WalkOn(query.filter, query.size, page, due \ got)
<1>1. query.filter \in Filters /\ query.size \in 1..100
  BY QueryFacts DEF DemoInv, ReaderOK
<1>2. due \ got \in SUBSET Nat
  BY DEF DemoInv, SeedTypeOK, ReaderOK
<1>3. page \in Nat \ {0} /\ total \in Nat
  BY DEF DemoInv, ReaderOK, WalkInv
<1> QED
  BY <1>1, <1>2, <1>3 DEF WalkInv, Walking

(***************************************************************************)
(* A client that walks through all the pages meets every ticket that was   *)
(* there when it began, but for the tickets that share their created_at.   *)
(***************************************************************************)
THEOREM WalksMissNothing == Spec => []WalkMissesNothing
<1>1. ASSUME DemoInv, WalkInv PROVE WalkMissesNothing
  <2> SUFFICES ASSUME step = "answered", AtLastPage, Stable(query.filter), NEW i \in due, i \notin got
               PROVE  SharesDate(i)
    BY DEF WalkMissesNothing
  <2>1. page * query.size \in Nat /\ total \in Nat /\ Announced(due \ got, page * query.size)
    BY <1>1, WalkNow DEF WalkOn
  <2> QED
    BY <2>1 DEF Announced, AtLastPage
<1> QED
  BY <1>1, DemoInvariant, WalkInvariant, PTL

(***************************************************************************)
(* The total counts the items of its page and those before them.           *)
(***************************************************************************)
THEOREM TotalsCoverPages == Spec => []TotalCoversPage
<1>1. ASSUME DemoInv, WalkInv PROVE TotalCoversPage
  BY <1>1, WalkNow DEF TotalCoversPage, WalkOn
<1> QED
  BY <1>1, DemoInvariant, WalkInvariant, PTL
=============================================================================
