--------------------------- MODULE DatasetProofs ---------------------------
(***************************************************************************)
(* What the seed leaves behind, however often it dies among its workers:   *)
(* one unfinished scenario at most for each crash, and without a crash the *)
(* dataset README.md describes.                                            *)
(***************************************************************************)
EXTENDS TicketQueriesProofs, SequenceTheorems

Working == {"begin", "complete", "advance", "finish"}

\* How far the ticket is that the script works on.
MineStands ==
  LET t == tickets[mine] IN
  /\ pc \notin Working => mine = 0
  /\ pc \in Working => mine # 0 /\ t.scenario = at
  /\ pc \in {"begin", "complete", "advance"} => Stands(t, "OPEN")
  /\ pc = "begin" => Claimable(mine) \/ Treated(t)
  /\ pc = "complete" => Owned(mine, "seed")
  /\ pc \in {"advance", "finish"} => Treated(t)
  /\ pc = "finish" => Stands(t, "IN_PROGRESS") /\ Current.target \in {"RESOLVED", "CLOSED"}

\* A ticket has what its scenario says, and once it is processed the result of that.
RowFits(t) ==
  /\ t.scenario # 0 =>
       /\ t.scenario \in DOMAIN plan.scenarios
       /\ t.priority = plan.scenarios[t.scenario].priority
       /\ t.category = plan.scenarios[t.scenario].category
       /\ t.spamLike = plan.scenarios[t.scenario].spamLike
  /\ t.processing = "COMPLETED" => t.result = Result(t)

RowsFit == \A i \in DOMAIN tickets : RowFits(tickets[i])

\* The scenarios the script has come past have their tickets.
PastHaveTickets ==
  \A s \in DOMAIN plan.scenarios : s < at \/ pc \in {"replay", "done"} => Of(s) # {}

DatasetInv == MineStands /\ RowsFit /\ PastHaveTickets /\ CrashCostsOneScenario

-----------------------------------------------------------------------------
(***************************************************************************)
(* Trails.                                                                 *)
(***************************************************************************)
LEMMA AppendToConcat ==
  ASSUME NEW x \in Seq(EventKinds), NEW y \in Seq(EventKinds), NEW e \in EventKinds
  PROVE  Append(x \o y, e) = x \o Append(y, e)
<1>1. x \o y \in Seq(EventKinds) /\ <<e>> \in Seq(EventKinds)
  BY ConcatProperties
<1>2. Append(x \o y, e) = (x \o y) \o <<e>>
  BY <1>1, AppendIsConcat
<1>3. Append(y, e) = y \o <<e>>
  BY AppendIsConcat
<1>4. (x \o y) \o <<e>> = x \o (y \o <<e>>)
  BY <1>1, ConcatAssociative
<1> QED
  BY <1>2, <1>3, <1>4

LEMMA SubSeqOfAppend ==
  ASSUME NEW S, NEW x \in Seq(S), NEW e \in S, NEW k \in 1..Len(x)
  PROVE  /\ SubSeq(Append(x, e), 1, k) = SubSeq(x, 1, k)
         /\ SubSeq(Append(x, e), k + 1, Len(x) + 1) = Append(SubSeq(x, k + 1, Len(x)), e)
<1>1. /\ Append(x, e) \in Seq(S) /\ Len(Append(x, e)) = Len(x) + 1 /\ Len(x) \in Nat
      /\ \A i \in 1..Len(x) : Append(x, e)[i] = x[i]
      /\ Append(x, e)[Len(x) + 1] = e
  BY AppendProperties
<1>2. SubSeq(Append(x, e), 1, k) = SubSeq(x, 1, k)
  BY <1>1
<1> DEFINE v == SubSeq(x, k + 1, Len(x))
           w == SubSeq(Append(x, e), k + 1, Len(x) + 1)
<1>3. /\ v \in Seq(S) /\ Len(v) = Len(x) - k
      /\ \A i \in 1..Len(v) : v[i] = x[k + i]
  BY <1>1
<1>4. /\ w \in Seq(S) /\ Len(w) = Len(x) - k + 1
      /\ \A i \in 1..Len(w) : w[i] = Append(x, e)[k + i]
  BY <1>1
<1> HIDE DEF v, w
<1>5. /\ Append(v, e) \in Seq(S) /\ Len(Append(v, e)) = Len(v) + 1
      /\ \A i \in 1..Len(v) : Append(v, e)[i] = v[i]
      /\ Append(v, e)[Len(v) + 1] = e
  BY <1>3, AppendProperties
<1>6. ASSUME NEW i \in 1..Len(v) PROVE w[i] = Append(v, e)[i]
  <2>1. i \in 1..Len(w) /\ k + i \in 1..Len(x)
    BY <1>1, <1>3, <1>4
  <2> QED
    BY <1>1, <1>3, <1>4, <1>5, <2>1
<1>7. w[Len(v) + 1] = e
  <2>1. Len(v) + 1 \in 1..Len(w) /\ k + (Len(v) + 1) = Len(x) + 1
    BY <1>1, <1>3, <1>4
  <2> QED
    BY <1>1, <1>4, <2>1
<1>8. \A i \in 1..Len(w) : w[i] = Append(v, e)[i]
  <2>1. Len(w) = Len(v) + 1 /\ Len(v) \in Nat
    BY <1>1, <1>3, <1>4
  <2>2. \A i \in 1..Len(w) : i \in 1..Len(v) \/ i = Len(v) + 1
    BY <2>1
  <2> QED
    BY <1>6, <1>7, <2>2
<1>9. w = Append(v, e)
  BY <1>1, <1>3, <1>4, <1>5, <1>8, SeqEqual
<1> QED
  BY <1>2, <1>9 DEF v, w

\* The event of the worker goes to the end, and stays where it is when the path goes on.
LEMMA TrailFacts ==
  ASSUME NEW path \in Seq(EventKinds), path # <<>>, NEW k \in 1..Len(path),
         NEW next \in EventKinds
  PROVE  /\ Append(path, "AUTO_PROCESSED") = Processed(path, Len(path))
         /\ Append(Processed(path, k), next) = Processed(Append(path, next), k)
         /\ Len(path) \in 1..Len(path) /\ k \in 1..Len(Append(path, next))
<1>1. "AUTO_PROCESSED" \in EventKinds
  BY DEF EventKinds
<1>2. Len(path) \in Nat \ {0}
  OBVIOUS
<1>3. Append(path, "AUTO_PROCESSED") = Processed(path, Len(path))
  <2>1. SubSeq(path, 1, Len(path)) = path /\ SubSeq(path, Len(path) + 1, Len(path)) = <<>>
    OBVIOUS
  <2>2. path \o <<"AUTO_PROCESSED">> \o <<>> = Append(path, "AUTO_PROCESSED")
    BY <1>1
  <2> QED
    BY <2>1, <2>2 DEF Processed
<1>4. Append(Processed(path, k), next) = Processed(Append(path, next), k)
  <2> DEFINE u == SubSeq(path, 1, k) \o <<"AUTO_PROCESSED">>
             v == SubSeq(path, k + 1, Len(path))
  <2>1. Len(Append(path, next)) = Len(path) + 1
    OBVIOUS
  <2>2. u \in Seq(EventKinds) /\ v \in Seq(EventKinds)
    BY <1>1, <1>2
  <2>3. Processed(path, k) = u \o v
    BY DEF Processed
  <2>4. Processed(Append(path, next), k) = u \o Append(v, next)
    BY <2>1, SubSeqOfAppend DEF Processed
  <2> HIDE DEF u, v
  <2>5. Append(u \o v, next) = u \o Append(v, next)
    BY <2>2, AppendToConcat
  <2> QED
    BY <2>3, <2>4, <2>5
<1> QED
  BY <1>2, <1>3, <1>4

LEMMA TupleFacts ==
  ASSUME NEW a \in EventKinds, NEW b \in EventKinds, NEW c \in EventKinds
  PROVE  /\ <<a>> \in Seq(EventKinds) /\ <<a, b>> \in Seq(EventKinds) /\ <<a, b, c>> \in Seq(EventKinds)
         /\ <<a>> # <<>> /\ <<a, b>> # <<>> /\ <<a, b, c>> # <<>>
         /\ Append(<<a>>, b) = <<a, b>> /\ Append(<<a, b>>, c) = <<a, b, c>>
<1>1. /\ <<a>> \in Seq(EventKinds) /\ Len(<<a>>) = 1 /\ <<a>>[1] = a
      /\ <<a, b>> \in Seq(EventKinds) /\ Len(<<a, b>>) = 2 /\ <<a, b>>[1] = a /\ <<a, b>>[2] = b
      /\ <<a, b, c>> \in Seq(EventKinds) /\ Len(<<a, b, c>>) = 3
      /\ <<a, b, c>>[1] = a /\ <<a, b, c>>[2] = b /\ <<a, b, c>>[3] = c
  OBVIOUS
<1>2. Append(<<a>>, b) = <<a, b>>
  <2> DEFINE x == <<a>>
             y == <<a, b>>
  <2>1. /\ Append(x, b) \in Seq(EventKinds) /\ Len(Append(x, b)) = 2 /\ Append(x, b)[1] = a
        /\ Append(x, b)[2] = b
    BY <1>1, AppendProperties
  <2>2. Len(Append(x, b)) = Len(y) /\ y \in Seq(EventKinds)
        /\ \A i \in 1..Len(Append(x, b)) : Append(x, b)[i] = y[i]
    BY <1>1, <2>1
  <2> HIDE DEF x, y
  <2>3. Append(x, b) = y
    BY <2>1, <2>2, SeqEqual
  <2> QED
    BY <2>3 DEF x, y
<1>3. Append(<<a, b>>, c) = <<a, b, c>>
  <2> DEFINE x == <<a, b>>
             y == <<a, b, c>>
  <2>1. /\ Append(x, c) \in Seq(EventKinds) /\ Len(Append(x, c)) = 3 /\ Append(x, c)[1] = a
        /\ Append(x, c)[2] = b /\ Append(x, c)[3] = c
    BY <1>1, AppendProperties
  <2>2. Len(Append(x, c)) = Len(y) /\ y \in Seq(EventKinds)
        /\ \A i \in 1..Len(Append(x, c)) : Append(x, c)[i] = y[i]
    BY <1>1, <2>1
  <2> HIDE DEF x, y
  <2>3. Append(x, c) = y
    BY <2>1, <2>2, SeqEqual
  <2> QED
    BY <2>3 DEF x, y
<1> QED
  BY <1>1, <1>2, <1>3

LEMMA PathFacts ==
  /\ \A status \in TicketStatus : PathTo(status) \in Seq(EventKinds) /\ PathTo(status) # <<>>
  /\ PathTo("OPEN") = <<"OPEN">>
  /\ PathTo("IN_PROGRESS") = Append(PathTo("OPEN"), "IN_PROGRESS")
  /\ \A next \in {"RESOLVED", "CLOSED"} : PathTo(next) = Append(PathTo("IN_PROGRESS"), next)
<1>2. PathTo("OPEN") = <<"OPEN">> /\ PathTo("IN_PROGRESS") = <<"OPEN", "IN_PROGRESS">>
  BY DEF PathTo
<1>3. ASSUME NEW next \in {"RESOLVED", "CLOSED"}
      PROVE  PathTo(next) = <<"OPEN", "IN_PROGRESS", next>>
  BY DEF PathTo
<1>1. "OPEN" \in EventKinds /\ "IN_PROGRESS" \in EventKinds
      /\ \A next \in {"RESOLVED", "CLOSED"} : next \in EventKinds
  BY DEF EventKinds, TicketStatus
<1>4. ASSUME NEW status \in TicketStatus
      PROVE  PathTo(status) \in Seq(EventKinds) /\ PathTo(status) # <<>>
  <2>0. /\ <<"OPEN">> \in Seq(EventKinds) /\ <<"OPEN">> # <<>>
        /\ <<"OPEN", "IN_PROGRESS">> \in Seq(EventKinds) /\ <<"OPEN", "IN_PROGRESS">> # <<>>
    BY <1>1, TupleFacts
  <2>1. CASE status = "OPEN"
    BY <1>2, <2>0, <2>1
  <2>3. CASE status = "IN_PROGRESS"
    BY <1>2, <2>0, <2>3
  <2>2. CASE status \in {"RESOLVED", "CLOSED"}
    <3>1. status \in EventKinds /\ PathTo(status) = <<"OPEN", "IN_PROGRESS", status>>
      BY <1>1, <1>3, <2>2
    <3> QED
      BY <1>1, <3>1, TupleFacts
  <2> QED
    BY <2>1, <2>2, <2>3 DEF TicketStatus
<1>5. Append(<<"OPEN">>, "IN_PROGRESS") = <<"OPEN", "IN_PROGRESS">>
  BY <1>1, TupleFacts
<1>6. ASSUME NEW next \in {"RESOLVED", "CLOSED"}
      PROVE  Append(<<"OPEN", "IN_PROGRESS">>, next) = <<"OPEN", "IN_PROGRESS", next>>
  BY <1>1, TupleFacts
<1> QED
  BY <1>2, <1>3, <1>4, <1>5, <1>6

-----------------------------------------------------------------------------
(***************************************************************************)
(* What a step may do to a row: the ticket stays where it stands.          *)
(***************************************************************************)
Keeps(r, t) ==
  /\ r.scenario = t.scenario /\ r.priority = t.priority
  /\ r.category = t.category /\ r.spamLike = t.spamLike
  /\ RowFits(t) => RowFits(r)

Stays(r, t) ==
  /\ Keeps(r, t)
  /\ \A status \in TicketStatus : Stands(t, status) => Stands(r, status)

LEMMA ClaimStays ==
  ASSUME NEW t \in TicketRow, NEW owner \in {"seed", "worker"}, t.processing = "PENDING"
  PROVE  LET r == [t EXCEPT !.processing = "PROCESSING", !.owner = owner] IN
         /\ Stays(r, t) /\ r.processing = "PROCESSING" /\ r.owner = owner
         /\ owner = "worker" => Treated(r)
<1> DEFINE r == [t EXCEPT !.processing = "PROCESSING", !.owner = owner]
<1>1. /\ r.scenario = t.scenario /\ r.priority = t.priority /\ r.category = t.category
      /\ r.spamLike = t.spamLike /\ r.events = t.events /\ r.status = t.status
      /\ r.processing = "PROCESSING" /\ r.owner = owner
  BY DEF TicketRow
<1> HIDE DEF r
<1>2. Keeps(r, t)
  BY <1>1 DEF Keeps, RowFits
<1>3. ASSUME NEW status, Stands(t, status) PROVE Stands(r, status)
  BY <1>1, <1>3 DEF Stands, Follows
<1> QED
  BY <1>1, <1>2, <1>3 DEF Stays, Treated, r

LEMMA CompleteStays ==
  ASSUME NEW t \in TicketRow, t.processing = "PROCESSING"
  PROVE  LET r == [t EXCEPT !.processing = "COMPLETED", !.result = Result(t),
                            !.events = Append(t.events, "AUTO_PROCESSED")]
         IN  Stays(r, t) /\ Treated(r)
<1> DEFINE r == [t EXCEPT !.processing = "COMPLETED", !.result = Result(t),
                          !.events = Append(t.events, "AUTO_PROCESSED")]
<1>1. /\ r.scenario = t.scenario /\ r.priority = t.priority /\ r.category = t.category
      /\ r.spamLike = t.spamLike /\ r.events = Append(t.events, "AUTO_PROCESSED")
      /\ r.status = t.status /\ r.processing = "COMPLETED" /\ r.result = Result(t)
  BY DEF TicketRow
<1> HIDE DEF r
<1>2. Result(r) = Result(t)
  BY <1>1 DEF Result
<1>3. Keeps(r, t)
  BY <1>1, <1>2 DEF Keeps, RowFits
<1>4. ASSUME NEW status \in TicketStatus, Stands(t, status) PROVE Stands(r, status)
  <2> DEFINE path == PathTo(status)
  <2>1. t.status = status /\ t.events = path
    BY <1>4 DEF Stands, Follows
  <2>2. path \in Seq(EventKinds) /\ path # <<>>
    BY PathFacts
  <2> HIDE DEF path
  <2>3. Len(path) \in 1..Len(path) /\ "AUTO_PROCESSED" \in EventKinds
    BY <2>2 DEF EventKinds
  <2>4. r.events = Processed(path, Len(path))
    BY <1>1, <2>1, <2>2, <2>3, TrailFacts
  <2> QED
    BY <1>1, <2>1, <2>3, <2>4 DEF Stands, Follows, path
<1> QED
  BY <1>1, <1>3, <1>4 DEF Stays, Treated, r

LEMMA MoveStands ==
  ASSUME NEW t \in TicketRow, NEW status \in TicketStatus, NEW next \in TicketStatus,
         Stands(t, status), PathTo(next) = Append(PathTo(status), next)
  PROVE  LET r == [t EXCEPT !.status = next, !.events = Append(t.events, next)] IN
         Keeps(r, t) /\ Stands(r, next) /\ (Treated(t) => Treated(r))
<1> DEFINE r == [t EXCEPT !.status = next, !.events = Append(t.events, next)]
<1>1. /\ r.scenario = t.scenario /\ r.priority = t.priority /\ r.category = t.category
      /\ r.spamLike = t.spamLike /\ r.events = Append(t.events, next)
      /\ r.status = next /\ r.processing = t.processing /\ r.result = t.result
      /\ r.owner = t.owner
  BY DEF TicketRow
<1> HIDE DEF r
<1>2. Result(r) = Result(t)
  BY <1>1 DEF Result
<1>3. Keeps(r, t)
  BY <1>1, <1>2 DEF Keeps, RowFits
<1>4. Follows(r, PathTo(next))
  <2> DEFINE path == PathTo(status)
  <2>1. Follows(t, path) /\ PathTo(next) = Append(path, next)
    BY DEF Stands
  <2>2. path \in Seq(EventKinds) /\ path # <<>> /\ next \in EventKinds
    BY PathFacts DEF EventKinds
  <2> HIDE DEF path
  <2>3. CASE t.processing = "COMPLETED"
    <3>1. PICK k \in 1..Len(path) : t.events = Processed(path, k)
      BY <2>1, <2>3 DEF Follows
    <3>2. r.events = Processed(Append(path, next), k) /\ k \in 1..Len(Append(path, next))
      BY <1>1, <2>2, <3>1, TrailFacts
    <3> QED
      BY <1>1, <2>1, <2>3, <3>2 DEF Follows
  <2>4. CASE t.processing # "COMPLETED"
    BY <1>1, <2>1, <2>4 DEF Follows
  <2> QED
    BY <2>3, <2>4
<1> QED
  BY <1>1, <1>3, <1>4 DEF Stands, Treated, r

-----------------------------------------------------------------------------
(***************************************************************************)
(* What a step does to the rows: only the ticket the script works on may   *)
(* go on, and what is new is that one, or a ticket of a client.            *)
(***************************************************************************)
Proceeds ==
  /\ Grows
  /\ \A i \in DOMAIN tickets : Keeps(tickets'[i], tickets[i])
  /\ \A i \in DOMAIN tickets \ {mine} :
       Stays(tickets'[i], tickets[i]) /\ (Treated(tickets[i]) => Treated(tickets'[i]))
  /\ \A i \in DOMAIN tickets' \ DOMAIN tickets :
       RowFits(tickets'[i]) /\ (i = mine' \/ tickets'[i].scenario = 0)

\* The script leaves a ticket only when that is finished.
LeavesFinished ==
  mine # mine' /\ mine # 0 => mine \in DOMAIN tickets' /\ Finished(tickets'[mine])

\* It does not pass over a scenario without a ticket.
PassesNone ==
  \A s \in DOMAIN plan.scenarios :
    s < at' \/ pc' \in {"replay", "done"} =>
      s < at \/ pc \in {"replay", "done"} \/ \E i \in DOMAIN tickets' : tickets'[i].scenario = s

LEMMA SameRow == \A t : Stays(t, t)
BY DEF Stays, Keeps

LEMMA RowProceeds ==
  ASSUME tickets \in Seq(TicketRow), NEW i \in DOMAIN tickets, NEW r \in TicketRow,
         tickets' = [tickets EXCEPT ![i] = r], Grows, Keeps(r, tickets[i]),
         i # mine => Stays(r, tickets[i]) /\ Treated(r)
  PROVE  /\ Proceeds /\ DOMAIN tickets' = DOMAIN tickets /\ tickets'[i] = r
         /\ \A j \in DOMAIN tickets : j # i => tickets'[j] = tickets[j]
<1>1. /\ DOMAIN tickets' = DOMAIN tickets /\ tickets'[i] = r
      /\ \A j \in DOMAIN tickets : j # i => tickets'[j] = tickets[j]
  BY ExceptFacts
<1>2. ASSUME NEW j \in DOMAIN tickets
      PROVE  /\ Keeps(tickets'[j], tickets[j])
             /\ j # mine => Stays(tickets'[j], tickets[j])
                            /\ (Treated(tickets[j]) => Treated(tickets'[j]))
  BY <1>1, SameRow DEF Stays
<1> QED
  BY <1>1, <1>2 DEF Proceeds

LEMMA SameProceeds ==
  ASSUME tickets \in Seq(TicketRow), UNCHANGED tickets
  PROVE  Proceeds
BY SameStep, SameRow DEF Proceeds, Stays

LEMMA RowsFitStep ==
  ASSUME RowsFit, Proceeds, UNCHANGED plan
  PROVE  RowsFit'
<1> SUFFICES ASSUME NEW i \in DOMAIN tickets' PROVE RowFits(tickets'[i])
  BY DEF RowsFit, RowFits
<1>1. CASE i \in DOMAIN tickets
  BY <1>1 DEF RowsFit, Proceeds, Keeps
<1>2. CASE i \notin DOMAIN tickets
  BY <1>2 DEF Proceeds
<1> QED
  BY <1>1, <1>2

LEMMA UnfinishedStep ==
  ASSUME SeedTypeOK, RowsFit, Proceeds, LeavesFinished, UNCHANGED plan
  PROVE  Unfinished' \subseteq Unfinished
<1> SUFFICES ASSUME NEW i \in DOMAIN tickets' \ {mine'}, tickets'[i].scenario # 0,
                    ~ Finished(tickets'[i])
             PROVE  i \in Unfinished
  BY DEF Unfinished, Finished
<1>1. i \in DOMAIN tickets
  BY DEF Proceeds
<1>2. i # mine
  <2> SUFFICES ASSUME i = mine PROVE FALSE
    OBVIOUS
  <2>1. mine # 0
    BY <1>1 DEF SeedTypeOK
  <2> QED
    BY <2>1 DEF LeavesFinished
<1> DEFINE t == tickets[i]
           r == tickets'[i]
<1>3. Stays(r, t) /\ (Treated(t) => Treated(r)) /\ RowFits(t)
  BY <1>1, <1>2 DEF Proceeds, RowsFit
<1> HIDE DEF t, r
<1>4. r.scenario = t.scenario /\ t.scenario # 0
  BY <1>3 DEF Stays, Keeps, r
<1>5. t.scenario \in DOMAIN plan.scenarios
  BY <1>3, <1>4 DEF RowFits
<1>6. plan.scenarios[t.scenario].target \in TicketStatus
  <2>1. plan.scenarios[t.scenario] \in ScenarioRow
    BY <1>5, PlanFacts
  <2> QED
    BY <2>1 DEF ScenarioRow
<1>7. Finished(t) => Finished(r)
  BY <1>3, <1>4, <1>6 DEF Stays, Finished
<1> QED
  BY <1>1, <1>2, <1>4, <1>7 DEF Unfinished, t, r

LEMMA UnfinishedFinite ==
  ASSUME SeedTypeOK
  PROVE  IsFiniteSet(Unfinished) /\ Cardinality(Unfinished) \in Nat
<1>1. Len(tickets) \in Nat /\ DOMAIN tickets = 1..Len(tickets)
  BY DEF SeedTypeOK
<1>2. IsFiniteSet(1..Len(tickets))
  BY <1>1, FS_Interval
<1>3. Unfinished \in SUBSET (1..Len(tickets))
  BY <1>1 DEF Unfinished
<1> QED
  BY <1>2, <1>3, FS_Subset, FS_CardinalityType

\* What is left of the invariant when a step neither loses nor skips anything.
LEMMA OrderlyStep ==
  ASSUME SeedTypeOK, DatasetInv, Proceeds, LeavesFinished, PassesNone, MineStands',
         UNCHANGED <<plan, crashes>>
  PROVE  DatasetInv'
<1>1. RowsFit'
  BY RowsFitStep DEF DatasetInv
<1>2. PastHaveTickets'
  <2> SUFFICES ASSUME NEW s \in DOMAIN plan.scenarios, s < at' \/ pc' \in {"replay", "done"}
               PROVE  \E i \in DOMAIN tickets' : tickets'[i].scenario = s
    BY DEF PastHaveTickets, Of
  <2>1. CASE s < at \/ pc \in {"replay", "done"}
    <3>1. PICK i \in DOMAIN tickets : tickets[i].scenario = s
      BY <2>1 DEF DatasetInv, PastHaveTickets, Of
    <3>2. i \in DOMAIN tickets' /\ tickets'[i].scenario = s
      BY <3>1 DEF Proceeds, Grows, Succeeds
    <3> QED
      BY <3>2
  <2> QED
    BY <2>1 DEF PassesNone
<1>3. CrashCostsOneScenario'
  <2>1. Unfinished' \in SUBSET Unfinished
    BY UnfinishedStep DEF DatasetInv
  <2>2. Cardinality(Unfinished') <= Cardinality(Unfinished) /\ IsFiniteSet(Unfinished')
        /\ Cardinality(Unfinished) \in Nat
    BY <2>1, UnfinishedFinite, FS_Subset
  <2>3. Cardinality(Unfinished') \in Nat
    BY <2>2, FS_CardinalityType
  <2>4. Cardinality(Unfinished) <= crashes /\ crashes \in Nat
    BY PlanFacts DEF DatasetInv, CrashCostsOneScenario, SeedTypeOK
  <2> QED
    BY <2>2, <2>3, <2>4 DEF CrashCostsOneScenario
<1> QED
  BY <1>1, <1>2, <1>3 DEF DatasetInv

-----------------------------------------------------------------------------
(***************************************************************************)
(* The steps of the script, of its workers, and of the clients.            *)
(***************************************************************************)
LEMMA RunStep ==
  ASSUME DemoInv, DatasetInv, Run
  PROVE  DatasetInv'
<1>1. /\ pc \in {"stopped", "done"} /\ pc' = "create"
      /\ UNCHANGED <<tickets, plan, at, mine, crashes>>
  BY DEF Run
<1>2. SeedTypeOK /\ tickets \in Seq(TicketRow) /\ mine = 0
  BY <1>1 DEF DemoInv, SeedTypeOK, DatasetInv, MineStands, Working
<1>3. MineStands' /\ LeavesFinished /\ PassesNone
  BY <1>1, <1>2 DEF MineStands, Working, LeavesFinished, PassesNone
<1> QED
  BY <1>1, <1>2, <1>3, SameProceeds, OrderlyStep

LEMMA CreateStep ==
  ASSUME DemoInv, DatasetInv, Create, Grows
  PROVE  DatasetInv'
<1> DEFINE n == Len(tickets) + 1
           t == NewTicket(at, Current.priority, Current.category, Current.spamLike, Since)
<1>1. /\ pc = "create" /\ pc' = "begin" /\ mine' = n /\ tickets' = Append(tickets, t)
      /\ UNCHANGED <<plan, at, crashes>>
  BY DEF Create
<1>2. /\ SeedTypeOK /\ tickets \in Seq(TicketRow) /\ mine = 0
      /\ Len(tickets) \in Nat /\ DOMAIN tickets = 1..Len(tickets)
      /\ at \in DOMAIN plan.scenarios /\ at # 0
  BY <1>1, PlanFacts DEF DemoInv, SeedTypeOK, DatasetInv, MineStands, Working
<1>3. /\ t.scenario = at /\ t.priority = plan.scenarios[at].priority
      /\ t.category = plan.scenarios[at].category
      /\ t.spamLike = plan.scenarios[at].spamLike
      /\ t.status = "OPEN" /\ t.processing = "PENDING" /\ t.events = <<"OPEN">>
  BY DEF NewTicket, Current
<1> HIDE DEF t
<1>4. RowFits(t) /\ Stands(t, "OPEN")
  BY <1>2, <1>3, PathFacts DEF RowFits, Stands, Follows
<1>5. /\ n \in DOMAIN tickets' /\ tickets'[n] = t /\ n # 0
      /\ DOMAIN tickets' \ DOMAIN tickets = {n}
      /\ \A i \in DOMAIN tickets : tickets'[i] = tickets[i]
  <2>1. Len(tickets') = n /\ DOMAIN tickets' = 1..n
    BY <1>1, <1>2 DEF Grows
  <2>2. tickets'[n] = t /\ \A i \in 1..Len(tickets) : tickets'[i] = tickets[i]
    BY <1>1, <1>2
  <2> QED
    BY <1>2, <2>1, <2>2
<1> HIDE DEF n
<1>6. Proceeds
  BY <1>1, <1>4, <1>5, SameRow DEF Proceeds, Stays
<1>7. MineStands'
  <2>1. Claimable(mine)'
    BY <1>1, <1>3, <1>5 DEF Claimable
  <2> QED
    BY <1>1, <1>3, <1>4, <1>5, <2>1 DEF MineStands, Working, Stands, Follows
<1>8. LeavesFinished /\ PassesNone
  BY <1>1, <1>2 DEF LeavesFinished, PassesNone
<1> QED
  BY <1>1, <1>2, <1>6, <1>7, <1>8, OrderlyStep

\* The script goes on to the next scenario: this one has a ticket, which is finished
\* when it is the script's own.
LEMMA ProceedStep ==
  ASSUME DemoInv, DatasetInv, Proceed, Proceeds, UNCHANGED plan, LeavesFinished,
         \E i \in DOMAIN tickets' : tickets'[i].scenario = at
  PROVE  DatasetInv'
<1>1. /\ pc' \in {"create", "replay"} /\ mine' = 0 /\ UNCHANGED crashes
  BY DEF Proceed
<1>2. SeedTypeOK /\ at \in 1..Len(plan.scenarios) /\ Len(plan.scenarios) \in Nat
      /\ DOMAIN plan.scenarios = 1..Len(plan.scenarios)
  BY PlanFacts DEF DemoInv, SeedTypeOK
<1>3. MineStands'
  BY <1>1 DEF MineStands, Working
<1>4. PassesNone
  <2>1. ASSUME NEW s \in 1..Len(plan.scenarios), s < at' \/ pc' = "replay"
        PROVE  s < at \/ s = at
    BY <1>2, <2>1 DEF Proceed
  <2> QED
    BY <1>1, <1>2, <2>1 DEF PassesNone
<1> QED
  BY <1>1, <1>2, <1>3, <1>4, OrderlyStep

LEMMA ReuseStep ==
  ASSUME DemoInv, DatasetInv, Reuse
  PROVE  DatasetInv'
<1>1. pc = "create" /\ Of(at) # {} /\ Proceed /\ UNCHANGED <<tickets, plan>>
  BY DEF Reuse
<1>2. mine = 0 /\ tickets \in Seq(TicketRow)
  BY <1>1 DEF DemoInv, SeedTypeOK, DatasetInv, MineStands, Working
<1>3. LeavesFinished /\ \E i \in DOMAIN tickets' : tickets'[i].scenario = at
  BY <1>1, <1>2 DEF LeavesFinished, Of
<1> QED
  BY <1>1, <1>2, <1>3, SameProceeds, ProceedStep

\* The row of the script's ticket.
LEMMA MineFacts ==
  ASSUME DemoInv, DatasetInv, pc \in Working
  PROVE  /\ SeedTypeOK /\ tickets \in Seq(TicketRow) /\ mine # 0 /\ mine \in DOMAIN tickets
         /\ tickets[mine] \in TicketRow /\ tickets[mine].scenario = at
         /\ Current = plan.scenarios[at] /\ Current.target \in TicketStatus
<1>1. /\ SeedTypeOK /\ tickets \in Seq(TicketRow) /\ mine # 0 /\ mine \in 0..Len(tickets)
      /\ tickets[mine].scenario = at
  BY DEF DemoInv, SeedTypeOK, DatasetInv, MineStands
<1>2. mine \in DOMAIN tickets
  BY <1>1
<1>3. tickets[mine] \in TicketRow
  BY <1>1, <1>2
<1>4. Current.target \in TicketStatus
  BY <1>1, PlanFacts DEF ScenarioRow
<1> QED
  BY <1>1, <1>2, <1>3, <1>4 DEF Current

LEMMA BeginStep ==
  ASSUME DemoInv, DatasetInv, Begin, Grows
  PROVE  DatasetInv'
<1> DEFINE t == tickets[mine]
           r == [t EXCEPT !.processing = "PROCESSING", !.owner = "seed"]
<1>1. /\ pc = "begin" /\ pc' = "complete" /\ Claimable(mine) /\ tickets' = Claimed(mine, "seed")
      /\ UNCHANGED <<plan, at, mine, crashes>>
  BY DEF Begin, Goto
<1>2. /\ SeedTypeOK /\ tickets \in Seq(TicketRow) /\ mine # 0 /\ mine \in DOMAIN tickets
      /\ t \in TicketRow /\ t.scenario = at /\ Stands(t, "OPEN")
  BY <1>1, MineFacts DEF Working, DatasetInv, MineStands
<1>3. t.processing = "PENDING"
  BY <1>1 DEF Claimable
<1>4. tickets' = [tickets EXCEPT ![mine] = r]
  BY <1>1 DEF Claimed
<1> HIDE DEF t
<1>5. Stays(r, t) /\ r.processing = "PROCESSING" /\ r.owner = "seed" /\ r \in TicketRow
  BY <1>2, <1>3, ClaimStays, ClaimedRow DEF Succeeds
<1> HIDE DEF r
<1>6. Proceeds /\ tickets'[mine] = r
  BY <1>2, <1>4, <1>5, RowProceeds DEF Stays, t
<1>7. r.scenario = at /\ Stands(r, "OPEN")
  BY <1>2, <1>5 DEF Stays, Keeps, TicketStatus
<1>8. MineStands'
  <2>1. Owned(mine, "seed")'
    BY <1>1, <1>5, <1>6 DEF Owned
  <2> QED
    BY <1>1, <1>2, <1>6, <1>7, <2>1 DEF MineStands, Working, Stands, Follows
<1>9. LeavesFinished /\ PassesNone
  BY <1>1 DEF LeavesFinished, PassesNone
<1> QED
  BY <1>1, <1>2, <1>6, <1>8, <1>9, OrderlyStep

LEMMA SkipClaimedStep ==
  ASSUME DemoInv, DatasetInv, SkipClaimed
  PROVE  DatasetInv'
<1>1. /\ pc = "begin" /\ pc' = "advance" /\ ~ Claimable(mine)
      /\ UNCHANGED <<tickets, plan, at, mine, crashes>>
  BY DEF SkipClaimed, Goto
<1>2. SeedTypeOK /\ tickets \in Seq(TicketRow) /\ mine # 0
  BY <1>1, MineFacts DEF Working
<1>3. MineStands'
  BY <1>1 DEF DatasetInv, MineStands, Working, Stands, Follows, Treated
<1>4. LeavesFinished /\ PassesNone
  BY <1>1 DEF LeavesFinished, PassesNone
<1> QED
  BY <1>1, <1>2, <1>3, <1>4, SameProceeds, OrderlyStep

LEMMA CompleteStep ==
  ASSUME DemoInv, DatasetInv, Complete, Grows
  PROVE  DatasetInv'
<1> DEFINE t == tickets[mine]
           r == [t EXCEPT !.processing = "COMPLETED", !.result = Result(t),
                          !.events = Append(t.events, "AUTO_PROCESSED")]
<1>1. pc = "complete" /\ pc' = "advance" /\ UNCHANGED <<plan, at, mine, crashes>>
  BY DEF Complete, Goto
<1>2. /\ SeedTypeOK /\ tickets \in Seq(TicketRow) /\ mine # 0 /\ mine \in DOMAIN tickets
      /\ t \in TicketRow /\ t.scenario = at /\ Stands(t, "OPEN") /\ Owned(mine, "seed")
  BY <1>1, MineFacts DEF Working, DatasetInv, MineStands
<1>3. t.processing = "PROCESSING" /\ tickets' = [tickets EXCEPT ![mine] = r]
  BY <1>2 DEF Complete, Completed, Owned
<1> HIDE DEF t
<1>4. Stays(r, t) /\ Treated(r) /\ r \in TicketRow
  BY <1>2, <1>3, CompleteStays, CompletedRow DEF Succeeds
<1> HIDE DEF r
<1>5. Proceeds /\ tickets'[mine] = r
  BY <1>2, <1>3, <1>4, RowProceeds DEF Stays, t
<1>6. r.scenario = at /\ Stands(r, "OPEN")
  BY <1>2, <1>4 DEF Stays, Keeps, TicketStatus
<1>7. MineStands'
  BY <1>1, <1>2, <1>4, <1>5, <1>6 DEF MineStands, Working, Stands, Follows, Treated
<1>8. LeavesFinished /\ PassesNone
  BY <1>1 DEF LeavesFinished, PassesNone
<1> QED
  BY <1>1, <1>2, <1>5, <1>7, <1>8, OrderlyStep

LEMMA StayOpenStep ==
  ASSUME DemoInv, DatasetInv, StayOpen
  PROVE  DatasetInv'
<1>1. pc = "advance" /\ Current.target = "OPEN" /\ Proceed /\ UNCHANGED <<tickets, plan>>
  BY DEF StayOpen
<1>2. /\ tickets \in Seq(TicketRow) /\ mine \in DOMAIN tickets
      /\ tickets[mine].scenario = at /\ Current = plan.scenarios[at]
  BY <1>1, MineFacts DEF Working
<1>3. Stands(tickets[mine], "OPEN") /\ Treated(tickets[mine])
  BY <1>1 DEF DatasetInv, MineStands
<1>4. LeavesFinished /\ \E i \in DOMAIN tickets' : tickets'[i].scenario = at
  BY <1>1, <1>2, <1>3 DEF LeavesFinished, Finished
<1> QED
  BY <1>1, <1>2, <1>4, SameProceeds, ProceedStep

\* update_status: what the script asks for is always permitted.
LEMMA MoveStep ==
  ASSUME DemoInv, DatasetInv, Grows, pc \in {"advance", "finish"}, NEW status \in TicketStatus,
         NEW next \in TicketStatus, NEW Then, UpdateStatus(next, Then),
         Stands(tickets[mine], status), Treated(tickets[mine]),
         next \in ALLOWED_TRANSITIONS[status], PathTo(next) = Append(PathTo(status), next)
  PROVE  /\ Proceeds /\ Then /\ UNCHANGED plan
         /\ mine \in DOMAIN tickets' /\ tickets'[mine].scenario = at
         /\ Stands(tickets'[mine], next) /\ Treated(tickets'[mine])
<1> DEFINE t == tickets[mine]
           r == [t EXCEPT !.status = next, !.events = Append(t.events, next)]
<1>1. /\ tickets \in Seq(TicketRow) /\ mine \in DOMAIN tickets
      /\ t \in TicketRow /\ t.scenario = at
  BY MineFacts DEF Working
<1>2. Permitted(mine, next)
  BY DEF Permitted, Stands
<1>3. tickets' = [tickets EXCEPT ![mine] = r] /\ Then /\ UNCHANGED plan
  BY <1>2 DEF UpdateStatus, MovedTo
<1>4. Stands(t, status) /\ Treated(t)
  OBVIOUS
<1> HIDE DEF t
<1>5. Keeps(r, t) /\ Stands(r, next) /\ Treated(r) /\ r \in TicketRow
  BY <1>1, <1>4, MoveStands, MovedRow DEF Succeeds
<1> HIDE DEF r
<1>6. Proceeds /\ tickets'[mine] = r /\ DOMAIN tickets' = DOMAIN tickets
  BY <1>1, <1>3, <1>5, RowProceeds DEF t
<1> QED
  BY <1>1, <1>3, <1>5, <1>6 DEF Keeps

LEMMA AdvanceStep ==
  ASSUME DemoInv, DatasetInv, Advance, Grows
  PROVE  DatasetInv'
<1> DEFINE Then == IF Current.target = "IN_PROGRESS" THEN Proceed ELSE Goto("finish")
<1>1. pc = "advance" /\ Current.target # "OPEN" /\ UpdateStatus("IN_PROGRESS", Then)
  BY DEF Advance
<1>2. /\ SeedTypeOK /\ mine # 0 /\ Current = plan.scenarios[at] /\ Current.target \in TicketStatus
  BY <1>1, MineFacts DEF Working
<1>3. Stands(tickets[mine], "OPEN") /\ Treated(tickets[mine])
  BY <1>1 DEF DatasetInv, MineStands
<1>4. /\ "OPEN" \in TicketStatus /\ "IN_PROGRESS" \in TicketStatus
      /\ "IN_PROGRESS" \in ALLOWED_TRANSITIONS["OPEN"]
      /\ PathTo("IN_PROGRESS") = Append(PathTo("OPEN"), "IN_PROGRESS")
  BY PathFacts DEF TicketStatus, ALLOWED_TRANSITIONS
<1> HIDE DEF Then
<1>5. /\ Proceeds /\ Then /\ UNCHANGED plan
      /\ mine \in DOMAIN tickets' /\ tickets'[mine].scenario = at
      /\ Stands(tickets'[mine], "IN_PROGRESS") /\ Treated(tickets'[mine])
  BY <1>1, <1>3, <1>4, MoveStep
<1>6. CASE Current.target = "IN_PROGRESS"
  <2>1. Proceed
    BY <1>5, <1>6 DEF Then
  <2>2. LeavesFinished
    BY <1>2, <1>5, <1>6 DEF LeavesFinished, Finished
  <2> QED
    BY <1>5, <2>1, <2>2, ProceedStep
<1>7. CASE Current.target # "IN_PROGRESS"
  <2>1. pc' = "finish" /\ UNCHANGED <<at, mine, crashes>>
    BY <1>5, <1>7 DEF Then, Goto
  <2>2. Current' = Current /\ Current.target \in {"RESOLVED", "CLOSED"}
    BY <1>1, <1>2, <1>5, <1>7, <2>1 DEF Current, TicketStatus
  <2>3. MineStands'
    BY <1>2, <1>5, <2>1, <2>2 DEF MineStands, Working, Stands, Follows, Treated
  <2>4. LeavesFinished /\ PassesNone
    BY <2>1 DEF LeavesFinished, PassesNone
  <2> QED
    BY <1>2, <1>5, <2>1, <2>3, <2>4, OrderlyStep
<1> QED
  BY <1>6, <1>7

LEMMA FinishStep ==
  ASSUME DemoInv, DatasetInv, Finish, Grows
  PROVE  DatasetInv'
<1> DEFINE target == Current.target
<1>1. pc = "finish" /\ UpdateStatus(target, Proceed)
  BY DEF Finish
<1>2. /\ Current = plan.scenarios[at] /\ target \in TicketStatus
  BY <1>1, MineFacts DEF Working
<1>3. /\ Stands(tickets[mine], "IN_PROGRESS") /\ Treated(tickets[mine])
      /\ target \in {"RESOLVED", "CLOSED"}
  BY <1>1 DEF DatasetInv, MineStands
<1>4. /\ "IN_PROGRESS" \in TicketStatus
      /\ target \in ALLOWED_TRANSITIONS["IN_PROGRESS"]
      /\ PathTo(target) = Append(PathTo("IN_PROGRESS"), target)
  BY <1>3, PathFacts DEF TicketStatus, ALLOWED_TRANSITIONS
<1> HIDE DEF target
<1>5. /\ Proceeds /\ Proceed /\ UNCHANGED plan
      /\ mine \in DOMAIN tickets' /\ tickets'[mine].scenario = at
      /\ Stands(tickets'[mine], target) /\ Treated(tickets'[mine])
  BY <1>1, <1>2, <1>3, <1>4, MoveStep
<1>6. LeavesFinished
  BY <1>2, <1>5 DEF LeavesFinished, Finished, target
<1> QED
  BY <1>5, <1>6, ProceedStep

LEMMA ReplayStep ==
  ASSUME DemoInv, DatasetInv, Replay
  PROVE  DatasetInv'
<1>1. pc = "replay" /\ pc' = "done" /\ mine' = 0 /\ UNCHANGED <<tickets, plan, crashes>>
  BY DEF Replay, Ends
<1>2. SeedTypeOK /\ tickets \in Seq(TicketRow) /\ mine = 0
  BY <1>1 DEF DemoInv, SeedTypeOK, DatasetInv, MineStands, Working
<1>3. MineStands' /\ LeavesFinished /\ PassesNone
  BY <1>1, <1>2 DEF MineStands, Working, LeavesFinished, PassesNone
<1> QED
  BY <1>1, <1>2, <1>3, SameProceeds, OrderlyStep

\* A crash leaves the ticket the script is at as it is.
LEMMA CrashStep ==
  ASSUME DemoInv, DatasetInv, Crash
  PROVE  DatasetInv'
<1>1. /\ pc' = "stopped" /\ at' = 1 /\ mine' = 0 /\ crashes' = crashes + 1
      /\ UNCHANGED <<tickets, plan>>
  BY DEF Crash, Ends
<1>2. /\ SeedTypeOK /\ tickets \in Seq(TicketRow) /\ DOMAIN plan.scenarios = 1..Len(plan.scenarios)
      /\ Len(plan.scenarios) \in Nat /\ crashes \in Nat
  BY PlanFacts DEF DemoInv, SeedTypeOK
<1>3. MineStands' /\ PastHaveTickets'
  BY <1>1, <1>2 DEF MineStands, PastHaveTickets, Working
<1>4. RowsFit'
  BY <1>1, <1>2, SameProceeds, RowsFitStep DEF DatasetInv
<1>5. CrashCostsOneScenario'
  <2>1. Unfinished' \in SUBSET (Unfinished \cup {mine})
    BY <1>1 DEF Unfinished, Finished, Stands, Follows, Treated
  <2>2. /\ IsFiniteSet(Unfinished) /\ Cardinality(Unfinished) \in Nat
        /\ Cardinality(Unfinished) <= crashes
    BY <1>2, UnfinishedFinite DEF DatasetInv, CrashCostsOneScenario
  <2>3. /\ IsFiniteSet(Unfinished \cup {mine})
        /\ Cardinality(Unfinished \cup {mine}) <= Cardinality(Unfinished) + 1
    BY <2>2, FS_AddElement
  <2>4. IsFiniteSet(Unfinished') /\ Cardinality(Unfinished') <= Cardinality(Unfinished \cup {mine})
    BY <2>1, <2>3, FS_Subset
  <2>5. Cardinality(Unfinished') \in Nat /\ Cardinality(Unfinished \cup {mine}) \in Nat
    BY <2>3, <2>4, FS_CardinalityType
  <2> QED
    BY <1>1, <1>2, <2>2, <2>3, <2>4, <2>5 DEF CrashCostsOneScenario
<1> QED
  BY <1>3, <1>4, <1>5 DEF DatasetInv

\* A worker does to a row what the script does, for a ticket of anybody.
LEMMA WorkerRow ==
  ASSUME DemoInv, DatasetInv, Grows, NEW i \in DOMAIN tickets, NEW r \in TicketRow,
         tickets' = [tickets EXCEPT ![i] = r], Stays(r, tickets[i]), Treated(r),
         ~ Owned(i, "seed"), UNCHANGED <<plan, pc, at, mine, crashes>>
  PROVE  DatasetInv'
<1>1. SeedTypeOK /\ tickets \in Seq(TicketRow)
  BY DEF DemoInv, SeedTypeOK
<1>2. /\ Proceeds /\ DOMAIN tickets' = DOMAIN tickets /\ tickets'[i] = r
      /\ \A j \in DOMAIN tickets : j # i => tickets'[j] = tickets[j]
  BY <1>1, RowProceeds DEF Stays
<1>3. MineStands'
  <2>1. CASE pc \notin Working
    BY <2>1 DEF DatasetInv, MineStands, Working
  <2>2. CASE pc \in Working /\ mine = i
    <3>1. r.scenario = at
      BY <2>2 DEF DatasetInv, MineStands, Stays, Keeps
    <3>2. \A status \in TicketStatus : Stands(tickets[i], status) => Stands(r, status)
      BY DEF Stays
    <3>3. "OPEN" \in TicketStatus /\ "IN_PROGRESS" \in TicketStatus
      BY DEF TicketStatus
    <3>4. pc # "complete"
      BY <2>2 DEF DatasetInv, MineStands
    <3> QED
      BY <1>2, <2>2, <3>1, <3>2, <3>3, <3>4
         DEF DatasetInv, MineStands, Working, Stands, Follows, Treated, Current
  <2>3. CASE pc \in Working /\ mine # i
    <3>1. mine \in DOMAIN tickets
      BY <2>3, MineFacts
    <3>2. tickets'[mine] = tickets[mine]
      BY <1>2, <2>3, <3>1
    <3> QED
      BY <2>3, <3>2 DEF DatasetInv, MineStands, Working, Stands, Follows, Treated, Current,
         Claimable, Owned
  <2> QED
    BY <2>1, <2>2, <2>3
<1>4. LeavesFinished /\ PassesNone
  BY DEF LeavesFinished, PassesNone
<1> QED
  BY <1>1, <1>2, <1>3, <1>4, OrderlyStep

LEMMA WorkerStep ==
  ASSUME DemoInv, DatasetInv, Grows, NEW i \in DOMAIN tickets,
         WorkerBegin(i) \/ WorkerComplete(i)
  PROVE  DatasetInv'
<1> DEFINE t == tickets[i]
           b == [t EXCEPT !.processing = "PROCESSING", !.owner = "worker"]
           c == [t EXCEPT !.processing = "COMPLETED", !.result = Result(t),
                          !.events = Append(t.events, "AUTO_PROCESSED")]
<1>1. UNCHANGED <<plan, pc, at, mine, crashes>>
  BY DEF WorkerBegin, WorkerComplete, script
<1>2. t \in TicketRow
  BY DEF DemoInv, SeedTypeOK
<1>3. CASE WorkerBegin(i)
  <2>1. /\ t.processing = "PENDING" /\ tickets' = [tickets EXCEPT ![i] = b]
        /\ ~ Owned(i, "seed")
    BY <1>3 DEF WorkerBegin, Claimable, Claimed, Owned
  <2> HIDE DEF t
  <2>2. Stays(b, t) /\ Treated(b) /\ b \in TicketRow
    BY <1>2, <2>1, ClaimStays, ClaimedRow DEF Succeeds
  <2> HIDE DEF b
  <2> QED
    BY <1>1, <2>1, <2>2, WorkerRow DEF t
<1>4. CASE WorkerComplete(i)
  <2>1. /\ t.processing = "PROCESSING" /\ tickets' = [tickets EXCEPT ![i] = c]
        /\ ~ Owned(i, "seed")
    BY <1>4 DEF WorkerComplete, Completed, Owned
  <2> HIDE DEF t
  <2>2. Stays(c, t) /\ Treated(c) /\ c \in TicketRow
    BY <1>2, <2>1, CompleteStays, CompletedRow DEF Succeeds
  <2> HIDE DEF c
  <2> QED
    BY <1>1, <2>1, <2>2, WorkerRow DEF t
<1> QED
  BY <1>3, <1>4

LEMMA ClientStep ==
  ASSUME DemoInv, DatasetInv, Grows, NEW c \in Clients, CommitCreation(c)
  PROVE  DatasetInv'
<1>1. PICK category \in NewCategories :
        tickets' = Append(tickets, NewTicket(0, "MEDIUM", category, FALSE, begun[c]))
  BY DEF CommitCreation
<1> DEFINE n == Len(tickets) + 1
           t == NewTicket(0, "MEDIUM", category, FALSE, begun[c])
<1>2. UNCHANGED <<plan, pc, at, mine, crashes>>
  BY DEF CommitCreation, script
<1>3. /\ SeedTypeOK /\ tickets \in Seq(TicketRow)
      /\ Len(tickets) \in Nat /\ DOMAIN tickets = 1..Len(tickets) /\ mine \in 0..Len(tickets)
  BY DEF DemoInv, SeedTypeOK
<1>4. t.scenario = 0 /\ t.processing = "PENDING" /\ tickets' = Append(tickets, t)
  BY <1>1 DEF NewTicket
<1> HIDE DEF t
<1>5. /\ n \in DOMAIN tickets' /\ tickets'[n] = t
      /\ DOMAIN tickets' \ DOMAIN tickets = {n}
      /\ \A i \in DOMAIN tickets : tickets'[i] = tickets[i]
  <2>1. Len(tickets') = n /\ DOMAIN tickets' = 1..n
    BY <1>3, <1>4 DEF Grows
  <2>2. tickets'[n] = t /\ \A i \in 1..Len(tickets) : tickets'[i] = tickets[i]
    BY <1>3, <1>4
  <2> QED
    BY <1>3, <2>1, <2>2
<1> HIDE DEF n
<1>6. Proceeds
  <2>1. RowFits(t)
    BY <1>4 DEF RowFits
  <2> QED
    BY <1>4, <1>5, <2>1, SameRow DEF Proceeds, Stays
<1>7. MineStands'
  <2>1. CASE pc \notin Working
    BY <1>2, <2>1 DEF DatasetInv, MineStands, Working
  <2>2. CASE pc \in Working
    <3>1. mine \in DOMAIN tickets /\ tickets'[mine] = tickets[mine]
      BY <1>5, <2>2, MineFacts
    <3> QED
      BY <1>2, <2>2, <3>1 DEF DatasetInv, MineStands, Working, Stands, Follows, Treated,
         Current, Claimable, Owned
  <2> QED
    BY <2>1, <2>2
<1>8. LeavesFinished /\ PassesNone
  BY <1>2 DEF LeavesFinished, PassesNone
<1> QED
  BY <1>2, <1>3, <1>6, <1>7, <1>8, OrderlyStep

\* Nothing else changes the rows or the script.
LEMMA OtherStep ==
  ASSUME DatasetInv, UNCHANGED <<tickets, plan, pc, at, mine, crashes>>
  PROVE  DatasetInv'
<1>1. MineStands'
  BY DEF DatasetInv, MineStands, Working, Stands, Follows, Treated, Current, Claimable, Owned
<1>2. RowsFit' /\ PastHaveTickets'
  BY DEF DatasetInv, RowsFit, RowFits, PastHaveTickets, Of
<1>3. CrashCostsOneScenario'
  BY DEF DatasetInv, CrashCostsOneScenario, Unfinished, Finished, Stands, Follows, Treated
<1> QED
  BY <1>1, <1>2, <1>3 DEF DatasetInv

LEMMA DatasetStep ==
  ASSUME DemoInv, DatasetInv, [Next]_vars
  PROVE  DatasetInv'
<1>1. Grows
  BY DemoStep
<1>2. CASE SeedNext
  BY <1>1, <1>2, RunStep, CreateStep, ReuseStep, BeginStep, SkipClaimedStep, CompleteStep,
     StayOpenStep, AdvanceStep, FinishStep, ReplayStep, CrashStep, WorkerStep
     DEF SeedNext, ScriptStep
<1>3. ASSUME NEW c \in Clients, CommitCreation(c)
      PROVE  DatasetInv'
  BY <1>1, <1>3, ClientStep
<1>4. ASSUME UNCHANGED <<tickets, plan, script>>
      PROVE  DatasetInv'
  BY <1>4, OtherStep DEF script
<1>5. CASE \/ \E c \in Clients : BeginCreation(c)
           \/ \E q \in Query : StartWalk(q)
           \/ ReadItems \/ ReadTotal \/ NextPage
           \/ \E i \in DOMAIN tickets : ReadTicket(i)
           \/ ReadEvents \/ EndRead \/ UNCHANGED vars
  BY <1>4, <1>5 DEF BeginCreation, StartWalk, ReadItems, ReadTotal, NextPage, ReadTicket,
     ReadEvents, EndRead, vars
<1> QED
  BY <1>2, <1>3, <1>5 DEF Next

LEMMA DatasetStart == Init => DatasetInv
<1> SUFFICES ASSUME Init PROVE DatasetInv
  OBVIOUS
<1>1. tickets = <<>> /\ DOMAIN tickets = {} /\ pc = "stopped" /\ at = 1 /\ mine = 0 /\ crashes = 0
  BY DEF Init, SeedInit
<1>2. DOMAIN plan.scenarios = 1..Len(plan.scenarios) /\ Len(plan.scenarios) \in Nat
  BY DemoInit, PlanFacts DEF DemoInv
<1>3. MineStands /\ RowsFit /\ PastHaveTickets
  BY <1>1, <1>2 DEF MineStands, Working, RowsFit, PastHaveTickets
<1>4. Unfinished = {}
  BY <1>1 DEF Unfinished
<1>5. CrashCostsOneScenario
  BY <1>1, <1>4, FS_EmptySet DEF CrashCostsOneScenario
<1> QED
  BY <1>3, <1>5 DEF DatasetInv

LEMMA DatasetInvariant == Spec => [](DemoInv /\ DatasetInv)
<1>1. DemoInv /\ DatasetInv /\ [Next]_vars => DatasetInv'
  BY DatasetStep
<1> QED
  BY <1>1, DatasetStart, DemoInvariant, PTL DEF Spec

(***************************************************************************)
(* A crash costs one scenario at most, whatever the scenarios, however     *)
(* many crashes and reruns, and whoever processes the tickets.             *)
(***************************************************************************)
THEOREM CrashesAreCheap == Spec => []CrashCostsOneScenario
<1>1. DatasetInv => CrashCostsOneScenario
  BY DEF DatasetInv
<1> QED
  BY <1>1, DatasetInvariant, PTL

-----------------------------------------------------------------------------
(***************************************************************************)
(* The dataset: of its scenarios, those that show what it covers.          *)
(***************************************************************************)
LEMMA ScenarioFacts ==
  /\ Len(SCENARIOS) = 20 /\ DOMAIN SCENARIOS = 1..20
  /\ SCENARIOS[1] = Scenario("ava", "LOW", "ACCOUNT", "OPEN", NoAgent, FALSE)
  /\ SCENARIOS[2] = Scenario("liam", "MEDIUM", "BILLING", "IN_PROGRESS", "alex", FALSE)
  /\ SCENARIOS[3] = Scenario("noah", "HIGH", "CARD", "RESOLVED", "blair", FALSE)
  /\ SCENARIOS[4] = Scenario("mia", "URGENT", "PAYMENT", "CLOSED", "casey", FALSE)
  /\ SCENARIOS[5] = Scenario("ava", "LOW", "TECHNICAL", "OPEN", NoAgent, FALSE)
  /\ SCENARIOS[6] = Scenario("omar", "MEDIUM", "OTHER", "IN_PROGRESS", "alex", FALSE)
  /\ SCENARIOS[19] = Scenario("jules", "URGENT", "PAYMENT", "RESOLVED", "blair", TRUE)
BY DEF SCENARIOS

\* Twenty scenarios, two of one customer: there are fewer customers.
LEMMA CustomersRepeat ==
  Cardinality({SCENARIOS[s].customer : s \in 1..20}) < 20
<1> DEFINE C == {SCENARIOS[s].customer : s \in 1..20}
           f == [s \in 2..20 |-> SCENARIOS[s].customer]
<1>1. SCENARIOS[1].customer = SCENARIOS[5].customer
  BY ScenarioFacts DEF Scenario
<1>2. \A c \in C : \E s \in 2..20 : SCENARIOS[s].customer = c
  <2> SUFFICES ASSUME NEW s \in 1..20
               PROVE  \E u \in 2..20 : SCENARIOS[u].customer = SCENARIOS[s].customer
    OBVIOUS
  <2>1. CASE s = 1
    BY <1>1, <2>1
  <2>2. CASE s # 1
    <3>1. s \in 2..20
      BY <2>2
    <3> QED
      BY <3>1
  <2> QED
    BY <2>1, <2>2
<1>3. f \in Surjection(2..20, C)
  BY <1>2 DEF Surjection
<1>4. IsFiniteSet(2..20) /\ Cardinality(2..20) = 19
  <2>1. 2 \in Int /\ 20 \in Int /\ ~ (2 > 20) /\ 20 - 2 + 1 = 19
    OBVIOUS
  <2> QED
    BY <2>1, FS_Interval, Zenon
<1> HIDE DEF f
<1>5. IsFiniteSet(C) /\ Cardinality(C) <= 19
  BY <1>3, <1>4, FS_Surjection
<1>6. Cardinality(C) \in Nat
  BY <1>5, FS_CardinalityType
<1> QED
  BY <1>5, <1>6

LEMMA SeveralAgents ==
  Cardinality({SCENARIOS[s].agent : s \in 1..20} \ {NoAgent}) > 1
<1> DEFINE A == {SCENARIOS[s].agent : s \in 1..20}
           f == [s \in 1..20 |-> SCENARIOS[s].agent]
<1>1. IsFiniteSet(A)
  <2>1. f \in Surjection(1..20, A)
    BY DEF Surjection
  <2>2. IsFiniteSet(1..20)
    <3>1. 1 \in Int /\ 20 \in Int
      OBVIOUS
    <3> QED
      BY <3>1, FS_Interval, Zenon
  <2> HIDE DEF f
  <2> QED
    BY <2>1, <2>2, FS_Surjection
<1>2. SCENARIOS[2].agent = "alex" /\ SCENARIOS[3].agent = "blair"
  BY ScenarioFacts DEF Scenario
<1>3. {"alex", "blair"} \in SUBSET (A \ {NoAgent})
  BY <1>2 DEF NoAgent
<1>4. Cardinality({"alex", "blair"}) = 2
  <2>1. IsFiniteSet({"alex"}) /\ Cardinality({"alex"}) = 1
    BY FS_Singleton
  <2>2. {"alex", "blair"} = {"alex"} \cup {"blair"}
    OBVIOUS
  <2> QED
    BY <2>1, <2>2, FS_AddElement
<1>5. IsFiniteSet(A \ {NoAgent})
  BY <1>1, FS_RemoveElement
<1> HIDE DEF A
<1>6. 2 <= Cardinality(A \ {NoAgent}) /\ Cardinality(A \ {NoAgent}) \in Nat
  BY <1>3, <1>4, <1>5, FS_Subset, FS_CardinalityType
<1> QED
  BY <1>6 DEF A

\* Without a crash every scenario has a ticket that is finished.
LEMMA FinishedTickets ==
  ASSUME DemoInv, DatasetInv, pc \in {"replay", "done"}, crashes = 0,
         NEW s \in DOMAIN plan.scenarios
  PROVE  \E i \in DOMAIN tickets :
           /\ tickets[i].scenario = s /\ RowFits(tickets[i])
           /\ tickets[i].status = plan.scenarios[s].target /\ Treated(tickets[i])
<1>1. PICK i \in DOMAIN tickets : tickets[i].scenario = s
  BY DEF DatasetInv, PastHaveTickets, Of
<1>2. SeedTypeOK /\ s # 0
  BY PlanFacts DEF DemoInv
<1>3. Unfinished = {}
  <2>1. IsFiniteSet(Unfinished) /\ Cardinality(Unfinished) \in Nat
    BY <1>2, UnfinishedFinite
  <2>2. Cardinality(Unfinished) = 0
    BY <2>1 DEF DatasetInv, CrashCostsOneScenario
  <2> QED
    BY <2>1, <2>2, FS_EmptySet
<1>4. mine = 0 /\ i # 0
  <2>1. DOMAIN tickets = 1..Len(tickets)
    BY <1>2 DEF SeedTypeOK
  <2> QED
    BY <2>1 DEF DatasetInv, MineStands, Working
<1>5. Finished(tickets[i])
  BY <1>1, <1>2, <1>3, <1>4 DEF Unfinished
<1> QED
  BY <1>1, <1>5 DEF Finished, Stands, DatasetInv, RowsFit

LEMMA DatasetCovers ==
  ASSUME DemoInv, DatasetInv, pc \in {"replay", "done"}, crashes = 0,
         plan.scenarios = SCENARIOS
  PROVE  Covers
<1> DEFINE rows == {tickets[i] : i \in DOMAIN tickets}
\* A ticket of the scenario, and what of it is seen in the end.
<1>1. ASSUME NEW s \in 1..20
      PROVE  \E t \in rows :
               /\ t.category = SCENARIOS[s].category /\ t.priority = SCENARIOS[s].priority
               /\ t.status = SCENARIOS[s].target /\ t.spamLike = SCENARIOS[s].spamLike
               /\ t.processing = "COMPLETED" => t.result = Result(t)
               /\ Treated(t)
  <2>1. s \in DOMAIN plan.scenarios /\ s # 0
    BY ScenarioFacts
  <2>2. PICK i \in DOMAIN tickets :
          /\ tickets[i].scenario = s /\ RowFits(tickets[i])
          /\ tickets[i].status = plan.scenarios[s].target /\ Treated(tickets[i])
    BY <2>1, FinishedTickets
  <2> QED
    BY <2>1, <2>2 DEF RowFits
<1>2. \A t \in rows : t \in TicketRow
  BY DEF DemoInv, SeedTypeOK
<1> HIDE DEF rows
<1>3. Categories = {t.category : t \in rows}
  <2>1. {t.category : t \in rows} \subseteq Categories
    BY <1>2 DEF TicketRow
  <2>2. \E t \in rows : t.category = "ACCOUNT"
    BY <1>1, ScenarioFacts DEF Scenario
  <2>3. \E t \in rows : t.category = "BILLING"
    BY <1>1, ScenarioFacts DEF Scenario
  <2>4. \E t \in rows : t.category = "CARD"
    BY <1>1, ScenarioFacts DEF Scenario
  <2>5. \E t \in rows : t.category = "PAYMENT"
    BY <1>1, ScenarioFacts DEF Scenario
  <2>6. \E t \in rows : t.category = "TECHNICAL"
    BY <1>1, ScenarioFacts DEF Scenario
  <2>7. \E t \in rows : t.category = "OTHER"
    BY <1>1, ScenarioFacts DEF Scenario
  <2> QED
    BY <2>1, <2>2, <2>3, <2>4, <2>5, <2>6, <2>7 DEF Categories
<1>4. Priorities = {t.priority : t \in rows}
  <2>1. {t.priority : t \in rows} \subseteq Priorities
    BY <1>2 DEF TicketRow
  <2>2. \E t \in rows : t.priority = "LOW"
    BY <1>1, ScenarioFacts DEF Scenario
  <2>3. \E t \in rows : t.priority = "MEDIUM"
    BY <1>1, ScenarioFacts DEF Scenario
  <2>4. \E t \in rows : t.priority = "HIGH"
    BY <1>1, ScenarioFacts DEF Scenario
  <2>5. \E t \in rows : t.priority = "URGENT"
    BY <1>1, ScenarioFacts DEF Scenario
  <2> QED
    BY <2>1, <2>2, <2>3, <2>4, <2>5 DEF Priorities
<1>5. TicketStatus = {t.status : t \in rows}
  <2>1. {t.status : t \in rows} \subseteq TicketStatus
    BY <1>2 DEF TicketRow
  <2>2. \E t \in rows : t.status = "OPEN"
    BY <1>1, ScenarioFacts DEF Scenario
  <2>3. \E t \in rows : t.status = "IN_PROGRESS"
    BY <1>1, ScenarioFacts DEF Scenario
  <2>4. \E t \in rows : t.status = "RESOLVED"
    BY <1>1, ScenarioFacts DEF Scenario
  <2>5. \E t \in rows : t.status = "CLOSED"
    BY <1>1, ScenarioFacts DEF Scenario
  <2> QED
    BY <2>1, <2>2, <2>3, <2>4, <2>5 DEF TicketStatus
<1>6. \E t \in rows : t.result.spam = 90 \/ (t.spamLike /\ t.owner = "worker")
  <2>1. PICK t \in rows : /\ t.spamLike = TRUE
                          /\ t.processing = "COMPLETED" => t.result = Result(t)
                          /\ Treated(t)
    BY <1>1, ScenarioFacts DEF Scenario
  <2>2. t.processing = "COMPLETED" => t.result.spam = 90
    BY <2>1 DEF Result
  <2> QED
    BY <2>1, <2>2 DEF Treated
<1> DEFINE used == {SCENARIOS[s] : s \in 1..20}
<1>7. /\ {s.customer : s \in used} = {SCENARIOS[s].customer : s \in 1..20}
      /\ {s.agent : s \in used} = {SCENARIOS[s].agent : s \in 1..20}
  OBVIOUS
<1>8. {plan.scenarios[s] : s \in DOMAIN plan.scenarios} = used /\ Len(plan.scenarios) = 20
  BY ScenarioFacts
<1> HIDE DEF used
<1> QED
  BY <1>3, <1>4, <1>5, <1>6, <1>7, <1>8, CustomersRepeat, SeveralAgents DEF Covers, rows

(***************************************************************************)
(* When the script confirms, every scenario has a ticket; and of the real  *)
(* dataset all that README.md says is there, unless a crash cost some.     *)
(***************************************************************************)
THEOREM DatasetIsComplete == Spec => []DatasetComplete
<1>1. DemoInv /\ DatasetInv => DatasetComplete
  BY DatasetCovers DEF DatasetInv, PastHaveTickets, DatasetComplete
<1> QED
  BY <1>1, DatasetInvariant, PTL
=============================================================================
