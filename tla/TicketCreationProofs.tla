------------------------ MODULE TicketCreationProofs ------------------------
(***************************************************************************)
(* Theorems about TicketCreation, for any clients, keys and payloads and   *)
(* any numbers of requests and errors.                                     *)
(***************************************************************************)
EXTENDS TicketCreation, TLAPS

USE DEF rows

-----------------------------------------------------------------------------
(***************************************************************************)
(* Types.                                                                  *)
(***************************************************************************)
LEMMA RequestFacts ==
  ASSUME TypeOK, NEW c \in Clients
  PROVE  /\ request[c] \in Request /\ request[c].payload \in Payloads
         /\ Key(c) \in Keys \cup {NoKey} /\ Email(c) \in Emails /\ Name(c) \in Names
         /\ HasKey(c) <=> Key(c) \in Keys
BY ConstantsAssumption DEF TypeOK, Request, Key, Email, Name, Emails, Names, HasKey

LEMMA ExistingFacts ==
  ASSUME TypeOK, NEW k, NEW i \in Existing(k)
  PROVE  i \in Nat /\ i \in DOMAIN tickets /\ tickets[i] \in Request /\ tickets[i].key = k
BY DEF Existing, TypeOK

LEMMA GotoType ==
  ASSUME TypeOK, NEW c \in Clients, NEW step \in Steps, Goto(c, step)
  PROVE  /\ pc' \in [Clients -> Steps]
         /\ UNCHANGED <<request, answer, sent>>
         /\ pc'[c] = step
         /\ \A d \in Clients \ {c} : pc'[d] = pc[d]
BY DEF Goto, TypeOK

LEMMA HoldType ==
  ASSUME TypeOK, NEW c \in Clients, NEW x \in Emails \cup Keys, Hold(c, x)
  PROVE  held' \in [Clients -> SUBSET (Emails \cup Keys)]
BY DEF Hold, TypeOK

LEMMA ReleaseType ==
  ASSUME TypeOK, NEW c \in Clients
  PROVE  Release(c) \in [Clients -> SUBSET (Emails \cup Keys)]
BY DEF Release, TypeOK

LEMMA WriteType ==
  ASSUME TypeOK, NEW c \in Clients, Write(c)
  PROVE  /\ tickets' \in Seq(Request)
         /\ customers' \in [Emails -> Names \cup {NoName}]
         /\ UNCHANGED agents
<1>1. tickets' \in Seq(Request)
  BY RequestFacts DEF Write, TypeOK
<1>2. customers' \in [Emails -> Names \cup {NoName}]
  BY RequestFacts DEF Write, TypeOK
<1> QED
  BY <1>1, <1>2 DEF Write

LEMMA ReplayAnswer ==
  ASSUME TypeOK, NEW c \in Clients, NEW i \in Existing(Key(c)), Replay(c, i)
  PROVE  \/ Matches(c, i) /\ Respond(c, 200, i)
         \/ ~ Matches(c, i) /\ Respond(c, 409, i)
BY DEF Replay

LEMMA TypeInit == Init => TypeOK
<1> SUFFICES ASSUME Init PROVE TypeOK
  OBVIOUS
<1>1. NoRequest \in Request
  BY ConstantsAssumption DEF NoRequest, Request
<1>2. NoAnswer \in [code : {0, 200, 201, 409, 503}, ticket : Nat]
  BY DEF NoAnswer
<1> QED
  BY <1>1, <1>2, ConstantsAssumption DEF Init, TypeOK, Steps

LEMMA IntegrityFailureType ==
  ASSUME TypeOK, NEW c \in Clients, IntegrityFailure(c)
  PROVE  TypeOK'
<1>1. /\ pc' \in [Clients -> Steps]
      /\ answer' \in [Clients -> [code : {0, 200, 201, 409, 503}, ticket : Nat]]
      /\ loaded' \in [Clients -> Names \cup {NoName}]
      /\ made' \in [Clients -> Nat]
      /\ UNCHANGED <<request, sent>>
  <2>1. CASE Recovers(c)
    BY <2>1, GotoType DEF IntegrityFailure, Steps, TypeOK
  <2>2. CASE ~ Recovers(c)
    <3>1. [code |-> 503, ticket |-> 0] \in [code : {0, 200, 201, 409, 503}, ticket : Nat]
      OBVIOUS
    <3>2. Respond(c, 503, 0)
      BY <2>2 DEF IntegrityFailure
    <3> QED
      BY <3>1, <3>2 DEF Respond, Steps, TypeOK
  <2> QED
    BY <2>1, <2>2
<1> QED
  BY <1>1, ReleaseType DEF IntegrityFailure, TypeOK

LEMMA DataFailureType ==
  ASSUME TypeOK, NEW c \in Clients, DataFailure(c)
  PROVE  TypeOK'
<1>1. [code |-> 503, ticket |-> 0] \in [code : {0, 200, 201, 409, 503}, ticket : Nat]
  OBVIOUS
<1> QED
  BY <1>1, ReleaseType DEF DataFailure, Respond, Steps, TypeOK

LEMMA HandleType ==
  ASSUME TypeOK, NEW c \in Clients, Handle(c)
  PROVE  TypeOK'
<1>1. CASE Lookup(c) \/ Recheck(c)
  <2>1. CASE Goto(c, "customer") /\ UNCHANGED <<rows, loaded, held, made, errors>>
    BY <2>1, GotoType DEF Steps, TypeOK
  <2>2. ASSUME NEW code \in {200, 409, 503}, NEW i \in Nat, Respond(c, code, i),
               UNCHANGED <<rows, held, errors>>
        PROVE  TypeOK'
    BY <2>2 DEF Respond, Steps, TypeOK
  <2>3. ASSUME NEW i \in Existing(Key(c)), Replay(c, i),
               UNCHANGED <<rows, held, errors>>
        PROVE  TypeOK'
    BY <2>2, <2>3, ReplayAnswer, ExistingFacts
  <2> QED
    BY <1>1, <2>1, <2>2, <2>3 DEF Lookup, Recheck
<1>2. CASE FindCustomer(c)
  <2>1. Goto(c, "insert") \/ Goto(c, "ticket") \/ Goto(c, "rename")
    BY <1>2 DEF FindCustomer
  <2>2. pc' \in [Clients -> Steps] /\ UNCHANGED <<request, answer, sent>>
    BY <2>1, GotoType DEF Steps
  <2>3. loaded' \in [Clients -> Names \cup {NoName}]
    BY <1>2, RequestFacts DEF FindCustomer, TypeOK
  <2> QED
    BY <1>2, <2>2, <2>3 DEF FindCustomer, TypeOK
<1>3. CASE InsertCustomer(c) \/ RenameCustomer(c)
  <2>1. pc' \in [Clients -> Steps] /\ UNCHANGED <<request, answer, sent>>
    BY <1>3, GotoType DEF InsertCustomer, RenameCustomer, Steps
  <2>2. held' \in [Clients -> SUBSET (Emails \cup Keys)]
    BY <1>3, HoldType, RequestFacts DEF InsertCustomer, RenameCustomer
  <2> QED
    BY <1>3, <2>1, <2>2 DEF InsertCustomer, RenameCustomer, TypeOK
<1>4. CASE CustomerConflict(c) \/ KeyConflict(c) \/ CustomerRefused(c) \/ TicketRefused(c)
  BY <1>4, IntegrityFailureType, DataFailureType
     DEF CustomerConflict, KeyConflict, CustomerRefused, TicketRefused
<1>5. CASE InsertTicket(c)
  <2>1. pc' \in [Clients -> Steps] /\ UNCHANGED <<request, answer, sent>>
    BY <1>5, GotoType DEF InsertTicket, Steps
  <2>2. held' \in [Clients -> SUBSET (Emails \cup Keys)]
    BY <1>5, HoldType, RequestFacts DEF InsertTicket, TypeOK
  <2> QED
    BY <1>5, <2>1, <2>2 DEF InsertTicket, TypeOK
<1>6. CASE Commit(c)
  <2>1. pc' \in [Clients -> Steps] /\ UNCHANGED <<request, answer, sent>>
    BY <1>6, GotoType DEF Commit, Steps
  <2>2. made' \in [Clients -> Nat]
    <3>1. Len(tickets) + 1 \in Nat
      BY DEF TypeOK
    <3> QED
      BY <1>6, <3>1 DEF Commit, TypeOK
  <2> QED
    BY <1>6, <2>1, <2>2, WriteType, ReleaseType DEF Commit, TypeOK
<1>7. CASE Dispatch(c)
  <2>1. made[c] \in Nat
    BY DEF TypeOK
  <2> QED
    BY <1>7, <2>1 DEF Dispatch, Respond, Steps, TypeOK
<1> QED
  BY <1>1, <1>2, <1>3, <1>4, <1>5, <1>6, <1>7 DEF Handle

LEMMA TypeStep ==
  ASSUME TypeOK, [Next]_vars
  PROVE  TypeOK'
<1>1. CASE UNCHANGED vars
  BY <1>1 DEF vars, TypeOK
<1>2. ASSUME NEW c \in Clients, NEW r \in Request, Send(c, r) PROVE TypeOK'
  <2>1. NoAnswer \in [code : {0, 200, 201, 409, 503}, ticket : Nat]
    BY DEF NoAnswer
  <2>2. sent' \in 0..MaxRequests
    BY <1>2, ConstantsAssumption DEF Send, TypeOK
  <2> QED
    BY <1>2, <2>1, <2>2 DEF Send, TypeOK, Steps
<1>3. ASSUME NEW c \in Clients, Handle(c) PROVE TypeOK'
  BY <1>3, HandleType
<1>4. ASSUME NEW c \in Clients, Error(c) PROVE TypeOK'
  <2>1. errors' \in 0..MaxErrors
    BY <1>4, ConstantsAssumption DEF Error, TypeOK
  <2>2. /\ tickets' \in Seq(Request) /\ customers' \in [Emails -> Names \cup {NoName}]
        /\ UNCHANGED agents
    BY <1>4, WriteType DEF Error, TypeOK
  <2> QED
    BY <1>4, <2>1, <2>2, ReleaseType DEF Error, Respond, Steps, TypeOK
<1>5. ASSUME NEW e \in Emails, NameAgent(e) PROVE TypeOK'
  <2>1. sent' \in 0..MaxRequests
    BY <1>5, ConstantsAssumption DEF NameAgent, TypeOK
  <2> QED
    BY <1>5, <2>1 DEF NameAgent, TypeOK
<1> QED
  BY <1>1, <1>2, <1>3, <1>4, <1>5, ConstantsAssumption DEF Next

(***************************************************************************)
(* Every state of ticket creation has its types: in particular no answer   *)
(* but the five codes is given.                                            *)
(***************************************************************************)
THEOREM TypeCorrect == Spec => []TypeOK
BY TypeInit, TypeStep, PTL DEF Spec

-----------------------------------------------------------------------------
(***************************************************************************)
(* One ticket per key.  Nothing orders the look-up of one request and the  *)
(* commit of another; what carries is the unique index, by which the       *)
(* request about to commit is the only one that holds its key.             *)
(***************************************************************************)
HeldOnce == \A c, d \in Clients : c # d => held[c] \cap held[d] = {}

\* Who commits next holds its key, and no ticket has that key yet.
KeyIsFree ==
  \A c \in Clients : pc[c] = "commit" /\ HasKey(c) =>
    Key(c) \in held[c] /\ Existing(Key(c)) = {}

\* Only requests with a key look for the ticket of their key.
KeyedSteps == \A c \in Clients : pc[c] \in {"lookup", "recheck"} => HasKey(c)

\* The ticket that a request committed is the one it will show.
MadeIsMine ==
  \A c \in Clients : pc[c] = "dispatch" =>
    made[c] \in DOMAIN tickets /\ tickets[made[c]] = request[c]

\* Every ticket that an answer shows exists.
ShownExists ==
  \A c \in Clients : answer[c].code \in {200, 201, 409} => answer[c].ticket \in DOMAIN tickets

KeyInv == HeldOnce /\ KeyIsFree /\ OneTicketPerKey
AnswerInv == KeyedSteps /\ MadeIsMine /\ ShownExists /\ AnswersFit

\* A commit adds one ticket after those there are.
LEMMA WriteEffect ==
  ASSUME TypeOK, NEW c \in Clients, Write(c)
  PROVE  /\ pc[c] = "commit"
         /\ Len(tickets) \in Nat /\ DOMAIN tickets = 1..Len(tickets)
         /\ DOMAIN tickets' = 1..(Len(tickets) + 1)
         /\ tickets'[Len(tickets) + 1] = request[c]
         /\ \A i \in DOMAIN tickets : tickets'[i] = tickets[i]
<1>1. tickets \in Seq(Request) /\ request[c] \in Request
  BY DEF TypeOK
<1>2. tickets' = Append(tickets, request[c]) /\ pc[c] = "commit"
  BY DEF Write
<1> QED
  BY <1>1, <1>2

\* A step of a request adds its own ticket or none.
LEMMA OneWriter ==
  ASSUME TypeOK, NEW c \in Clients, Handle(c) \/ Error(c)
  PROVE  UNCHANGED tickets \/ Write(c)
BY DEF Handle, Lookup, FindCustomer, CustomerRefused, InsertCustomer, CustomerConflict,
       RenameCustomer, TicketRefused, InsertTicket, KeyConflict, Recheck, Commit,
       Dispatch, Error, IntegrityFailure, DataFailure

\* Tickets stay.
LEMMA TicketsStay ==
  ASSUME TypeOK, NEW c \in Clients, Handle(c) \/ Error(c), NEW i \in DOMAIN tickets
  PROVE  i \in DOMAIN tickets' /\ tickets'[i] = tickets[i]
<1>1. CASE UNCHANGED tickets
  BY <1>1
<1>2. CASE Write(c)
  <2>1. i \in 1..(Len(tickets) + 1)
    BY <1>2, WriteEffect
  <2> QED
    BY <1>2, <2>1, WriteEffect
<1> QED
  BY <1>1, <1>2, OneWriter

\* What a step does to the locks, to the other requests, and to its own.
LEMMA HeldEffect ==
  ASSUME TypeOK, NEW c \in Clients, Handle(c) \/ Error(c)
  PROVE  /\ \A d \in Clients \ {c} : held'[d] = held[d]
         /\ \/ UNCHANGED held
            \/ held'[c] = {}
            \/ \E x : held'[c] = held[c] \cup {x} /\ ~ HeldByOther(c, x)
<1>1. \/ UNCHANGED held
      \/ held' = Release(c)
      \/ \E x : Hold(c, x)
  BY DEF Handle, Lookup, FindCustomer, CustomerRefused, InsertCustomer, CustomerConflict,
         RenameCustomer, TicketRefused, InsertTicket, KeyConflict, Recheck, Commit,
         Dispatch, Error, IntegrityFailure, DataFailure
<1>2. CASE UNCHANGED held
  BY <1>2
<1>3. CASE held' = Release(c)
  BY <1>3 DEF Release, TypeOK
<1>4. ASSUME NEW x, Hold(c, x)
      PROVE  /\ \A d \in Clients \ {c} : held'[d] = held[d]
             /\ held'[c] = held[c] \cup {x} /\ ~ HeldByOther(c, x)
  BY <1>4 DEF Hold, TypeOK
<1> QED
  BY <1>1, <1>2, <1>3, <1>4

LEMMA RequestEffect ==
  ASSUME TypeOK, NEW c \in Clients, Handle(c) \/ Error(c)
  PROVE  /\ UNCHANGED request
         /\ \A d \in Clients \ {c} :
              pc'[d] = pc[d] /\ answer'[d] = answer[d] /\ made'[d] = made[d]
<1>1. CASE \/ FindCustomer(c) \/ InsertCustomer(c) \/ RenameCustomer(c) \/ InsertTicket(c)
           \/ Commit(c)
  BY <1>1
     DEF FindCustomer, InsertCustomer, RenameCustomer, InsertTicket, Commit, Goto, TypeOK
<1>2. CASE Lookup(c) \/ Recheck(c) \/ Dispatch(c) \/ Error(c)
  BY <1>2 DEF Lookup, Recheck, Dispatch, Error, Replay, Respond, Goto, TypeOK
<1>3. CASE CustomerConflict(c) \/ KeyConflict(c)
  BY <1>3 DEF CustomerConflict, KeyConflict, IntegrityFailure, Respond, Goto, TypeOK
<1>4. CASE CustomerRefused(c) \/ TicketRefused(c)
  BY <1>4
     DEF CustomerRefused, TicketRefused, IntegrityFailure, DataFailure, Respond, Goto, TypeOK
<1> QED
  BY <1>1, <1>2, <1>3, <1>4 DEF Handle

\* Only InsertTicket gets a request to its commit, and only Commit past it.
LEMMA CommitSteps ==
  ASSUME TypeOK, NEW c \in Clients, Handle(c) \/ Error(c)
  PROVE  /\ pc'[c] = "commit" => InsertTicket(c)
         /\ pc'[c] = "dispatch" => Commit(c)
         /\ pc'[c] = "recheck" => HasKey(c)
         /\ pc'[c] # "lookup"
<1>1. CASE \/ InsertCustomer(c) \/ RenameCustomer(c) \/ InsertTicket(c) \/ Commit(c)
           \/ Lookup(c)
  BY <1>1
     DEF InsertCustomer, RenameCustomer, InsertTicket, Commit, Lookup, Replay, Respond,
         Goto, TypeOK
<1>2. CASE FindCustomer(c)
  <2>1. Goto(c, "insert") \/ Goto(c, "ticket") \/ Goto(c, "rename")
    BY <1>2 DEF FindCustomer
  <2> QED
    BY <2>1 DEF Goto, TypeOK
<1>3. CASE Recheck(c) \/ Dispatch(c) \/ Error(c)
  BY <1>3 DEF Recheck, Dispatch, Error, Replay, Respond, TypeOK
<1>4. CASE CustomerConflict(c) \/ KeyConflict(c)
  BY <1>4
     DEF CustomerConflict, KeyConflict, IntegrityFailure, Recovers, HasKey, Respond, Goto,
         TypeOK
<1>5. CASE CustomerRefused(c) \/ TicketRefused(c)
  BY <1>5
     DEF CustomerRefused, TicketRefused, IntegrityFailure, DataFailure, Recovers, HasKey,
         Respond, Goto, TypeOK
<1> QED
  BY <1>1, <1>2, <1>3, <1>4, <1>5 DEF Handle

\* The tickets of a key after a commit of c.
LEMMA ExistingAfterWrite ==
  ASSUME TypeOK, NEW c \in Clients, Write(c), NEW k
  PROVE  /\ Existing(k) \subseteq Existing(k)'
         /\ Existing(k)' \subseteq Existing(k) \cup {Len(tickets) + 1}
         /\ k # Key(c) => Existing(k)' = Existing(k)
BY WriteEffect DEF Existing, Key

LEMMA HandleKeepsKeys ==
  ASSUME TypeOK, KeyInv, NEW c \in Clients, Handle(c) \/ Error(c)
  PROVE  KeyInv'
<1> USE DEF KeyInv
<1>1. HeldOnce'
  <2> SUFFICES ASSUME NEW d \in Clients, NEW e \in Clients, d # e
               PROVE  held'[d] \cap held'[e] = {}
    BY DEF HeldOnce
  <2>1. \A x \in Clients \ {c} : held'[c] \cap held[x] = {}
    BY HeldEffect DEF HeldOnce, HeldByOther
  <2> QED
    BY <2>1, HeldEffect DEF HeldOnce
<1>2. KeyIsFree'
  <2> SUFFICES ASSUME NEW d \in Clients, NEW k, k = Key(d), pc'[d] = "commit", k # NoKey
               PROVE  k \in held'[d] /\ Existing(k)' = {}
    BY RequestEffect DEF KeyIsFree, HasKey, Key, Existing
  <2>1. CASE d # c
    <3>1. pc[d] = "commit" /\ held'[d] = held[d]
      BY <2>1, RequestEffect, HeldEffect
    <3>2. k \in held[d] /\ Existing(k) = {}
      BY <3>1 DEF KeyIsFree, HasKey
    <3>3. CASE UNCHANGED tickets
      BY <3>1, <3>2, <3>3 DEF Existing
    <3>4. CASE Write(c)
      <4>1. Key(c) # k
        BY <2>1, <3>2, <3>4 DEF Write, KeyIsFree, HasKey, HeldOnce
      <4> QED
        BY <3>1, <3>2, <3>4, <4>1, ExistingAfterWrite
    <3> QED
      BY <3>3, <3>4, OneWriter
  <2>2. CASE d = c
    <3>1. InsertTicket(c)
      BY <2>2, CommitSteps
    <3>2. Hold(c, k) /\ Existing(k) = {} /\ UNCHANGED tickets
      BY <2>2, <3>1 DEF InsertTicket, KeyTaken
    <3> QED
      BY <2>2, <3>2 DEF Hold, TypeOK, Existing
  <2> QED
    BY <2>1, <2>2
<1>3. OneTicketPerKey'
  <2>1. CASE UNCHANGED tickets
    BY <2>1 DEF OneTicketPerKey
  <2>2. CASE Write(c)
    <3>1. \A i \in DOMAIN tickets : HasKey(c) => tickets[i].key # Key(c)
      BY <2>2 DEF Write, KeyIsFree, Existing
    <3>2. \A i \in DOMAIN tickets : tickets'[i] = tickets[i]
      BY <2>2, WriteEffect
    <3>3. /\ DOMAIN tickets' = DOMAIN tickets \cup {Len(tickets) + 1}
          /\ tickets'[Len(tickets) + 1].key = Key(c)
      <4>1. Len(tickets) \in Nat /\ DOMAIN tickets = 1..Len(tickets)
        BY <2>2, WriteEffect
      <4>2. 1..(Len(tickets) + 1) = 1..Len(tickets) \cup {Len(tickets) + 1}
        BY <4>1
      <4> QED
        BY <2>2, <4>1, <4>2, WriteEffect DEF Key
    <3> QED
      BY <3>1, <3>2, <3>3 DEF OneTicketPerKey, HasKey
  <2> QED
    BY <2>1, <2>2, OneWriter
<1> QED
  BY <1>1, <1>2, <1>3

LEMMA KeyInit == Init => KeyInv
<1> SUFFICES ASSUME Init PROVE KeyInv
  OBVIOUS
<1>1. DOMAIN tickets = {}
  <2>1. DOMAIN <<>> = {}
    OBVIOUS
  <2> QED
    BY <2>1 DEF Init
<1> QED
  BY <1>1 DEF Init, KeyInv, HeldOnce, KeyIsFree, OneTicketPerKey

LEMMA KeyStep ==
  ASSUME TypeOK, KeyInv, [Next]_vars
  PROVE  KeyInv'
<1>1. CASE UNCHANGED vars
  BY <1>1
     DEF vars, KeyInv, HeldOnce, KeyIsFree, OneTicketPerKey, Existing, Key, HasKey
<1>2. ASSUME NEW c \in Clients, NEW r \in Request, Send(c, r) PROVE KeyInv'
  <2>1. \A d \in Clients : pc'[d] = "commit" => pc[d] = "commit" /\ request'[d] = request[d]
    BY <1>2 DEF Send, TypeOK
  <2> QED
    BY <1>2, <2>1
       DEF Send, KeyInv, HeldOnce, KeyIsFree, OneTicketPerKey, Existing, Key, HasKey
<1>3. ASSUME NEW c \in Clients, Handle(c) \/ Error(c) PROVE KeyInv'
  BY <1>3, HandleKeepsKeys
<1>4. ASSUME NEW e \in Emails, NameAgent(e) PROVE KeyInv'
  BY <1>4
     DEF NameAgent, KeyInv, HeldOnce, KeyIsFree, OneTicketPerKey, Existing, Key, HasKey
<1> QED
  BY <1>1, <1>2, <1>3, <1>4, ConstantsAssumption DEF Next

LEMMA KeyAlways == Spec => []KeyInv
BY TypeCorrect, KeyInit, KeyStep, PTL DEF Spec

(***************************************************************************)
(* However requests overlap, retry and lose their answers, a key stands    *)
(* for at most one ticket.                                                 *)
(***************************************************************************)
THEOREM KeysAreUnique == Spec => []OneTicketPerKey
<1>1. KeyInv => OneTicketPerKey
  BY DEF KeyInv
<1> QED
  BY <1>1, KeyAlways, PTL

-----------------------------------------------------------------------------
(***************************************************************************)
(* Answers.                                                                *)
(***************************************************************************)
\* The answer after a step shows a ticket from before it, and the right one.
AnswerFits(c) ==
  LET a == answer'[c] IN
  /\ a.ticket \in DOMAIN tickets
  /\ a.code \in {200, 201} => tickets[a.ticket] = request[c]
  /\ a.code = 409 => /\ tickets[a.ticket].key = Key(c)
                     /\ tickets[a.ticket].payload # request[c].payload

LEMMA ReplayFits ==
  ASSUME TypeOK, NEW c \in Clients, NEW i \in Existing(Key(c)), Replay(c, i)
  PROVE  AnswerFits(c)
<1>1. \/ Matches(c, i) /\ answer'[c] = [code |-> 200, ticket |-> i]
      \/ ~ Matches(c, i) /\ answer'[c] = [code |-> 409, ticket |-> i]
  BY ReplayAnswer DEF Respond, TypeOK
<1>2. /\ i \in DOMAIN tickets /\ tickets[i] \in Request /\ request[c] \in Request
      /\ tickets[i].key = Key(c)
  BY ExistingFacts DEF TypeOK
<1>3. Matches(c, i) => tickets[i] = request[c]
  BY <1>2 DEF Matches, Request, Key
<1> QED
  BY <1>1, <1>2, <1>3 DEF AnswerFits, Matches

\* A step keeps the answer of its request, fails, or gives one that fits.
LEMMA AnswerEffect ==
  ASSUME TypeOK, AnswerInv, NEW c \in Clients, Handle(c) \/ Error(c)
  PROVE  answer'[c] = answer[c] \/ answer'[c].code = 503 \/ AnswerFits(c)
<1>1. CASE Lookup(c) \/ Recheck(c)
  <2>1. \/ \E i \in Existing(Key(c)) : Replay(c, i)
        \/ Goto(c, "customer")
        \/ Respond(c, 503, 0)
    BY <1>1 DEF Lookup, Recheck
  <2>2. Respond(c, 503, 0) => answer'[c].code = 503
    BY DEF Respond, TypeOK
  <2> QED
    BY <2>1, <2>2, ReplayFits DEF Goto
<1>2. CASE Dispatch(c)
  <2>1. answer'[c] = [code |-> 201, ticket |-> made[c]]
    BY <1>2 DEF Dispatch, Respond, TypeOK
  <2>2. made[c] \in DOMAIN tickets /\ tickets[made[c]] = request[c]
    BY <1>2 DEF Dispatch, AnswerInv, MadeIsMine
  <2> QED
    BY <2>1, <2>2 DEF AnswerFits
<1>3. CASE Error(c)
  BY <1>3 DEF Error, Respond, TypeOK
<1>4. CASE CustomerConflict(c) \/ KeyConflict(c)
  BY <1>4 DEF CustomerConflict, KeyConflict, IntegrityFailure, Goto, Respond, TypeOK
<1>5. CASE CustomerRefused(c) \/ TicketRefused(c)
  BY <1>5
     DEF CustomerRefused, TicketRefused, IntegrityFailure, DataFailure, Goto, Respond, TypeOK
<1>6. CASE FindCustomer(c) \/ InsertCustomer(c) \/ RenameCustomer(c) \/ InsertTicket(c)
           \/ Commit(c)
  BY <1>6 DEF FindCustomer, InsertCustomer, RenameCustomer, InsertTicket, Commit, Goto
<1> QED
  BY <1>1, <1>2, <1>3, <1>4, <1>5, <1>6 DEF Handle

LEMMA HandleKeepsAnswers ==
  ASSUME TypeOK, AnswerInv, NEW c \in Clients, Handle(c) \/ Error(c)
  PROVE  AnswerInv'
<1> USE DEF AnswerInv
<1>1. KeyedSteps'
  BY RequestEffect, CommitSteps DEF KeyedSteps, HasKey, Key
<1>2. MadeIsMine'
  <2> SUFFICES ASSUME NEW d \in Clients, pc'[d] = "dispatch"
               PROVE  made'[d] \in DOMAIN tickets' /\ tickets'[made'[d]] = request[d]
    BY RequestEffect DEF MadeIsMine
  <2>1. CASE d # c
    BY <2>1, RequestEffect, TicketsStay DEF MadeIsMine
  <2>2. CASE d = c
    <3>1. Write(c) /\ made'[c] = Len(tickets) + 1
      BY <2>2, CommitSteps DEF Commit, TypeOK
    <3>2. Len(tickets) + 1 \in 1..(Len(tickets) + 1)
      BY <3>1, WriteEffect
    <3> QED
      BY <2>2, <3>1, <3>2, WriteEffect
  <2> QED
    BY <2>1, <2>2
<1>3. ASSUME NEW d \in Clients, answer'[d].code \in {200, 201, 409}
      PROVE  AnswerFits(d)
  <2>1. CASE answer'[d] = answer[d]
    BY <1>3, <2>1 DEF ShownExists, AnswersFit, AnswerFits
  <2>2. CASE answer'[d] # answer[d]
    BY <1>3, <2>2, RequestEffect, AnswerEffect
  <2> QED
    BY <2>1, <2>2
<1>4. ShownExists'
  BY <1>3, TicketsStay DEF ShownExists, AnswerFits
<1>5. AnswersFit'
  BY <1>3, TicketsStay, RequestEffect DEF AnswersFit, AnswerFits, Key
<1> QED
  BY <1>1, <1>2, <1>4, <1>5

LEMMA AnswerInit == Init => AnswerInv
BY DEF Init, AnswerInv, KeyedSteps, MadeIsMine, ShownExists, AnswersFit, NoAnswer

LEMMA AnswerStep ==
  ASSUME TypeOK, AnswerInv, [Next]_vars
  PROVE  AnswerInv'
<1>1. CASE UNCHANGED vars
  BY <1>1
     DEF vars, AnswerInv, KeyedSteps, MadeIsMine, ShownExists, AnswersFit, Key, HasKey
<1>2. ASSUME NEW c \in Clients, NEW r \in Request, Send(c, r) PROVE AnswerInv'
  <2>1. /\ pc'[c] = IF r.key = NoKey THEN "customer" ELSE "lookup"
        /\ request'[c] = r /\ answer'[c].code = 0
        /\ \A d \in Clients \ {c} :
             pc'[d] = pc[d] /\ request'[d] = request[d] /\ answer'[d] = answer[d]
        /\ UNCHANGED <<tickets, made>>
    BY <1>2 DEF Send, TypeOK, NoAnswer
  <2> QED
    BY <2>1 DEF AnswerInv, KeyedSteps, MadeIsMine, ShownExists, AnswersFit, Key, HasKey
<1>3. ASSUME NEW c \in Clients, Handle(c) \/ Error(c) PROVE AnswerInv'
  BY <1>3, HandleKeepsAnswers
<1>4. ASSUME NEW e \in Emails, NameAgent(e) PROVE AnswerInv'
  BY <1>4
     DEF NameAgent, AnswerInv, KeyedSteps, MadeIsMine, ShownExists, AnswersFit, Key, HasKey
<1> QED
  BY <1>1, <1>2, <1>3, <1>4, ConstantsAssumption DEF Next

LEMMA AnswerAlways == Spec => []AnswerInv
BY TypeCorrect, AnswerInit, AnswerStep, PTL DEF Spec

(***************************************************************************)
(* Whatever other requests do meanwhile, 201 and 200 show a ticket with    *)
(* the key and payload of the request, and 409 one with its key and a      *)
(* different payload.                                                      *)
(***************************************************************************)
THEOREM AnswersAreRight == Spec => []AnswersFit
<1>1. AnswerInv => AnswersFit
  BY DEF AnswerInv
<1> QED
  BY <1>1, AnswerAlways, PTL

-----------------------------------------------------------------------------
(***************************************************************************)
(* Races for a new customer.  An agent named before the customer keeps his *)
(* reference, so that it is taken for good once it is taken.               *)
(***************************************************************************)
Refused(c) == request[c].payload \in RefusedCustomers \cup RefusedTickets

\* Why a request looks for its key a second time, and may find no ticket.
RecheckInv ==
  \A c \in Clients : pc[c] = "recheck" =>
    \/ Existing(Key(c)) # {}
    \/ Refused(c)
    \/ loaded[c] = NoName /\ ReferenceTaken(c)

\* Only a request that found no customer makes one.
InsertsUnknown == \A c \in Clients : pc[c] = "insert" => loaded[c] = NoName

RaceInv == RecheckInv /\ InsertsUnknown

\* A customer, an agent or a ticket that is there stays there.
LEMMA RowsStay ==
  ASSUME TypeOK, NEW c \in Clients, Handle(c) \/ Error(c)
  PROVE  /\ \A e \in Emails : customers[e] # NoName => customers'[e] # NoName
         /\ \A k : Existing(k) # {} => Existing(k)' # {}
         /\ UNCHANGED agents
<1>1. CASE UNCHANGED rows
  BY <1>1 DEF Existing
<1>2. CASE Write(c)
  <2>1. \A e \in Emails : customers[e] # NoName => customers'[e] # NoName
    BY <1>2, RequestFacts, ConstantsAssumption DEF Write, TypeOK
  <2> QED
    BY <1>2, <2>1, ExistingAfterWrite DEF Write
<1>3. UNCHANGED rows \/ Write(c)
  BY DEF Handle, Lookup, FindCustomer, CustomerRefused, InsertCustomer, CustomerConflict,
         RenameCustomer, TicketRefused, InsertTicket, KeyConflict, Recheck, Commit,
         Dispatch, Error, IntegrityFailure, DataFailure
<1> QED
  BY <1>1, <1>2, <1>3

\* A request looks again only with its customer as it found him.
LEMMA LoadedStays ==
  ASSUME TypeOK, NEW c \in Clients, Handle(c) \/ Error(c)
  PROVE  /\ \A d \in Clients \ {c} : loaded'[d] = loaded[d]
         /\ pc'[c] = "insert" => loaded'[c] = NoName
         /\ pc'[c] = "recheck" => loaded'[c] = loaded[c] /\ pc[c] \in {"insert", "ticket"}
<1>1. CASE FindCustomer(c)
  <2>1. CASE customers[Email(c)] = NoName
    BY <1>1, <2>1 DEF FindCustomer, Goto, TypeOK
  <2>2. CASE customers[Email(c)] # NoName
    <3>1. Goto(c, "ticket") \/ Goto(c, "rename")
      BY <1>1, <2>2 DEF FindCustomer
    <3> QED
      BY <1>1, <3>1 DEF FindCustomer, Goto, TypeOK
  <2> QED
    BY <2>1, <2>2
<1>2. CASE InsertCustomer(c) \/ RenameCustomer(c) \/ InsertTicket(c) \/ Commit(c)
  BY <1>2 DEF InsertCustomer, RenameCustomer, InsertTicket, Commit, Goto, TypeOK
<1>3. CASE Lookup(c) \/ Recheck(c) \/ Dispatch(c) \/ Error(c)
  BY <1>3 DEF Lookup, Recheck, Dispatch, Error, Replay, Respond, Goto, TypeOK
<1>4. CASE CustomerConflict(c) \/ KeyConflict(c)
  BY <1>4 DEF CustomerConflict, KeyConflict, IntegrityFailure, Respond, Goto, TypeOK
<1>5. CASE CustomerRefused(c) \/ TicketRefused(c)
  BY <1>5
     DEF CustomerRefused, TicketRefused, IntegrityFailure, DataFailure, Respond, Goto, TypeOK
<1> QED
  BY <1>1, <1>2, <1>3, <1>4, <1>5 DEF Handle

\* What makes a request look again is what RecheckInv says.
LEMMA RecheckCause ==
  ASSUME TypeOK, RaceInv, NEW c \in Clients, Handle(c) \/ Error(c), pc'[c] = "recheck"
  PROVE  Existing(Key(c)) # {} \/ Refused(c) \/ (loaded[c] = NoName /\ ReferenceTaken(c))
<1>1. pc[c] \in {"insert", "ticket"}
  BY LoadedStays
<1>2. CASE CustomerConflict(c)
  BY <1>2 DEF CustomerConflict, RaceInv, InsertsUnknown
<1>3. CASE KeyConflict(c)
  BY <1>3 DEF KeyConflict, KeyTaken
<1>4. CASE CustomerRefused(c) \/ TicketRefused(c)
  BY <1>4 DEF CustomerRefused, TicketRefused, Refused
<1>5. CASE InsertCustomer(c) \/ InsertTicket(c)
  BY <1>5 DEF InsertCustomer, InsertTicket, Goto, TypeOK
<1>6. CASE Error(c)
  BY <1>6 DEF Error, Respond, TypeOK
<1>7. CASE \/ Lookup(c) \/ FindCustomer(c) \/ RenameCustomer(c) \/ Recheck(c) \/ Commit(c)
           \/ Dispatch(c)
  <2>1. pc[c] \notin {"insert", "ticket"}
    BY <1>7 DEF Lookup, FindCustomer, RenameCustomer, Recheck, Commit, Write, Dispatch
  <2> QED
    BY <1>1, <2>1
<1> QED
  BY <1>2, <1>3, <1>4, <1>5, <1>6, <1>7 DEF Handle

\* What explains that a request looks again goes on explaining it.
LEMMA CauseStays ==
  ASSUME TypeOK, NEW c \in Clients, Handle(c) \/ Error(c), NEW d \in Clients
  PROVE  /\ Refused(d)' = Refused(d)
         /\ Existing(Key(d)) # {} => (Existing(Key(d)) # {})'
         /\ ReferenceTaken(d) => ReferenceTaken(d)'
<1>1. request' = request /\ Email(d) \in Emails
  BY RequestEffect, RequestFacts
<1>2. PICK k : k = Key(d)
  OBVIOUS
<1>3. Existing(k) # {} => (Existing(Key(d)) # {})'
  BY <1>1, <1>2, RowsStay DEF Existing, Key
<1>4. ReferenceTaken(d) => ReferenceTaken(d)'
  BY <1>1, RowsStay DEF ReferenceTaken, Email
<1> QED
  BY <1>1, <1>2, <1>3, <1>4 DEF Refused

LEMMA HandleKeepsRaces ==
  ASSUME TypeOK, RaceInv, NEW c \in Clients, Handle(c) \/ Error(c)
  PROVE  RaceInv'
<1>1. InsertsUnknown'
  BY LoadedStays, RequestEffect DEF RaceInv, InsertsUnknown
<1>2. ASSUME NEW d \in Clients, pc'[d] = "recheck"
      PROVE  \/ (Existing(Key(d)) # {})'
             \/ Refused(d)'
             \/ loaded'[d] = NoName /\ ReferenceTaken(d)'
  <2>1. loaded'[d] = loaded[d]
    BY <1>2, LoadedStays
  <2>2. \/ Existing(Key(d)) # {}
        \/ Refused(d)
        \/ loaded[d] = NoName /\ ReferenceTaken(d)
    <3>1. CASE d = c
      BY <1>2, <3>1, RecheckCause
    <3>2. CASE d # c
      BY <1>2, <3>2, RequestEffect DEF RaceInv, RecheckInv
    <3> QED
      BY <3>1, <3>2
  <2> QED
    BY <2>1, <2>2, CauseStays
<1>3. RecheckInv'
  BY <1>2 DEF RecheckInv
<1> QED
  BY <1>1, <1>3 DEF RaceInv

LEMMA RaceInit == Init => RaceInv
BY DEF Init, RaceInv, RecheckInv, InsertsUnknown

LEMMA RaceStep ==
  ASSUME TypeOK, RaceInv, [Next]_vars
  PROVE  RaceInv'
<1> USE DEF RaceInv, RecheckInv, InsertsUnknown, Existing, Key, Email, Refused,
            ReferenceTaken
<1>1. CASE UNCHANGED vars
  BY <1>1 DEF vars
<1>2. ASSUME NEW c \in Clients, NEW r \in Request, Send(c, r) PROVE RaceInv'
  <2>1. /\ pc'[c] \notin {"recheck", "insert"}
        /\ \A d \in Clients \ {c} : pc'[d] = pc[d] /\ request'[d] = request[d]
        /\ UNCHANGED <<rows, loaded>>
    BY <1>2 DEF Send, TypeOK
  <2> QED
    BY <2>1
<1>3. ASSUME NEW c \in Clients, Handle(c) \/ Error(c) PROVE RaceInv'
  BY <1>3, HandleKeepsRaces
<1>4. ASSUME NEW e \in Emails, NameAgent(e) PROVE RaceInv'
  BY <1>4 DEF NameAgent
<1> QED
  BY <1>1, <1>2, <1>3, <1>4, ConstantsAssumption DEF Next

LEMMA RaceAlways == Spec => []RaceInv
BY TypeCorrect, RaceInit, RaceStep, PTL DEF Spec

LEMMA HandleFailsForCause ==
  ASSUME TypeOK, AnswerInv, RaceInv, NEW c \in Clients, Handle(c) \/ Error(c), Fails(c)
  PROVE  FailsForCause(c)
<1>1. CASE Error(c)
  BY <1>1, ConstantsAssumption DEF Error, FailsForCause, TypeOK
<1>2. CASE CustomerConflict(c)
  BY <1>2 DEF CustomerConflict, FailsForCause, RaceInv, InsertsUnknown
<1>3. CASE CustomerRefused(c) \/ TicketRefused(c)
  BY <1>3 DEF CustomerRefused, TicketRefused, FailsForCause
<1>4. CASE KeyConflict(c)
  <2>1. Goto(c, "recheck")
    BY <1>4 DEF KeyConflict, KeyTaken, IntegrityFailure, Recovers
  <2> QED
    BY <2>1 DEF Goto, Fails, TypeOK
<1>5. CASE Lookup(c) \/ Recheck(c)
  <2>1. \/ \E i \in Existing(Key(c)) : Replay(c, i)
        \/ Goto(c, "customer")
        \/ pc[c] = "recheck" /\ Existing(Key(c)) = {}
    BY <1>5 DEF Lookup, Recheck
  <2>2. ASSUME NEW i \in Existing(Key(c)), Replay(c, i) PROVE ~ Fails(c)
    BY <2>2, ReplayAnswer DEF Respond, Fails, TypeOK
  <2>3. Goto(c, "customer") => ~ Fails(c)
    BY DEF Goto, Fails, TypeOK
  <2>4. pc[c] = "recheck" /\ Existing(Key(c)) = {} => FailsForCause(c)
    BY DEF RaceInv, RecheckInv, Refused, FailsForCause
  <2> QED
    BY <2>1, <2>2, <2>3, <2>4
<1>6. CASE Dispatch(c)
  BY <1>6 DEF Dispatch, Respond, Fails, TypeOK
<1>7. CASE FindCustomer(c) \/ InsertCustomer(c) \/ RenameCustomer(c) \/ InsertTicket(c)
           \/ Commit(c)
  <2>1. \/ Goto(c, "insert") \/ Goto(c, "ticket") \/ Goto(c, "rename")
        \/ Goto(c, "commit") \/ Goto(c, "dispatch")
    BY <1>7 DEF FindCustomer, InsertCustomer, RenameCustomer, InsertTicket, Commit
  <2> QED
    BY <2>1 DEF Goto, Fails, TypeOK
<1> QED
  BY <1>1, <1>2, <1>3, <1>4, <1>5, <1>6, <1>7 DEF Handle

LEMMA StepFailsForCause ==
  ASSUME TypeOK, AnswerInv, RaceInv, [Next]_vars, NEW c \in Clients, Fails(c)
  PROVE  FailsForCause(c)
<1>1. CASE UNCHANGED vars
  BY <1>1 DEF vars, Fails
<1>2. ASSUME NEW d \in Clients, NEW r \in Request, Send(d, r) PROVE ~ Fails(c)
  BY <1>2 DEF Send, Fails, TypeOK
<1>3. ASSUME NEW d \in Clients, Handle(d) \/ Error(d) PROVE FailsForCause(c)
  <2>1. CASE d # c
    BY <1>3, <2>1, RequestEffect DEF Fails
  <2> QED
    BY <1>3, <2>1, HandleFailsForCause
<1>4. ASSUME NEW e \in Emails, NameAgent(e) PROVE ~ Fails(c)
  BY <1>4 DEF NameAgent, Fails
<1> QED
  BY <1>1, <1>2, <1>3, <1>4, ConstantsAssumption DEF Next

(***************************************************************************)
(* While the database is healthy and takes the payload, 503 is the answer  *)
(* only to a request that found no customer and met the taken reference of *)
(* one: whoever finds his customer is not answered 503, whatever races     *)
(* with him for the customer, his name or the key.                         *)
(***************************************************************************)
THEOREM LosersMayTryAgain == Spec => RacesPass
<1>1. ASSUME TypeOK, AnswerInv, RaceInv, [Next]_vars
      PROVE  [\A c \in Clients : Fails(c) => FailsForCause(c)]_vars
  BY <1>1, StepFailsForCause
<1> QED
  BY <1>1, TypeCorrect, AnswerAlways, RaceAlways, PTL DEF Spec, RacesPass

-----------------------------------------------------------------------------
(***************************************************************************)
(* Names.  A request that found its customer's name may leave it as it is, *)
(* so the invariant needs that a row which was loaded is still there.      *)
(***************************************************************************)
NameFits(e) ==
  \/ customers[e] = NoName /\ \A i \in DOMAIN tickets : EmailOf[tickets[i].payload] # e
  \/ \E i \in DOMAIN tickets :
       EmailOf[tickets[i].payload] = e /\ customers[e] = NameOf[tickets[i].payload]

NamesFit == \A e \in Emails : NameFits(e)

LoadedIsThere ==
  \A c \in Clients : loaded[c] # NoName => pc[c] # "idle" /\ customers[Email(c)] # NoName

NameInv == NamesFit /\ LoadedIsThere

LEMMA LoadedEffect ==
  ASSUME TypeOK, NEW c \in Clients, Handle(c) \/ Error(c)
  PROVE  /\ \A d \in Clients \ {c} : loaded'[d] = loaded[d]
         /\ \/ loaded'[c] = NoName
            \/ pc'[c] # "idle" /\ loaded'[c] \in {loaded[c], customers[Email(c)]}
<1>1. CASE FindCustomer(c)
  <2>1. Goto(c, "insert") \/ Goto(c, "ticket") \/ Goto(c, "rename")
    BY <1>1 DEF FindCustomer
  <2> QED
    BY <1>1, <2>1 DEF FindCustomer, Goto, TypeOK
<1>2. CASE InsertCustomer(c) \/ RenameCustomer(c) \/ InsertTicket(c) \/ Commit(c)
  BY <1>2 DEF InsertCustomer, RenameCustomer, InsertTicket, Commit, Goto, TypeOK
<1>3. CASE Lookup(c) \/ Recheck(c) \/ Dispatch(c) \/ Error(c)
  BY <1>3 DEF Lookup, Recheck, Dispatch, Error, Replay, Respond, Goto, TypeOK
<1>4. CASE CustomerConflict(c) \/ KeyConflict(c)
  BY <1>4 DEF CustomerConflict, KeyConflict, IntegrityFailure, Respond, Goto, TypeOK
<1>5. CASE CustomerRefused(c) \/ TicketRefused(c)
  BY <1>5
     DEF CustomerRefused, TicketRefused, IntegrityFailure, DataFailure, Respond, Goto, TypeOK
<1> QED
  BY <1>1, <1>2, <1>3, <1>4, <1>5 DEF Handle

LEMMA WriteKeepsNames ==
  ASSUME TypeOK, NameInv, NEW c \in Clients, Handle(c) \/ Error(c), Write(c)
  PROVE  NamesFit'
<1> SUFFICES ASSUME NEW e \in Emails PROVE NameFits(e)'
  BY DEF NamesFit
<1>1. \A i \in DOMAIN tickets : i \in DOMAIN tickets' /\ tickets'[i] = tickets[i]
  BY TicketsStay
<1>2. NameFits(e)
  BY DEF NameInv, NamesFit
<1>3. CASE e # Email(c)
  <2>1. customers'[e] = customers[e]
    BY <1>3 DEF Write, TypeOK
  <2>2. \A i \in DOMAIN tickets' \ DOMAIN tickets : EmailOf[tickets'[i].payload] # e
    BY <1>3, WriteEffect DEF Email
  <2> QED
    BY <1>1, <1>2, <2>1, <2>2 DEF NameFits
<1>4. CASE e = Email(c) /\ loaded[c] = Name(c)
  <2>1. customers' = customers
    BY <1>4 DEF Write
  <2>2. loaded[c] # NoName
    BY <1>4, RequestFacts, ConstantsAssumption
  <2>3. customers[e] # NoName
    BY <1>4, <2>2 DEF NameInv, LoadedIsThere
  <2> QED
    BY <1>1, <1>2, <2>1, <2>3 DEF NameFits
<1>5. CASE e = Email(c) /\ loaded[c] # Name(c)
  <2>1. customers'[e] = Name(c)
    BY <1>5 DEF Write, TypeOK
  <2>2. /\ Len(tickets) + 1 \in DOMAIN tickets'
        /\ tickets'[Len(tickets) + 1] = request[c]
    BY WriteEffect
  <2> QED
    BY <1>5, <2>1, <2>2 DEF NameFits, Name, Email
<1> QED
  BY <1>3, <1>4, <1>5

LEMMA HandleKeepsNames ==
  ASSUME TypeOK, NameInv, NEW c \in Clients, Handle(c) \/ Error(c)
  PROVE  NameInv'
<1>1. UNCHANGED rows \/ Write(c)
  BY DEF Handle, Lookup, FindCustomer, CustomerRefused, InsertCustomer, CustomerConflict,
         RenameCustomer, TicketRefused, InsertTicket, KeyConflict, Recheck, Commit,
         Dispatch, Error, IntegrityFailure, DataFailure
<1>2. NamesFit'
  <2>1. CASE UNCHANGED rows
    BY <2>1 DEF NameInv, NamesFit, NameFits
  <2> QED
    BY <1>1, <2>1, WriteKeepsNames
<1>3. LoadedIsThere'
  <2> SUFFICES ASSUME NEW d \in Clients, loaded'[d] # NoName
               PROVE  pc'[d] # "idle" /\ customers'[Email(d)] # NoName
    BY RequestEffect DEF LoadedIsThere, Email
  <2>1. Email(d) \in Emails
    BY RequestFacts
  <2>2. pc'[d] # "idle" /\ customers[Email(d)] # NoName
    BY LoadedEffect, RequestEffect DEF NameInv, LoadedIsThere
  <2> QED
    BY <2>1, <2>2, RowsStay
<1> QED
  BY <1>2, <1>3 DEF NameInv

LEMMA NameInit == Init => NameInv
<1> SUFFICES ASSUME Init PROVE NameInv
  OBVIOUS
<1>1. DOMAIN tickets = {}
  BY DEF Init
<1> QED
  BY <1>1 DEF Init, NameInv, NamesFit, NameFits, LoadedIsThere

LEMMA NameStep ==
  ASSUME TypeOK, NameInv, [Next]_vars
  PROVE  NameInv'
<1>1. CASE UNCHANGED vars
  BY <1>1 DEF vars, NameInv, NamesFit, NameFits, LoadedIsThere, Email
<1>2. ASSUME NEW c \in Clients, NEW r \in Request, Send(c, r) PROVE NameInv'
  <2>1. /\ \A d \in Clients \ {c} : pc'[d] = pc[d] /\ request'[d] = request[d]
        /\ loaded[c] = NoName
        /\ UNCHANGED <<rows, loaded>>
    BY <1>2 DEF Send, TypeOK, NameInv, LoadedIsThere
  <2> QED
    BY <2>1 DEF NameInv, NamesFit, NameFits, LoadedIsThere, Email
<1>3. ASSUME NEW c \in Clients, Handle(c) \/ Error(c) PROVE NameInv'
  BY <1>3, HandleKeepsNames
<1>4. ASSUME NEW e \in Emails, NameAgent(e) PROVE NameInv'
  BY <1>4 DEF NameAgent, NameInv, NamesFit, NameFits, LoadedIsThere, Email
<1> QED
  BY <1>1, <1>2, <1>3, <1>4, ConstantsAssumption DEF Next

LEMMA NameAlways == Spec => []NameInv
BY TypeCorrect, NameInit, NameStep, PTL DEF Spec

(***************************************************************************)
(* A customer is there exactly from his first ticket on, and always has    *)
(* the name of one of his tickets, however many requests rename him.       *)
(***************************************************************************)
THEOREM NamesAreSent == Spec => []NameIsOfATicket
<1>1. NameInv => NameIsOfATicket
  <2> SUFFICES ASSUME NamesFit, NEW e \in Emails
               PROVE  LET names == {NameOf[tickets[i].payload] :
                                      i \in {j \in DOMAIN tickets :
                                               EmailOf[tickets[j].payload] = e}}
                      IN customers[e] \in (IF names = {} THEN {NoName} ELSE names)
    BY DEF NameInv, NameIsOfATicket
  <2>1. NameFits(e)
    BY DEF NamesFit
  <2> QED
    BY <2>1 DEF NameFits
<1> QED
  BY <1>1, NameAlways, PTL

-----------------------------------------------------------------------------
(***************************************************************************)
(* The promise.  Steps of a request without a key map to stutters; of one  *)
(* with a key, the commit maps to Bind and each answer to Settle.          *)
(***************************************************************************)
\* The variables of IdempotentCreation, as KeepsPromise maps them.
BoundTo(k) == IF Existing(k) = {} THEN NoKey
              ELSE tickets[CHOOSE i \in Existing(k) : TRUE].payload
AskedBy(c) == IF pc[c] # "idle" /\ HasKey(c) THEN request[c] ELSE NoKey
MadeBy(c) == pc[c] = "dispatch" /\ HasKey(c)
CodeOf(c) == IF HasKey(c) THEN answer[c].code ELSE 0

Bound == [k \in Keys |-> BoundTo(k)]
Asked == [c \in Clients |-> AskedBy(c)]
Made == [c \in Clients |-> MadeBy(c)]
Code == [c \in Clients |-> CodeOf(c)]

\* A key with a ticket is bound to the payload of that ticket.
LEMMA BoundToTicket ==
  ASSUME OneTicketPerKey, NEW k \in Keys, NEW i \in Existing(k)
  PROVE  BoundTo(k) = tickets[i].payload
<1>1. (CHOOSE j \in Existing(k) : TRUE) \in Existing(k)
  OBVIOUS
<1>2. (CHOOSE j \in Existing(k) : TRUE) = i
  BY <1>1, ConstantsAssumption DEF OneTicketPerKey, Existing
<1> QED
  BY <1>2 DEF BoundTo

\* What a commit does to the bindings.
LEMMA BoundGrows ==
  ASSUME TypeOK, KeyInv, KeyInv', NEW c \in Clients, Write(c), HasKey(c)
  PROVE  /\ Bound[Key(c)] = NoKey
         /\ Bound' = [Bound EXCEPT ![Key(c)] = request[c].payload]
<1>1. Key(c) \in Keys /\ Existing(Key(c)) = {}
  BY WriteEffect, RequestFacts DEF KeyInv, KeyIsFree
<1>2. Bound[Key(c)] = NoKey
  BY <1>1 DEF Bound, BoundTo
<1>3. \A k \in Keys : k # Key(c) => BoundTo(k)' = BoundTo(k)
  <2> TAKE k \in Keys
  <2> SUFFICES ASSUME k # Key(c) PROVE BoundTo(k)' = BoundTo(k)
    OBVIOUS
  <2>1. Existing(k)' = Existing(k)
    BY ExistingAfterWrite
  <2>2. CASE Existing(k) = {}
    BY <2>1, <2>2 DEF BoundTo
  <2>3. CASE Existing(k) # {}
    <3>1. (CHOOSE i \in Existing(k) : TRUE) \in DOMAIN tickets
      BY <2>3 DEF Existing
    <3> QED
      BY <2>1, <2>3, <3>1, WriteEffect DEF BoundTo
  <2> QED
    BY <2>2, <2>3
<1>4. ASSUME NEW k \in Keys, k = Key(c) PROVE BoundTo(k)' = request[c].payload
  <2>1. Len(tickets) + 1 \in Existing(k)' /\ tickets'[Len(tickets) + 1] = request[c]
    BY <1>4, WriteEffect DEF Existing, Key
  <2>2. Existing(k)' = {Len(tickets) + 1}
    BY <1>1, <1>4, <2>1, ExistingAfterWrite
  <2>3. (CHOOSE i \in Existing(k)' : TRUE) = Len(tickets) + 1
    BY <2>2
  <2> QED
    BY <2>1, <2>2, <2>3 DEF BoundTo
<1>5. PICK k \in Keys : k = Key(c)
  BY <1>1
<1>6. Bound' = [Bound EXCEPT ![k] = request[c].payload]
  BY <1>3, <1>4, <1>5 DEF Bound
<1> QED
  BY <1>2, <1>5, <1>6

\* A commit without a key, or no commit, leaves the bindings alone.
LEMMA BoundStays ==
  ASSUME TypeOK, NEW c \in Clients,
         UNCHANGED tickets \/ (Write(c) /\ ~ HasKey(c))
  PROVE  Bound' = Bound
<1>1. CASE UNCHANGED tickets
  BY <1>1 DEF Bound, BoundTo, Existing
<1>2. CASE Write(c) /\ ~ HasKey(c)
  <2> SUFFICES ASSUME NEW k \in Keys PROVE BoundTo(k)' = BoundTo(k)
    BY DEF Bound
  <2>1. Existing(k)' = Existing(k)
    BY <1>2, ExistingAfterWrite, ConstantsAssumption DEF HasKey
  <2>2. CASE Existing(k) = {}
    BY <2>1, <2>2 DEF BoundTo
  <2>3. CASE Existing(k) # {}
    <3>1. (CHOOSE i \in Existing(k) : TRUE) \in DOMAIN tickets
      BY <2>3 DEF Existing
    <3> QED
      BY <1>2, <2>1, <2>3, <3>1, WriteEffect DEF BoundTo
  <2> QED
    BY <2>2, <2>3
<1> QED
  BY <1>1, <1>2

\* Only the client whose request moves sees a change.
LEMMA OthersSeeNothing ==
  ASSUME TypeOK, NEW c \in Clients, Handle(c) \/ Error(c)
  PROVE  /\ Asked' = [Asked EXCEPT ![c] = AskedBy(c)']
         /\ Made' = [Made EXCEPT ![c] = MadeBy(c)']
         /\ Code' = [Code EXCEPT ![c] = CodeOf(c)']
<1>1. \A d \in Clients \ {c} :
        /\ AskedBy(d)' = AskedBy(d)
        /\ MadeBy(d)' = MadeBy(d)
        /\ CodeOf(d)' = CodeOf(d)
  BY RequestEffect DEF AskedBy, MadeBy, CodeOf, HasKey, Key
<1> QED
  BY <1>1 DEF Asked, Made, Code

LEMMA Stutters ==
  ASSUME Bound' = Bound, Asked' = Asked, Made' = Made, Code' = Code
  PROVE  UNCHANGED Promise!vars
BY DEF Promise!vars, Bound, BoundTo, Asked, AskedBy, Made, MadeBy, Code, CodeOf

\* A request with a key ends.
LEMMA Settles ==
  ASSUME TypeOK, NEW c \in Clients, Handle(c) \/ Error(c), HasKey(c), pc[c] # "idle",
         pc'[c] = "idle"
  PROVE  /\ Asked[c] = request[c] /\ Asked[c] # NoKey
         /\ Asked' = [Asked EXCEPT ![c] = NoKey]
         /\ Made' = [Made EXCEPT ![c] = FALSE]
         /\ Code' = [Code EXCEPT ![c] = answer'[c].code]
<1>1. request[c] # NoKey
  BY RequestFacts, ConstantsAssumption
<1>2. HasKey(c)'
  BY RequestEffect DEF HasKey, Key
<1>3. AskedBy(c)' = NoKey /\ MadeBy(c)' = FALSE /\ CodeOf(c)' = answer'[c].code
  BY <1>2 DEF AskedBy, MadeBy, CodeOf
<1> QED
  BY <1>1, <1>3, OthersSeeNothing DEF Asked, AskedBy

\* Which answers Settle allows a client whose request is open.
SettlesWith(c, n) ==
  \/ n = 201 /\ Made[c]
  \/ n = 200 /\ ~ Made[c] /\ Bound[Asked[c].key] = Asked[c].payload
  \/ n = 409 /\ ~ Made[c] /\ Bound[Asked[c].key] \notin {Asked[c].payload, NoKey}
  \/ n = 503

LEMMA SettleAnswer ==
  ASSUME TypeOK, NEW c \in Clients, Handle(c) \/ Error(c), HasKey(c), pc[c] # "idle",
         pc'[c] = "idle", UNCHANGED tickets,
         NEW n, answer'[c].code = n, SettlesWith(c, n)
  PROVE  Promise!Settle(c)
<1>1. Bound' = Bound
  BY BoundStays
<1>2. /\ Asked[c] # NoKey
      /\ Asked' = [Asked EXCEPT ![c] = NoKey]
      /\ Made' = [Made EXCEPT ![c] = FALSE]
      /\ Code' = [Code EXCEPT ![c] = n]
  BY Settles
<1>3. Promise!Answer(c, n)
  BY <1>2
     DEF Promise!Answer, Asked, AskedBy, Made, MadeBy, Code, CodeOf
<1> QED
  BY <1>1, <1>2, <1>3
     DEF SettlesWith, Promise!Settle, Bound, BoundTo, Asked, AskedBy, Made, MadeBy

\* A commit binds its key, whether or not its client learns of it.
LEMMA CommitBinds ==
  ASSUME TypeOK, KeyInv, KeyInv', NEW c \in Clients, HasKey(c), Write(c),
         \/ Commit(c)
         \/ Error(c) /\ pc'[c] = "idle" /\ answer'[c].code = 503
  PROVE  Promise!Bind(c)
<1>1. /\ Bound[Key(c)] = NoKey
      /\ Bound' = [Bound EXCEPT ![Key(c)] = request[c].payload]
  BY BoundGrows
<1>2. pc[c] = "commit" /\ Asked[c] = request[c] /\ Asked[c] # NoKey /\ Key(c) = Asked[c].key
  BY WriteEffect, RequestFacts, ConstantsAssumption DEF Asked, AskedBy, Key
<1>3. CASE Commit(c)
  <2>1. AskedBy(c)' = AskedBy(c) /\ MadeBy(c)' = TRUE /\ CodeOf(c)' = CodeOf(c)
    BY <1>2, <1>3 DEF Commit, Goto, AskedBy, MadeBy, CodeOf, HasKey, Key, TypeOK
  <2>2. /\ Asked' = Asked /\ Code' = Code
        /\ Made' = [Made EXCEPT ![c] = TRUE]
    BY <1>3, <2>1, OthersSeeNothing DEF Handle, Asked, Code
  <2> USE DEF Bound, BoundTo, Asked, AskedBy, Made, MadeBy, Code, CodeOf
  <2> QED
    BY <1>1, <1>2, <2>2 DEF Promise!Bind
<1>4. CASE Error(c) /\ pc'[c] = "idle" /\ answer'[c].code = 503
  <2>1. /\ Asked' = [Asked EXCEPT ![c] = NoKey]
        /\ Made' = [Made EXCEPT ![c] = FALSE]
        /\ Code' = [Code EXCEPT ![c] = 503]
    BY <1>2, <1>4, Settles
  <2> USE DEF Bound, BoundTo, Asked, AskedBy, Made, MadeBy, Code, CodeOf
  <2> QED
    BY <1>1, <1>2, <2>1 DEF Promise!Bind, Promise!Answer
<1> QED
  BY <1>3, <1>4

\* A request that goes on without a commit shows nothing.
LEMMA GoesOn ==
  ASSUME TypeOK, NEW c \in Clients, Handle(c), UNCHANGED <<tickets, answer>>,
         pc[c] \notin {"idle", "dispatch"}, pc'[c] \notin {"idle", "dispatch"}
  PROVE  UNCHANGED Promise!vars
<1>1. AskedBy(c)' = AskedBy(c) /\ MadeBy(c)' = MadeBy(c) /\ CodeOf(c)' = CodeOf(c)
  BY RequestEffect DEF AskedBy, MadeBy, CodeOf, HasKey, Key
<1>2. Asked' = Asked /\ Made' = Made /\ Code' = Code
  BY <1>1, OthersSeeNothing DEF Asked, Made, Code
<1> QED
  BY <1>2, BoundStays, Stutters

\* A request without a key shows nothing at all.
LEMMA KeylessStutters ==
  ASSUME TypeOK, NEW c \in Clients, Handle(c) \/ Error(c), ~ HasKey(c)
  PROVE  UNCHANGED Promise!vars
<1>1. ~ HasKey(c)'
  BY RequestEffect DEF HasKey, Key
<1>2. AskedBy(c)' = AskedBy(c) /\ MadeBy(c)' = MadeBy(c) /\ CodeOf(c)' = CodeOf(c)
  BY <1>1 DEF AskedBy, MadeBy, CodeOf
<1>3. Asked' = Asked /\ Made' = Made /\ Code' = Code
  BY <1>2, OthersSeeNothing DEF Asked, Made, Code
<1>4. Bound' = Bound
  BY OneWriter, BoundStays
<1> QED
  BY <1>3, <1>4, Stutters

LEMMA ReplaySettles ==
  ASSUME TypeOK, OneTicketPerKey, NEW c \in Clients, Handle(c), HasKey(c),
         pc[c] \in {"lookup", "recheck"}, UNCHANGED tickets,
         NEW i \in Existing(Key(c)), Replay(c, i)
  PROVE  Promise!Settle(c)
<1>1. Asked[c] = request[c] /\ ~ Made[c] /\ Key(c) \in Keys
  BY RequestFacts DEF Asked, AskedBy, Made, MadeBy
<1>2. Bound[Asked[c].key] = tickets[i].payload
  <2>1. PICK k \in Keys : k = Key(c)
    BY <1>1
  <2> QED
    BY <1>1, <2>1, BoundToTicket DEF Bound, Key
<1>3. tickets[i].payload # NoKey
  BY ExistingFacts, ConstantsAssumption DEF Request
<1>4. CASE Matches(c, i) /\ Respond(c, 200, i)
  <2>1. answer'[c].code = 200 /\ pc'[c] = "idle"
    BY <1>4 DEF Respond, TypeOK
  <2>2. SettlesWith(c, 200)
    BY <1>1, <1>2, <1>4 DEF SettlesWith, Matches
  <2> QED
    BY <2>1, <2>2, SettleAnswer
<1>5. CASE ~ Matches(c, i) /\ Respond(c, 409, i)
  <2>1. answer'[c].code = 409 /\ pc'[c] = "idle"
    BY <1>5 DEF Respond, TypeOK
  <2>2. SettlesWith(c, 409)
    BY <1>1, <1>2, <1>3, <1>5 DEF SettlesWith, Matches
  <2> QED
    BY <2>1, <2>2, SettleAnswer
<1> QED
  BY <1>4, <1>5, ReplayAnswer

LEMMA FailureSettles ==
  ASSUME TypeOK, NEW c \in Clients, Handle(c) \/ Error(c), HasKey(c), pc[c] # "idle",
         UNCHANGED tickets, Respond(c, 503, 0)
  PROVE  Promise!Settle(c)
<1>1. answer'[c].code = 503 /\ pc'[c] = "idle"
  BY DEF Respond, TypeOK
<1> QED
  BY <1>1, SettleAnswer DEF SettlesWith

LEMMA HandleKeepsPromise ==
  ASSUME TypeOK, KeyInv, KeyInv', AnswerInv, NEW c \in Clients, Handle(c) \/ Error(c)
  PROVE  Promise!Next \/ UNCHANGED Promise!vars
<1>1. CASE ~ HasKey(c)
  BY <1>1, KeylessStutters
<1> SUFFICES ASSUME HasKey(c)
             PROVE  Promise!Bind(c) \/ Promise!Settle(c) \/ UNCHANGED Promise!vars
  BY <1>1 DEF Promise!Next
<1>2. CASE Lookup(c) \/ Recheck(c)
  <2>1. pc[c] \in {"lookup", "recheck"} /\ UNCHANGED tickets /\ Handle(c)
    BY <1>2 DEF Lookup, Recheck, Handle
  <2>2. \/ \E i \in Existing(Key(c)) : Replay(c, i)
        \/ Goto(c, "customer")
        \/ Respond(c, 503, 0)
    BY <1>2 DEF Lookup, Recheck
  <2>3. CASE Goto(c, "customer")
    <3>1. pc'[c] \notin {"idle", "dispatch"} /\ UNCHANGED answer
      BY <2>3 DEF Goto, TypeOK
    <3>2. pc[c] \notin {"idle", "dispatch"}
      BY <2>1
    <3> QED
      BY <2>1, <3>1, <3>2, GoesOn
  <2>4. ASSUME NEW i \in Existing(Key(c)), Replay(c, i) PROVE Promise!Settle(c)
    BY <2>1, <2>4, ReplaySettles DEF KeyInv
  <2>5. CASE Respond(c, 503, 0)
    BY <2>1, <2>5, FailureSettles
  <2> QED
    BY <2>2, <2>3, <2>4, <2>5
<1>3. CASE FindCustomer(c) \/ InsertCustomer(c) \/ RenameCustomer(c) \/ InsertTicket(c)
  <2>1. /\ pc[c] \notin {"idle", "dispatch"} /\ UNCHANGED tickets /\ Handle(c)
        /\ \/ Goto(c, "insert") \/ Goto(c, "ticket") \/ Goto(c, "rename")
           \/ Goto(c, "commit")
    BY <1>3 DEF FindCustomer, InsertCustomer, RenameCustomer, InsertTicket, Handle
  <2>2. pc'[c] \notin {"idle", "dispatch"} /\ UNCHANGED answer
    BY <2>1 DEF Goto, TypeOK
  <2> QED
    BY <2>1, <2>2, GoesOn
<1>4. CASE CustomerConflict(c) \/ KeyConflict(c)
  <2>1. /\ pc[c] \notin {"idle", "dispatch"} /\ UNCHANGED tickets /\ Handle(c)
        /\ Goto(c, "recheck")
    BY <1>4 DEF CustomerConflict, KeyConflict, IntegrityFailure, Recovers, HasKey, Handle
  <2>2. pc'[c] \notin {"idle", "dispatch"} /\ UNCHANGED answer
    BY <2>1 DEF Goto, TypeOK
  <2> QED
    BY <2>1, <2>2, GoesOn
<1>5. CASE Commit(c)
  BY <1>5, CommitBinds DEF Commit
<1>6. CASE Dispatch(c)
  <2>1. /\ pc[c] = "dispatch" /\ UNCHANGED tickets /\ Handle(c)
        /\ answer'[c].code = 201 /\ pc'[c] = "idle"
    BY <1>6 DEF Dispatch, Handle, Respond, TypeOK
  <2>2. SettlesWith(c, 201)
    BY <2>1 DEF SettlesWith, Made, MadeBy
  <2> QED
    BY <2>1, <2>2, SettleAnswer
<1>7. CASE CustomerRefused(c) \/ TicketRefused(c)
  <2>1. /\ pc[c] \notin {"idle", "dispatch"} /\ UNCHANGED tickets /\ Handle(c)
        /\ Goto(c, "recheck") \/ Respond(c, 503, 0)
    BY <1>7
       DEF CustomerRefused, TicketRefused, IntegrityFailure, DataFailure, Handle
  <2>2. CASE Goto(c, "recheck")
    <3>1. pc'[c] \notin {"idle", "dispatch"} /\ UNCHANGED answer
      BY <2>2 DEF Goto, TypeOK
    <3> QED
      BY <2>1, <3>1, GoesOn
  <2>3. CASE Respond(c, 503, 0)
    BY <2>1, <2>3, FailureSettles
  <2> QED
    BY <2>1, <2>2, <2>3
<1>8. CASE Error(c)
  <2>1. pc[c] # "idle" /\ Respond(c, 503, 0)
    BY <1>8 DEF Error
  <2>2. pc'[c] = "idle" /\ answer'[c].code = 503
    BY <2>1 DEF Respond, TypeOK
  <2>3. CASE UNCHANGED tickets
    BY <1>8, <2>1, <2>3, FailureSettles
  <2>4. CASE Write(c)
    <3>1. Promise!Bind(c)
      BY <1>8, <2>2, <2>4, CommitBinds
    <3> QED
      BY <3>1
  <2> QED
    BY <2>3, <2>4, OneWriter
<1> QED
  BY <1>2, <1>3, <1>4, <1>5, <1>6, <1>7, <1>8 DEF Handle

LEMMA SendKeepsPromise ==
  ASSUME TypeOK, NEW c \in Clients, NEW r \in Request, Send(c, r)
  PROVE  Promise!Ask(c)
<1>1. /\ request'[c] = r /\ pc[c] = "idle" /\ pc'[c] \notin {"idle", "dispatch"}
      /\ answer'[c].code = 0
      /\ \A d \in Clients \ {c} :
           pc'[d] = pc[d] /\ request'[d] = request[d] /\ answer'[d] = answer[d]
      /\ UNCHANGED tickets
  BY DEF Send, TypeOK, NoAnswer
<1>2. \A d \in Clients \ {c} :
        AskedBy(d)' = AskedBy(d) /\ MadeBy(d)' = MadeBy(d) /\ CodeOf(d)' = CodeOf(d)
  BY <1>1 DEF AskedBy, MadeBy, CodeOf, HasKey, Key
<1>3. /\ AskedBy(c) = NoKey /\ MadeBy(c) = FALSE
      /\ AskedBy(c)' = (IF r.key # NoKey THEN r ELSE NoKey)
      /\ MadeBy(c)' = FALSE /\ CodeOf(c)' = 0
  BY <1>1 DEF AskedBy, MadeBy, CodeOf, HasKey, Key
<1>4. Bound' = Bound
  BY <1>1, BoundStays
<1>5. /\ Made' = Made
      /\ Code' = [Code EXCEPT ![c] = 0]
      /\ Asked[c] = NoKey
  BY <1>2, <1>3 DEF Made, Code, Asked
<1>6. \/ \E k \in Keys, p \in Payloads : Asked' = [Asked EXCEPT ![c] = [key |-> k, payload |-> p]]
      \/ Asked' = Asked
  <2>1. CASE r.key = NoKey
    BY <1>2, <1>3, <2>1 DEF Asked
  <2>2. CASE r.key # NoKey
    <3>1. r.key \in Keys /\ r.payload \in Payloads
          /\ r = [key |-> r.key, payload |-> r.payload]
      BY <2>2 DEF Request
    <3>2. Asked' = [Asked EXCEPT ![c] = r]
      BY <1>2, <1>3, <2>2 DEF Asked
    <3> QED
      BY <3>1, <3>2
  <2> QED
    BY <2>1, <2>2
<1> QED
  BY <1>4, <1>5, <1>6
     DEF Promise!Ask, Bound, BoundTo, Asked, AskedBy, Made, MadeBy, Code, CodeOf

LEMMA PromiseInit == Init => Promise!Init
<1> SUFFICES ASSUME Init PROVE Promise!Init
  OBVIOUS
<1>1. \A k : Existing(k) = {}
  <2>1. DOMAIN <<>> = {}
    OBVIOUS
  <2> QED
    BY <2>1 DEF Init, Existing
<1>2. \A c \in Clients : pc[c] = "idle" /\ answer[c].code = 0
  BY DEF Init, NoAnswer
<1> QED
  BY <1>1, <1>2 DEF Promise!Init

LEMMA PromiseStep ==
  ASSUME TypeOK, KeyInv, KeyInv', AnswerInv, [Next]_vars
  PROVE  [Promise!Next]_(Promise!vars)
<1>1. CASE UNCHANGED vars
  BY <1>1 DEF vars, Promise!vars, Existing, HasKey, Key
<1>2. ASSUME NEW c \in Clients, NEW r \in Request, Send(c, r) PROVE Promise!Next
  BY <1>2, SendKeepsPromise DEF Promise!Next
<1>3. ASSUME NEW c \in Clients, Handle(c) \/ Error(c)
      PROVE  Promise!Next \/ UNCHANGED Promise!vars
  BY <1>3, HandleKeepsPromise
<1>4. ASSUME NEW e \in Emails, NameAgent(e) PROVE UNCHANGED Promise!vars
  BY <1>4 DEF NameAgent, Promise!vars, Existing, HasKey, Key
<1> QED
  BY <1>1, <1>2, <1>3, <1>4, ConstantsAssumption DEF Next

(***************************************************************************)
(* For clients that send a key, create_ticket_idempotent implements        *)
(* IdempotentCreation: a key is bound once, its maker alone is told 201,   *)
(* and later answers agree with the payload it is bound to.                *)
(***************************************************************************)
THEOREM ImplementsPromise == Spec => KeepsPromise
BY PromiseInit, PromiseStep, TypeCorrect, KeyAlways, AnswerAlways, PTL
   DEF Spec, KeepsPromise, Promise!Spec

=============================================================================
