--------------------------- MODULE TicketCreation ---------------------------
(***************************************************************************)
(* POST /v1/tickets: TicketService.create_ticket_idempotent with           *)
(* _create_ticket and _get_or_create_customer (app/services/tickets.py),   *)
(* run by API requests that interleave.                                    *)
(*                                                                         *)
(* Exclusion is left to PostgreSQL: a flush that inserts a value of a      *)
(* unique column, or updates a row, waits for the open transaction that    *)
(* did so first, and fails with an IntegrityError if that one committed    *)
(* the value.  held is what each open transaction makes others wait for.   *)
(*                                                                         *)
(* A ticket of the model stands for the rows one commit adds together: the *)
(* ticket, its CREATED event and its outbox message.  The payload stands   *)
(* for its SHA-256 as well.                                                *)
(***************************************************************************)
EXTENDS Naturals, Sequences, FiniteSets

CONSTANTS
  Clients,      \* API requests that may run at the same time
  Keys,         \* values of Idempotency-Key
  NoKey,        \* the header is absent
  Payloads,     \* bodies of requests
  EmailOf,      \* EmailOf[p]: the normalized customer_email of a payload
  NameOf,       \* NameOf[p]: its customer_name
  NoName,       \* the name of a customer who has no row
  Requests,     \* what clients send: bodies with or without a key
  RefusedCustomers,  \* payloads whose actor PostgreSQL refuses: e-mail too long, NUL in the name
  RefusedTickets,    \* payloads whose ticket it refuses: blanks for a subject, NUL in it
  MaxRequests,  \* bound: requests sent in all
  MaxErrors     \* bound: database errors, and failures to reach Redis

Emails == {EmailOf[p] : p \in Payloads}
Names == {NameOf[p] : p \in Payloads}

Request == [key : Keys \cup {NoKey}, payload : Payloads]

ASSUME ConstantsAssumption ==
  /\ Payloads # {}
  /\ NoKey \notin Keys \cup Payloads \cup Request
  /\ NoName \notin Names
  /\ Requests \subseteq Request
  /\ RefusedCustomers \subseteq Payloads /\ RefusedTickets \subseteq Payloads
  /\ MaxRequests \in Nat
  /\ MaxErrors \in Nat

VARIABLES
  tickets,    \* committed tickets in the order of their commits: [key, payload]
  customers,  \* display name of the committed customer of each email, or NoName
  agents,     \* emails whose reference customer:<email> belongs to an agent
  pc,         \* next step of each client's request
  request,    \* the request each client sent last
  loaded,     \* display name found by _get_or_create_customer, or NoName
  held,       \* emails and keys whose rows each open transaction holds
  made,       \* position of the ticket each client's request committed
  answer,     \* last answer to each client: HTTP code and ticket shown
  sent,       \* requests sent so far
  errors      \* errors so far

rows == <<tickets, customers, agents>>
vars == <<rows, pc, request, loaded, held, made, answer, sent, errors>>

Steps == {"idle", "lookup", "customer", "insert", "rename", "ticket", "commit",
          "recheck", "dispatch"}

NoAnswer == [code |-> 0, ticket |-> 0]
NoRequest == [key |-> NoKey, payload |-> CHOOSE p \in Payloads : TRUE]

TypeOK ==
  /\ tickets \in Seq(Request)
  /\ customers \in [Emails -> Names \cup {NoName}]
  /\ agents \subseteq Emails
  /\ pc \in [Clients -> Steps]
  /\ request \in [Clients -> Request]
  /\ loaded \in [Clients -> Names \cup {NoName}]
  /\ held \in [Clients -> SUBSET (Emails \cup Keys)]
  /\ made \in [Clients -> Nat]
  /\ answer \in [Clients -> [code : {0, 200, 201, 409, 503}, ticket : Nat]]
  /\ sent \in 0..MaxRequests
  /\ errors \in 0..MaxErrors

Init ==
  /\ tickets = <<>>
  /\ customers = [e \in Emails |-> NoName]
  /\ agents = {}
  /\ pc = [c \in Clients |-> "idle"]
  /\ request = [c \in Clients |-> NoRequest]
  /\ loaded = [c \in Clients |-> NoName]
  /\ held = [c \in Clients |-> {}]
  /\ made = [c \in Clients |-> 0]
  /\ answer = [c \in Clients |-> NoAnswer]
  /\ sent = 0
  /\ errors = 0

Key(c) == request[c].key
Email(c) == EmailOf[request[c].payload]
Name(c) == NameOf[request[c].payload]

Goto(c, step) ==
  /\ pc' = [pc EXCEPT ![c] = step]
  /\ UNCHANGED <<request, answer, sent>>

\* The request ends: its transaction is over and its connection returned.
Respond(c, code, ticket) ==
  /\ pc' = [pc EXCEPT ![c] = "idle"]
  /\ answer' = [answer EXCEPT ![c] = [code |-> code, ticket |-> ticket]]
  /\ loaded' = [loaded EXCEPT ![c] = NoName]
  /\ made' = [made EXCEPT ![c] = 0]
  /\ UNCHANGED <<request, sent>>

\* Mutant: the transaction of a failed request is left open.
MutReleaseNothing(c) == held

Release(c) == [held EXCEPT ![c] = {}]

HeldByOther(c, x) == \E d \in Clients \ {c} : x \in held[d]

Hold(c, x) ==
  /\ ~ HeldByOther(c, x)
  /\ held' = [held EXCEPT ![c] = @ \cup {x}]

-----------------------------------------------------------------------------
\* A client sends any request, the one it sent before included.
Send(c, r) ==
  /\ pc[c] = "idle" /\ sent < MaxRequests
  /\ request' = [request EXCEPT ![c] = r]
  /\ sent' = sent + 1
  /\ answer' = [answer EXCEPT ![c] = NoAnswer]
  /\ pc' = [pc EXCEPT ![c] = IF r.key = NoKey THEN "customer" ELSE "lookup"]
  /\ UNCHANGED <<rows, loaded, held, made, errors>>

\* The committed ticket of a key: tickets.idempotency_key is unique.
Existing(k) == {i \in DOMAIN tickets : tickets[i].key = k}

\* Mutant: _ensure_matching_request is not called.
MutMatchesAny(c, i) == TRUE

Matches(c, i) == tickets[i].payload = request[c].payload

\* Mutant: a mismatch is reported as a validation error.
MutReplayUnprocessable(c, i) == Respond(c, IF Matches(c, i) THEN 200 ELSE 422, i)

Replay(c, i) == Respond(c, IF Matches(c, i) THEN 200 ELSE 409, i)

Lookup(c) ==
  /\ pc[c] = "lookup"
  /\ \/ /\ \E i \in Existing(Key(c)) : Replay(c, i)
        /\ UNCHANGED <<rows, held, errors>>
     \/ /\ Existing(Key(c)) = {}
        /\ Goto(c, "customer")
        /\ UNCHANGED <<rows, loaded, held, made, errors>>

FindCustomer(c) ==
  LET found == customers[Email(c)] IN
  /\ pc[c] = "customer"
  /\ loaded' = [loaded EXCEPT ![c] = found]
  /\ Goto(c, CASE found = NoName  -> "insert"
               [] found = Name(c) -> "ticket"
               [] OTHER           -> "rename")
  /\ UNCHANGED <<rows, held, made, errors>>

\* Mutant: the error goes to the client, whoever has the key.
MutRecoversNever(c) == FALSE

Recovers(c) == Key(c) # NoKey

\* An IntegrityError: a request with a key rolls back and looks again.
IntegrityFailure(c) ==
  /\ IF Recovers(c)
       THEN Goto(c, "recheck") /\ UNCHANGED <<loaded, made>>
       ELSE Respond(c, 503, 0)
  /\ held' = Release(c)
  /\ UNCHANGED <<rows, errors>>

\* A DataError, which is no IntegrityError: nothing looks again.
DataFailure(c) == Respond(c, 503, 0) /\ held' = Release(c) /\ UNCHANGED <<rows, errors>>

CustomerRefused(c) ==
  /\ pc[c] \in {"insert", "rename"}
  /\ request[c].payload \in RefusedCustomers
  /\ DataFailure(c)

\* actors.external_reference is unique among customers and agents.
ReferenceTaken(c) == customers[Email(c)] # NoName \/ Email(c) \in agents

\* The flushes of the actor customer:<email> and of the customer.
InsertCustomer(c) ==
  /\ pc[c] = "insert" /\ request[c].payload \notin RefusedCustomers
  /\ ~ ReferenceTaken(c)
  /\ Hold(c, Email(c))
  /\ Goto(c, "ticket")
  /\ UNCHANGED <<rows, loaded, made, errors>>

CustomerConflict(c) ==
  /\ pc[c] = "insert" /\ request[c].payload \notin RefusedCustomers
  /\ ReferenceTaken(c)
  /\ IntegrityFailure(c)

\* The UPDATE of the changed display_name, flushed before the ticket's INSERT.
\* Mutant: the new name is committed before the ticket.
MutRenameCustomer(c) ==
  /\ pc[c] = "rename"
  /\ ~ HeldByOther(c, Email(c))
  /\ customers' = [customers EXCEPT ![Email(c)] = Name(c)]
  /\ Goto(c, "ticket")
  /\ UNCHANGED <<tickets, agents, held, loaded, made, errors>>

RenameCustomer(c) ==
  /\ pc[c] = "rename" /\ request[c].payload \notin RefusedCustomers
  /\ Hold(c, Email(c))
  /\ Goto(c, "ticket")
  /\ UNCHANGED <<rows, loaded, made, errors>>

\* Mutant: the index on idempotency_key is not unique.
MutKeyNeverTaken(c) == FALSE

KeyTaken(c) == Key(c) # NoKey /\ Existing(Key(c)) # {}

\* A CHECK, which comes before the unique index, or a DataError.
TicketRefused(c) ==
  /\ pc[c] = "ticket"
  /\ request[c].payload \in RefusedTickets
  /\ IntegrityFailure(c) \/ DataFailure(c)

InsertTicket(c) ==
  /\ pc[c] = "ticket" /\ request[c].payload \notin RefusedTickets
  /\ ~ KeyTaken(c)
  /\ IF Key(c) = NoKey THEN UNCHANGED held ELSE Hold(c, Key(c))
  /\ Goto(c, "commit")
  /\ UNCHANGED <<rows, loaded, made, errors>>

KeyConflict(c) ==
  /\ pc[c] = "ticket" /\ request[c].payload \notin RefusedTickets
  /\ KeyTaken(c)
  /\ IntegrityFailure(c)

Recheck(c) ==
  /\ pc[c] = "recheck"
  /\ \/ \E i \in Existing(Key(c)) : Replay(c, i)
     \/ Existing(Key(c)) = {} /\ Respond(c, 503, 0)
  /\ UNCHANGED <<rows, held, errors>>

Write(c) ==
  /\ pc[c] = "commit"
  /\ tickets' = Append(tickets, request[c])
  /\ customers' = IF loaded[c] = Name(c) THEN customers
                  ELSE [customers EXCEPT ![Email(c)] = Name(c)]
  /\ UNCHANGED agents

Commit(c) ==
  /\ Write(c)
  /\ held' = Release(c)
  /\ made' = [made EXCEPT ![c] = Len(tickets) + 1]
  /\ Goto(c, "dispatch")
  /\ UNCHANGED <<loaded, errors>>

\* The route counts the ticket, nudges the relay and answers.
Dispatch(c) ==
  /\ pc[c] = "dispatch"
  /\ Respond(c, 201, made[c])
  /\ UNCHANGED <<rows, held, errors>>

\* A statement raises, or the relay cannot be nudged; the error of a COMMIT may
\* hide its success.  The answer is 503, or 500 when Redis is at fault.
Error(c) ==
  /\ pc[c] # "idle" /\ errors < MaxErrors
  /\ errors' = errors + 1
  /\ UNCHANGED rows \/ Write(c)
  /\ held' = Release(c)
  /\ Respond(c, 503, 0)

Handle(c) ==
  \/ Lookup(c) \/ FindCustomer(c) \/ CustomerRefused(c) \/ InsertCustomer(c)
  \/ CustomerConflict(c) \/ RenameCustomer(c) \/ TicketRefused(c) \/ InsertTicket(c)
  \/ KeyConflict(c) \/ Recheck(c) \/ Commit(c) \/ Dispatch(c)

-----------------------------------------------------------------------------
\* PATCH of a ticket's status by an actor who calls himself customer:<e>, which must fit
\* as well: the INSERT of the agent waits for an open one of the customer.
NameAgent(e) ==
  /\ sent < MaxRequests /\ tickets # <<>>
  /\ \E p \in Payloads \ RefusedCustomers : EmailOf[p] = e
  /\ customers[e] = NoName /\ e \notin agents
  /\ \A c \in Clients : e \notin held[c]
  /\ agents' = agents \cup {e}
  /\ sent' = sent + 1
  /\ UNCHANGED <<tickets, customers, pc, request, loaded, held, made, answer, errors>>

Next ==
  \/ \E c \in Clients : (\E r \in Requests : Send(c, r)) \/ Handle(c) \/ Error(c)
  \/ \E e \in Emails : NameAgent(e)

Spec == Init /\ [][Next]_vars

\* The server runs every request it accepted.
FairSpec == Spec /\ \A c \in Clients : WF_vars(Handle(c))

-----------------------------------------------------------------------------
(***************************************************************************)
(* A retry never makes a second ticket: however requests with one key      *)
(* overlap, and whatever was lost of their answers, one ticket has it.     *)
(***************************************************************************)
OneTicketPerKey ==
  \A i, j \in DOMAIN tickets :
    tickets[i].key = tickets[j].key /\ tickets[i].key # NoKey => i = j

(***************************************************************************)
(* An answer is about the request's own ticket: 201 and 200 show a ticket  *)
(* with its key and payload, 409 means the key has another payload.        *)
(***************************************************************************)
AnswersFit ==
  \A c \in Clients :
    /\ answer[c].code \in {200, 201} => tickets[answer[c].ticket] = request[c]
    /\ answer[c].code = 409 => /\ tickets[answer[c].ticket].key = Key(c)
                               /\ tickets[answer[c].ticket].payload # request[c].payload

(***************************************************************************)
(* While the database is healthy, a request it would take is answered 503  *)
(* only if it found no customer and could not make him: another request    *)
(* has made him meanwhile, so that a second try finds him, or an agent has *)
(* his reference, and no try succeeds.  No request that found its customer *)
(* fails, and none that lost the race for its key.                         *)
(***************************************************************************)
Fails(c) == pc[c] # "idle" /\ pc'[c] = "idle" /\ answer'[c].code = 503

FailsForCause(c) ==
  \/ errors' # 0
  \/ request[c].payload \in RefusedCustomers \cup RefusedTickets
  \/ loaded[c] = NoName /\ ReferenceTaken(c)

RacesPass == [][\A c \in Clients : Fails(c) => FailsForCause(c)]_vars

(***************************************************************************)
(* Customer and tickets are committed together: a customer is there with   *)
(* his first ticket and has the name that one of his tickets came with,    *)
(* although requests under two names overwrite each other's renames, and   *)
(* the name may be that of an earlier ticket.                              *)
(***************************************************************************)
NameIsOfATicket ==
  \A e \in Emails :
    LET names == {NameOf[tickets[i].payload] :
                    i \in {j \in DOMAIN tickets : EmailOf[tickets[j].payload] = e}}
    IN customers[e] \in (IF names = {} THEN {NoName} ELSE names)

(***************************************************************************)
(* No request waits for ever on the rows of others: each one is answered.  *)
(***************************************************************************)
EveryRequestAnswered == \A c \in Clients : pc[c] # "idle" ~> pc[c] = "idle"

(***************************************************************************)
(* Requests with a key see the promise of IdempotentCreation.              *)
(***************************************************************************)
HasKey(c) == Key(c) # NoKey

Promise == INSTANCE IdempotentCreation WITH
  Nothing <- NoKey,
  bound <- [k \in Keys |-> IF Existing(k) = {} THEN NoKey
                          ELSE tickets[CHOOSE i \in Existing(k) : TRUE].payload],
  asked <- [c \in Clients |-> IF pc[c] # "idle" /\ HasKey(c) THEN request[c] ELSE NoKey],
  made  <- [c \in Clients |-> pc[c] = "dispatch" /\ HasKey(c)],
  code  <- [c \in Clients |-> IF HasKey(c) THEN answer[c].code ELSE 0]

KeepsPromise == Promise!Spec
=============================================================================
