------------------------- MODULE IdempotentCreation -------------------------
(***************************************************************************)
(* What POST /v1/tickets promises clients that send an Idempotency-Key: a  *)
(* key stands for one ticket, made of the payload that came first.  The    *)
(* request that made it is the only one told so (201); another one with    *)
(* that payload is shown the ticket (200), one with a different payload is *)
(* refused (409).  Any request may end in a server error (503).            *)
(***************************************************************************)
CONSTANTS Clients, Keys, Payloads, Nothing

VARIABLES
  bound,  \* bound[k]: payload of the ticket of key k, or Nothing
  asked,  \* asked[c]: the open request of client c, or Nothing
  made,   \* made[c]: the open request of c made its key's ticket
  code    \* code[c]: the last answer to client c

vars == <<bound, asked, made, code>>

Init ==
  /\ bound = [k \in Keys |-> Nothing]
  /\ asked = [c \in Clients |-> Nothing]
  /\ made = [c \in Clients |-> FALSE]
  /\ code = [c \in Clients |-> 0]

Ask(c) ==
  /\ asked[c] = Nothing
  /\ \/ \E k \in Keys, p \in Payloads :
          asked' = [asked EXCEPT ![c] = [key |-> k, payload |-> p]]
     \/ UNCHANGED asked    \* a request without a key: nothing is promised
  /\ code' = [code EXCEPT ![c] = 0]
  /\ UNCHANGED <<bound, made>>

Answer(c, n) ==
  /\ code' = [code EXCEPT ![c] = n]
  /\ asked' = [asked EXCEPT ![c] = Nothing]
  /\ made' = [made EXCEPT ![c] = FALSE]

\* The ticket is made; the client may learn of it, or get an error only.
Bind(c) ==
  /\ asked[c] # Nothing
  /\ bound[asked[c].key] = Nothing
  /\ bound' = [bound EXCEPT ![asked[c].key] = asked[c].payload]
  /\ \/ made' = [made EXCEPT ![c] = TRUE] /\ UNCHANGED <<asked, code>>
     \/ Answer(c, 503)

Settle(c) ==
  /\ asked[c] # Nothing
  /\ LET payload == bound[asked[c].key] IN
     \/ made[c] /\ Answer(c, 201)
     \/ ~ made[c] /\ payload = asked[c].payload /\ Answer(c, 200)
     \/ ~ made[c] /\ payload \notin {asked[c].payload, Nothing} /\ Answer(c, 409)
     \/ Answer(c, 503)
  /\ UNCHANGED bound

Next == \E c \in Clients : Ask(c) \/ Bind(c) \/ Settle(c)

Spec == Init /\ [][Next]_vars
=============================================================================
