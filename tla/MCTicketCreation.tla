-------------------------- MODULE MCTicketCreation --------------------------
(***************************************************************************)
(* A small instance of TicketCreation for TLC.  Of the payloads, p1 and p2 *)
(* are two bodies from one customer under two names, q is from another;    *)
(* long has an e-mail that does not fit, blank a subject of blanks.        *)
(***************************************************************************)
EXTENDS TicketCreation

CONSTANTS c1, c2, c3, k1, p1, p2, q, long, blank

MCClients == {c1, c2, c3}
MCKeys == {k1}
MCPayloads == {p1, p2, q, long, blank}

MCEmailOf == [p \in Payloads |-> CASE p = q -> "other" [] p = long -> "long" [] OTHER -> "email"]
MCNameOf == [p \in Payloads |-> IF p = p2 THEN "renamed" ELSE "name"]

MCRefusedCustomers == {long}
MCRefusedTickets == {blank}

\* Any payload with a key, and without one those of the customer under two names.
MCRequests ==
  [key : MCKeys, payload : Payloads] \cup [key : {NoKey}, payload : {p1, p2}]
=============================================================================
