--------------------------- MODULE MCStatusUpdate ---------------------------
(***************************************************************************)
(* Small instances of StatusUpdate for TLC: requests that overlap on one   *)
(* ticket, and requests that share no ticket but share an agent.           *)
(***************************************************************************)
EXTENDS StatusUpdate, TLC

CONSTANTS t1, t2, c1, c2, alice, bob

OneTicket == {t1}
TwoTickets == {t1, t2}
TwoClients == {c1, c2}
OneAgent == {alice}
TwoAgents == {alice, bob}

\* Every client updates every ticket, or client ci updates ti only.
Overlapping == [c \in Clients |-> Tickets]
Disjoint == (c1 :> {t1}) @@ (c2 :> {t2})

AnyActors == [References -> ActorKinds]
NoAgents == {[r \in References |-> "ABSENT"]}

Symmetry == Permutations(Clients) \cup Permutations(References)
=============================================================================
