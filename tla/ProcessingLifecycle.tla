------------------------ MODULE ProcessingLifecycle ------------------------
(***************************************************************************)
(* What the asynchronous half of TicketFlow promises a reader of its       *)
(* tables: a ticket is claimed by one task at a time, each claim is one    *)
(* attempt, and the claim ends in a release for a retry, in COMPLETED with *)
(* one AUTO_PROCESSED event, or in FAILED with one dead letter that names  *)
(* the claim.  Outbox, queue, workers and faults are hidden.               *)
(***************************************************************************)
EXTENDS Naturals, Sequences

CONSTANT Tickets

VARIABLES status, owner, attempts, triaged, deadLetters

vars == <<status, owner, attempts, triaged, deadLetters>>

Init ==
  /\ status = [t \in Tickets |-> "ABSENT"]
  /\ owner = [t \in Tickets |-> 0]
  /\ attempts = [t \in Tickets |-> 0]
  /\ triaged = [t \in Tickets |-> 0]
  /\ deadLetters = [t \in Tickets |-> <<>>]

Become(t, from, to) ==
  /\ status[t] = from
  /\ status' = [status EXCEPT ![t] = to]

Submit(t) ==
  /\ Become(t, "ABSENT", "PENDING")
  /\ UNCHANGED <<owner, attempts, triaged, deadLetters>>

Claim(t) ==
  /\ Become(t, "PENDING", "PROCESSING")
  /\ owner'[t] \in Nat \ {0} /\ owner' = [owner EXCEPT ![t] = owner'[t]]
  /\ attempts' = [attempts EXCEPT ![t] = @ + 1]
  /\ UNCHANGED <<triaged, deadLetters>>

Release(t) ==
  /\ Become(t, "PROCESSING", "PENDING")
  /\ UNCHANGED <<owner, attempts, triaged, deadLetters>>

Complete(t) ==
  /\ Become(t, "PROCESSING", "COMPLETED")
  /\ triaged' = [triaged EXCEPT ![t] = @ + 1]
  /\ UNCHANGED <<owner, attempts, deadLetters>>

Bury(t) ==
  /\ Become(t, "PROCESSING", "FAILED")
  /\ deadLetters' = [deadLetters EXCEPT ![t] =
                       Append(@, [task |-> owner[t], attempts |-> attempts[t]])]
  /\ UNCHANGED <<owner, attempts, triaged>>

Next == \E t \in Tickets : Submit(t) \/ Claim(t) \/ Release(t) \/ Complete(t) \/ Bury(t)

Spec == Init /\ [][Next]_vars
=============================================================================
