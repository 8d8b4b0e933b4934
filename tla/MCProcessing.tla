---------------------------- MODULE MCProcessing ----------------------------
(***************************************************************************)
(* Small instances of Processing for TLC.  The behaviours are bounded by   *)
(* the number of tickets and the fault budgets: every publication,         *)
(* delivery and retry beyond the first is paid for by a fault.             *)
(***************************************************************************)
EXTENDS Processing, FiniteSetsExt, TLC

CONSTANTS t1, t2, w1, w2, r1, r2

MCTickets == {t1, t2}
MCWorkers == {w1, w2}
MCRelays == {r1, r2}
OneTicket == {t1}
OneRelay == {r1}

Symmetry == Permutations(MCTickets) \cup Permutations(MCWorkers) \cup Permutations(MCRelays)

\* The budgets that spend exactly n faults, of the given kinds.
Exactly(kinds, n) ==
  {b \in [FaultKinds -> 0..n] :
     /\ \A k \in FaultKinds \ kinds : b[k] = 0
     /\ FoldSet(LAMBDA k, sum : b[k] + sum, 0, kinds) = n}

\* The budget with the given number of faults of each kind named, and no other.
Budget(b) == [k \in FaultKinds |-> IF k \in DOMAIN b THEN b[k] ELSE 0]

\* SYSTEM is what ABSENT becomes.
AnyActor == {"ABSENT", "OTHER"}
NoActorYet == {"ABSENT"}
SystemActor == {"SYSTEM"}

\* Every fault but an error of begin.
SafeKinds == FaultKinds \ {"begin"}
TwoSafeFaults == Exactly(SafeKinds, 2)

\* One publication and one delivery of each message, but begin may fail.
SingleDeliveryFaults == Exactly({"begin", "complete", "fail", "retry", "worker"}, 3)

\* The faults after which a ticket still has a message or a worker, one at a
\* time, or two errors of complete, which use up the retries.
RecoverableFaults ==
  Exactly({"relay", "publish", "redeliver", "complete"}, 1) \cup Exactly({"complete"}, 2)

WorkerDeath == {Budget([worker |-> 1])}
BeginFailsEachTime == {Budget([begin |-> MaxRetries + 1])}
RedeliveryAndBeginError == {Budget([redeliver |-> 1, begin |-> 1])}
=============================================================================
