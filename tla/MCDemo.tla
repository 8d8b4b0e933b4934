------------------------------- MODULE MCDemo -------------------------------
(***************************************************************************)
(* The demo of README.md for TLC: the seed runs, is interrupted and run    *)
(* again, while workers process tickets and API clients create and read.   *)
(* One plan has the real dataset and no clients, the others have two of    *)
(* its scenarios, with the longest and the shortest path.                  *)
(***************************************************************************)
EXTENDS TicketQueries

CONSTANTS c1, c2

MCClients == {c1, c2}
MCCategories == {"ACCOUNT", "PAYMENT"}
MCFilters ==
  {[field |-> "none", value |-> "ALL"], [field |-> "category", value |-> "PAYMENT"],
   [field |-> "status", value |-> "OPEN"]}

TwoScenarios == <<SCENARIOS[4], SCENARIOS[1]>>

Plan(list, nCrashes, nReruns, nClaims) ==
  [scenarios |-> list, crashes |-> nCrashes, reruns |-> nReruns, claims |-> nClaims,
   creations |-> 0, walks |-> 0, details |-> 0]

MCPlans ==
  { Plan(SCENARIOS, 1, 0, 1),
    Plan(TwoScenarios, 2, 1, 2),
    [Plan(TwoScenarios, 1, 0, 2) EXCEPT !.details = 1],
    [Plan(<<SCENARIOS[4]>>, 0, 0, 0) EXCEPT !.creations = 2, !.walks = 1] }
=============================================================================
