--------------------------- MODULE SeedScenarios ---------------------------
(***************************************************************************)
(* The demo dataset of scripts/seed.py.  A scenario is known by its place; *)
(* of its texts the model keeps whether the triage takes them for spam.    *)
(***************************************************************************)
NoAgent == "NONE"

Scenario(customer, priority, category, target, agent, spamLike) ==
  [customer |-> customer, priority |-> priority, category |-> category,
   target |-> target, agent |-> agent, spamLike |-> spamLike]

SCENARIOS == <<
  Scenario("ava",    "LOW",    "ACCOUNT",   "OPEN",        NoAgent, FALSE),
  Scenario("liam",   "MEDIUM", "BILLING",   "IN_PROGRESS", "alex",  FALSE),
  Scenario("noah",   "HIGH",   "CARD",      "RESOLVED",    "blair", FALSE),
  Scenario("mia",    "URGENT", "PAYMENT",   "CLOSED",      "casey", FALSE),
  Scenario("ava",    "LOW",    "TECHNICAL", "OPEN",        NoAgent, FALSE),
  Scenario("omar",   "MEDIUM", "OTHER",     "IN_PROGRESS", "alex",  FALSE),
  Scenario("ava",    "HIGH",   "ACCOUNT",   "RESOLVED",    "blair", FALSE),
  Scenario("priya",  "URGENT", "BILLING",   "CLOSED",      "casey", FALSE),
  Scenario("chen",   "LOW",    "CARD",      "OPEN",        NoAgent, FALSE),
  Scenario("disha",  "MEDIUM", "PAYMENT",   "IN_PROGRESS", "alex",  FALSE),
  Scenario("elias",  "HIGH",   "TECHNICAL", "RESOLVED",    "blair", FALSE),
  Scenario("ava",    "URGENT", "OTHER",     "CLOSED",      "casey", FALSE),
  Scenario("fatima", "MEDIUM", "ACCOUNT",   "OPEN",        NoAgent, FALSE),
  Scenario("liam",   "HIGH",   "BILLING",   "IN_PROGRESS", "alex",  FALSE),
  Scenario("grace",  "URGENT", "CARD",      "RESOLVED",    "blair", FALSE),
  Scenario("ava",    "LOW",    "PAYMENT",   "CLOSED",      "casey", FALSE),
  Scenario("hari",   "MEDIUM", "TECHNICAL", "OPEN",        NoAgent, FALSE),
  Scenario("inez",   "HIGH",   "OTHER",     "IN_PROGRESS", "alex",  FALSE),
  Scenario("jules",  "URGENT", "PAYMENT",   "RESOLVED",    "blair", TRUE),
  Scenario("kiara",  "LOW",    "CARD",      "CLOSED",      "casey", FALSE) >>
=============================================================================
