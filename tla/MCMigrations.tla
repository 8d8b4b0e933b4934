---------------------------- MODULE MCMigrations ----------------------------
(***************************************************************************)
(* The migrations for TLC: two spellings of one address, another address,  *)
(* one that the check of 0002 refuses and one too long for a reference, a  *)
(* name that is too short without its blanks, and an agent.                *)
(***************************************************************************)
EXTENDS Migrations

MCEmails == {"Ava@x.org", "ava@x.org", "ben@x.org", "a@b.c", "long@x.org"}
MCLower == [e \in MCEmails |-> IF e = "Ava@x.org" THEN "ava@x.org" ELSE e]
MCCustomerRef == [e \in MCEmails |-> "customer:" \o e]
=============================================================================
