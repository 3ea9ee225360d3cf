------------------------------ MODULE MCTables ------------------------------
(* The tables with a few names and few ids: one user. *)
EXTENDS Tables

CONSTANTS ann, bob, mage, thief, tutorial, hp, mp, ip

FewIds == [table \in Tables |-> IF table = "users" THEN 1 ELSE 2]
=============================================================================
