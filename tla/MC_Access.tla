------------------------------- MODULE MC_Access -------------------------------
(* Constants of Access for TLC: an admin in the configuration and a free name. *)
EXTENDS Access, TLC

CONSTANTS g1, g2

MC_Seed == [n \in Names |-> IF n = "root" THEN [role |-> "admin", secret |-> "s"] ELSE NoUser]
MC_Requests == {g1, g2}

\* Requests are interchangeable.
Symm == Permutations(MC_Requests)
===============================================================================
