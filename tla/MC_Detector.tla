------------------------------ MODULE MC_Detector ------------------------------
(* Constants of Detector for TLC: one user and one trace, whose honey tokens   *)
(* two modules may hit, and an event that names neither.                       *)
EXTENDS Detector, TLC

CONSTANTS g1, g2, u, t

MC_Inspectors == {g1, g2}

Honey(m) == [module |-> m, type |-> "honey", blocked |-> FALSE, user |-> NoUser, trace |-> t]
CrossTenant ==
    [module |-> "vault", type |-> "cross_tenant", blocked |-> FALSE, user |-> NoUser, trace |-> NoTrace]

MC_Templates ==
    {[Honey("vault") EXCEPT !.blocked = TRUE, !.user = u], Honey("anchor"), CrossTenant}
MC_OffHours == {2}

Symm == Permutations(MC_Inspectors)
===============================================================================
