------------------------------ MODULE MC_Pipeline ------------------------------
(* Constants of Pipeline for TLC: events of one trace and one tenant, one for  *)
(* each way through the stages, and a detector that finds what it finds in a  *)
(* single event (cross_tenant_signal) or what any event may be the last of.   *)
EXTENDS Pipeline, TLC

CONSTANTS w1, w2, a1, a2

MC_Workers == {w1, w2}
MC_Admins == {a1, a2}

Plain ==
    [type |-> "other", formed |-> TRUE, severe |-> FALSE, status |-> "passed", closing |-> FALSE,
     trace |-> "t", tenant |-> "a", pipeline |-> None, exposed |-> FALSE, token |-> 0]
Malformed == [Plain EXCEPT !.formed = FALSE]

Honey == [Plain EXCEPT !.type = "honey", !.token = 1]
Leak == [Plain EXCEPT !.trace = None, !.pipeline = "full", !.exposed = TRUE]
Blocked == [Plain EXCEPT !.type = "cross_tenant", !.severe = TRUE, !.status = "blocked"]
Answer == [Plain EXCEPT !.closing = TRUE, !.pipeline = "full"]
Downgrade == [Plain EXCEPT !.type = "chunk", !.pipeline = "lite"]

MC_Templates == {Honey, Blocked, Answer, Downgrade, Leak, Malformed}

MC_Detects ==
    [type \in Types |->
        IF type = "cross_tenant" THEN {{"critical"}}
        ELSE IF type = "bypass" THEN {{}, {"warning", "critical"}}
        ELSE IF type = "anomaly" THEN {{}, {"warning"}} ELSE {{}}]

HoneyOnly == {Honey, Downgrade}

\* Goroutines are interchangeable.
Symm == Permutations(MC_Workers) \cup Permutations(MC_Admins)
===============================================================================
