------------------------------ MODULE MC_Dashboard ------------------------------
(* Constants of Dashboard for TLC: three kinds of events, of which one is a day *)
(* old when another is new and all lie on the edge of some window.              *)
EXTENDS Dashboard, TLC

Base == [module |-> "sentinel", status |-> "passed", severity |-> "info", tenant |-> "a",
         pipeline |-> "full", honey |-> FALSE, ms |-> 1]
At(time, rest) == [at |-> time] @@ rest

Fresh == At(5, [Base EXCEPT !.status = "blocked", !.severity = "critical"])
Failed == At(3, [Base EXCEPT !.module = "anchor", !.status = "error", !.severity = "error",
                             !.pipeline = "", !.honey = TRUE, !.tenant = "b"])
Stale == At(0, [Base EXCEPT !.status = "blocked", !.severity = "warning"])

MC_Kinds == {Fresh, Failed, Stale}
MC_Queries == {MC_Kinds, {Failed, Stale}}

\* Ids are compared for being equal and nothing else: an event comes with an id that is
\* in use or, of those that are not, with the least.
InUse == {Slot(i).id : i \in 0..(Size - 1)} \cup {cursor}
LeastNewId == (Slot(0).id)' \in InUse \/ \A id \in Ids \ InUse : (Slot(0).id)' <= id
===============================================================================
