-------------------------------- MODULE Gate --------------------------------
(***************************************************************************)
(* What the gate mode of the pipeline monitor promises to a pipeline       *)
(* module, without channels, locks, goroutines or modes: a checkpoint gets *)
(* at most one verdict, and a module that asked for a checkpoint proceeds  *)
(* only under a verdict that lets it.  Monitor implements this module.     *)
(***************************************************************************)
CONSTANTS
    CheckpointIds,          \* names of checkpoints
    Callers,                \* pipeline modules that ask for one
    AutoApproveOnTimeout    \* whether a timeout lets the module proceed

VARIABLES
    verdict,    \* verdict[id]: what has been decided about checkpoint id
    answer      \* answer[c]: what caller c was told, and about which id

vars == <<verdict, answer>>

Verdicts == {"pending", "approved", "rejected", "timed_out"}

NoAnswer == [told |-> "none"]

\* The verdicts under which a module may go on.
Permits(v) == v = "approved" \/ (v = "timed_out" /\ AutoApproveOnTimeout)

Init ==
    /\ verdict = [id \in CheckpointIds |-> "pending"]
    /\ answer = [c \in Callers |-> NoAnswer]

Settle(id) ==
    /\ verdict[id] = "pending"
    /\ \E v \in Verdicts \ {"pending"} : verdict' = [verdict EXCEPT ![id] = v]
    /\ UNCHANGED answer

Proceed(c, id) ==
    /\ answer[c] = NoAnswer
    /\ Permits(verdict[id])
    /\ answer' = [answer EXCEPT ![c] = [told |-> "proceed", id |-> id]]
    /\ UNCHANGED verdict

\* A refusal needs no verdict: leaving gate mode, or asking too late, refuses.
Refuse(c, id) ==
    /\ answer[c] = NoAnswer
    /\ answer' = [answer EXCEPT ![c] = [told |-> "stop", id |-> id]]
    /\ UNCHANGED verdict

Next ==
    \E id \in CheckpointIds :
        \/ Settle(id)
        \/ \E c \in Callers : Proceed(c, id) \/ Refuse(c, id)

Spec == Init /\ [][Next]_vars

=============================================================================
