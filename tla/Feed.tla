-------------------------------- MODULE Feed --------------------------------
(***************************************************************************)
(* What the hub promises to whoever watches: a lossy feed.  Messages are   *)
(* numbered in the order they were accepted; a watcher may miss any of     *)
(* them, but sees none twice, none out of order and none that nobody sent. *)
(* Hub implements this module.                                             *)
(***************************************************************************)
EXTENDS Integers, Sequences

CONSTANT Watchers

VARIABLES
    sent,       \* how many messages were accepted
    seen        \* seen[x]: the numbers watcher x has seen, in order

vars == <<sent, seen>>

Init ==
    /\ sent = 0
    /\ seen = [x \in Watchers |-> <<>>]

Accept ==
    /\ sent' = sent + 1
    /\ UNCHANGED seen

Newest(x) == IF seen[x] = <<>> THEN 0 ELSE seen[x][Len(seen[x])]

See(x) ==
    /\ \E n \in (Newest(x) + 1)..sent : seen' = [seen EXCEPT ![x] = Append(@, n)]
    /\ UNCHANGED sent

Next == Accept \/ \E x \in Watchers : See(x)

Spec == Init /\ [][Next]_vars
=============================================================================
