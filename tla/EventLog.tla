------------------------------- MODULE EventLog -------------------------------
(***************************************************************************)
(* What the event store promises: it remembers the newest Capacity events, *)
(* newest first, and nothing else.  EventStore implements this module with *)
(* a ring buffer.                                                          *)
(***************************************************************************)
EXTENDS Integers, Sequences

CONSTANTS
    Event,      \* events that may be stored
    Capacity    \* how many are remembered

VARIABLE window     \* the remembered events, newest first

Init == window = <<>>

Remember(ev) ==
    window' = IF Len(window) < Capacity
              THEN <<ev>> \o window
              ELSE <<ev>> \o SubSeq(window, 1, Capacity - 1)

Next == \E ev \in Event : Remember(ev)

Spec == Init /\ [][Next]_window

\* An answer is the newest limit events of a set: they are remembered, in this
\* order, and none is left out but behind them all when there are as many.
Newest(answer, passing, limit) ==
    /\ Len(answer) <= limit
    /\ \E at \in [DOMAIN answer -> DOMAIN window] :
          /\ \A k \in DOMAIN answer : answer[k] = window[at[k]] /\ answer[k] \in passing
          /\ \A k, l \in DOMAIN answer : k < l => at[k] < at[l]
          /\ \A p \in DOMAIN window : window[p] \in passing =>
                \/ \E k \in DOMAIN answer : at[k] = p
                \/ Len(answer) = limit /\ \A k \in DOMAIN answer : at[k] < p
=============================================================================
