-------------------------------- MODULE MC_Demo --------------------------------
(* Instances of Demo for TLC. *)
EXTENDS Demo, TLC

CONSTANTS r1, r2, r3

MC_Runs == {r1, r2, r3}
MC_TwoRuns == {r1, r2}
MC_NoNames == {}

\* An annotation before each of two events, and one behind the last.
MC_Script(n) == <<"note", "event", "event", "note">>
MC_ShortScript(n) == <<"event">>

Symm == Permutations({r1, r2, r3})
=============================================================================
