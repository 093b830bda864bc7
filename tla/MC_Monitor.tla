------------------------------ MODULE MC_Monitor ------------------------------
(* Instances of Monitor for TLC. *)
EXTENDS Monitor, TLC

CONSTANTS t1, t2, s1, s2, o1, o2, k1, k2, c1, c2, c3, op1

NoOne == {}
MC_Traces == {t1, t2}
MC_OneTrace == {t1}
MC_SessionIds == {s1, s2}
MC_EventKinds == {[module |-> "vault", status |-> "passed"],
                  [module |-> "vault", status |-> "blocked"],
                  [module |-> "llm", status |-> "passed"]}
MC_Observers == {o1, o2}
MC_CheckpointIds == {k1, k2}
MC_OneCheckpoint == {k1}
MC_Callers == {c1, c2, c3}
MC_TwoCallers == {c1, c2}
MC_Operators == {op1}
MC_AnyMode == {"off", "observe", "gate"}

\* Names of one kind are interchangeable (safety runs only).
Symm == Permutations({c1, c2, c3}) \cup Permutations({k1, k2})
SessionSymm == Permutations({t1, t2}) \cup Permutations({s1, s2})
               \cup Permutations({o1, o2})
=============================================================================
