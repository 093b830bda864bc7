SPECIFICATION Spec
CONSTANTS
    Evaluators = {e1, e2}
    Rules = {"resolving"}
    AutoResolving = {"resolving"}
    Escalating = {"resolving"}
    MaxSeq = 2
CHECK_DEADLOCK FALSE
INVARIANTS GaugeCoversFiring EscalatedOnce
PROPERTY LostOnlyByRace
