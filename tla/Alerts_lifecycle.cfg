SPECIFICATION LiveSpec
CONSTANTS
    Evaluators = {e1, e2}
    Rules = {"resolving", "escalating"}
    AutoResolving = {"resolving"}
    Escalating = {"resolving", "escalating"}
    MaxSeq = 1
CHECK_DEADLOCK FALSE
PROPERTIES FiringEnds EscalationComes
