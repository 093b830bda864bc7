SPECIFICATION Spec
CONSTANTS
    w1 = w1  w2 = w2  a1 = a1  a2 = a2
    Workers <- MC_Workers
    Admins <- MC_Admins
    Traces = {"t"}
    Tenants = {"a"}
    Templates <- HoneyOnly
    Detects <- MC_Detects
    Publishing = FALSE
    SeedTokens = 1
    MaxDead = 1
    MinPrior = 1
    MaxExternal = 2
    MaxFeedback = 2
    MaxTokens = 2
    MaxIncidents = 2
CHECK_DEADLOCK FALSE
SYMMETRY Symm
INVARIANT TriggersCounted
