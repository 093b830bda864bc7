SPECIFICATION Spec
CONSTANTS
    t1 = t1  t2 = t2
    s1 = s1  s2 = s2
    o1 = o1  o2 = o2
    k1 = k1  k2 = k2
    c1 = c1  c2 = c2  c3 = c3
    op1 = op1
    NoSession = NoSession
    Nobody = Nobody
    Operators <- MC_Operators
    InitialModes <- MC_AnyMode
    EventKinds <- MC_EventKinds
    Traces <- MC_Traces
    SessionIds <- MC_SessionIds
    Observers <- MC_Observers
    CheckpointIds <- NoOne
    Callers <- NoOne
    AutoApproveOnTimeout = FALSE
    SharedWaiters = FALSE
    MaxSteps = 2
SYMMETRY SessionSymm
INVARIANT SessionIndex
PROPERTY SessionHistory
