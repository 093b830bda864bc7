SPECIFICATION LiveSpec
CONSTANTS
    t1 = t1  t2 = t2
    s1 = s1  s2 = s2
    o1 = o1  o2 = o2
    k1 = k1  k2 = k2
    c1 = c1  c2 = c2  c3 = c3
    op1 = op1
    NoSession = NoSession
    Nobody = Nobody
    Operators <- MC_Operators
    InitialModes <- MC_AnyMode
    EventKinds <- MC_EventKinds
    Traces <- NoOne
    SessionIds <- NoOne
    Observers <- NoOne
    CheckpointIds <- MC_CheckpointIds
    Callers <- MC_TwoCallers
    AutoApproveOnTimeout = FALSE
    SharedWaiters = TRUE
    MaxSteps = 0
INVARIANTS SendNeverBlocks NoLostWakeup AnswerOnRecord
PROPERTY GateSpec
PROPERTY EventuallyDecided
PROPERTY SomeWaitReturns
