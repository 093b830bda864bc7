SPECIFICATION Spec
CONSTANTS
    g1 = g1  g2 = g2  u = u  t = t
    NoUser = NoUser  NoTrace = NoTrace
    Inspectors <- MC_Inspectors
    Users = {u}
    Traces = {t}
    Templates <- MC_Templates
    OffHours <- MC_OffHours
    MaxTime = 2
    Minute = 1
    BaselineWindow = 3
    MinSamples = 3
    SigmaSquared = 1
    UserWindow = 2
    UserLimit = 2
    BlockWindow = 2
    BlockCount = 2
    LayerWindow = 1
    Day = 1
    Capacity = 1
    MaxInspected = 4
    MaxFed = 1
CHECK_DEADLOCK FALSE
SYMMETRY Symm
INVARIANTS ReportsExact LateStillReported
PROPERTY SpikeNeedsMinutes
