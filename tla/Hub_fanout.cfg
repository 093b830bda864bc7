SPECIFICATION LiveSpec
CONSTANTS
    Sockets = {w1}
    Streams = {g1}
    EventTags = {"info"}
    NoteTags = {"note"}
    BroadcastCap = 2
    SendCap = 1
    MaxAccepted = 2
    MaxFilters = 1
CHECK_DEADLOCK FALSE
INVARIANTS MapInStep FilterRespected NoSilentGap
PROPERTY FeedSpec
PROPERTY JoinServed
PROPERTY BrokenEnds
