SPECIFICATION LiveSpec
CONSTANTS
    MaxEvents = 3
    Kinds <- MC_Kinds
    Queries <- MC_Queries
    DefaultPage = 2
    MaxPage = 2
    Limits = {1, 3}
    Ids = {1, 2, 3, 4, 5}
    MaxAdds = 5
    MaxGot = 5
    Times = {0, 1, 2, 3, 4, 5}
    Modules = {"sentinel", "anchor"}
    Tenants = {"a", "b"}
    Pipelines = {"full", ""}
    FiveMinutes = 1
    Hour = 2
    Day = 4
    Slow = 500
    ActivityLimit = 2
CHECK_DEADLOCK FALSE
ACTION_CONSTRAINT LeastNewId
INVARIANTS ReadsAgree PagesExact DashboardsAgree
PROPERTY LogSpec
 
