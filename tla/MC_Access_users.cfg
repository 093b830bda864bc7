SPECIFICATION Spec
CONSTANTS
    Names = {"root", "eve"}
    Secrets = {"s", "t"}
    Seed <- MC_Seed
    RequestedRoles = {"admin", "viewer"}
    NewSecrets = {"t"}
    g1 = g1  g2 = g2
    Requests <- MC_Requests
    AuditMax = 1
    MaxTokens = 2
    MaxEntries = 2
INVARIANTS AdminRemains RoleEarned ChangedByAdmin TokensOnRecord
SYMMETRY Symm
CHECK_DEADLOCK FALSE
