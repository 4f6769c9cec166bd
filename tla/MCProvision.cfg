SPECIFICATION PrSpec
CONSTANTS
    ta = ta
    tb = tb
    Callers <- OneTask
    Passwords = {p1, p2}
    Keys = {k1, k2, k3}
    NoDb = no_db
    Nothing = nothing
    LastMigration = 2
    Settings = {"start", "ensure", "configure_db", "update", "stop", "revoke"}
    ProvisionFaults = {"docker", "ready", "role", "refused", "sql", "timeout", "owner", "list_keys", "delete_key", "create_key", "api", "answer"}
SYMMETRY MCSymmetry
INVARIANTS RestartIsAsked
PROPERTIES RunningIsMigrated KeyIsSaved
