CONSTANTS
    p1 = p1
    p2 = p2
    m1 = m1
    m2 = m2
    t1 = t1
    Processes = {p1, p2}
    MainOf <- MCMainOf
    PoolOf <- MCPoolOf
    NoProcess = NoProcess
    Kills = TRUE
    Workspaces = {w1}
    Ports = {port1}
    Names = {n1}
    Tasks = {m1, m2, t1}
    Operations = {"stop", "halt", "reconcile"}
    Faults = {"down"}
    NoRow = NoRow
    NoPort = NoPort
    Systems = {"Linux", "Windows", "Darwin"}
    UpdateFaults = {"fetch", "download", "unpack", "move_aside", "move_in", "swap", "copy", "kill_helper"}
SPECIFICATION FairUSpec
CHECK_DEADLOCK FALSE
INVARIANTS OneSession NothingIsLost HelperLeavesInstall
PROPERTIES LockIsFreed HelperEnds
