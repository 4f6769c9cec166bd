CONSTANTS
    Workspaces = {w1, w2}
    Ports = {p1, p2}
    Names = {n1, n2}
    Tasks = {t0, t1}
    Main = t0
    Operations = {"create", "delete", "rename", "open", "stop", "halt", "reconcile"}
    Faults = {"status", "up", "wait", "down", "crash_loop", "vanish", "store"}
    Gestures = {"pill", "menu", "header", "inline_edit", "new", "close", "signal", "kill"}
    NoRow = NoRow
    NoPort = NoPort
SPECIFICATION LSpec
SYMMETRY MCSymmetry
INVARIANTS TypeOK LiveStackListed BoardMatchesDocker ClosedOrReported
PROPERTIES ImplementsBook
