CONSTANTS
    Workspaces = {w1, w2}
    Ports = {p1, p2}
    Names = {n1, n2}
    Tasks = {t1, t2}
    Operations = {"create", "delete", "rename", "open", "stop", "halt", "reconcile"}
    Faults = {"ps", "status", "up", "wait", "down", "crash_loop"}
    NoRow = NoRow
    NoPort = NoPort
SPECIFICATION Spec
PROPERTIES EditsSurvive
