CONSTANTS
    Workspaces = {w1}
    Ports = {p1}
    Names = {n1}
    Tasks = {t0, t1, t2}
    Main = t0
    Operations = {"create", "delete", "rename", "open", "stop", "halt", "reconcile"}
    Faults = {"ps", "up", "wait", "down", "crash_loop", "vanish"}
    Gestures = {"menu", "double_click", "inline_edit", "new", "close", "signal", "kill", "leave_while_busy"}
    NoRow = NoRow
    NoPort = NoPort
SPECIFICATION FairLSpec
PROPERTIES CloseEnds StartSettles BootRestoresBoard
