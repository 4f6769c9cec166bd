SPECIFICATION CSpec
CONSTANTS
    Workspaces = {w1, w2}
    Tasks = {t1, t2}
    NoRow = no_row
    Uses = {"pill", "header", "menu", "double_click", "inline_edit", "new"}
    BoardFaults = {"up", "down", "reconcile", "sync"}
    MaxOverlaps = 1
    Keyed = {w1, w2}
SYMMETRY MCSymmetry
CHECK_DEADLOCK FALSE
INVARIANTS UnlockedAtRest LockedWhileWorking OpenCardsShowRows CompleteMeansDown
PROPERTIES DeletedWasStopped SavedBeforeDown
