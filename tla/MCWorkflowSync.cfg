SPECIFICATION WSpec
CONSTANTS
    ta = ta
    tb = tb
    i1 = i1
    i2 = i2
    no_id = no_id
    no_name = no_name
    a = a
    b = b
    x = x
    y = y
    Tasks <- OneTask
    Ids = {i1, i2}
    Numbered = {i1, i2}
    NoId = no_id
    NoName = no_name
    Titles = {a, b}
    Bodies = {x}
    SafeName <- OwnName
    HandWritten <- MCHandWritten
    Theirs <- MCTheirs
    Syncs = {"export", "import", "edit", "pull"}
    SyncFaults = {"list", "get", "create", "answer"}
PROPERTIES DeletedStaysDeleted NoTwinOfMirror PlanIsMade ExportMatches
