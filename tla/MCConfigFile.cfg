CONSTANTS
    MaxEdits = 4
    None = None
    Blank = Blank
    Faults = {"kill", "connect", "read", "replace"}
SPECIFICATION FSpec
INVARIANTS CurrentIsStored
