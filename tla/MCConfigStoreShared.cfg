CONSTANTS
    p1 = p1
    p2 = p2
    a = a
    b = b
    c = c
    Callers = {a, c}
    Processes = {p1, p2}
    ProcessOf <- MCOneThreadEach
    NoCaller = NoCaller
    MaxVersion = 2
    Missing = Missing
    Blank = Blank
    Refused = Refused
    HasLegacy = TRUE
    Faults = {"busy", "commit"}
SPECIFICATION FairSSpec
PROPERTIES MutateIsAtomic LockedCallsEnd
