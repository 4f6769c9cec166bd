CONSTANTS
    p1 = p1
    p2 = p2
    a = a
    b = b
    c = c
    d = d
    Processes = {p1, p2}
    Threads = {a, b, c}
    ProcessOf <- MCThreeThreads
    Fds = {f1, f2, f3}
    NoFd = NoFd
    NoThread = NoThread
    MaxHolds = 2
    MaxNest = 2
    Faults = {"open", "flock", "probe"}
SPECIFICATION FairGSpec
INVARIANTS ExclusiveBarringLeaks OwnerAsNewBarringLeaks NothingLeftOpen
PROPERTIES SomebodyGetsIn
