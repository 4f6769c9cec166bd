SPECIFICATION GSpec
CONSTANTS
    ta = ta
    tb = tb
    Tasks <- MCTasks
    NoTask = no_task
    Changes = {w}
    Others = {o}
    Markers = conflict_markers
    Found = {"dev", "legacy", "other"}
    GitOps = {"sync", "pull", "ci", "configure"}
    GitFaults = {"commit", "push", "answer", "pull", "conflict", "autostash", "checkout"}
SYMMETRY MCSymmetry
PROPERTIES WorkIsKept OriginOnlyGrows FlagTellsUnpushed
