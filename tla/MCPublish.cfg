SPECIFICATION PFairSpec
CONSTANTS
    ta = ta
    tb = tb
    Tasks = {ta}
    NoTask = no_task
    Changes = {w}
    Others = {o}
    Markers = conflict_markers
    Found = {"dev"}
    GitOps = {"publish"}
    GitFaults = {}
    Mixed = mixed
    ServerFaults = {"archive", "deploy", "import", "activate", "list", "reboot"}
    Secrets = {0}
    LinkFaults = {"upload", "chmod", "push", "late", "ssh", "kill", "others"}
INVARIANTS OkWasDeployed
PROPERTIES  LockIsReturned
