----------------------------- MODULE DeployServer -----------------------------
(***************************************************************************)
(* One server of a workspace: the bare repository, the post-receive hook a *)
(* push starts, and deploy.py, which the hook runs                         *)
(* (remote/templates/post-receive.sh.tmpl, deploy.py.tmpl).  Hooks of      *)
(* different pushes run one at a time, in any order: flock is not a queue. *)
(***************************************************************************)
EXTENDS SequencesExt, FiniteSets

CONSTANTS
    Secrets,       \* versions of secrets.json
    Mixed,         \* some files, or workflows, of one commit and some of another
    ServerFaults   \* steps that may fail on the server

ServerFaultSet == {"archive", "deploy", "import", "activate", "list", "reboot"}
ASSUME ServerAssumption == ServerFaults \subseteq ServerFaultSet

VARIABLES
    main,       \* refs/heads/main of the bare repository
    hooks,      \* pushes whose hook waits for .deploy.lock
    running,    \* the push whose hook has the lock, or NoPush
    hpc,        \* where that hook is
    checkout,   \* the commit whose files the workflow directory holds, all of them; what
                \* earlier commits had besides stays: nothing is removed
    secrets,    \* secrets.json
    serving,    \* n8n on the server: the commit whose workflows it holds, all of them,
                \* whether each is active, whether some are there twice, the credentials
    marker,     \* last-deploy.json: [sha, status], or NoMarker
    log         \* commits that deploy-history.jsonl has an ok for

servervars == <<main, hooks, running, hpc, checkout, secrets, serving, marker, log>>

NoPush == <<>>
NoMarker == [sha |-> NoPush, status |-> "none"]
Marker(sha, status) == [sha |-> sha, status |-> status]
HookStep == {"idle", "archive", "deploy", "import"}

ServerInit(deployed) ==
    /\ main = deployed /\ hooks = {} /\ running = NoPush /\ hpc = "idle"
    /\ checkout = deployed
    /\ secrets \in Secrets
    /\ serving = [tree |-> deployed, active |-> TRUE, copies |-> FALSE, credentials |-> secrets]
    /\ marker = IF deployed = NoPush THEN NoMarker ELSE Marker(deployed, "ok")
    /\ log = {deployed}

\* A push moved main: git runs post-receive for it.
Receive(sha) ==
    /\ main' = sha
    /\ hooks' = hooks \cup {sha}

HookLock(sha) ==
    /\ sha \in hooks /\ running = NoPush
    /\ hooks' = hooks \ {sha} /\ running' = sha /\ hpc' = "archive"
    /\ UNCHANGED <<main, checkout, secrets, serving, marker, log>>

Hook(step) == running # NoPush /\ hpc = step

\* Mutant of Verdict: a step that failed is only logged.
AlwaysOk(failed) == "ok"
Verdict(failed) == IF failed THEN "error" ELSE "ok"

\* record, or write_marker: the file is replaced as a whole.  The hook ends.
EndHook(failed) ==
    /\ marker' = Marker(running, Verdict(failed))
    /\ log' = IF failed THEN log ELSE log \cup {running}
    /\ running' = NoPush /\ hpc' = "idle"

\* git archive | tar -x, over what earlier deployments unpacked.
Archive ==
    /\ Hook("archive")
    /\ \/ checkout' = running /\ hpc' = "deploy" /\ UNCHANGED <<running, marker, log>>
       \/ "archive" \in ServerFaults /\ EndHook(TRUE) /\ checkout' \in {checkout, Mixed}
    /\ UNCHANGED <<main, hooks, secrets, serving>>

\* docker compose up, then deploy.py: wait_ready, ensure_owner, ensure_api_key, and
\* sync_credentials from the secrets.json that is there now.  Whatever fails or raises
\* ends in an error marker.
DeployCredentials ==
    /\ Hook("deploy")
    /\ \/ /\ serving' = [serving EXCEPT !.credentials = secrets]
          /\ hpc' = "import" /\ UNCHANGED <<running, marker, log>>
       \/ "deploy" \in ServerFaults /\ EndHook(TRUE) /\ UNCHANGED serving
    /\ UNCHANGED <<main, hooks, checkout, secrets>>

\* activate_workflow: a refusal leaves the workflow inactive and is only logged.
Activated == IF "activate" \in ServerFaults THEN BOOLEAN ELSE {TRUE}

\* The list of remote workflows that sync_workflows matches names with: one that cannot
\* be read counts as empty, and workflows that are there are created again.
Copied == IF "list" \in ServerFaults THEN {serving.copies, TRUE} ELSE {serving.copies}

\* n8n has been given the workflows of a tree, or some of them.
Imported(content, active, copies) ==
    serving' = [serving EXCEPT !.tree = content, !.active = active, !.copies = copies]

\* sync_workflows updates or creates, and then activates, one workflow after the other;
\* then the marker.  Only an update or a creation that fails raises.
DeployWorkflows ==
    /\ Hook("import")
    /\ \/ \E a \in Activated, c \in Copied : Imported(checkout, a, c) /\ EndHook(FALSE)
       \/ /\ "import" \in ServerFaults /\ EndHook(TRUE)
          /\ \E a \in BOOLEAN, c \in Copied : Imported(Mixed, a, c)
    /\ UNCHANGED <<main, hooks, checkout, secrets>>

\* The server goes down: the hooks end where they are, no marker is written.
Reboot ==
    /\ "reboot" \in ServerFaults
    /\ running # NoPush
    /\ hooks' = {} /\ running' = NoPush /\ hpc' = "idle"
    /\ IF hpc = "import" THEN \E a \in BOOLEAN, c \in Copied : Imported(Mixed, a, c)
       ELSE UNCHANGED serving
    /\ checkout' \in IF hpc = "archive" THEN {checkout, Mixed} ELSE {checkout}
    /\ UNCHANGED <<main, secrets, marker, log>>

HookStepNext == Archive \/ DeployCredentials \/ DeployWorkflows

=============================================================================
