------------------------------- MODULE Publish -------------------------------
(***************************************************************************)
(* WorkspaceManager.publish: the commit and push of GitSync, the push of   *)
(* the branch to the server of DeployServer as main, and the wait for the  *)
(* marker of that commit; with the same repository synced by other tasks   *)
(* and, if an instance wants it, other launchers publishing to the server. *)
(***************************************************************************)
EXTENDS GitSync, DeployServer

CONSTANTS
    LinkFaults     \* calls over the network that may fail

LinkFaultSet == {"api", "upload", "chmod", "push", "late", "ssh", "kill", "others"}
ASSUME LinkAssumption == LinkFaults \subseteq LinkFaultSet

VARIABLES
    awaited,      \* expected_sha of a task, and what its polling has found
    row           \* server_last_deploy, server_last_error: the outcome recorded

publishvars == <<awaited, row>>
pvars == <<gitvars, servervars, publishvars>>

Result(sha, status) == [sha |-> sha, status |-> status]
Nothing == Result(NoSha, "none")
PublishStep == GitSteps \cup {"pushing", "poll", "record"}

PInit ==
    /\ GInit
    /\ ServerInit(NoSha)
    /\ awaited = [t \in Tasks |-> Nothing]
    /\ row = Nothing

\* Mutant of Return: the lock is given back on success only.
ReturnHolding(t) ==
    /\ GoTo(t, "idle") /\ op' = [op EXCEPT ![t] = "none"]
    /\ awaited' = [awaited EXCEPT ![t] = Nothing]
    /\ UNCHANGED lock

\* The operation returns or raises: its lock is given back, its variables are gone.
Return(t) ==
    /\ GoTo(t, "idle") /\ op' = [op EXCEPT ![t] = "none"]
    /\ lock' = IF lock = t THEN NoTask ELSE lock
    /\ awaited' = [awaited EXCEPT ![t] = Nothing]

\* ssh_run raises.
Unreachable(f, t) == f \in LinkFaults /\ Return(t)
\* write_remote_file: one rename replaces the whole of secrets.json.
WriteSecrets == secrets' \in Secrets

\* The credentials, whatever they are in the local n8n now, are read one by one and
\* written to secrets.json, which is replaced as a whole, then made private.  Nothing is
\* locked yet.
UploadSecrets(t) ==
    /\ At(t, "secrets")
    /\ \/ /\ WriteSecrets
          /\ \/ GoTo(t, "lock") /\ UNCHANGED <<op, lock, awaited>>
             \/ Unreachable("chmod", t)
       \/ (Unreachable("api", t) \/ Unreachable("upload", t)) /\ UNCHANGED secrets
    /\ UNCHANGED <<repo, main, hooks, running, hpc, checkout,
                   serving, marker, log, row>>

Local == <<branch, hist, tree, remotes, origin, flag>>
Server == <<running, hpc, checkout, secrets, serving, marker, log>>

\* What is pushed is a named branch, also from a detached HEAD; what is waited for is
\* HEAD (git_current_branch, git_head).
PushedBranch == IF branch = "detached" THEN "dev" ELSE branch

PushToServer(t) ==
    LET sha == hist[PushedBranch]
        fits == "server" \in remotes /\ sha # NoSha /\ FastForward(main, sha)
    IN
    /\ At(t, "server")
    /\ \/ /\ hist[branch] # NoSha /\ fits /\ sha # main
          /\ Receive(sha)
          /\ awaited' = [awaited EXCEPT ![t] = Result(hist[branch], "none")]
          /\ GoTo(t, "pushing")
          /\ UNCHANGED <<op, tracked, lock, row>>
       \/ /\ hist[branch] # NoSha /\ fits /\ sha = main   \* up to date: no hook is started
          /\ tracked' = [tracked EXCEPT !["server"] = sha]
          /\ awaited' = [awaited EXCEPT ![t] = Result(hist[branch], "none")]
          /\ GoTo(t, "poll") /\ lock' = NoTask
          /\ UNCHANGED <<op, main, hooks, row>>
       \/ /\ hist[branch] # NoSha /\ (~fits \/ "push" \in LinkFaults)
          /\ row' = Result(NoSha, "error") /\ Return(t)
          /\ UNCHANGED <<main, hooks, tracked>>
       \/ /\ hist[branch] = NoSha                        \* git_head raises
          /\ Return(t)
          /\ UNCHANGED <<main, hooks, tracked, row>>
    /\ UNCHANGED <<Local, Server>>

\* Mutant of GivesUp: the push may take as long as the hook does.
WaitsForHook == FALSE
GivesUp == "late" \in LinkFaults

\* git push returns when the hook has ended, or has taken 300 s: an error, although the
\* hook goes on.
PushReturns(t) ==
    LET sha == hist[PushedBranch] IN
    /\ At(t, "pushing")
    /\ \/ /\ sha \notin hooks /\ running # sha
          /\ tracked' = [tracked EXCEPT !["server"] = sha]
          /\ GoTo(t, "poll") /\ lock' = NoTask /\ UNCHANGED <<op, row, awaited>>
       \/ /\ GivesUp
          /\ row' = Result(NoSha, "error")
          /\ Return(t) /\ UNCHANGED tracked
    /\ UNCHANGED <<Local, main, hooks, Server>>

\* Mutant of MarkerCounts: any final marker is taken for the answer.
AnyMarker(t) == marker.status \in {"ok", "error"}
MarkerCounts(t) == marker.sha = awaited[t].sha /\ marker.status \in {"ok", "error"}

\* _poll_deploy: the marker of the commit, or the time-out; a failing ssh raises.
Poll(t) ==
    LET found == IF MarkerCounts(t) THEN marker.status ELSE "timeout" IN
    /\ At(t, "poll")
    /\ \/ awaited' = [awaited EXCEPT ![t].status = found] /\ GoTo(t, "record") /\ UNCHANGED <<op, lock>>
       \/ Unreachable("ssh", t)
    /\ UNCHANGED <<repo, servervars, row>>

\* _record_server_status; an error or a time-out is raised to the caller afterwards.
RecordStatus(t) ==
    /\ At(t, "record")
    /\ row' = IF awaited[t].status = "timeout" THEN Result(NoSha, "timeout") ELSE awaited[t]
    /\ Return(t)
    /\ UNCHANGED <<repo, servervars>>

\* Another launcher publishes what it has from origin.
OthersPublish ==
    LET sha == origin["dev"] IN
    /\ "others" \in LinkFaults
    /\ sha # main /\ FastForward(main, sha)
    /\ Receive(sha)
    /\ WriteSecrets
    /\ UNCHANGED <<gitvars, running, hpc, checkout, serving, marker, log, publishvars>>

\* The launcher dies; the kernel gives up its lock, git may leave its step undone.
Kill ==
    /\ "kill" \in LinkFaults
    /\ \E t \in Tasks : ~At(t, "idle")
    /\ gpc' = [t \in Tasks |-> "idle"] /\ op' = [t \in Tasks |-> "none"] /\ lock' = NoTask
    /\ awaited' = [t \in Tasks |-> Nothing]
    /\ UNCHANGED <<repo, servervars, row>>

PublishTask(t) ==
    \/ UploadSecrets(t) \/ PushToServer(t) \/ PushReturns(t) \/ Poll(t) \/ RecordStatus(t)
TaskNext(t) == PublishTask(t) \/ (GitTask(t) /\ UNCHANGED <<servervars, publishvars>>)
Start(t) == (\E o \in GitOps : BeginOp(t, o)) /\ UNCHANGED <<servervars, publishvars>>
HookNext == (HookStepNext \/ Reboot \/ \E sha \in hooks : HookLock(sha))
            /\ UNCHANGED <<gitvars, publishvars>>
Outside == (OthersPush \/ ("configure" \in GitOps /\ ConfigureGit))
           /\ UNCHANGED <<servervars, publishvars>>

PNext ==
    \/ \E t \in Tasks : TaskNext(t) \/ Start(t)
    \/ HookNext \/ Outside \/ OthersPublish \/ Kill

PSpec == PInit /\ [][PNext]_pvars

-----------------------------------------------------------------------------
(* Properties *)

PTypeOK ==
    /\ RepoTypeOK /\ gpc \in [Tasks -> PublishStep]
    /\ \A t \in Tasks : (gpc[t] \in Locked \cup {"pushing"} => lock = t) /\ (gpc[t] \in {"idle", "poll", "record"} => lock # t)
    /\ main \in Shas /\ hooks \subseteq Shas /\ running \in Shas /\ hpc \in HookStep
    /\ checkout \in Shas \cup {Mixed} /\ secrets \in Secrets
    /\ serving \in [tree : Shas \cup {Mixed}, active : BOOLEAN, copies : BOOLEAN, credentials : Secrets]
    /\ marker \in [sha : Shas, status : {"none", "ok", "error"}]
    /\ awaited \in [Tasks -> [sha : Shas, status : {"none", "ok", "error", "timeout"}]]
    /\ row \in [sha : Shas, status : {"none", "ok", "error", "timeout"}]

\* The production branch is never rewritten, by two launchers that publish to it and
\* pushes that are rejected, retried or abandoned (git_push_ref: no force).
ProductionOnlyGrows == [][IsPrefix(main, main')]_pvars

\* An `ok' recorded for a publication is one the server gave for that very commit,
\* although markers of other publications come before and after it (_poll_deploy).
OkWasDeployed == row.status = "ok" => row.sha \in log

\* When the server writes ok for a commit, n8n has been given every workflow of that
\* commit as it is in it, however hooks, failures and reboots interleave (`record',
\* write_marker).  It is not said that they run: an activation n8n refuses is never fatal
\* (activate_workflow).  What only earlier commits had may be there, too, and copies.
OkIsServed == [][(marker' # marker /\ marker'.status = "ok") => serving'.tree = marker'.sha]_pvars

\* The repository is given back whatever the server does: a hook that hangs does not
\* keep a workspace from being synced (publish, _PUBLISH_PUSH_TIMEOUT).
LockIsReturned == \A t \in Tasks : lock = t ~> lock # t

\* publish's own account of itself: when it records ok, the credentials it has uploaded
\* are those n8n on the server has.
OkMeansSecretsApplied ==
    [][\A t \in Tasks : (At(t, "record") /\ awaited[t].status = "ok" /\ row' = awaited[t])
          => serving.credentials = secrets]_pvars

PFairSpec == PSpec /\ \A t \in Tasks : WF_pvars(TaskNext(t))

=============================================================================
