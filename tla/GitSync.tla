------------------------------- MODULE GitSync -------------------------------
(***************************************************************************)
(* The repository of one workspace and the operations that work on it: the *)
(* sync of a stop or a close, the pull of a start, the commits of the CI   *)
(* settings and the first half of a publication (workspaces/manager.py     *)
(* over git/manager.py), with other clones pushing to the same origin.     *)
(*                                                                         *)
(* A history is the sequence of commits from the root, a commit the set of *)
(* changes it records.  A history is also its last commit's SHA: equal     *)
(* histories, equal hashes.  Each git command is a step; the lock of       *)
(* module GitLock is one variable.                                         *)
(***************************************************************************)
EXTENDS SequencesExt

CONSTANTS
    Tasks,        \* threads of the launcher that may work on the repository
    NoTask,
    Changes,      \* what exports and the CI harness may write
    Others,       \* what other clones may push
    Markers,      \* conflict markers git left in a file
    Found,        \* branches a launcher may find checked out
    GitOps,       \* operations of an instance
    GitFaults     \* git commands that may fail

Branch == {"dev", "legacy", "other"}   \* "legacy": main, master or n8n/<id>
Heads == Branch \cup {"detached"}
Commit == SUBSET (Changes \cup Others \cup {Markers})
GitOpSet == {"sync", "pull", "ci", "publish", "configure"}
GitFaultSet == {"commit", "push", "answer", "pull", "conflict", "autostash", "checkout"}

ASSUME GitAssumption ==
    /\ NoTask \notin Tasks /\ Markers \notin Changes \cup Others
    /\ Found \subseteq Branch /\ GitOps \subseteq GitOpSet /\ GitFaults \subseteq GitFaultSet

VARIABLES
    branch,   \* where HEAD is
    hist,     \* local branches; <<>> is a branch without commits, or none
    tree,     \* changes of the working tree that no commit has
    remotes,  \* remotes configured in .git/config
    origin,   \* branches of the repository behind origin
    tracked,  \* refs/remotes: what this clone last saw of each remote
    flag,     \* git_push_failed of the row
    lock,     \* who is inside workspace_git_lock
    op, gpc   \* what each task does, and where it is

repo == <<branch, hist, tree, remotes, origin, tracked, flag>>
gitvars == <<repo, lock, op, gpc>>

GitSteps == {"idle", "export", "lock", "branch", "commit", "push", "retry_pull",
             "retry_push", "pull", "server", "unlock", "secrets"}

-----------------------------------------------------------------------------
(* The git commands, as what each may answer *)

Elements(h) == UNION Range(h)
NoSha == <<>>
Tracking == Branch \cup {"server"}

\* git_init, or the repository a launcher finds: on a branch of an older policy or on dev,
\* with a commit or none.
LocalRepo ==
    /\ branch \in Found
    /\ \E root \in {NoSha, <<{}>>} :
         hist = [b \in Heads |-> IF b = branch THEN root ELSE NoSha]
    /\ tree = {}

\* With or without remotes; origin is empty or has the same commit.
GInit ==
    /\ LocalRepo
    /\ remotes \in SUBSET {"origin", "server"}
    /\ origin \in {[b \in Branch |-> NoSha], [b \in Branch |-> hist[b]]}
    /\ tracked = [r \in Tracking |-> IF r = "server" \/ "origin" \notin remotes THEN NoSha
                                     ELSE origin[r]]
    /\ flag = FALSE /\ lock = NoTask
    /\ op = [t \in Tasks |-> "none"] /\ gpc = [t \in Tasks |-> "idle"]

\* rev-list --branches --not --remotes: a branch whose tip no tracking ref reaches.
Unpushed(h) == h # NoSha /\ \A r \in Tracking : ~IsPrefix(h, tracked[r])
HasUnpushed == \E b \in Branch : Unpushed(hist[b])

Answer(res, o, seen) == [res |-> res, origin |-> o, tracked |-> seen]
Refused == Answer("error", origin, tracked)

\* Mutant of FastForward: the push is forced.
AnyPush(from, to) == TRUE
FastForward(from, to) == IsPrefix(from, to)

\* git_push: nothing without any remote, an error when only `server' is configured,
\* on a detached HEAD or an unborn branch.  The answer of a push may be lost.
PushAnswers(b, h) ==
    LET sent == [origin EXCEPT ![b] = h] IN
    IF remotes = {} THEN {Answer("ok", origin, tracked)}
    ELSE IF b = "detached" \/ "origin" \notin remotes \/ h = NoSha THEN {Refused}
    ELSE (IF FastForward(origin[b], h)
          THEN {Answer("ok", sent, [tracked EXCEPT ![b] = h])}
               \cup (IF "answer" \in GitFaults THEN {Answer("error", sent, tracked)} ELSE {})
          ELSE {Answer("rejected", origin, tracked)})
         \cup (IF "push" \in GitFaults THEN {Refused} ELSE {})

\* Mutant of Rebased: a reset to what origin has.
ResetTo(h, onto) == onto
\* The local commits replayed one by one on what origin has; a commit it has already is
\* dropped.
Rebased(h, onto) ==
    LET replayed[i \in 0..Len(h)] ==
          IF i = 0 THEN onto
          ELSE IF h[i] \in Range(onto) THEN replayed[i - 1]
          ELSE Append(replayed[i - 1], h[i])
    IN replayed[Len(h)]

Pulled(res, b, hs, files, seen) ==
    [res |-> res, branch |-> b, hist |-> hs, tree |-> files, tracked |-> seen]
NotPulled == Pulled("error", branch, hist, tree, tracked)

\* git_pull --rebase --autostash.  A conflict leaves the rebase open: HEAD is
\* detached on origin's history and the files hold markers; a pull in that state is
\* refused.  A stash that conflicts leaves markers too, and the pull reports success.
PullAnswers ==
    IF remotes = {} THEN {Pulled("ok", branch, hist, tree, tracked)}
    ELSE IF branch = "detached" \/ "origin" \notin remotes \/ origin[branch] = NoSha
    THEN {NotPulled}
    ELSE LET onto == origin[branch]
             seen == [tracked EXCEPT ![branch] = onto]
             done == [hist EXCEPT ![branch] = Rebased(hist[branch], onto)]
             both == ~IsPrefix(onto, hist[branch])
         IN {Pulled("ok", branch, done, tree, seen)}
            \cup (IF "pull" \in GitFaults THEN {NotPulled} ELSE {})
            \cup (IF "autostash" \in GitFaults /\ both /\ tree # {}
                  THEN {Pulled("ok", branch, done, tree \cup {Markers}, seen)} ELSE {})
            \cup (IF "conflict" \in GitFaults /\ both /\ ~IsPrefix(hist[branch], onto)
                  THEN {Pulled("error", "detached", [hist EXCEPT !["detached"] = onto],
                               tree \cup {Markers}, seen)} ELSE {})

Switched(to, h, o, seen) == [branch |-> to, hist |-> h, origin |-> o, tracked |-> seen]
ToDev(h) == [hist EXCEPT !["dev"] = h]
\* git branch -M dev: the old branch becomes dev, whatever dev was.
Renamed(b) == [hist EXCEPT !["dev"] = hist[b], ![b] = NoSha]
\* A fresh dev is pushed; a push that fails is only logged.
Pushed(h) == {Switched("dev", h, a.origin, a.tracked) : a \in PushAnswers("dev", h["dev"])}

\* ensure_workspace_branch: a local dev (or an unborn HEAD) is taken as it is; else the
\* dev of origin, known or fetched; else one started from HEAD and pushed.  A detached
\* HEAD stays.
Ensured ==
    LET theirs == IF "origin" \in remotes THEN origin["dev"] ELSE NoSha
        fetched == [tracked EXCEPT !["dev"] = theirs]
        switch(h, seen) == {Switched("dev", ToDev(h), origin, seen)}
        created == Pushed(ToDev(hist[branch]))
    IN
    IF branch \in {"dev", "detached"} THEN {Switched(branch, hist, origin, tracked)}
    ELSE IF hist[branch] = NoSha \/ hist["dev"] # NoSha THEN switch(hist["dev"], tracked)
    ELSE IF tracked["dev"] # NoSha THEN switch(tracked["dev"], tracked)
    ELSE (IF theirs # NoSha THEN switch(theirs, fetched) ELSE created)
         \cup (IF "pull" \in GitFaults THEN created ELSE {})

-----------------------------------------------------------------------------
(* The steps of the operations *)

At(t, s) == gpc[t] = s
GoTo(t, s) == gpc' = [gpc EXCEPT ![t] = s]

BeginOp(t, o) ==
    /\ At(t, "idle") /\ o \in GitOps \ {"configure"}
    /\ op' = [op EXCEPT ![t] = o]
    /\ GoTo(t, CASE o = "pull" -> "lock" [] o = "ci" -> "branch" [] OTHER -> "export")
    /\ UNCHANGED <<repo, lock>>

\* export_all before a stop or a publication (best effort), or the files of the CI
\* harness: no lock is held.
WriteFiles(t) ==
    /\ At(t, "export")
    /\ \/ UNCHANGED tree
       \/ \E c \in Changes \ (tree \cup UNION {Elements(hist[b]) : b \in Heads}) :
             tree' = tree \cup {c}
    /\ GoTo(t, IF op[t] = "publish" THEN "secrets" ELSE "lock")
    /\ UNCHANGED <<branch, hist, remotes, origin, tracked, flag, lock, op>>

\* Mutant of TakeLock: a busy lock is waited for and then ignored.
TakeLockAnyway(t) ==
    /\ At(t, "lock")
    /\ lock' = t
    /\ GoTo(t, IF op[t] = "ci" THEN "commit" ELSE "branch")
    /\ UNCHANGED <<repo, op>>

TakeLock(t) ==
    /\ At(t, "lock") /\ lock = NoTask
    /\ lock' = t
    /\ GoTo(t, IF op[t] = "ci" THEN "commit" ELSE "branch")
    /\ UNCHANGED <<repo, op>>

\* _ensure_workspace_branch, before the lock is taken when the CI settings change.
EnsureBranch(t) ==
    /\ At(t, "branch")
    /\ \/ \E a \in IF branch = "legacy" THEN Pushed(Renamed("legacy")) ELSE Ensured :
            /\ branch' = a.branch /\ hist' = a.hist
            /\ origin' = a.origin /\ tracked' = a.tracked
       \/ "checkout" \in GitFaults /\ UNCHANGED <<branch, hist, origin, tracked>>
    /\ GoTo(t, CASE op[t] = "ci" -> "export" [] op[t] = "pull" -> "pull" [] OTHER -> "commit")
    /\ UNCHANGED <<tree, remotes, flag, lock, op>>

AfterCycle(t) == IF op[t] = "publish" THEN "server" ELSE "unlock"

\* Mutant of NeedsPush: only this call's own commit is pushed.
PushIfCommitted(made) == made
NeedsPush(made) == made \/ HasUnpushed'

\* git add -A and git commit; a failure is flagged and ends the cycle.
CommitAll(t) ==
    LET made == tree # {} IN
    /\ At(t, "commit")
    /\ \/ /\ hist' = IF made THEN [hist EXCEPT ![branch] = Append(@, tree)] ELSE hist
          /\ tree' = {}
          /\ UNCHANGED <<flag, tracked>>
          /\ GoTo(t, IF NeedsPush(made) THEN "push" ELSE AfterCycle(t))
       \/ /\ "commit" \in GitFaults
          /\ flag' = TRUE
          /\ GoTo(t, AfterCycle(t))
          /\ UNCHANGED <<hist, tree, tracked>>
    /\ UNCHANGED <<branch, remotes, origin, lock, op>>

\* Mutant of FlagAfter: a rejected push is left to the retry to flag.
FlagErrors(res) == res = "error"
FlagAfter(res) == res # "ok"

\* The first push; a rejection is flagged too, until the retry has succeeded.
PushDev(t) ==
    /\ At(t, "push")
    /\ \E a \in PushAnswers(branch, hist[branch]) :
         /\ origin' = a.origin /\ tracked' = a.tracked
         /\ flag' = FlagAfter(a.res)
         /\ GoTo(t, IF a.res = "rejected" THEN "retry_pull" ELSE AfterCycle(t))
    /\ UNCHANGED <<branch, hist, tree, remotes, lock, op>>

\* The pull before the retry, or the pull of a start, whose failure is a warning.
Pull(t) ==
    /\ gpc[t] \in {"retry_pull", "pull"}
    /\ \E a \in PullAnswers :
         /\ branch' = a.branch /\ hist' = a.hist /\ tree' = a.tree /\ tracked' = a.tracked
         /\ GoTo(t, IF At(t, "pull") THEN "unlock"
                    ELSE IF a.res = "ok" THEN "retry_push" ELSE AfterCycle(t))
    /\ UNCHANGED <<remotes, origin, flag, lock, op>>

RetryPush(t) ==
    /\ At(t, "retry_push")
    /\ \E a \in PushAnswers(branch, hist[branch]) :
         /\ origin' = a.origin /\ tracked' = a.tracked
         /\ flag' = (flag /\ a.res # "ok")
    /\ GoTo(t, AfterCycle(t))
    /\ UNCHANGED <<branch, hist, tree, remotes, lock, op>>

Unlock(t) ==
    /\ At(t, "unlock")
    /\ lock' = NoTask
    /\ GoTo(t, "idle") /\ op' = [op EXCEPT ![t] = "none"]
    /\ UNCHANGED repo

-----------------------------------------------------------------------------
\* Another clone commits on what it has fetched and pushes.
OthersPush ==
    \E c \in Others \ Elements(origin["dev"]) :
      /\ origin' = [origin EXCEPT !["dev"] = Append(@, {c})]
      /\ UNCHANGED <<branch, hist, tree, remotes, tracked, flag, lock, op, gpc>>

\* configure_git, git_init_workspace: origin is attached or detached, the flag reset.
\* No lock is taken, and without an origin of that name set-url fails before the save.
ConfigureGit ==
    /\ \/ remotes' = remotes \ {"origin"}
       \/ /\ "origin" \in remotes \/ remotes = {}
          /\ remotes' = remotes \cup {"origin"}
    /\ flag' = FALSE
    /\ tracked' = IF "origin" \in remotes' THEN tracked
                  ELSE [r \in Tracking |-> IF r = "server" THEN tracked[r] ELSE NoSha]
    /\ UNCHANGED <<branch, hist, tree, origin, lock, op, gpc>>

GitTask(t) ==
    \/ WriteFiles(t) \/ TakeLock(t) \/ EnsureBranch(t) \/ CommitAll(t) \/ PushDev(t)
    \/ Pull(t) \/ RetryPush(t) \/ Unlock(t)
GNext ==
    \/ \E t \in Tasks : GitTask(t) \/ \E o \in GitOps : BeginOp(t, o)
    \/ OthersPush \/ ("configure" \in GitOps /\ ConfigureGit)
GSpec == GInit /\ [][GNext]_gitvars

-----------------------------------------------------------------------------
(* Properties *)

Shas == Seq(Commit)
RepoTypeOK ==
    /\ branch \in Heads /\ hist \in [Heads -> Shas] /\ tree \in Commit
    /\ remotes \subseteq {"origin", "server"}
    /\ origin \in [Branch -> Shas] /\ tracked \in [Tracking -> Shas]
    /\ flag \in BOOLEAN /\ lock \in Tasks \cup {NoTask}
    /\ op \in [Tasks -> GitOpSet \cup {"none"}]

\* The steps between the lock and its release, but the branch check, which the CI settings
\* make without it.
Locked == {"commit", "push", "retry_pull", "retry_push", "pull", "server", "unlock"}

\* What this clone or its origin still has of the launcher's work.
Kept == tree \cup (UNION {Elements(hist[b]) : b \in Heads})
             \cup (UNION {Elements(origin[b]) : b \in Branch})

\* Whatever is exported stays in the working tree or in a history, through renames,
\* rebases that conflict, autostashes, rejected pushes and detached heads (git_pull,
\* ensure_workspace_branch, _commit_and_push).
WorkIsKept == [][Kept \subseteq Kept']_gitvars

\* origin is never rewritten, whatever this clone and the others push to it (git_push).
OriginOnlyGrows == [][\A b \in Branch : IsPrefix(origin[b], origin'[b])]_gitvars

\* The flag and the pushes agree: a first push, or a cycle without one, that leaves dev
\* unpushed has raised the flag, and no step of a cycle lowers it before some remote has
\* dev (_commit_and_push, _set_git_push_failed).
Behind == "origin" \in remotes /\ branch = "dev" /\ Unpushed(hist["dev"])
FlagTellsUnpushed ==
    [][\A t \in Tasks : gpc'[t] # gpc[t] =>
         /\ (gpc[t] \in {"commit", "push"} /\ gpc'[t] # "push" /\ Behind') => flag'
         /\ (flag /\ ~flag') => ~Behind']_gitvars

\* What the chip is for: when a cycle has ended with dev not pushed, it is flagged.
CycleStep == {"commit", "push", "retry_pull", "retry_push"}
EndedBehindIsFlagged ==
    [][\A t \in Tasks : (gpc[t] \in CycleStep /\ gpc'[t] \in {"unlock", "server"} /\ Behind')
          => flag']_gitvars

=============================================================================
