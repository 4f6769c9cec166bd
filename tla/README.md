# n8n Workspace Manager in TLA+

Specifications of the launcher in `src/`: a desktop program that keeps a list of
n8n workspaces in a SQLite file, starts and stops one Docker Compose project per
workspace, synchronizes each one's workflows through Git and publishes them to a
server.  The modules here model its control (state changes, guards, early returns and
error paths, but for those section 6 lists) and abstract its data to what the properties
tell apart.
TLC checks small instances; TLAPS proves what is listed under *Proofs* for every
value of the constants.

Paths below are relative to `src/src/n8n_launcher/` unless they start with `src/`.

## 1. Inventory

| Part | State it keeps | Operations | Interacts with |
|---|---|---|---|
| Workspace lifecycle, `workspaces/manager.py` | the rows of `launcher.db` (state, port, name, git, database and server fields), Compose files | create, delete, rename, ensure_serving / start, stop / stop_with_sync, reconcile_all | store, Docker, Git, n8n, server; publishes to observers after each commit |
| Configuration edits, same file | the same rows, `restart_required` | update, configure_db, configure_git, enable_ci, ensure_running | store, Git, n8n, migrations |
| Session, `__main__.py`, `gui/app.py` | launcher.lock, the process, signal and atexit handlers | boot, window, close, signal, teardown | lifecycle, store, lock |
| Window, `gui/window.py`, `gui/actions.py`, `gui/board.py`, `gui/workspace_model.py`, `gui/notifier.py`, `workspaces/status.py` | busy flag and its counter, cached rows behind the cards, modal menus and questions | gestures to operations on pool threads, queued signals back | lifecycle |
| Close sequence, `workspaces/close.py` | the workspaces still to close | reconcile, export, sync, stop, each with a decision of the caller | lifecycle |
| Configuration store, `core/config.py` | launcher.db and its sidecar, one cached connection, an RLock | load, save, mutate, close, import of config.json, export_json | SQLite, other processes |
| Locks, `core/filelock.py`, `workspace_git_lock` in `git/manager.py` | descriptor, depth, owner per path | acquire, release, nested sections | the kernel's flock |
| Git, `git/manager.py` | the working tree, branches, remotes | branch policy, commit, pull --rebase, push with retry | lifecycle, other clones |
| Server, `remote/` | bare repository, deploy marker, history, secrets | push, post-receive hook, deploy.py, marker polling | lifecycle, other publishers |
| n8n bridge, `n8n/` | owner, API key, workflow files | bootstrap, keys, import, export | n8n's HTTP API |
| Managed database, `database/` | role, table of applied files, n8n credential | detect, run, retry | Docker (psql) |
| Update, `platform/update_flow.py`, `platform/updater.py` | the installation on disk | check, download, swap, relaunch | sessions, operating system |
| Docker, `docker/` | none (Docker holds the containers) | up, down, status, list_project_states, exec_psql | lifecycle, migrations |
| Journal, `monitoring/` | events.db | write, redact, prune, search | everything |
| GitHub and CI, `github/`, `workspaces/ci.py` | none of its own | REST calls, generated files | lifecycle |

What is hard here, and what makes each part right:

* **Several actors on one table.**  Pool threads, the main thread's teardown and, for
  a while, a second process work on the same rows, in operations of several
  transactions with Docker calls of minutes in between.  Right means: ports stay
  distinct, a deleted workspace stays deleted, and what is up is listed and not called
  STOPPED.
* **A table that describes something else.**  Rows say what Docker should hold.  Every
  call may fail or time out half way, the process may die anywhere, and the next boot
  has to repair the board.
* **Shutdown from everywhere.**  Signal handler, window, `main`'s finally and atexit all
  tear down, with tasks in flight; it must end, and leave nothing up unreported.
* **A window behind queued signals.**  Cards, menus and the busy flag are copies that
  arrive late; they must be right once everything is delivered, and nothing may be
  deleted on the word of an old one.
* **A configuration that must not be lost.**  Threads and processes write one SQLite file
  in WAL mode; an unreadable file is moved aside; an old `config.json` is imported.
* **Locks with failure paths.**  A reentrant thread lock over a counted file lock over
  flock, each of which can fail between two assignments.
* **Remote steps without an acknowledgement.**  A push may arrive without an answer, a
  hook may outlive the push that started it, a POST to n8n may have worked: nothing may be
  lost, forced or reported wrongly.
* **One-way steps on disk.**  Migrations run once; the update removes the installation
  before it has put the new one in its place.

`PROJECT.json` lists every part under `components`, with what is not modelled and why,
and under `hazards` each hard place at its line with the properties about it.

## 2. Modules and the code they model

| Module | Code | Extends |
|---|---|---|
| `WorkspaceTable` | rows and tables: `core/models.py`, `_find` | |
| `WorkspaceBook` | nothing: the promise of the table | WorkspaceTable |
| `WorkspaceManager` | lifecycle operations of `workspaces/manager.py` | WorkspaceTable |
| `Launcher` | `__main__.py`, `gui/app.py`, gestures of `gui/window.py`, `workspaces/status.py` | WorkspaceManager |
| `Session` | launcher.lock and two processes, `__main__.py` | WorkspaceManager |
| `Updater` | `platform/update_flow.py`, `platform/updater.py` and its three helper scripts | Session |
| `Board` | `gui/actions.py`, `gui/board.py`, `gui/workspace_model.py`, `gui/notifier.py`, `gui/window.py` | |
| `CloseSequence` | `workspaces/close.py` | Board |
| `FileLock` | `core/filelock.py` | |
| `GitLock` | `workspace_git_lock` | FileLock |
| `GitSync` | `git/manager.py`, sync, pull and CI commits of `workspaces/manager.py` | |
| `DeployServer` | `remote/templates/post-receive.sh.tmpl`, `deploy.py.tmpl` | |
| `Publish` | publish and its polling, `workspaces/manager.py`, `remote/` | GitSync, DeployServer |
| `WorkflowSync` | `n8n/exports.py`, `n8n/workflows.py` | |
| `Provision` | configure_db, update, start's way to a migrated database, ensure_running; `database/`, `n8n/owner.py`, `n8n/api.py` | |
| `AtomicStore` | nothing: the promise of the store | |
| `ConfigStore` | `core/config.py`, statement by statement | AtomicStore |
| `ConfigFile` | launcher.db and its sidecar over many runs: `__main__.py`, `core/config.py` | |
| `MC*` | instances for TLC | |
| `*Proofs` | theorems | the module they are about, TLAPS |

**WorkspaceManager.**  `rows` is the committed table; a task's `pc`, `arg`, `copy`, `plan`
and `pick` are its place in an operation and what it read before and uses later.  Each
action is one store transaction or one Docker call, so tasks interleave exactly where
the code lets go of the store's lock.  `copy` is why `start` is special: it loads
the table, writes the Compose file and then *saves the whole copy*, where every other
operation uses `mutate`.  `stack` is Docker; `Faults` names the calls that may fail,
`up` and `down` also half way; `"store"` lets the store refuse any load, mutate or save
(`StoreFails`: the operation ends there with nothing written, and `reconcile_all` returns 0), and
`"vanish"` lets a stack go by itself.  `used` keeps the uuids drawn so far.

**Launcher.**  `phase` is the session, `todo` the list the running `stop_all` has left.
`CardGesture` asks `workspaces/status.py` what a gesture may start and the busy flag
where the window does; a double click and an inline rename do not look at it.
`Gestures` chooses what users and the system do in an instance.  Two history variables keep what
the launcher cannot know: `refused` the rows whose last reconcile, mark or teardown the
store (or `docker ps`) gave no answer to, `vanished` those whose stack went since they were set; an
answer of `docker ps`, or the commit before the next `docker up` or `down`, takes them out again.
A `stop_all` whose load is refused stops nothing.

**Session, Updater.**  The same operations, run by the threads of two processes around
launcher.lock.  `Release` is main's finally; `AtExit` is the second `stop_all`.  Updater
adds to each process the stage of its update and, beside the processes, one helper script,
a step per command: `install`, `staged`, `backup` and `asset` are the four places on disk.  `spoilt` is
history: a helper was killed between its two trees, or its rm, mv or copy failed unnoticed.

**Board, CloseSequence.**  `cards` and `busy` are what the window shows, `rows` and `pending`
what is the case, `queue` the events between them, posted in the order in which tasks
emit and delivered one by one, also inside the nested loops of `modals`.  An operation is the
commits and notifications it makes; what it does otherwise is in WorkspaceManager.
CloseSequence starts from whatever such a window leaves, stacks and rows that disagree included.

**FileLock, GitLock.**  `fd` and `depth` are the attributes of the object, `own` the local
variable of a thread inside acquire or release, `opened` and `locked` the kernel's side.
GitLock adds the owner (`rlock`, `ownerDepth`) and the with-blocks (`nest`); `gpc` marks
the calls into FileLock, whose steps it reuses.

**GitSync.**  A history is the sequence of its commits, a commit the set of changes it
records; equal histories are equal SHAs.  `tree` is the working tree, `hist` the local branches,
`origin` the repository behind the remote, `tracked` what this clone last saw of it.  One
step per git command, with the answers it may give (`GitFaults`), a lost answer among them.

**DeployServer, Publish.**  The hooks of several pushes take the server's lock in any order;
`checkout`, `serving` and `marker` are the files, what n8n holds and what is reported, and
`Mixed` is a half of one commit over another.  `serving` also says whether every workflow is
active and whether some are there twice: a refused activation and a list that cannot be
read do not keep `deploy.py` from its ok.  Publish pushes, polls the marker through a
`LinkFaults` connection and records what it saw.

**WorkflowSync.**  `wf` is n8n, `files` the exports and the user's own JSON, of any name; a file is its
directory, name, id and content.  Only what decides is kept of names: the title they are made
from (`NoName`: nothing before the id, as in `42.json`) and whether `EXPORT_NAME_RE` takes the id.
Export and plan read an id by that expression (`ParsedId`), import by what the name ends in
(`Known`).  `fresh` is history: what an undisturbed export has left is still so.

**Provision.**  One workspace: `row` (database password, API key, `restart_required`),
`compose` and `stack` (the database of the file and of what runs), n8n's keys and credential per
database, and Postgres (`role`, `recorded`, `ran`, `orphans`: a psql that outlives its time-out).

**ConfigStore.**  A configuration is two counters, one for what is in `meta` and one for
`workspaces`, enough to see a torn read and a lost update.  `pc` walks through the
statements; `writer` is SQLite's reserved lock, `rlock` the store's own.

**ConfigFile.**  `main` and `wal` are the two files, `conn` the cached connection, which
may point to a file that has been moved.  A commit is one step into the sidecar.  How
SQLite treats the sidecar (left by a kill, not checkpointed through a moved database,
removed when a database of its name is created) was measured with SQLite 3.40 through
the repository's own `ConfigStore`.

External halves: Docker (`StackReady`, `StackCrash`, what calls return), the kernel
(ends of processes, flock), SQLite (`Stored`, `Checkpoint`, rollback of a dead writer), git's
answers, n8n's API and psql, other clones and publishers.

Three relations between modules are proved rather than assumed: the manager behind the
busy flag implements `WorkspaceBook`, `ConfigStore` with one process implements
`AtomicStore`, and `Updater` implements `Session`.  `GitSync` takes the git lock as
one variable; that it excludes is `GitLock`'s business.  `Launcher` takes the busy flag
and the cards as exact; `Board` shows how far they are.

## 3. Runs

| Run | Module, cfg | Properties |
|---|---|---|
| `launcher_gated` | MCLauncher, MCLauncherGated | TypeOK, LiveStackListed, BoardMatchesDocker, ClosedOrReported, ImplementsBook |
| `launcher_live` | MCLauncher, MCLauncherLive | CloseEnds, StartSettles, BootRestoresBoard |
| `update` | MCUpdater, MCUpdater | OneSession, NothingIsLost, HelperLeavesInstall, LockIsFreed, HelperEnds |
| `git_lock` | MCGitLock, MCGitLockLive | ExclusiveBarringLeaks, OwnerAsNewBarringLeaks, NothingLeftOpen, SomebodyGetsIn |
| `config_store` | MCConfigStore, MCConfigStoreShared | MutateIsAtomic, LockedCallsEnd |
| `config_file` | ConfigFile, MCConfigFile | CurrentIsStored |
| `git_sync` | MCGitSync, MCGitSync | WorkIsKept, OriginOnlyGrows, FlagTellsUnpushed |
| `publish` | MCPublish, MCPublish | OkWasDeployed, OkIsServed, LockIsReturned |
| `workflows` | MCWorkflowSync, MCWorkflowSync | DeletedStaysDeleted, NoTwinOfMirror, PlanIsMade, ExportMatches |
| `provision` | MCProvision, MCProvision | RestartIsAsked, RunningIsMigrated, KeyIsSaved |
| `desk` | MCDesk, MCDesk | UnlockedAtRest, LockedWhileWorking, OpenCardsShowRows, CompleteMeansDown, DeletedWasStopped, SavedBeforeDown |
| `lost_edit` | MCWorkspaceManager, MCLostEdit | EditsSurvive, which is violated |

A property's comment in its module says what it promises; `about` in `PROJECT.json`
says what the run throws at it.

### The finding

`lost_edit`: `start` loads the table, writes the Compose file and then saves the whole copy
(`workspaces/manager.py:1305-1310`).  What another operation committed in between (a rename, a
delete, a creation, a state) is undone, although `core/config.py:84-85` and
`workspaces/manager.py:257-258` say that no such overwrite happens.  Behind the busy flag, where
tasks come one at a time, `ImplementsBook` holds, `start` included; the double click and the
inline rename do not look at the flag.  `OnlyStartLosesEdits` proves that no other
operation does it.

### What fails elsewhere, and under which conditions

The modules state some properties the code has only under a condition.  None of these is a run;
each is one `tlc` away: take the cfg named, put the property in its `INVARIANTS` or
`PROPERTIES` line and make the change.

| Property | Instance | Result |
|---|---|---|
| ClosedMeansDown (Launcher) | MCLauncherGated with Faults `{}` or without `"down"`, `"ps"` and `"store"` | holds; with any of the three it fails, and with gesture `"leave_while_busy"` |
| ClosedOrReported | MCLauncherGated with fault `"ps"`, or gesture `"leave_while_busy"` | fails: a boot whose `docker ps` fails declares every row STOPPED, and the close passes them over; a teardown does not wait for a task in flight |
| LiveStackListed | MCLauncherGated with fault `"ps"` | fails for the first reason |
| LiveStackCanBeStopped | MCLauncherGated | fails: no gesture accepts a row left in STOPPING |
| OneLifecycleCall | MCLauncherGated with gesture `"double_click"`, Tasks `{t0, t1, t2}` | fails: start races start |
| ClosedMeansDown, WorkUnderLock (Session) | MCSessionOrphan | fail: a pool thread outlives main's `finally`, and atexit's teardown runs without the lock |
| NoTreeTakenAway | MCUpdater | fails: the helper waits for one process, and a launcher started before it swaps runs from the tree that goes |
| HelperAlwaysLeavesInstall | MCUpdater | fails, which is why HelperLeavesInstall excepts what is `spoilt`: a helper killed between its two trees; macOS copies the new bundle into place, and half a copy is no installation; on Linux nothing looks at whether rm and mv succeeded, and the stage with the new tree is removed next. Without `"kill_helper"`, `"swap"` and `"copy"` it holds |
| Exclusive | MCGitLock with Faults `{"open"}` or `{"probe"}` | fails: a level counted before the lock fails to open, or a directory that is not yet a repository |
| LoadIsCommitted, ImportedOnce | MCConfigStoreShared | fail with two processes; `StoreIsAtomic` proves that they do not matter with one |
| AsideIsKept, MigratedOnce | MCConfigFile | fail after a kill: the sidecar stays behind when an unreadable database is moved; AsideIsKept holds without `"kill"` (`BackupsAreComplete`) |
| EndedBehindIsFlagged | MCFlagReset | fails: `configure_git` resets the push flag in the middle of a cycle |
| OkMeansSecretsApplied | MCPublishCredentials | fails: new secrets for a commit the server already has: the push brings nothing, no hook runs, and the old marker answers ok |
| HandWrittenKept | MCUserFiles | fails: a user's `report-2024.json` looks like an export and is removed, although `n8n/exports.py:40-42` says that user-authored JSON is never touched |
| ExportMatches | MCExportIds | fails for ids that are not all digits: EXPORT_NAME_RE does not take their files for exports, so stale ones stay |
| DeletedStaysDeleted, PlanIsMade | MCWorkflowSync with `Numbered = {i1}`, as in MCExportIds | fail for the same ids: the stale export is imported again; and `plan_import` does not see the id that `import_all` reads, so that it would create a renamed workflow which the import skips |
| ExportMatches, DeletedStaysDeleted | MCWorkflowSync with `Tasks <- TwoTasks` | fail: the clean-up of one export removes what another has just written; an import that was under way creates from what it had read |
| PlanIsMade | MCWorkflowSync with a file in MCHandWritten that is in both directories under two titles | fails: `import_all` creates both, `plan_import` only that of n8nPipelines/ |
| CredentialOpensDb | MCStaleCredential | fails: a credential with the right name is kept whatever password it holds |
| RestartIsAsked | MCProvision with `Callers <- TwoTasks` | fails: `mark_running` clears a flag set after the Compose file was written |
| RefusedKeyIsReplaced | MCProvision | fails: a key revoked between its use for the credential and the import ends `ensure_running` with the refusal it replaces elsewhere |
| LockedWheneverWorking, CardsAlwaysShowRows | MCDesk | fail once a double click or the name editor overlaps another task |
| SkippedIsNotComplete, CompleteAlwaysMeansDown | MCDesk | fail: a close with a skipped stop reports itself complete, against the comment in `workspaces/close.py`; a close that Docker never answered does so over running stacks |

### Further instances that pass

MCWorkspaceManager.cfg (PortsDistinct and OnlyStartBreaksBook with tasks that overlap
freely and every fault, 161,660 states), MCGitLock.cfg (Exclusive and OwnerAsNew with two threads in each of two
processes and no fault), MCConfigStore.cfg (ImplementsAtomicStore, two threads of one process),
LockIsFreed under `FairSSpec` in MCSessionOrphan.cfg, MigrationsInOrder in MCProvision.cfg and
ProductionOnlyGrows in MCPublish.cfg (both also theorems).  Every module has one type
invariant; besides TypeOK of `launcher_gated` they are checked this way: GTypeOK in MCGitLock and (of GitSync) in
MCGitSync, STypeOK in MCConfigStore, LTypeOK in MCLauncherGated, UTypeOK in MCUpdater, BTypeOK
and CTypeOK in MCDesk, PTypeOK in MCPublish, WTypeOK in MCWorkflowSync, PrTypeOK in
MCProvision.

### Bounds

* Two workspaces, ports and names are what a conflict takes: a third repeats one of the
  two.  The live runs have one workspace and two pool tasks, because what has to end there is one
  operation against another and the teardown.
* Two processes: launcher.lock, flock, SQLite's reserved lock and a helper each see one
  owner and the others.  Two threads in one of them separate reentry from exclusion.  Of the two
  launchers in `update` one has a pool thread, which may outlive its window under the other.
* `MaxNest` and `MaxHolds` 2, three descriptors: `sync_git` nests `_commit_and_push` and nothing
  nests deeper.  One descriptor is left over to make a leak visible.
* `MaxVersion` 2: a lost update takes two edits of one half.  `MaxEdits` 4 in ConfigFile: an
  edit before and after each of a kill and a backup.
* `MaxOverlaps` 1 in Board: one task beside the one the flag knows of.  ControlsComeBack
  and the other theorems of DeskProofs need no bound.
* One change of this clone, one of others and the marker of a conflict in GitSync and Publish: a
  push is rejected when origin has something else, whatever it is.  `git_sync` has
  two tasks, `publish` one and the pushes of other launchers.
* Two ids, two titles and one body in WorkflowSync: a rename, a twin and a deletion;
  the body does not decide anything.  The user's files are notes, a workflow, and two
  whose names end in an id or are one.
* Two passwords, three keys and two migrations in Provision: the old and the new one, a key to be
  refused, removed and replaced, and an order.
* One helper at a time in Updater, a guard of `Confirm`: a second takes a launcher that is started
  while the first works and finds, downloads and confirms the update again.  The theorems
  about the disk in UpdaterProofs are under this bound, too.

Symmetry is used for sets of model values the definitions treat alike, and in no run
with a liveness property.  Deadlock is checked wherever the system has no end;
Updater and the desk do end (everything closed and nothing to do), so those two say
`CHECK_DEADLOCK FALSE`.

### Fairness

| Specification | Weakly fair | Why |
|---|---|---|
| `FairLSpec`, `FairSSpec` (Session) | every step of a task under way; boot, teardown and exit of the main thread | the OS schedules threads, and every Docker, git and HTTP call has a time-out (`docker/manager.py`, `git/manager.py:122`, `n8n/owner.py:53`) |
| `FairUSpec` | the same, and each step of the helper | it is a process of its own |
| `FairGSpec` | each step of a thread in a section, except a failing flock | flock's waiters are not served in turn, so what holds is that *somebody* gets in; the kernel owes a waiter no failure |
| `FairSSpec` (ConfigStore) | each statement of a call under way | a transaction of the other process ends or the busy time-out does; getting the RLock is not fair, so LockedCallsEnd is about the calls that have it |
| `PFairSpec` | each step of a task under way | the push has a time-out; the hooks of the server are owed nothing |

Users, clones, other publishers and faults are never fair, and nothing depends on a
call succeeding.

## 4. Proofs

`tlapm` checks them for every value of the constants under the named assumptions of the modules
(mostly that sentinels are no values and fault sets are of the listed ones).  The larger
inductive invariants (those of LauncherProofs, GitLockProofs, Provision, RepoInv, SyncInv,
LockInv and CardsInv) were checked by TLC on the instances of the runs first.  Every safety
invariant, action property and refinement of the passing runs is stated by a theorem, some under the
hypotheses below.

| Module | Theorems | Argument |
|---|---|---|
| LauncherProofs (WorkspaceManager, Launcher) | TypeCorrect, PortsAlwaysDistinct | `IInv`: TypeOK, distinct ports in `rows`, and also in every `copy` a start holds (`TaskOK`), without which saving the copy would break it |
| | OnlyStartLosesEdits, BookWithoutOpen | `BookInv`: a row ever listed is known (`used`) and a pending creation's uuid is fresh (`PendingOK`), so that an append is the book's; one lemma per operation shows its step is the book's or invisible. The second assumes that `"open"` is not among Operations |
| | SessionsTyped, SessionsKeepPorts | `BaseInv`: `BookInv` carried through sessions, with which thread may be where in which phase (`SessionOK`) |
| | BootRepairs | `BootOK`: the plan of a boot's reconcile is what Docker holds, but for stacks that went since (`vanished`), since no task has begun. No assumption: a reconcile without an answer leaves its rows in `refused` |
| | NoStackIsOrphaned, IdleBoardIsTrue, CloseLeavesNothingUnsaid | `FlagInv`: one operation at a time (`Alone`), what each place in an operation knows of its row and stack (`OpOK`), every stack that is up reachable (`LiveListed`), every wrong card with its start under way (`CardOK`), and what a `stop_all` has left behind down or reported (`LeftOK`). Assume `Flagged` |
| | SessionsKeepTheBook | `CalmInv`: with nothing beside a start, the copy it saves is the table. Assumes `Calm` |
| GitLockProofs | MutualExclusion, OwnerAlwaysAsNew | `IInv`: what a thread inside, entering or leaving must hold (`ThreadOK`), what a process's counters say (`ProcessOK`), descriptors apart and all accounted for. Both assume `NoFaults`; with faults the properties are false |
| | OnlyALeakLetsTwoIn, OnlyALevelStays, NoDescriptorIsLost | the same invariant, which says what a failed acquire may leave (`bare`, `Failed`); no assumption on the faults |
| ConfigStoreProofs | MutatesAreAtomic | `WriterInv`: between BEGIN IMMEDIATE and commit nobody else writes, so what was read is what is committed |
| | StoreIsAtomic | `OneProcess` and `LockInv`: the RLock makes both SELECTs of a load see one state; each commit maps to an edit, the rest to stutters |
| ConfigFileProofs | CrashKeepsConfiguration | `StoredInv`: the cached connection is on launcher.db or on a file moved away (`ConnectionOK`), so it is known into which a commit goes |
| | BackupsAreComplete | `BackupInv` with `SidecarOK`, assuming `NoKill` |
| PublishProofs (GitSync, Publish) | OriginIsNeverRewritten, WorkIsNeverLost | `RepoInv`: a branch other than dev is the only one of the clone, so that renaming it overwrites nothing, and a detached head is empty while a branch is checked out (`Reserved`). `RebasedKeeps` is the heart: a rebase returns a history on top of what origin has, with every commit of both; it and `Rebased` being defined at all are inductions over the length of a history |
| | FlagIsHonest | from the same invariant, action by action |
| | PublishingKeepsWork, ProductionIsNeverRewritten | `PublishedInv`: the steps of a publication between those of GitSync |
| | RecordedOkWasDeployed, OkMeansServed | `DeployInv`: an ok marker or awaited answer is in the log (`OkIsLogged`), and while a hook works the checkout is its commit's or a mixture (`CheckoutIsOfHook`) |
| | OneTaskInside | whoever is inside the cycle is the one the lock names (`InsideHoldsLock`) |
| EnsureRunningProofs (WorkflowSync, Provision) | CopiesMakeOne | `TwinInv`: a pass meets each path of its directory once (`PassOK`), and what an undisturbed first pass has made is in the list of the second (`MadeIsListed`) |
| | WorkflowsTyped | `SyncTyped`, on top of `TwinInv` |
| | ImportsMakeThePlan, ExportsMatch | `SyncInv`: both copies of a file with an id are on disk (`Paired`), what the first pass has made is the plan's part of n8nPipelines/ (`FirstPassOK`), what the second passes over is known by a title of the first (`SecondPassOK`), what an export has worked off is written (`ExportOK`). Both assume `OneSync` and ids of digits, the first `Alike`, which adds `CopiesAgree` and `UsersNames` |
| | NothingComesBack | `FreshInv`: while `fresh`, every file that is not the user's is known to n8n by its id or title, and to the list of any import under way (`Accounted`). Assumes `OneSync` and ids of digits |
| | ProvisionTyped | the types, with a plan of migrations only while they are applied and a password for every role made |
| | MigrationsRunInOrder | `OrderInv`: what has run is 1..n, what is pending a final segment that starts at most at n + 1, what was left in the container at most n + 1; any callers |
| | RestartsAreAsked, RunningMeansMigrated, KeysAreSaved | `AloneInv`: at each place of a start the row is the one it holds, and Compose file, stack, role and record are as far as it has come (`StartOK`, `KeyOK`); between starts what differs is announced (`Announced`). Assume `OneCaller` |
| UpdaterProofs | SessionIsAlone, UpdateKeepsOneSession | `OneInv`: phases and the lock agree |
| | UpdaterIsSession | the refinement: every step of the updater is one of Session or leaves its variables alone |
| | NoUpdateLosesAll | `Archived`: from the download until the end of the helper one of the four places is whole |
| | HelperEndsWhole | `Kept` on top of it, under every fault |
| DeskProofs (Board, CloseSequence) | ControlsComeBack | `UnlockInv`: `pending` is the number of tasks at work (`Counted`), and a lock on the window has a task or an undelivered event as its reason (`LockHasReason`) |
| | WindowLocks | `LockInv`: until a gesture overlaps there is one task or one undelivered end of one (`OneEpisode`), and no dialog that opened before it waits for another (`ModalsOK`) |
| | CardsComeRight | `CardsInv`: while a task is under way its workspace has the only card that may be wrong (`About`), and the last event about it that is queued, or that the task will post, carries the row (`Right`, `TaskTells`); after its end only failures are queued. This and the two before assume that Tasks is finite |
| | DeleteTakesStopped | from `BoardOK`, the types: delete looks at the row in its own transaction |
| | ClosedIsDown | `CloseInv`: the list has nothing twice (`ListOK`) and whatever is up and not skipped is still on it (`NoneForgotten`) |
| | SavedFirst | `StillTrue`: the entries still to come say what their rows say, which rests on a pigeonhole argument over the list |

### The hypotheses, and what the code has of them

| Hypothesis | What it says | Where the code keeps it, and where not |
|---|---|---|
| `"ps" \notin Faults` | `docker ps` answers at a boot and at a close | it may fail (`workspaces/manager.py:262`), and then every row is declared STOPPED: ClosedOrReported and LiveStackListed above fail of it. BootRepairs does without |
| `Flagged` | that; no close or signal while a task is in flight; no double click, or a single worker | a condition on who uses it: neither the close of the window (`gui/window.py:381`) nor a signal waits for a task in flight, and the double click does not look at the busy flag, which is the finding's cause. Every other gesture does |
| `Calm` | `Flagged`, and no inline rename while another task works, or a single worker | nor does the name editor |
| `OneCaller`, `OneSync` | one operation on the workspace at a time | the busy flag keeps it, but for the same gestures; with two, TLC refutes RestartIsAsked and ExportMatches |
| `CopiesAgree` | the copies of an export in the root and in n8nPipelines/ are of one workflow | `export_all` writes both; a stale copy in the root, which `n8n/exports.py:162-166` warns of, is imported beside the fresh one: PlanIsMade is refuted |
| `UsersNames` | no name of a user's file ends in an id of n8n | nothing keeps a user from it. The file is removed by the next export (HandWrittenKept above), and until then stands for that workflow in an import. MCWorkflowSync has such files and PlanIsMade holds there; the proof does without them |
| `Numbered = Ids` | n8n's ids are of digits | what `EXPORT_NAME_RE` (`n8n/exports.py:44`) expects; nothing makes n8n give only such ids, and with others the rows above fail |
| `NoFaults`, `NoKill`, `OneProcess` | no failing system call on the git lock; no killed run; one process on the store | boundaries between what holds always and the table of failures above |
| `IsFiniteSet(Tasks)` | finitely many pool threads | always |

What needs no such hypothesis holds under every fault, kill and interleaving of its module.

### What stays with TLC

Liveness (CloseEnds, StartSettles, LockIsFreed, HelperEnds, SomebodyGetsIn, LockedCallsEnd,
LockIsReturned): the prover does not reach fairness and ENABLED.  The library's
induction theorems take an operator and no installed prover can instantiate them; where data needed
an induction (`Rebased`), it is done over a set, by the minimal element a well-founded order
has (`NatSetInduction`, from `WFMin`).  The type invariants not listed here are conjuncts of the
invariants above or stay checked.

## 5. Plan

In the order of what they would add:

1. The composition of Publish with two tasks of this launcher and hooks that fail, beyond
   what one task and other publishers show.
2. Session's teardown (ClosedMeansDown without atexit's second `stop_all`) with its condition
   as a theorem.
3. The conditions under which a property of the failure table holds after all, where
   they are a gesture or a fault less: CredentialOpensDb, EndedBehindIsFlagged.

## 6. Not modelled

* The journal (`monitoring/`): append-only, pruned by age, read by nothing else; redaction
  rewrites text.
* GitHub and CI (`github/`, `workspaces/ci.py`, `templates/`, `src/scripts/`): HTTP calls, generated
  files and build scripts; what `enable_ci` commits is in GitSync.
* The server's observability and CI, reading its journal, and `install_server` other than as the
  initial state of DeployServer.
* `update(server=...)`, `set_ci_credentials` and `clone_from_git`: public, and no gesture reaches
  them.  `export_json`: one read and one file write.  FileLock's shared mode: no caller.
  (`publish`, `configure_db`, `configure_git`, `enable_ci`, `ensure_running` and `CloseSequence` have
  no gesture in the window either; they are modelled as operations that a caller makes.)
* Stacks that somebody starts outside the launcher (`workspaces/manager.py:1357-1360`); that
  they stop outside is `"vanish"`.
* In CloseSequence, a row that the close's own reconcile turned to STARTING is not exported, as in
  `workspaces/close.py:88-91`, and SavedBeforeDown is silent about it.
* A failing `git log` in GitSync's question for unpushed commits.  Answers of n8n in
  several pages: `n8n/api.py:38-41` reads one, and WorkflowSync takes it for all.
* A workspace without `n8nPipelines/` in WorkflowSync: nothing is imported there
  (`workspaces/manager.py:570-571`), and Provision has that return.
* Refused transactions of the store are in WorkspaceManager, Launcher, Session, the reconcile of
  CloseSequence and ConfigStore; Board, GitSync, Publish and Provision take theirs to commit.
* Paths, templates, theme, browser, dialogs, the first-launch wizard's forms, painting, layout
  and hit testing: pure functions or one-shot input.
* Rendering Compose files, parsing what docker, git and HTTP print: formatting; what
  the calls may answer is in the models.
* `msvcrt` locking on Windows (FileLock is modelled on flock), and loss of power, which
  with `synchronous=NORMAL` may take the last commits: ConfigFile has kills of the process.
