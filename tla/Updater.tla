------------------------------- MODULE Updater -------------------------------
(***************************************************************************)
(* Self-update: UpdateController (platform/update_flow.py) in a launcher   *)
(* process, the download, and the detached helper script that              *)
(* platform/updater.py writes, which waits for the launcher's process to   *)
(* end, swaps the installation and starts the launcher again; over the     *)
(* processes of Session and their launcher.lock.  The three helpers are    *)
(* shell scripts of updater.py: Linux, Windows and macOS (Darwin).         *)
(***************************************************************************)
EXTENDS Session

CONSTANTS
    Systems,       \* platforms of an instance
    UpdateFaults   \* what may go wrong in the download and the helper

SystemSet == {"Linux", "Windows", "Darwin"}
UpdateFaultSet ==
    {"fetch", "download", "unpack", "move_aside", "move_in", "swap", "copy", "kill_helper"}
ASSUME UpdateAssumption == Systems \subseteq SystemSet /\ UpdateFaults \subseteq UpdateFaultSet

VARIABLES
    system,
    install,   \* what the installation directory, or the .app, holds
    staged,    \* <install>.new
    backup,    \* <install>.old, on Windows
    asset,     \* the downloaded archive in updates_dir
    version,   \* of each running process
    stage,     \* where each process's update is
    helper,    \* where the helper script is
    waits,     \* the process it waits for
    spoilt     \* history: a helper was killed while the installation was away, or a command
               \* that replaces it failed and nothing looked

diskvars == <<install, staged, backup, asset>>
upvars == <<system, diskvars, version, stage, helper, waits, spoilt>>
uvars == <<svars, upvars>>

Tree == {"v1", "v2", "part", "none"}
Whole == {"v1", "v2"}
Stage == {"none", "offer", "download", "confirm", "given_up"}
Helper == {"none", "wait", "unpack", "aside", "remove", "move", "restore", "clean", "relaunch"}
Fails(f) == f \in UpdateFaults

UInit ==
    /\ SInit
    /\ \A w \in Workspaces : Listed(rows, w) /\ compose[w] = rows[w].port
    /\ system \in Systems
    /\ install = "v1" /\ staged = "none" /\ backup = "none" /\ asset = "none"
    /\ version = [p \in Processes |-> "none"]
    /\ stage = [p \in Processes |-> "none"]
    /\ helper = "none" /\ waits = NoProcess /\ spoilt = FALSE

Runs(p) == phase[p] \in {"boot", "open"}

\* A process that begins runs the installed version, one that closes drops its update; a
\* helper that waited for the end of a process goes on.
ProcessesChanged ==
    /\ version' = [p \in Processes |->
                     IF ~Runs(p)' THEN "none" ELSE IF Runs(p) THEN version[p] ELSE install]
    /\ stage' = [p \in Processes |-> IF Runs(p)' THEN stage[p] ELSE "none"]
    /\ IF helper = "wait" /\ phase'[waits] = "off"
       THEN helper' = "unpack" /\ waits' = NoProcess
       ELSE UNCHANGED <<helper, waits>>
    /\ UNCHANGED <<system, diskvars, spoilt>>

\* Mutant of Launch: half an installation starts, too.
LaunchAny(p) == Begin(p)

\* Somebody starts the launcher, which takes a whole installation.
Launch(p) == install \in Whole /\ Begin(p)

-----------------------------------------------------------------------------
(* UpdateController *)

Advance(p, s) == stage' = [stage EXCEPT ![p] = s]
InStage(p, s) == phase[p] = "open" /\ stage[p] = s

\* cleanup_stale, before anything else: on Windows, what a failed swap left.
CleanupStale ==
    IF system = "Windows" THEN staged' = "none" /\ backup' = "none"
    ELSE UNCHANGED <<staged, backup>>

\* fetch_latest_release and its asset for this platform, or nothing usable.
LatestRelease == {"v2"} \cup (IF Fails("fetch") THEN {"none"} ELSE {})
Newer(release, current) == release = "v2" /\ current = "v1"
\* The worker: a failing fetch and a release that is not newer say nothing.
Check(p) ==
    /\ InStage(p, "none")
    /\ CleanupStale
    /\ \E release \in LatestRelease :
         Advance(p, IF Newer(release, version[p]) THEN "offer" ELSE "given_up")
    /\ UNCHANGED <<svars, system, install, asset, version, helper, waits, spoilt>>

Offer(p) ==
    /\ InStage(p, "offer")
    /\ Advance(p, "download") \/ Advance(p, "given_up")
    /\ UNCHANGED <<svars, system, diskvars, version, helper, waits, spoilt>>

\* Mutant of Downloaded: an incomplete download replaces the archive.
DownloadedPart == "part"
Downloaded == asset
\* A temporary file, renamed when its size is the announced one.
Download(p) ==
    /\ InStage(p, "download")
    /\ \/ asset' = "v2" /\ Advance(p, "confirm")
       \/ Fails("download") /\ asset' = Downloaded /\ Advance(p, "given_up")
    /\ UNCHANGED <<svars, system, install, staged, backup, version, helper, waits, spoilt>>

\* Mutant of Leave: the window stays open for the helper.
Stays(p) == UNCHANGED svars
\* finish_close.
Leave(p) == Close(p)

\* installer_script captures the PID, spawn_installer starts the script detached.
SpawnInstaller(p) == helper' = "wait" /\ waits' = p
\* The script is written for this process and started; then the launcher closes.  Bound:
\* one helper at a time.
Confirm(p) ==
    /\ InStage(p, "confirm")
    /\ \/ /\ helper = "none"
          /\ SpawnInstaller(p)
          /\ Leave(p)
          /\ Advance(p, "none") /\ version' = [version EXCEPT ![p] = "none"]
       \/ Advance(p, "given_up") /\ UNCHANGED <<svars, version, helper, waits>>   \* refused, or spawn failed
    /\ UNCHANGED <<system, diskvars, spoilt>>

Controller(p) == Check(p) \/ Offer(p) \/ Download(p) \/ Confirm(p)

-----------------------------------------------------------------------------
(* The helper *)

Swap(from, to) ==
    /\ helper = from /\ helper' = to
    /\ UNCHANGED <<svars, system, asset, version, stage, waits>>
Help(from, to) == Swap(from, to) /\ UNCHANGED spoilt
InUse == \E p \in Processes : phase[p] # "off"

\* tar -x or Expand-Archive beside the installation, and a look for the executable; on
\* macOS the image is mounted.  A failure takes the stage away and starts what is there.
Unpack ==
    \/ /\ asset = "v2" /\ Help("unpack", IF system = "Windows" THEN "aside" ELSE "remove")
       /\ staged' = IF system = "Darwin" THEN staged ELSE "v2"
       /\ UNCHANGED <<install, backup>>
    \/ /\ Fails("unpack") \/ asset # "v2"
       /\ Help("unpack", "relaunch")
       /\ staged' = IF system = "Darwin" THEN staged ELSE "none"
       /\ UNCHANGED <<install, backup>>

\* Windows: move OLD to OLD_BAK, which fails as long as a launcher runs from OLD.
MoveAside ==
    \/ /\ ~InUse /\ Help("aside", "move")
       /\ backup' = install /\ install' = "none" /\ UNCHANGED staged
    \/ /\ InUse \/ Fails("move_aside")
       /\ Help("aside", "relaunch")
       /\ backup' = "none" /\ UNCHANGED <<install, staged>>

\* Linux, macOS: rm -rf of the installation, whatever runs from it; on Linux nothing looks at
\* whether it succeeded, and mv goes on.
Remove ==
    /\ Swap("remove", "move")
    /\ install' \in {"none"} \cup (IF system = "Linux" /\ Fails("swap") THEN {"part"} ELSE {})
    /\ spoilt' = (spoilt \/ install' = "part")
    /\ UNCHANGED <<staged, backup>>

\* mv or move: a rename in one directory; macOS copies the bundle out of the image.
\* Windows tells a failure by the executable that is not there; on Linux a failing mv, or one
\* into the rest of a failed rm, is not noticed, and the stage goes next.
Move ==
    \/ /\ system # "Darwin" /\ staged = "v2" /\ install = "none"
       /\ Help("move", "clean") /\ install' = staged /\ staged' = "none" /\ UNCHANGED backup
    \/ /\ system = "Linux" /\ (Fails("swap") \/ install # "none")
       /\ Swap("move", "clean") /\ spoilt' = TRUE /\ UNCHANGED <<install, staged, backup>>
    \/ /\ system = "Windows" /\ (Fails("move_in") \/ staged # "v2")
       /\ Help("move", "restore") /\ UNCHANGED <<install, staged, backup>>
    \/ /\ system = "Darwin"
       /\ Swap("move", "relaunch")
       /\ install' \in IF Fails("copy") THEN {"v2", "part"} ELSE {"v2"}
       /\ spoilt' = (spoilt \/ install' = "part")
       /\ UNCHANGED <<staged, backup>>

\* Mutant of Restored: the tree that was moved aside is left there.
NotRestored == UNCHANGED <<install, backup>>
Restored == install' = backup /\ backup' = "none"
Restore == Help("restore", "relaunch") /\ Restored /\ UNCHANGED staged

Clean ==
    /\ Help("clean", "relaunch")
    /\ backup' = "none" /\ staged' = "none" /\ UNCHANGED install

\* The launcher is started again: it finds launcher.lock free, or leaves.
Relaunch ==
    /\ helper = "relaunch" /\ helper' = "none"
    /\ \/ \E p \in Processes :
            /\ Launch(p)
            /\ version' = [version EXCEPT ![p] = install]
       \/ /\ install \notin Whole \/ lock # NoProcess \/ (\A p \in Processes : phase[p] # "off")
          /\ UNCHANGED <<svars, version>>
    /\ UNCHANGED <<system, diskvars, stage, waits, spoilt>>

\* The session ends, or the machine goes down, under the helper; rm and the copy may be
\* halfway.
KillHelper ==
    /\ Fails("kill_helper") /\ helper # "none"
    /\ helper' = "none" /\ waits' = NoProcess
    /\ install' = CASE helper = "remove" -> "part"
                    [] helper = "move" /\ system = "Darwin" -> "part"
                    [] OTHER -> install
    /\ spoilt' = (spoilt \/ install' \notin Whole)
    /\ UNCHANGED <<svars, system, staged, backup, asset, version, stage>>

HelperStep == Unpack \/ MoveAside \/ Remove \/ Move \/ Restore \/ Clean \/ Relaunch

-----------------------------------------------------------------------------
SessionNext ==
    \/ \E p \in Processes : Launch(p) \/ Close(p) \/ Proceed(p) \/ Kill(p)
    \/ \E p \in Processes, t \in Tasks, w \in Workspaces, o \in {"open", "stop"} :
         Gesture(p, t, w, o)
    \/ (\E w \in Workspaces : StackReady(w) \/ StackGone(w)) /\ UNCHANGED <<phase, todo, lock>>

UNext ==
    \/ SessionNext /\ ProcessesChanged
    \/ \E p \in Processes : Controller(p)
    \/ HelperStep \/ KillHelper
USpec == UInit /\ [][UNext]_uvars

\* Processes go on as in Session, and the helper is a process too.
FairUSpec ==
    /\ USpec
    /\ \A p \in Processes : WF_svars(Proceed(p))
    /\ WF_uvars(HelperStep)

-----------------------------------------------------------------------------
(* Properties *)

UTypeOK ==
    /\ system \in Systems
    /\ install \in Tree /\ staged \in Tree /\ backup \in Tree /\ asset \in Tree
    /\ version \in [Processes -> {"none"} \cup Whole] /\ stage \in [Processes -> Stage]
    /\ spoilt \in BOOLEAN /\ helper \in Helper /\ waits \in Processes \cup {NoProcess}
    /\ \A p \in Processes : Runs(p) <=> version[p] # "none"

\* At every moment, also when the helper is killed, a whole tree or the whole download is
\* on the disk (download_asset, _linux_source, _windows_source, _macos_source).
NothingIsLost == {install, staged, backup, asset} \cap Whole # {}

\* A helper that comes to its end leaves an installation that starts, whoever started a
\* launcher meanwhile and whatever failed: Windows restores the previous tree
\* (_windows_source), and a failing unpack touches nothing.  Two things have no such path: a
\* helper killed between its two trees, and rm, mv and ditto, which nobody asks (_linux_source,
\* _macos_source).
HelperLeavesInstall == helper = "relaunch" /\ ~spoilt => install \in Whole

\* Without that exception.
HelperAlwaysLeavesInstall == helper = "relaunch" => install \in Whole

\* An update that was accepted ends: the launcher closes, the helper gets its turn and
\* starts the launcher again (_confirm_install).
HelperEnds == helper # "none" ~> helper = "none"

\* No process runs from a tree that is taken away from under it.
NoTreeTakenAway == [][(\E p \in Processes : phase[p] = "open") => install' = install]_uvars

=============================================================================
