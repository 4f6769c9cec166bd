---------------------------- MODULE UpdaterProofs ----------------------------
(***************************************************************************)
(* Session and Updater, for any processes, workspaces and faults: one      *)
(* launcher at a time, the update included; nothing an update touches is   *)
(* lost; and a helper that comes to its end leaves an installation.        *)
(***************************************************************************)
EXTENDS Updater, TLAPS

Holding == {"boot", "open", "closing"}
PhaseOK == phase = [p \in Processes |-> phase[p]]
OneInv == PhaseOK /\ OneSession

-----------------------------------------------------------------------------
(* Session: one launcher at a time *)

LEMMA OneInvInit == SInit => OneInv
BY SessionAssumption DEF SInit, OneInv, PhaseOK, OneSession

\* Where no process changes its phase, nothing is to show.
LEMMA SamePhases == OneInv /\ UNCHANGED <<phase, lock>> => OneInv'
BY DEF OneInv, PhaseOK, OneSession

\* A process that has the lock to itself goes in, or on.
LEMMA EntersWithLock ==
    ASSUME OneInv, NEW p \in Processes, NEW s \in Holding, Enter(p, s),
           lock = p \/ lock = NoProcess, lock' = p
    PROVE  OneInv'
BY SessionAssumption DEF OneInv, PhaseOK, OneSession, Enter, Holding

\* A process that goes out leaves no lock behind.
LEMMA LeavesLock ==
    ASSUME OneInv, NEW p \in Processes, NEW s, s \notin Holding, Enter(p, s),
           lock' = IF lock = p THEN NoProcess ELSE lock
    PROVE  OneInv'
BY SessionAssumption DEF OneInv, PhaseOK, OneSession, Enter, Holding

LEMMA ProceedKeepsOne == ASSUME OneInv, NEW p \in Processes, Proceed(p) PROVE OneInv'
<1>1. CASE ShowWindow(p)
  BY <1>1, EntersWithLock DEF ShowWindow, OneInv, OneSession, Holding
<1>2. CASE Release(p)
  <2>1. lock = p BY <1>2 DEF Release, OneInv, OneSession
  <2>2. QED BY <1>2, <2>1, LeavesLock DEF Release, Holding
<1>3. CASE AtExit(p)
  <2>1. lock # p BY <1>3 DEF AtExit, OneInv, OneSession
  <2>2. QED BY <1>3, <2>1, LeavesLock DEF AtExit, Holding
<1>4. CASE Exit(p)
  BY <1>4, LeavesLock DEF Exit, End, Holding
<1>5. CASE \E w \in Workspaces : StopNext(p, w)
  BY <1>5, SamePhases DEF StopNext
<1>6. CASE (\E t \in ThreadsOf(p) : TaskStep(t) \/ StoreFails(t)) /\ UNCHANGED <<phase, todo, lock>>
  BY <1>6, SamePhases
<1>7. QED BY <1>1, <1>2, <1>3, <1>4, <1>5, <1>6 DEF Proceed

LEMMA OneInvStep == OneInv /\ [SNext]_svars => OneInv'
<1>1. SUFFICES ASSUME OneInv, [SNext]_svars PROVE OneInv'
  OBVIOUS
<1>2. ASSUME NEW p \in Processes, Begin(p) PROVE OneInv'
  BY <1>1, <1>2, EntersWithLock DEF Begin, LockIsFree, Holding
<1>3. ASSUME NEW p \in Processes, Close(p) PROVE OneInv'
  BY <1>1, <1>3, EntersWithLock DEF Close, OneInv, OneSession, Holding
<1>4. ASSUME NEW p \in Processes, Proceed(p) PROVE OneInv'
  BY <1>1, <1>4, ProceedKeepsOne
<1>5. ASSUME NEW p \in Processes, Kill(p) PROVE OneInv'
  BY <1>1, <1>5, LeavesLock DEF Kill, End, Holding
<1>6. ASSUME NEW p \in Processes, NEW t \in Tasks, NEW w \in Workspaces, NEW o \in {"open", "stop"},
             Gesture(p, t, w, o)
      PROVE  OneInv'
  BY <1>1, <1>6, SamePhases DEF Gesture
<1>7. CASE UNCHANGED <<phase, todo, lock>>
  BY <1>1, <1>7, SamePhases
<1>8. CASE UNCHANGED svars
  BY <1>1, <1>8, SamePhases DEF svars
<1>9. QED BY <1>1, <1>2, <1>3, <1>4, <1>5, <1>6, <1>7, <1>8 DEF SNext

\* The lock of a session, for any processes that open, close, are killed and start again:
\* never two windows, and the lock goes with its process (acquire_single_instance_lock).
THEOREM SessionIsAlone == SSpec => []OneSession
<1>1. OneInv => OneSession BY DEF OneInv
<1>2. QED BY OneInvInit, OneInvStep, <1>1, PTL DEF SSpec

-----------------------------------------------------------------------------
(* Updater implements Session *)

LEMMA ControllerIsSession == ASSUME NEW p \in Processes, Controller(p) PROVE [SNext]_svars
<1>1. CASE Check(p) BY <1>1 DEF Check
<1>2. CASE Offer(p) BY <1>2 DEF Offer
<1>3. CASE Download(p) BY <1>3 DEF Download
<1>4. CASE Confirm(p) BY <1>4 DEF Confirm, Leave, SNext
<1>5. QED BY <1>1, <1>2, <1>3, <1>4 DEF Controller

LEMMA HelperIsSession == HelperStep \/ KillHelper => [SNext]_svars
<1>1. CASE Relaunch
  <2>1. CASE \E p \in Processes : Launch(p) BY <2>1 DEF Launch, SNext
  <2>2. CASE UNCHANGED svars BY <2>2
  <2>3. QED BY <1>1, <2>1, <2>2 DEF Relaunch
<1>2. CASE KillHelper BY <1>2 DEF KillHelper
<1>3. CASE Unpack BY <1>3 DEF Unpack, Help, Swap
<1>4. CASE MoveAside BY <1>4 DEF MoveAside, Help, Swap
<1>5. CASE Remove BY <1>5 DEF Remove, Swap
<1>6. CASE Move BY <1>6 DEF Move, Help, Swap
<1>7. CASE Restore BY <1>7 DEF Restore, Help, Swap
<1>8. CASE Clean BY <1>8 DEF Clean, Help, Swap
<1>9. QED BY <1>1, <1>2, <1>3, <1>4, <1>5, <1>6, <1>7, <1>8 DEF HelperStep

LEMMA SessionNextIsSession == SessionNext => SNext
BY DEF SessionNext, SNext, Launch

LEMMA UpdaterStepIsSession == [UNext]_uvars => [SNext]_svars
<1>1. SUFFICES ASSUME [UNext]_uvars PROVE [SNext]_svars
  OBVIOUS
<1>2. CASE SessionNext /\ ProcessesChanged BY <1>2, SessionNextIsSession
<1>3. CASE \E p \in Processes : Controller(p) BY <1>3, ControllerIsSession
<1>4. CASE HelperStep \/ KillHelper BY <1>4, HelperIsSession
<1>5. CASE UNCHANGED uvars BY <1>5 DEF uvars
<1>6. QED BY <1>1, <1>2, <1>3, <1>4, <1>5 DEF UNext

\* What the update adds, a relaunch by the helper included, is one more session or none:
\* whatever holds of launcher processes holds with updates (UpdateController, installer_script).
THEOREM UpdaterIsSession == USpec => SSpec
<1>1. UInit => SInit BY DEF UInit
<1>2. QED BY <1>1, UpdaterStepIsSession, PTL DEF USpec, SSpec

\* Never two windows, with a helper that starts launchers while others begin and end.
THEOREM UpdateKeepsOneSession == USpec => []OneSession
BY UpdaterIsSession, SessionIsAlone, PTL

-----------------------------------------------------------------------------
(* The installation *)

\* Nothing leaves its place before the whole archive is there, and that is never replaced
\* by less.
Archived == asset = "v2" \/ (install \in Whole /\ helper \in {"none", "wait", "unpack", "relaunch"})

AllOff == \A p \in Processes : phase[p] = "off"
Away == helper \in {"move", "restore"}

\* Where the tree is while a helper works.  On Windows it is set aside only when no launcher
\* runs, and none can start from what is then there: so no cleanup_stale of a launcher that
\* is started meanwhile takes the tree that would be restored.
Kept ==
    ~spoilt => /\ ~Away => install \in Whole
               /\ Away /\ system = "Windows" => install = "none" /\ backup \in Whole /\ AllOff
               /\ helper = "move" => install = "none"
               /\ helper = "restore" => system = "Windows"
               /\ helper = "remove" => system # "Windows"

LEMMA InstallInit == UInit => Archived /\ Kept
BY DEF UInit, Archived, Kept, Whole, Away

\* A launcher that is off stays off, unless it is launched.
LEMMA OffStaysOff ==
    ASSUME AllOff, SessionNext, install \notin Whole
    PROVE  AllOff'
<1>1. ASSUME NEW p \in Processes PROVE ~Launch(p) /\ ~Close(p) /\ ~Kill(p)
  BY DEF AllOff, Launch, Close, Kill
<1>2. ASSUME NEW p \in Processes, Proceed(p) PROVE phase' = phase
  BY <1>2 DEF AllOff, Proceed, ShowWindow, Release, AtExit, Exit, StopNext
<1>3. ASSUME NEW p \in Processes, NEW t \in Tasks, NEW w \in Workspaces, NEW o \in {"open", "stop"},
             Gesture(p, t, w, o)
      PROVE  phase' = phase
  BY <1>3 DEF Gesture
<1>4. phase' = phase
  BY <1>1, <1>2, <1>3 DEF SessionNext
<1>5. QED BY <1>4 DEF AllOff

LEMMA SessionKeepsInstall ==
    ASSUME Archived, Kept, SessionNext, ProcessesChanged
    PROVE  Archived' /\ Kept'
<1>1. /\ helper' = helper \/ (helper = "wait" /\ helper' = "unpack")
      /\ UNCHANGED <<system, install, backup, asset, spoilt>>
  BY DEF ProcessesChanged, diskvars
<1>2. Away /\ system = "Windows" /\ ~spoilt => AllOff'
  BY OffStaysOff DEF Kept, Whole
<1>3. QED BY <1>1, <1>2 DEF Archived, Kept, Away

LEMMA ControllerKeepsInstall ==
    ASSUME Archived, Kept, NEW p \in Processes, Controller(p)
    PROVE  Archived' /\ Kept'
<1>1. ~AllOff
  BY DEF Controller, Check, Offer, Download, Confirm, InStage, AllOff
<1>2. UNCHANGED <<system, install, spoilt>>
  BY DEF Controller, Check, Offer, Download, Confirm, diskvars
<1>3. asset' = asset \/ asset' = "v2"
  BY DEF Controller, Check, Offer, Download, Confirm, diskvars, Downloaded
<1>4. helper' = helper \/ (helper = "none" /\ helper' = "wait")
  BY DEF Controller, Check, Offer, Download, Confirm, SpawnInstaller
<1>5. QED BY <1>1, <1>2, <1>3, <1>4 DEF Archived, Kept, Away

LEMMA HelperKeepsArchive ==
    ASSUME Archived, HelperStep \/ KillHelper
    PROVE  Archived'
<1>1. asset' = asset
  BY DEF HelperStep, KillHelper, Unpack, MoveAside, Remove, Move, Restore, Clean, Relaunch, Help, Swap, diskvars
<1>2. CASE asset = "v2" BY <1>1, <1>2 DEF Archived
<1>3. CASE asset # "v2"
  <2>1. install \in Whole /\ helper \in {"none", "wait", "unpack", "relaunch"}
    BY <1>3 DEF Archived
  <2>2. Unpack \/ Relaunch \/ KillHelper
    BY <2>1 DEF HelperStep, MoveAside, Remove, Move, Restore, Clean, Help, Swap
  <2>3. install' = install /\ helper' \in {"none", "relaunch"}
    <3>1. CASE Unpack BY <3>1, <1>3 DEF Unpack, Help, Swap
    <3>2. CASE Relaunch BY <3>2 DEF Relaunch, diskvars
    <3>3. CASE KillHelper BY <3>3, <2>1 DEF KillHelper
    <3>4. QED BY <2>2, <3>1, <3>2, <3>3
  <2>4. QED BY <2>1, <2>3 DEF Archived
<1>4. QED BY <1>2, <1>3

LEMMA HelperKeepsInstall == ASSUME Kept, HelperStep \/ KillHelper PROVE Kept'
<1>1. CASE Unpack BY <1>1 DEF Unpack, Help, Swap, Kept, Away
<1>2. CASE MoveAside BY <1>2 DEF MoveAside, Help, Swap, Kept, Away, InUse, AllOff, svars
<1>3. CASE Remove BY <1>3 DEF Remove, Swap, Kept, Away
<1>4. CASE Move BY <1>4 DEF Move, Help, Swap, Kept, Away, Whole, AllOff, svars
<1>5. CASE Restore BY <1>5 DEF Restore, Restored, Help, Swap, Kept, Away
<1>6. CASE Clean BY <1>6 DEF Clean, Help, Swap, Kept, Away
<1>7. CASE Relaunch BY <1>7 DEF Relaunch, Kept, Away, diskvars
<1>8. CASE KillHelper BY <1>8 DEF KillHelper, Kept, Away
<1>9. QED BY <1>1, <1>2, <1>3, <1>4, <1>5, <1>6, <1>7, <1>8 DEF HelperStep

InstallInv == Archived /\ Kept

\* What an update accepted, failed, abandoned or killed can leave behind: some whole tree,
\* or the whole download, for any processes, platforms and faults (download_asset, the
\* three helper scripts).
THEOREM NoUpdateLosesAll == USpec => []NothingIsLost
<1>1. UInit => Archived BY InstallInit
<1>2. Archived /\ [UNext]_uvars => Archived'
  <2>1. SUFFICES ASSUME Archived, [UNext]_uvars PROVE Archived'
    OBVIOUS
  <2>2. CASE SessionNext /\ ProcessesChanged
    BY <2>1, <2>2 DEF ProcessesChanged, diskvars, Archived
  <2>3. CASE \E p \in Processes : Controller(p)
    <3>1. PICK p \in Processes : Controller(p) BY <2>3
    <3>2. install' = install /\ (asset' = asset \/ asset' = "v2")
      BY <3>1 DEF Controller, Check, Offer, Download, Confirm, diskvars, Downloaded
    <3>3. helper' = helper \/ helper' = "wait"
      BY <3>1 DEF Controller, Check, Offer, Download, Confirm, SpawnInstaller
    <3>4. QED BY <2>1, <3>2, <3>3 DEF Archived
  <2>4. CASE HelperStep \/ KillHelper BY <2>1, <2>4, HelperKeepsArchive
  <2>5. CASE UNCHANGED uvars BY <2>1, <2>5 DEF uvars, upvars, diskvars, Archived
  <2>6. QED BY <2>1, <2>2, <2>3, <2>4, <2>5 DEF UNext
<1>3. Archived => NothingIsLost BY DEF Archived, NothingIsLost, Whole
<1>4. QED BY <1>1, <1>2, <1>3, PTL DEF USpec

\* A helper that comes to its end, on every path, with any launcher started meanwhile and any
\* fault, leaves a whole installation, unless one was killed between its two trees or rm and
\* mv on Linux, or the copy on macOS, failed (_windows_source, _linux_source, _macos_source).
THEOREM HelperEndsWhole == USpec => []HelperLeavesInstall
<1>1. UInit => InstallInv BY InstallInit DEF InstallInv
<1>2. InstallInv /\ [UNext]_uvars => InstallInv'
  <2>1. SUFFICES ASSUME InstallInv, [UNext]_uvars PROVE InstallInv'
    OBVIOUS
  <2>2. CASE SessionNext /\ ProcessesChanged BY <2>1, <2>2, SessionKeepsInstall DEF InstallInv
  <2>3. CASE \E p \in Processes : Controller(p) BY <2>1, <2>3, ControllerKeepsInstall DEF InstallInv
  <2>4. CASE HelperStep \/ KillHelper
    BY <2>1, <2>4, HelperKeepsArchive, HelperKeepsInstall DEF InstallInv
  <2>5. CASE UNCHANGED uvars
    BY <2>1, <2>5 DEF uvars, upvars, diskvars, svars, InstallInv, Archived, Kept, Away, AllOff
  <2>6. QED BY <2>1, <2>2, <2>3, <2>4, <2>5 DEF UNext
<1>3. InstallInv => HelperLeavesInstall BY DEF InstallInv, Kept, Away, HelperLeavesInstall
<1>4. QED BY <1>1, <1>2, <1>3, PTL DEF USpec

=============================================================================
