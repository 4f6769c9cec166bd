------------------------------ MODULE Launcher ------------------------------
(***************************************************************************)
(* One launcher process after another over the same machine: __main__.py,  *)
(* gui/app.py and the gestures of gui/window.py, driving WorkspaceManager. *)
(*                                                                         *)
(* A session boots (reconcile_all, then the window), lets the user start   *)
(* manager operations on pool threads through the cards and the header,    *)
(* and closes: stop_all once from the signal handler if a signal asked for *)
(* it, once from main's finally and once more from atexit, on the main     *)
(* thread, whatever the pool threads are doing.  It may also be killed at  *)
(* any point; launcher.db, the Compose files and the containers survive.   *)
(*                                                                         *)
(* The busy flag is taken as exact here and a card shows its row as        *)
(* committed.                                                              *)
(***************************************************************************)
EXTENDS WorkspaceManager

CONSTANTS
    Main,      \* the main thread
    Gestures   \* what the user, and the system, do in this instance

AllGestures == {"pill", "menu", "header", "new", "double_click", "inline_edit",
                "close", "signal", "leave_while_busy", "kill"}

ASSUME LauncherAssumption == Main \in Tasks /\ Gestures \subseteq AllGestures

VARIABLES
    phase,  \* off, boot, open, signalled (the handler runs), closing (main's
            \* finally), exiting (atexit), closed
    todo,   \* what the running stop_all has still to stop
    \* and what a row may be wrong about without the launcher's doing:
    refused,  \* workspaces whose last mark the store refused, or whose last
              \* reconcile or teardown had no answer from the store or from docker ps
    vanished  \* workspaces whose stack went by itself since their row was set

excuses == <<refused, vanished>>
lvars == <<vars, phase, todo, excuses>>

Workers == Tasks \ {Main}
Busy == \E t \in Workers : pc[t] # "idle"
Idle == ~Busy /\ pc[Main] = "idle"

-----------------------------------------------------------------------------
(* workspaces/status.py *)

CanStop(s) == s \notin {"stopped", "stopping"}
CanDelete(s) == s = "stopped"
CanOpen(s) == s \in {"stopped", "error", "running"}
PrimaryAction(s) ==
    IF s = "running" THEN {"stop"} ELSE IF s \in {"stopped", "error"} THEN {"open"} ELSE {}
CardActions(s) ==
    {o \in {"open", "stop", "delete"} :
        \/ o = "open" /\ CanOpen(s)
        \/ o = "stop" /\ CanStop(s)
        \/ o = "delete" /\ CanDelete(s)}

\* The operations gesture g starts on a card in state s.
Offered(g, s) ==
    CASE g = "pill" -> PrimaryAction(s)
      [] g = "menu" -> CardActions(s)
      [] g = "header" -> IF CanStop(s) THEN {"stop"} ELSE {}
      [] g = "double_click" -> IF CanOpen(s) THEN {"open"} ELSE {}
      [] g = "inline_edit" -> {"rename"}
      [] OTHER -> {}

\* The gestures the window refuses while a task is in flight; a double click and
\* an inline rename are dispatched without looking at the busy flag.
BusyLocked(g) == g \in {"pill", "menu", "header", "new"}

-----------------------------------------------------------------------------
(* The session *)

Boot ==
    /\ phase \in {"off", "closed"}
    /\ phase' = "boot"
    /\ Request(Main, "reconcile", NoRow)
    /\ UNCHANGED <<todo, excuses>>

\* run(): the window is shown once reconcile_all has returned.
ShowWindow ==
    /\ phase = "boot" /\ pc[Main] = "idle"
    /\ phase' = "open"
    /\ UNCHANGED <<vars, todo, excuses>>

CardGesture(g, t, w) ==
    /\ phase = "open" /\ g \in Gestures /\ t \in Workers
    /\ BusyLocked(g) => ~Busy
    /\ Listed(rows, w)
    /\ \E o \in Offered(g, rows[w].state) : Request(t, o, w)
    /\ UNCHANGED <<phase, todo, excuses>>

NewWorkspace(t, w) ==
    /\ phase = "open" /\ "new" \in Gestures /\ t \in Workers
    /\ ~Busy
    /\ w \notin used
    /\ Request(t, "create", w)
    /\ UNCHANGED <<phase, todo, excuses>>

\* The user closes the window, or the system sends SIGTERM, at a quiet moment or
\* at any: nothing makes either of them wait for the tasks in flight.
Leave(g) ==
    /\ phase = "open" /\ g \in Gestures
    /\ Busy => "leave_while_busy" \in Gestures

\* A new stop_all, over the table as it is now; when load raises it returns with
\* nothing stopped.
StopAll(p) ==
    /\ phase' = p
    /\ \/ todo' = ListedIds(rows) /\ UNCHANGED refused
       \/ "store" \in Faults /\ todo' = {} /\ refused' = Workspaces
    /\ UNCHANGED <<vars, vanished>>

Signal == Leave("signal") /\ StopAll("signalled")
Close == Leave("close") /\ StopAll("closing")

StopAllDone(p) == phase = p /\ todo = {} /\ pc[Main] = "idle"

\* The handler returns and the event loop quits: main's finally.
Unwind == StopAllDone("signalled") /\ StopAll("closing")

\* The end of main's finally: atexit runs stop_all again.
AtExit == StopAllDone("closing") /\ StopAll("exiting")

\* Mutant of StopNext: a workspace that does not stop is tried again.
StopNextRetrying(w) ==
    /\ phase \in {"signalled", "closing", "exiting"}
    /\ w \in todo
    /\ Request(Main, "halt", w)
    /\ todo' = todo \ {v \in Workspaces : ~Listed(rows, v) \/ rows[v].state = "stopped"}
    /\ UNCHANGED <<phase, excuses>>

\* stop_all: manager.stop for each workspace of the list, failures suppressed.
StopNext(w) ==
    /\ phase \in {"signalled", "closing", "exiting"}
    /\ w \in todo
    /\ Request(Main, "halt", w)
    /\ todo' = todo \ {w}
    /\ UNCHANGED <<phase, excuses>>

\* No thread outlives the process.
EndProcess(p) ==
    /\ phase' = p
    /\ todo' = {}
    /\ pc' = [t \in Tasks |-> "idle"]
    /\ arg' = [t \in Tasks |-> NoRow]
    /\ copy' = [t \in Tasks |-> Empty]
    /\ plan' = [t \in Tasks |-> NoPlan]
    /\ pick' = [t \in Tasks |-> NoPort]
    /\ UNCHANGED <<rows, used, world, excuses>>

Exit ==
    /\ StopAllDone("exiting")
    /\ EndProcess("closed")

Kill ==
    /\ "kill" \in Gestures
    /\ phase \notin {"off", "closed"}
    /\ EndProcess("off")

LInit ==
    /\ Init
    /\ rows = Empty
    /\ phase = "off"
    /\ todo = {}
    /\ refused = {} /\ vanished = {}

\* An answer of docker ps settles every row, the commit that precedes docker up or
\* docker down its own; without docker ps the rows are marked blindly.
Settled(t) ==
    IF pc'[t] = "ps_load" THEN Workspaces
    ELSE IF pc'[t] \in {"start_up", "stop_down"} THEN {arg[t]} ELSE {}
Work(t) ==
    /\ TaskStep(t)
    /\ refused' = IF pc'[t] = "ps_failed" THEN Workspaces ELSE refused \ Settled(t)
    /\ vanished' = vanished \ Settled(t)
    /\ UNCHANGED <<phase, todo>>

\* What a refusal leaves unrepaired, or unmarked after docker up, or up in a close.
Missed(t) ==
    IF pc[t] \in {"ps_load", "ps_failed", "ps_apply"} THEN Workspaces
    ELSE IF \/ pc[t] \in {"start_running", "start_error"}
            \/ pc[t] \in {"stop_load", "stop_mark"} /\ t = Main
         THEN {arg[t]} ELSE {}
Refuse(t) ==
    /\ StoreFails(t)
    /\ refused' = refused \cup Missed(t)
    /\ UNCHANGED <<phase, todo, vanished>>

Vanish(w) ==
    /\ StackGone(w)
    /\ vanished' = vanished \cup {w}
    /\ UNCHANGED <<phase, todo, refused>>

LNext ==
    \/ Boot \/ ShowWindow \/ Signal \/ Close \/ Unwind \/ AtExit \/ Exit \/ Kill
    \/ \E w \in Workspaces : StopNext(w)
    \/ \E g \in Gestures, t \in Tasks, w \in Workspaces : CardGesture(g, t, w)
    \/ \E t \in Tasks, w \in Workspaces : NewWorkspace(t, w)
    \/ \E t \in Tasks : Work(t) \/ Refuse(t)
    \/ \E w \in Workspaces : Vanish(w)
    \/ /\ \E w \in Workspaces : StackReady(w) \/ StackCrash(w)
       /\ UNCHANGED <<phase, todo, excuses>>

LSpec == LInit /\ [][LNext]_lvars

\* Every thread keeps running, every Docker call returns or times out and every
\* transaction commits or is refused; the main thread goes through its shutdown; the user owes nothing.
Fairness ==
    /\ \A t \in Tasks : WF_lvars(Work(t))
    /\ WF_lvars(ShowWindow \/ Unwind \/ AtExit \/ Exit \/ \E w \in Workspaces : StopNext(w))

FairLSpec == LSpec /\ Fairness

-----------------------------------------------------------------------------
LTypeOK ==
    /\ TypeOK
    /\ phase \in {"off", "boot", "open", "signalled", "closing", "exiting", "closed"}
    /\ todo \subseteq Workspaces
    /\ refused \subseteq Workspaces /\ vanished \subseteq Workspaces

\* A stack Docker holds always belongs to a workspace that is listed and not
\* STOPPED: stop and close, which skip a STOPPED row, can reach it, and delete,
\* which wants one, cannot orphan it; a kill at any point does not break this.
LiveStackListed ==
    \A w \in Workspaces :
        stack[w] # "down" => Listed(rows, w) /\ rows[w].state # "stopped"

\* What a card says of one row agrees with Docker, a failed teardown apart.
AgreesWithDocker(w) ==
    /\ rows[w].state \in {"running", "starting"} => stack[w] # "down"
    /\ rows[w].state = "stopped" => stack[w] = "down"

\* When the window is open and nothing is in flight, the board tells the truth
\* about what is up, whatever calls of Docker failed and whenever it was killed.  A
\* row can only be wrong after the store refused the boot's reconcile or the mark
\* that ends a start, or after the stack went by itself, and only until the next
\* commit of a start or a stop: nothing polls Docker while the window is open.
BoardMatchesDocker ==
    phase = "open" /\ Idle =>
        \A w \in ListedIds(rows) \ (refused \cup vanished) : AgreesWithDocker(w)

\* The reconcile of a boot repairs what any earlier session left, overlapping
\* operations, kills and stacks that went meanwhile included: a card the window first
\* shows is wrong only if this very reconcile was refused by docker ps or the store,
\* or the stack went after docker ps had answered.
BootRestoresBoard ==
    [][phase = "boot" /\ phase' = "open" =>
         \A w \in ListedIds(rows) \ (refused \cup vanished) : AgreesWithDocker(w)]_lvars

\* A close that gets to its end has stopped everything, or left a row that says the
\* teardown failed, unless the store would not let the last of its passes read or
\* mark that row; the row is listed then too, so that the next session can stop it.
ClosedOrReported ==
    phase = "closed" =>
        \A w \in Workspaces :
            stack[w] # "down" =>
                Listed(rows, w) /\ (rows[w].state = "stopping" \/ w \in refused)

\* README: closing the window stops every workspace.
ClosedMeansDown ==
    phase = "closed" => \A w \in Workspaces : stack[w] = "down"

\* can_stop's promise: whenever something is still up that a teardown can remove,
\* an idle window offers the gesture that removes it.
LiveStackCanBeStopped ==
    phase = "open" /\ Idle =>
        \A w \in ListedIds(rows) : stack[w] # "down" => CanStop(rows[w].state)

\* The busy lock keeps lifecycle calls on one workspace from racing each other.
OneLifecycleCall ==
    \A t, u \in Workers :
        t # u /\ pc[t] # "idle" /\ pc[u] # "idle" => arg[t] # arg[u]

\* A close always gets to the end of the process, whatever fails on the way and
\* whatever the pool threads are doing.
CloseEnds == phase \in {"signalled", "closing"} ~> phase \in {"closed", "off"}

\* A start that reached Docker settles: its row leaves STARTING for RUNNING or
\* ERROR (or the store refuses that mark, or the process is killed), so no card is
\* left spinning.
StartSettles ==
    \A t \in Workers, w \in Workspaces :
        (pc[t] = "start_up" /\ arg[t] = w) ~>
            \/ rows[w] = NoRow \/ rows[w].state \in {"running", "error"}
                \/ w \in refused \/ phase \in {"off", "closed"}

=============================================================================
