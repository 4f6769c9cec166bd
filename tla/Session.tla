------------------------------- MODULE Session -------------------------------
(***************************************************************************)
(* Launcher processes that overlap: __main__.py around launcher.lock, the  *)
(* single-instance lock, over the operations of WorkspaceManager.  A       *)
(* process takes the lock or gives up, opens its window, tears down in     *)
(* main's finally, releases the lock there, and then runs what atexit      *)
(* holds: instance_lock.release (nothing left to do) and stop_all.         *)
(*                                                                         *)
(* The signal handler, and closing while a task is in flight, are in       *)
(* Launcher; here a session only closes at a quiet moment.                 *)
(***************************************************************************)
EXTENDS WorkspaceManager

CONSTANTS
    Processes,
    MainOf,    \* the main thread of each process
    PoolOf,    \* the pool threads of each process
    NoProcess,
    Kills       \* whether a process may be killed in this instance

ASSUME SessionAssumption ==
    /\ MainOf \in [Processes -> Tasks] /\ PoolOf \in [Processes -> SUBSET Tasks]
    /\ \A p \in Processes : MainOf[p] \notin PoolOf[p]
    /\ \A p, q \in Processes :
         p # q => ({MainOf[p]} \cup PoolOf[p]) \cap ({MainOf[q]} \cup PoolOf[q]) = {}
    /\ NoProcess \notin Processes /\ Kills \in BOOLEAN

VARIABLES
    phase,  \* off, boot, open, closing (main's finally), released, exiting (atexit)
    todo,   \* what each process's stop_all has still to stop
    lock    \* the process that has launcher.lock

svars == <<vars, phase, todo, lock>>

ThreadsOf(p) == {MainOf[p]} \cup PoolOf[p]
Quiet(p) == \A t \in ThreadsOf(p) : pc[t] = "idle"
Enter(p, s) == phase' = [phase EXCEPT ![p] = s]

\* What a session left that was closed, or killed.
SInit ==
    /\ Init
    /\ rows \in [Workspaces -> {NoRow} \cup [state : {"stopped", "running"}, port : Ports, name : Names]]
    /\ stack = [w \in Workspaces |-> IF rows[w] # NoRow /\ rows[w].state = "running" THEN "up" ELSE "down"]
    /\ phase = [p \in Processes |-> "off"]
    /\ todo = [p \in Processes |-> {}]
    /\ lock = NoProcess

\* Mutant of LockIsFree: a shared flock.
LockIsShared == TRUE

LockIsFree == lock = NoProcess

\* acquire_single_instance_lock does not wait: without the lock main returns
\* before it has done anything.
Begin(p) ==
    /\ phase[p] = "off"
    /\ LockIsFree
    /\ lock' = p
    /\ Enter(p, "boot")
    /\ Request(MainOf[p], "reconcile", NoRow)
    /\ UNCHANGED todo

ShowWindow(p) ==
    /\ phase[p] = "boot" /\ Quiet(p)
    /\ Enter(p, "open")
    /\ UNCHANGED <<vars, todo, lock>>

\* A card's gesture, with nothing in flight.
Gesture(p, t, w, o) ==
    /\ phase[p] = "open" /\ Quiet(p) /\ t \in PoolOf[p]
    /\ Listed(rows, w)
    /\ \/ o = "open" /\ rows[w].state \in {"stopped", "error", "running"}
       \/ o = "stop" /\ rows[w].state \notin {"stopped", "stopping"}
    /\ Request(t, o, w)
    /\ UNCHANGED <<phase, todo, lock>>

\* When load raises, stop_all returns with nothing stopped.
StopAll(p) ==
    \/ todo' = [todo EXCEPT ![p] = ListedIds(rows)]
    \/ "store" \in Faults /\ todo' = [todo EXCEPT ![p] = {}]

Close(p) ==
    /\ phase[p] = "open" /\ Quiet(p)
    /\ Enter(p, "closing")
    /\ StopAll(p)
    /\ UNCHANGED <<vars, lock>>

\* Mutant of StopNext: a workspace that does not stop is tried again.
StopNextRetrying(p, w) ==
    /\ phase[p] \in {"closing", "exiting"} /\ w \in todo[p]
    /\ Request(MainOf[p], "halt", w)
    /\ todo' = [todo EXCEPT ![p] = @ \ {v \in Workspaces : rows[v].state = "stopped"}]
    /\ UNCHANGED <<phase, lock>>

StopNext(p, w) ==
    /\ phase[p] \in {"closing", "exiting"} /\ w \in todo[p]
    /\ Request(MainOf[p], "halt", w)
    /\ todo' = [todo EXCEPT ![p] = @ \ {w}]
    /\ UNCHANGED <<phase, lock>>

\* Mutant of Release: the finally leaves the lock to atexit.
ReleaseAtExit(p) ==
    /\ phase[p] = "closing" /\ todo[p] = {} /\ Quiet(p)
    /\ Enter(p, "released")
    /\ UNCHANGED <<vars, todo, lock>>

\* The end of main's finally: the lock goes, the journal and the store close.
Release(p) ==
    /\ phase[p] = "closing" /\ todo[p] = {} /\ Quiet(p)
    /\ lock' = NoProcess
    /\ Enter(p, "released")
    /\ UNCHANGED <<vars, todo>>

\* atexit, last registered first: release does nothing more, then stop_all.
AtExit(p) ==
    /\ phase[p] = "released"
    /\ Enter(p, "exiting")
    /\ StopAll(p)
    /\ UNCHANGED <<vars, lock>>

\* The process is gone: its threads stop where they are, the kernel drops its lock.
End(p) ==
    /\ Enter(p, "off")
    /\ todo' = [todo EXCEPT ![p] = {}]
    /\ lock' = IF lock = p THEN NoProcess ELSE lock
    /\ pc' = [t \in Tasks |-> IF t \in ThreadsOf(p) THEN "idle" ELSE pc[t]]
    /\ arg' = [t \in Tasks |-> IF t \in ThreadsOf(p) THEN NoRow ELSE arg[t]]
    /\ copy' = [t \in Tasks |-> IF t \in ThreadsOf(p) THEN Empty ELSE copy[t]]
    /\ plan' = [t \in Tasks |-> IF t \in ThreadsOf(p) THEN NoPlan ELSE plan[t]]
    /\ pick' = [t \in Tasks |-> IF t \in ThreadsOf(p) THEN NoPort ELSE pick[t]]
    /\ UNCHANGED <<rows, used, world>>

Exit(p) == phase[p] = "exiting" /\ todo[p] = {} /\ Quiet(p) /\ End(p)
Kill(p) == Kills /\ phase[p] # "off" /\ End(p)

\* What a process does by itself.
Proceed(p) ==
    \/ ShowWindow(p) \/ Release(p) \/ AtExit(p) \/ Exit(p)
    \/ \E w \in Workspaces : StopNext(p, w)
    \/ (\E t \in ThreadsOf(p) : TaskStep(t) \/ StoreFails(t)) /\ UNCHANGED <<phase, todo, lock>>

SNext ==
    \/ \E p \in Processes : Begin(p) \/ Close(p) \/ Proceed(p) \/ Kill(p)
    \/ \E p \in Processes, t \in Tasks, w \in Workspaces, o \in {"open", "stop"} :
         Gesture(p, t, w, o)
    \/ (\E w \in Workspaces : StackReady(w) \/ StackGone(w)) /\ UNCHANGED <<phase, todo, lock>>

SSpec == SInit /\ [][SNext]_svars

\* Threads keep running; every Docker call returns or times out, every transaction commits
\* or is refused.
FairSSpec == SSpec /\ \A p \in Processes : WF_svars(Proceed(p))

-----------------------------------------------------------------------------
\* The lock is held exactly as long as there is a window or a session around it:
\* never two windows, and no lock left with a process that has closed or died.
OneSession == \A p \in Processes : phase[p] \in {"boot", "open", "closing"} <=> lock = p

\* The launcher can be started again: a close gives the lock up, however many
\* teardowns fail.
LockIsFreed == \A p \in Processes : phase[p] = "closing" ~> lock # p

\* __main__.py: one launcher process at a time holds the configuration and the
\* Compose files, and its lock goes when stop_all has finished: no thread of a
\* process without the lock changes a row, a Compose file or a stack.
WorkUnderLock ==
    [][\A p \in Processes : \A t \in ThreadsOf(p) :
         pc[t] # "idle" /\ pc'[t] # pc[t] /\ lock # p => UNCHANGED <<rows, world>>]_svars

\* README: closing the window stops every workspace.  When every process has gone,
\* each by itself, no stack is left up.
ClosedMeansDown ==
    (\A p \in Processes : phase[p] = "off") => \A w \in Workspaces : stack[w] = "down"

=============================================================================
