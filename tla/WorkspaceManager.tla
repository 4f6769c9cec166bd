-------------------------- MODULE WorkspaceManager --------------------------
(***************************************************************************)
(* The lifecycle half of workspaces/manager.py: the operations the window  *)
(* and the entry point run (create, delete, rename, open, stop, halt,      *)
(* reconcile), each as the sequence of store transactions and Docker calls *)
(* its code makes, run by any number of overlapping callers.               *)
(*                                                                         *)
(* ConfigStore gives three operations on the table of workspaces: load     *)
(* (one committed snapshot), mutate (read, change, write in one            *)
(* transaction) and save (replace the whole table by the caller's copy).   *)
(* Here each is one step; module ConfigStore shows that they are.  Each  *)
(* may also be refused by the store: StoreFails, for every operation.      *)
(*                                                                         *)
(* Docker is external: stack is what `docker compose ps' would answer for  *)
(* the n8n service, and Faults says which of its calls may fail, and       *)
(* whether a stack may go by itself.                                       *)
(***************************************************************************)
EXTENDS WorkspaceTable

CONSTANTS
    Tasks,       \* threads that may be inside the manager at once
    Operations,  \* the operations callers ask for
    Faults,      \* the calls that may fail, and what Docker may do by itself
    NoPort       \* no Compose file, no port picked

Stack == {"down", "starting", "up"}

AllOperations ==
    {"create", "delete", "rename", "open", "stop", "halt", "reconcile"}
AllFaults == {"ps", "status", "up", "wait", "down", "crash_loop", "vanish", "store"}

Step == {"idle", "create_load", "create_append", "delete", "rename",
         "serve_load", "serve_probe", "serve_wait",
         "start_load", "start_save", "start_up", "start_wait",
         "start_running", "start_error",
         "sync_load", "sync", "stop_load", "stop_mark", "stop_down",
         "stop_done", "ps", "ps_load", "ps_failed", "ps_apply"}

ASSUME NoPortAssumption == NoPort \notin Ports
ASSUME ChoiceAssumption == Operations \subseteq AllOperations /\ Faults \subseteq AllFaults

VARIABLES
    rows,     \* the committed workspaces table of launcher.db
    used,     \* ids uuid4 already produced: they never come again
    compose,  \* the port written in each workspace's Compose file
    stack,    \* what Docker holds for each workspace
    pc,       \* where each task is
    arg,      \* the workspace each task works on
    copy,     \* the AppConfig a task loaded and will use later
    plan,     \* reconcile_all: the states read from Docker, then the updates
    pick      \* create: the port suggested from an earlier load

vars == <<rows, used, compose, stack, pc, arg, copy, plan, pick>>
world == <<compose, stack>>
locals == <<copy, plan, pick>>

-----------------------------------------------------------------------------
NoPlan == [w \in Workspaces |-> "none"]
SetState(table, w, s) == [table EXCEPT ![w].state = s]

\* Mutants of LiveState: Docker's own word; a restarting stack taken for a stopped one.
RawState(w) == stack[w]
RunningOnly(w) == IF stack[w] = "up" THEN "running" ELSE "stopped"

\* What Docker says of a workspace, as _project_live_state and live_state map it.
LiveState(w) ==
    CASE stack[w] = "up" -> "running"
      [] stack[w] = "starting" -> "starting"
      [] OTHER -> "stopped"

\* Ports that is_port_available finds bound: those of the stacks that are up.
BoundPorts == {compose[w] : w \in {v \in Workspaces : stack[v] # "down"}}

Goto(t, s) ==
    /\ pc' = [pc EXCEPT ![t] = s]
    /\ UNCHANGED arg
Finish(t) ==
    /\ pc' = [pc EXCEPT ![t] = "idle"]
    /\ arg' = [arg EXCEPT ![t] = NoRow]

FirstStep ==
    [create |-> "create_load", delete |-> "delete", rename |-> "rename",
     open |-> "serve_load", stop |-> "sync_load", halt |-> "stop_load",
     reconcile |-> "ps"]

\* A caller hands operation o on workspace w to an idle thread.
Request(t, o, w) ==
    /\ pc[t] = "idle"
    /\ o \in Operations
    /\ pc' = [pc EXCEPT ![t] = FirstStep[o]]
    /\ arg' = [arg EXCEPT ![t] = IF o = "reconcile" THEN NoRow ELSE w]
    /\ UNCHANGED <<rows, used, world, locals>>

\* store.mutate of a function that finds the workspace and sets its state; when
\* _find raises, the transaction rolls back and the operation ends.
MutateState(t, s, next) ==
    LET w == arg[t] IN
    \/ /\ Listed(rows, w)
       /\ rows' = SetState(rows, w, s)
       /\ Goto(t, next)
    \/ /\ ~Listed(rows, w)
       /\ UNCHANGED rows
       /\ Finish(t)

\* The steps that read the store or write it.
StoreSteps ==
    {"create_load", "create_append", "delete", "rename", "serve_load",
     "start_load", "start_save", "start_running", "start_error",
     "sync_load", "sync", "stop_load", "stop_mark", "stop_done",
     "ps_load", "ps_failed", "ps_apply"}

\* load, mutate or save raises (the database is locked, unreadable, the disk full):
\* nothing is written and the operation ends there.  No step that asks the store is
\* inside the `try' of a start; reconcile_all catches it and returns 0.
StoreFails(t) ==
    /\ "store" \in Faults
    /\ pc[t] \in StoreSteps
    /\ Finish(t)
    /\ copy' = [copy EXCEPT ![t] = Empty]
    /\ plan' = [plan EXCEPT ![t] = NoPlan]
    /\ pick' = [pick EXCEPT ![t] = NoPort]
    /\ UNCHANGED <<rows, used, world>>

-----------------------------------------------------------------------------
(* create, delete, rename_workspace *)

\* The ports in use are read first and a free one is suggested from them; the id
\* is a fresh uuid4.  suggest_port raises when the range is exhausted.
CreateLoad(t) ==
    LET w == arg[t]
        free == Ports \ (PortsOf(rows) \cup BoundPorts)
    IN
    /\ pc[t] = "create_load"
    /\ \/ /\ w \notin used
          /\ used' = used \cup {w}
          /\ \E p \in free : pick' = [pick EXCEPT ![t] = p]
          /\ Goto(t, "create_append")
       \/ /\ w \in used \/ free = {}
          /\ Finish(t)
          /\ UNCHANGED <<used, pick>>
    /\ UNCHANGED <<rows, world, copy, plan>>

\* Mutant of PortTaken: the suggestion is trusted.
NeverTaken(t) == FALSE

\* mutate(append): the port is checked again under the lock.
PortTaken(t) == pick[t] \in PortsOf(rows)
CreateAppend(t) ==
    /\ pc[t] = "create_append"
    /\ IF PortTaken(t)
       THEN UNCHANGED rows
       ELSE \E n \in Names :
              rows' = [rows EXCEPT
                         ![arg[t]] = [state |-> "stopped", port |-> pick[t], name |-> n]]
    /\ pick' = [pick EXCEPT ![t] = NoPort]
    /\ Finish(t)
    /\ UNCHANGED <<used, world, copy, plan>>

\* Mutant of MayDelete: any listed workspace goes.
DeleteAnyState(w) == Listed(rows, w)

\* mutate(remove): refused unless the row says STOPPED.  Compose file and
\* containers are left as they are.
MayDelete(w) == Listed(rows, w) /\ rows[w].state = "stopped"
Delete(t) ==
    LET w == arg[t] IN
    /\ pc[t] = "delete"
    /\ IF MayDelete(w)
       THEN rows' = [rows EXCEPT ![w] = NoRow]
       ELSE UNCHANGED rows
    /\ Finish(t)
    /\ UNCHANGED <<used, world, locals>>

\* Mutant of NameFree: names may repeat.
AnyName(w, n) == TRUE

\* mutate(apply): refused when another workspace has the name.
NameFree(w, n) == \A v \in ListedIds(rows) \ {w} : rows[v].name # n
RenameWorkspace(t) ==
    LET w == arg[t] IN
    /\ pc[t] = "rename"
    /\ \E n \in Names :
         IF Listed(rows, w) /\ NameFree(w, n)
         THEN rows' = [rows EXCEPT ![w].name = n]
         ELSE UNCHANGED rows
    /\ Finish(t)
    /\ UNCHANGED <<used, world, locals>>

-----------------------------------------------------------------------------
(* ensure_serving, and the start it runs when Docker does not hold the stack *)

ServeLoad(t) ==
    /\ pc[t] = "serve_load"
    /\ IF Listed(rows, arg[t])
       THEN Goto(t, "serve_probe") /\ copy' = [copy EXCEPT ![t] = rows]
       ELSE Finish(t) /\ UNCHANGED copy
    /\ UNCHANGED <<rows, used, world, plan, pick>>

\* live_state: Docker decides; without a Compose file or an answer, the stored
\* state stands in for it.
ServeProbe(t) ==
    LET w == arg[t]
        stored == copy[t][w].state
        answers == IF compose[w] = NoPort THEN {stored}
                   ELSE {LiveState(w)} \cup (IF "status" \in Faults THEN {stored} ELSE {})
    IN
    /\ pc[t] = "serve_probe"
    /\ \E live \in answers :
         Goto(t, IF live = "running" THEN "serve_wait" ELSE "start_load")
    /\ copy' = [copy EXCEPT ![t] = Empty]
    /\ UNCHANGED <<rows, used, world, plan, pick>>

\* wait_for_n8n with the grace timeout: opened whether or not n8n answered.
ServeWait(t) ==
    /\ pc[t] = "serve_wait"
    /\ Finish(t)
    /\ UNCHANGED <<rows, used, world, locals>>

\* start: the pre-start mutate finds the workspace (and fills database fields
\* that are not part of a Row), the table is loaded, the Compose file written.
StartLoad(t) ==
    LET w == arg[t] IN
    /\ pc[t] = "start_load"
    /\ IF Listed(rows, w)
       THEN /\ copy' = [copy EXCEPT ![t] = rows]
            /\ compose' = [compose EXCEPT ![w] = rows[w].port]
            /\ Goto(t, "start_save")
       ELSE /\ Finish(t)
            /\ UNCHANGED <<copy, compose>>
    /\ UNCHANGED <<rows, used, stack, plan, pick>>

\* store.save(config): the whole table becomes the copy, with STARTING in it.
StartSave(t) ==
    /\ pc[t] = "start_save"
    /\ rows' = SetState(copy[t], arg[t], "starting")
    /\ copy' = [copy EXCEPT ![t] = Empty]
    /\ Goto(t, "start_up")
    /\ UNCHANGED <<used, world, plan, pick>>

\* docker compose up -d: on failure (or on its 180 s timeout) some containers
\* may have been created.  It cannot succeed on a port another stack holds.
StartUp(t) ==
    LET w == arg[t] IN
    /\ pc[t] = "start_up"
    /\ \/ /\ \A v \in Workspaces \ {w} : stack[v] # "down" => compose[v] # compose[w]
          /\ \E s \in {"starting", "up"} : stack' = [stack EXCEPT ![w] = s]
          /\ Goto(t, "start_wait")
       \/ /\ "up" \in Faults
          /\ \E s \in {stack[w], "starting"} : stack' = [stack EXCEPT ![w] = s]
          /\ Goto(t, "start_error")
    /\ UNCHANGED <<rows, used, compose, locals>>

\* Mutant of StartWait: it waits for n8n without a deadline.
WaitForever(t) ==
    /\ pc[t] = "start_wait"
    /\ stack[arg[t]] = "up"
    /\ Goto(t, "start_running")
    /\ UNCHANGED <<rows, used, world, locals>>

\* docker status, wait_for_n8n and the migrations: they succeed on a stack that
\* serves; any exception goes to the error path.
StartWait(t) ==
    /\ pc[t] = "start_wait"
    /\ \/ stack[arg[t]] = "up" /\ Goto(t, "start_running")
       \/ "wait" \in Faults /\ Goto(t, "start_error")
       \/ stack[arg[t]] = "down" /\ Goto(t, "start_error")
    /\ UNCHANGED <<rows, used, world, locals>>

MarkRunning(t) ==
    /\ pc[t] = "start_running"
    /\ MutateState(t, "running", "idle")
    /\ UNCHANGED <<used, world, locals>>

MarkError(t) ==
    /\ pc[t] = "start_error"
    /\ MutateState(t, "error", "idle")
    /\ UNCHANGED <<used, world, locals>>

-----------------------------------------------------------------------------
(* stop_with_sync and stop *)

SyncLoad(t) ==
    /\ pc[t] = "sync_load"
    /\ IF Listed(rows, arg[t])
       THEN Goto(t, IF rows[arg[t]].state = "stopped" THEN "stop_load" ELSE "sync")
       ELSE Finish(t)
    /\ UNCHANGED <<rows, used, world, locals>>

\* The export and the Git push: best effort, slow, no field of a Row.
Sync(t) ==
    /\ pc[t] = "sync"
    /\ Goto(t, "stop_load")
    /\ UNCHANGED <<rows, used, world, locals>>

\* Mutant of NeedsStop: only what is said to run is stopped.
NeedsStopRunning(w) == Listed(rows, w) /\ rows[w].state = "running"

NeedsStop(w) == Listed(rows, w) /\ rows[w].state # "stopped"
StopLoad(t) ==
    /\ pc[t] = "stop_load"
    /\ IF NeedsStop(arg[t])
       THEN Goto(t, "stop_mark")
       ELSE Finish(t)
    /\ UNCHANGED <<rows, used, world, locals>>

MarkStopping(t) ==
    /\ pc[t] = "stop_mark"
    /\ MutateState(t, "stopping", "stop_down")
    /\ UNCHANGED <<used, world, locals>>

\* Mutant of StopDown: its failure is swallowed.
DownBestEffort(t) ==
    /\ pc[t] = "stop_down"
    /\ \E s \in {"down"} \cup (IF "down" \in Faults THEN {stack[arg[t]]} ELSE {}) :
         stack' = [stack EXCEPT ![arg[t]] = s]
    /\ Goto(t, "stop_done")
    /\ UNCHANGED <<rows, used, compose, locals>>

\* docker compose down, skipped without a Compose file; its failure is raised
\* and the row stays STOPPING.
StopDown(t) ==
    LET w == arg[t] IN
    /\ pc[t] = "stop_down"
    /\ \/ /\ stack' = IF compose[w] = NoPort THEN stack ELSE [stack EXCEPT ![w] = "down"]
          /\ Goto(t, "stop_done")
       \/ /\ "down" \in Faults /\ compose[w] # NoPort
          /\ \E s \in {stack[w], "down"} : stack' = [stack EXCEPT ![w] = s]
          /\ Finish(t)
    /\ UNCHANGED <<rows, used, compose, locals>>

MarkStopped(t) ==
    /\ pc[t] = "stop_done"
    /\ MutateState(t, "stopped", "idle")
    /\ UNCHANGED <<used, world, locals>>

-----------------------------------------------------------------------------
(* reconcile_all.  A load or a mutate that raises ends it with nothing      *)
(* repaired (return 0): StoreFails.                                        *)

\* One docker ps -a for every project, before any lock is taken.
ListProjectStates(t) ==
    /\ pc[t] = "ps"
    /\ \/ /\ plan' = [plan EXCEPT ![t] = [w \in Workspaces |-> LiveState(w)]]
          /\ Goto(t, "ps_load")
       \/ /\ "ps" \in Faults
          /\ Goto(t, "ps_failed")
          /\ UNCHANGED plan
    /\ UNCHANGED <<rows, used, world, copy, pick>>

\* Mutant of Differs: only the rows that claim something is up are looked at.
DiffersActive(t, w) ==
    Listed(rows, w) /\ rows[w].state # "stopped" /\ plan[t][w] # rows[w].state

\* The updates: rows whose state differs from what Docker said ("none": keep).
\* Without a Compose file nothing can be up.
Live(t, w) == IF compose[w] = NoPort THEN "stopped" ELSE plan[t][w]
Differs(t, w) == Listed(rows, w) /\ Live(t, w) # rows[w].state
ReconcileLoad(t) ==
    /\ pc[t] = "ps_load"
    /\ plan' = [plan EXCEPT ![t] =
                  [w \in Workspaces |-> IF Differs(t, w) THEN Live(t, w) ELSE "none"]]
    /\ Goto(t, "ps_apply")
    /\ UNCHANGED <<rows, used, world, copy, pick>>

\* docker ps failed: every row that is not STOPPED is to be marked STOPPED.
ReconcileBlind(t) ==
    LET active(w) == Listed(rows, w) /\ rows[w].state # "stopped" IN
    /\ pc[t] = "ps_failed"
    /\ plan' = [plan EXCEPT ![t] =
                  [w \in Workspaces |-> IF active(w) THEN "stopped" ELSE "none"]]
    /\ Goto(t, "ps_apply")
    /\ UNCHANGED <<rows, used, world, copy, pick>>

\* mutate(apply), on the rows as they are now.
ReconcileApply(t) ==
    LET updated(w) == Listed(rows, w) /\ plan[t][w] # "none" IN
    /\ pc[t] = "ps_apply"
    /\ rows' = [w \in Workspaces |->
                  IF updated(w) THEN [rows[w] EXCEPT !.state = plan[t][w]] ELSE rows[w]]
    /\ plan' = [plan EXCEPT ![t] = NoPlan]
    /\ Finish(t)
    /\ UNCHANGED <<used, world, copy, pick>>

-----------------------------------------------------------------------------
(* Docker on its own: a created stack becomes ready, falls into a restart loop, or *)
(* goes (the user stops it, the daemon or the machine restarts).                   *)

StackReady(w) ==
    /\ stack[w] = "starting"
    /\ stack' = [stack EXCEPT ![w] = "up"]
    /\ UNCHANGED <<rows, used, compose, pc, arg, locals>>

StackCrash(w) ==
    /\ "crash_loop" \in Faults
    /\ stack[w] = "up"
    /\ stack' = [stack EXCEPT ![w] = "starting"]
    /\ UNCHANGED <<rows, used, compose, pc, arg, locals>>

StackGone(w) ==
    /\ "vanish" \in Faults
    /\ stack[w] # "down"
    /\ stack' = [stack EXCEPT ![w] = "down"]
    /\ UNCHANGED <<rows, used, compose, pc, arg, locals>>

-----------------------------------------------------------------------------
\* What any earlier session, crashed or not, may have left: rows in any state, a
\* Compose file for every workspace that was ever started, Docker as it is now.
Init ==
    /\ rows \in {table \in Table : PortsDistinctIn(table)}
    /\ used = ListedIds(rows)
    /\ compose \in {c \in [Workspaces -> Ports \cup {NoPort}] :
                      \A w \in Workspaces :
                        \/ c[w] = NoPort /\ (Listed(rows, w) => rows[w].state = "stopped")
                        \/ Listed(rows, w) /\ c[w] = rows[w].port}
    /\ stack \in {s \in [Workspaces -> Stack] :
                    \A w \in Workspaces : compose[w] = NoPort => s[w] = "down"}
    /\ pc = [t \in Tasks |-> "idle"]
    /\ arg = [t \in Tasks |-> NoRow]
    /\ copy = [t \in Tasks |-> Empty]
    /\ plan = [t \in Tasks |-> NoPlan]
    /\ pick = [t \in Tasks |-> NoPort]

TaskStep(t) ==
    \/ CreateLoad(t) \/ CreateAppend(t) \/ Delete(t) \/ RenameWorkspace(t)
    \/ ServeLoad(t) \/ ServeProbe(t) \/ ServeWait(t)
    \/ StartLoad(t) \/ StartSave(t) \/ StartUp(t) \/ StartWait(t)
    \/ MarkRunning(t) \/ MarkError(t)
    \/ SyncLoad(t) \/ Sync(t) \/ StopLoad(t) \/ MarkStopping(t) \/ StopDown(t) \/ MarkStopped(t)
    \/ ListProjectStates(t) \/ ReconcileLoad(t) \/ ReconcileBlind(t) \/ ReconcileApply(t)

Next ==
    \/ \E t \in Tasks, o \in Operations, w \in Workspaces : Request(t, o, w)
    \/ \E t \in Tasks : TaskStep(t) \/ StoreFails(t)
    \/ \E w \in Workspaces : StackReady(w) \/ StackCrash(w) \/ StackGone(w)

Spec == Init /\ [][Next]_vars

-----------------------------------------------------------------------------
TypeOK ==
    /\ rows \in Table
    /\ used \subseteq Workspaces
    /\ compose \in [Workspaces -> Ports \cup {NoPort}]
    /\ stack \in [Workspaces -> Stack]
    /\ pc \in [Tasks -> Step]
    /\ arg \in [Tasks -> Workspaces \cup {NoRow}]
    /\ copy \in [Tasks -> Table]
    /\ plan \in [Tasks -> [Workspaces -> State \cup {"none"}]]
    /\ pick \in [Tasks -> Ports \cup {NoPort}]

\* Two workspaces never hold the same port, whatever creations, deletions and
\* starts overlap (create's second check under the lock, start's full save).
PortsDistinct == PortsDistinctIn(rows)

-----------------------------------------------------------------------------
\* Ids that left the table, or that a refused creation wasted.
Gone ==
    {w \in used : /\ ~Listed(rows, w)
                  /\ \A t \in Tasks : ~(pc[t] = "create_append" /\ arg[t] = w)}

Book == INSTANCE WorkspaceBook WITH gone <- Gone

\* The table is an atomic book: no creation, rename or deletion is lost or undone,
\* and no deleted workspace comes back.  It holds as long as nothing commits
\* between the load of a start and its full save, as behind the window's busy flag.
ImplementsBook == Book!Spec

\* Whatever operations overlap, the save of start is the only step that is not one
\* of the book: every other write is a mutate of the row as it is then.
OnlyStartBreaksBook ==
    Book!Init /\ [][Book!Next \/ \E t \in Tasks : StartSave(t)]_<<rows, Gone>>

\* start writes its own row and no other: the save that publishes STARTING does
\* not overwrite what another operation committed since start loaded the table.
EditsSurvive ==
    [][\A t \in Tasks :
         pc[t] = "start_save" /\ pc'[t] = "start_up" =>
             \A w \in Workspaces \ {arg[t]} : rows'[w] = rows[w]]_vars

=============================================================================
