--------------------------- MODULE LauncherProofs ---------------------------
(***************************************************************************)
(* What holds of the manager for every number of workspaces, ports, names  *)
(* and overlapping callers, and for every choice of failing calls; then of *)
(* the sessions over it: what a boot repairs, and, behind the busy flag,   *)
(* that no stack is orphaned, an idle board tells the truth and a close    *)
(* leaves nothing up unreported.                                           *)
(***************************************************************************)
EXTENDS Launcher, TLAPS

(* WorkspaceManager *)

\* A task holds what its next step uses: the workspace it works on, a copy that
\* lists it, a port that was picked.
TaskOK(t) ==
    /\ pc[t] \notin {"idle", "ps", "ps_load", "ps_failed", "ps_apply"} => arg[t] \in Workspaces
    /\ pc[t] \in {"serve_probe", "start_save"} => Listed(copy[t], arg[t])
    /\ pc[t] = "create_append" => pick[t] \in Ports

\* The copies matter: start writes one back, so each must be as good as the table.
CopiesDistinct == \A t \in Tasks : PortsDistinctIn(copy[t])

IInv ==
    /\ TypeOK
    /\ \A t \in Tasks : TaskOK(t)
    /\ PortsDistinct
    /\ CopiesDistinct

-----------------------------------------------------------------------------
(* Tables *)

\* Changing the state of a listed row gives a table with the same ids and ports.
LEMMA SetStateIsTable ==
    ASSUME NEW T \in Table, NEW w \in Workspaces, Listed(T, w), NEW s \in State
    PROVE  /\ SetState(T, w, s) \in Table
           /\ \A v \in Workspaces : /\ Listed(SetState(T, w, s), v) <=> Listed(T, v)
                                    /\ SetState(T, w, s)[v].port = T[v].port
  <1>1. T[w] \in Row
    BY DEF Table, Listed
  <1>2. [T[w] EXCEPT !.state = s] \in Row
    BY <1>1 DEF Row
  <1>3. SetState(T, w, s) = [T EXCEPT ![w] = [T[w] EXCEPT !.state = s]]
    BY DEF SetState
  <1>4. SetState(T, w, s) \in Table
    BY <1>2, <1>3 DEF Table
  <1>5. ASSUME NEW v \in Workspaces
        PROVE  /\ Listed(SetState(T, w, s), v) <=> Listed(T, v)
               /\ SetState(T, w, s)[v].port = T[v].port
    BY <1>1, <1>2, <1>3, NoRowAssumption DEF Listed, Table, Row
  <1>6. QED
    BY <1>4, <1>5

\* A table that lists no other ids, on the same ports, keeps ports distinct.
LEMMA SamePortsDistinct ==
    ASSUME NEW T \in Table, NEW U \in Table, PortsDistinctIn(T),
           \A v \in Workspaces : Listed(U, v) => Listed(T, v) /\ U[v].port = T[v].port
    PROVE  PortsDistinctIn(U)
  BY DEF PortsDistinctIn, ListedIds

\* The empty table is a table, and trivially distinct.
LEMMA EmptyTable == Empty \in Table /\ PortsDistinctIn(Empty)
  BY DEF Empty, Table, PortsDistinctIn, ListedIds, Listed

\* mutate of a state leaves a table with distinct ports, and touches no local.
LEMMA MutateStateSafe ==
    ASSUME IInv, NEW t \in Tasks, NEW s \in State, NEW next \in Step,
           arg[t] \in Workspaces, MutateState(t, s, next),
           next \in {"idle", "stop_down"}, UNCHANGED <<used, world, locals>>
    PROVE  IInv'
  <1>1. rows' \in Table /\ PortsDistinctIn(rows)'
    <2>1. CASE Listed(rows, arg[t]) /\ rows' = SetState(rows, arg[t], s)
      <3>1. rows' \in Table
        BY <2>1, SetStateIsTable DEF IInv, TypeOK
      <3>2. PortsDistinctIn(rows')
        BY <2>1, <3>1, SetStateIsTable, SamePortsDistinct DEF IInv, TypeOK, PortsDistinct
      <3>3. QED
        BY <3>1, <3>2 DEF PortsDistinctIn, ListedIds, Listed
    <2>2. CASE UNCHANGED rows
      BY <2>2 DEF IInv, TypeOK, PortsDistinct, PortsDistinctIn, ListedIds, Listed
    <2>3. QED
      BY <2>1, <2>2 DEF MutateState
  <1>2. /\ pc' \in [Tasks -> Step]
        /\ arg' \in [Tasks -> Workspaces \cup {NoRow}]
        /\ \A u \in Tasks : \/ pc'[u] = pc[u] /\ arg'[u] = arg[u]
                            \/ u = t /\ pc'[u] = "idle"
                            \/ u = t /\ pc'[u] = "stop_down" /\ arg'[u] = arg[u]
    BY DEF MutateState, Goto, Finish, IInv, TypeOK, Step
  <1>3. TypeOK'
    BY <1>1, <1>2 DEF IInv, TypeOK, world, locals
  <1>4. (\A u \in Tasks : TaskOK(u))'
    BY <1>2 DEF IInv, TaskOK, locals, Listed
  <1>5. CopiesDistinct'
    BY DEF IInv, CopiesDistinct, locals, PortsDistinctIn, ListedIds, Listed
  <1>6. QED
    BY <1>1, <1>3, <1>4, <1>5 DEF IInv, PortsDistinct

-----------------------------------------------------------------------------
(* The invariant: one lemma per group of actions, then the theorems *)

LEMMA InitIInv == Init => IInv
  BY EmptyTable DEF Init, IInv, TypeOK, TaskOK, PortsDistinct, CopiesDistinct, Stack,
                    State, Step, NoPlan, ListedIds

\* Steps that leave the table and every copy alone.
QuietStep(t) ==
    \/ ServeWait(t) \/ StartUp(t) \/ StartWait(t)
    \/ SyncLoad(t) \/ Sync(t) \/ StopLoad(t) \/ StopDown(t)
    \/ ListProjectStates(t) \/ ReconcileLoad(t) \/ ReconcileBlind(t) \/ CreateLoad(t)

LEMMA UnchangedTables ==
    ASSUME IInv, UNCHANGED <<rows, copy>>
    PROVE  PortsDistinct' /\ CopiesDistinct'
  BY DEF IInv, PortsDistinct, CopiesDistinct, PortsDistinctIn, ListedIds, Listed

LEMMA RequestSafe ==
    ASSUME IInv, NEW t \in Tasks, NEW o \in Operations, NEW w,
           w \in Workspaces \/ o = "reconcile", Request(t, o, w)
    PROVE  IInv'
  <1>1. /\ FirstStep[o] \in Step
        /\ FirstStep[o] \notin {"idle", "serve_probe", "start_save", "create_append"}
        /\ FirstStep[o] \notin {"ps", "ps_load", "ps_failed", "ps_apply"} => o # "reconcile"
    BY ChoiceAssumption DEF FirstStep, Step, AllOperations
  <1>2. TypeOK'
    BY <1>1 DEF IInv, TypeOK, Request, world, locals
  <1>3. (\A u \in Tasks : TaskOK(u))'
    BY <1>1 DEF IInv, TypeOK, TaskOK, Request, locals, Listed
  <1>4. QED
    BY <1>2, <1>3, UnchangedTables DEF IInv, Request, locals

LEMMA QuietStepSafe ==
    ASSUME IInv, NEW t \in Tasks, QuietStep(t)
    PROVE  IInv'
  <1> USE DEF IInv, TypeOK, TaskOK, Goto, Finish, world, locals, Step
  <1>0. UNCHANGED <<rows, copy>>
    BY DEF QuietStep, ServeWait, StartUp, StartWait, SyncLoad, Sync, StopLoad, StopDown,
           ListProjectStates, ReconcileLoad, ReconcileBlind, CreateLoad
  <1>1. CASE ServeWait(t) \/ Sync(t) \/ SyncLoad(t) \/ StopLoad(t) \/ StartWait(t)
    <2>1. TypeOK'
      BY <1>1 DEF ServeWait, Sync, SyncLoad, StopLoad, StartWait
    <2>2. (\A u \in Tasks : TaskOK(u))'
      BY <1>1 DEF ServeWait, Sync, SyncLoad, StopLoad, StartWait, Listed
    <2>3. QED
      BY <1>0, <2>1, <2>2, UnchangedTables
  <1>2. CASE StartUp(t) \/ StopDown(t)
    <2>0. stack' \in [Workspaces -> Stack]
      BY <1>2 DEF StartUp, StopDown, Stack
    <2>1. TypeOK'
      BY <1>2, <2>0 DEF StartUp, StopDown
    <2>2. (\A u \in Tasks : TaskOK(u))'
      BY <1>2 DEF StartUp, StopDown, Listed
    <2>3. QED
      BY <1>0, <2>1, <2>2, UnchangedTables
  <1>3. CASE ListProjectStates(t) \/ ReconcileLoad(t) \/ ReconcileBlind(t)
    <2>1. \A w \in Workspaces : LiveState(w) \in State
      BY DEF LiveState, State
    <2>2. plan' \in [Tasks -> [Workspaces -> State \cup {"none"}]]
      BY <1>3, <2>1 DEF ListProjectStates, ReconcileLoad, ReconcileBlind, Live, State
    <2>3. TypeOK'
      BY <1>3, <2>2 DEF ListProjectStates, ReconcileLoad, ReconcileBlind
    <2>4. (\A u \in Tasks : TaskOK(u))'
      BY <1>3 DEF ListProjectStates, ReconcileLoad, ReconcileBlind, Listed
    <2>5. QED
      BY <1>0, <2>3, <2>4, UnchangedTables
  <1>4. CASE CreateLoad(t)
    <2>1. arg[t] \in Workspaces
      BY <1>4 DEF CreateLoad
    <2>0. /\ pick' \in [Tasks -> Ports \cup {NoPort}]
          /\ used' \subseteq Workspaces
      BY <1>4, <2>1 DEF CreateLoad
    <2>2. TypeOK'
      BY <1>4, <2>0 DEF CreateLoad
    <2>3. (\A u \in Tasks : TaskOK(u))'
      BY <1>4 DEF CreateLoad, Listed
    <2>4. QED
      BY <1>0, <2>2, <2>3, UnchangedTables
  <1>5. QED
    BY <1>1, <1>2, <1>3, <1>4 DEF QuietStep

\* Steps that take a copy of the table, or drop one.
LEMMA CopyStepSafe ==
    ASSUME IInv, NEW t \in Tasks, ServeLoad(t) \/ ServeProbe(t) \/ StartLoad(t)
    PROVE  IInv'
  <1> USE DEF IInv, TypeOK, TaskOK, Goto, Finish, world, locals, Step
  <1>1. UNCHANGED rows /\ arg[t] \in Workspaces
    BY DEF ServeLoad, ServeProbe, StartLoad
  <1>2. /\ copy' \in [Tasks -> Table]
        /\ \A u \in Tasks : copy'[u] \in {copy[u], rows, Empty}
        /\ \A u \in Tasks \ {t} : copy'[u] = copy[u]
    BY EmptyTable DEF ServeLoad, ServeProbe, StartLoad
  <1>3. TypeOK'
    <2>1. CASE ServeLoad(t) \/ ServeProbe(t)
      BY <1>2, <2>1 DEF ServeLoad, ServeProbe
    <2>2. CASE StartLoad(t)
      <3>1. Listed(rows, arg[t]) => rows[arg[t]].port \in Ports
        BY <1>1 DEF Listed, Table, Row
      <3>2. compose' \in [Workspaces -> Ports \cup {NoPort}]
        BY <2>2, <3>1, <1>1 DEF StartLoad
      <3>3. QED
        BY <1>2, <2>2, <3>2 DEF StartLoad
    <2>3. QED
      BY <2>1, <2>2
  <1>4. (\A u \in Tasks : TaskOK(u))'
    BY <1>2 DEF ServeLoad, ServeProbe, StartLoad, Listed
  <1>5. CopiesDistinct'
    <2>1. \A u \in Tasks : PortsDistinctIn(copy'[u])
      BY <1>2, EmptyTable DEF CopiesDistinct, PortsDistinct
    <2>2. QED
      BY <2>1 DEF CopiesDistinct, PortsDistinctIn, ListedIds, Listed
  <1>6. PortsDistinct'
    BY <1>1 DEF PortsDistinct, PortsDistinctIn, ListedIds, Listed
  <1>7. QED
    BY <1>3, <1>4, <1>5, <1>6


\* What a step of one task must show when it changes the table and no copy
\* comes of it but the empty one.
LEMMA WriteSafe ==
    ASSUME IInv, NEW t \in Tasks,
           rows' \in Table, PortsDistinctIn(rows'),
           \/ pc' = [pc EXCEPT ![t] = "idle"] /\ arg' = [arg EXCEPT ![t] = NoRow]
           \/ pc' = [pc EXCEPT ![t] = "start_up"] /\ arg' = arg /\ arg[t] \in Workspaces,
           UNCHANGED <<used, world>>,
           copy' = copy \/ copy' = [copy EXCEPT ![t] = Empty],
           plan' = plan \/ plan' = [plan EXCEPT ![t] = NoPlan],
           pick' = pick \/ pick' = [pick EXCEPT ![t] = NoPort]
    PROVE  IInv'
  <1> USE DEF IInv, TypeOK, world
  <1>1. /\ pc' \in [Tasks -> Step]
        /\ arg' \in [Tasks -> Workspaces \cup {NoRow}]
        /\ \A u \in Tasks \ {t} : pc'[u] = pc[u] /\ arg'[u] = arg[u]
        /\ pc'[t] \in {"idle", "start_up"}
        /\ pc'[t] = "start_up" => arg'[t] \in Workspaces
    BY DEF Goto, Finish, Step
  <1>2. /\ copy' \in [Tasks -> Table]
        /\ \A u \in Tasks : copy'[u] \in {copy[u], Empty}
        /\ \A u \in Tasks \ {t} : copy'[u] = copy[u]
    BY EmptyTable
  <1>3. plan' \in [Tasks -> [Workspaces -> State \cup {"none"}]]
    BY DEF NoPlan
  <1>4. /\ pick' \in [Tasks -> Ports \cup {NoPort}]
        /\ \A u \in Tasks \ {t} : pick'[u] = pick[u]
    OBVIOUS
  <1>5. TypeOK'
    BY <1>1, <1>2, <1>3, <1>4
  <1>6. (\A u \in Tasks : TaskOK(u))'
    BY <1>1, <1>2, <1>4 DEF TaskOK, Listed
  <1>7. PortsDistinct'
    BY DEF PortsDistinct, PortsDistinctIn, ListedIds, Listed
  <1>8. CopiesDistinct'
    <2>1. \A u \in Tasks : PortsDistinctIn(copy'[u])
      BY <1>2, EmptyTable DEF CopiesDistinct
    <2>2. QED
      BY <2>1 DEF CopiesDistinct, PortsDistinctIn, ListedIds, Listed
  <1>9. QED
    BY <1>5, <1>6, <1>7, <1>8

LEMMA CreateAppendSafe ==
    ASSUME IInv, NEW t \in Tasks, CreateAppend(t)
    PROVE  IInv'
  <1>1. arg[t] \in Workspaces /\ pick[t] \in Ports
    BY DEF CreateAppend, IInv, TaskOK
  <1>2. rows' \in Table /\ PortsDistinctIn(rows')
    <2>1. CASE UNCHANGED rows
      BY <2>1 DEF IInv, TypeOK, PortsDistinct
    <2>2. CASE /\ ~PortTaken(t)
               /\ \E n \in Names :
                    rows' = [rows EXCEPT
                               ![arg[t]] = [state |-> "stopped", port |-> pick[t], name |-> n]]
      <3>1. PICK n \in Names :
              rows' = [rows EXCEPT
                         ![arg[t]] = [state |-> "stopped", port |-> pick[t], name |-> n]]
        BY <2>2
      <3>2. [state |-> "stopped", port |-> pick[t], name |-> n] \in Row
        BY <1>1 DEF Row, State
      <3>3. rows' \in Table
        BY <3>1, <3>2 DEF IInv, TypeOK, Table
      <3>4. /\ rows'[arg[t]].port = pick[t]
            /\ \A v \in Workspaces \ {arg[t]} : rows'[v] = rows[v]
        BY <3>1, <1>1 DEF IInv, TypeOK, Table
      <3>5. \A v \in ListedIds(rows) : rows[v].port # pick[t]
        BY <2>2 DEF PortsOf, PortTaken
      <3>6. PortsDistinctIn(rows')
        BY <3>4, <3>5, <1>1 DEF IInv, PortsDistinct, PortsDistinctIn, ListedIds, Listed
      <3>7. QED
        BY <3>3, <3>6
    <2>3. QED
      BY <2>1, <2>2 DEF CreateAppend
  <1>3. /\ pc' = [pc EXCEPT ![t] = "idle"] /\ arg' = [arg EXCEPT ![t] = NoRow]
        /\ UNCHANGED <<used, world, copy, plan>> /\ pick' = [pick EXCEPT ![t] = NoPort]
    BY DEF CreateAppend, Finish
  <1>4. QED
    BY <1>2, <1>3, WriteSafe

LEMMA DeleteSafe ==
    ASSUME IInv, NEW t \in Tasks, Delete(t)
    PROVE  IInv'
  <1>1. arg[t] \in Workspaces
    BY DEF Delete, IInv, TaskOK
  <1>2. rows' \in Table
    BY DEF Delete, IInv, TypeOK, Table
  <1>3. \A v \in Workspaces : rows'[v] \in {rows[v], NoRow}
    BY <1>1 DEF Delete, IInv, TypeOK, Table
  <1>4. \A v \in Workspaces :
          Listed(rows', v) => Listed(rows, v) /\ rows'[v].port = rows[v].port
    BY <1>3 DEF Listed
  <1>5. PortsDistinctIn(rows')
    BY <1>2, <1>4, SamePortsDistinct DEF IInv, TypeOK, PortsDistinct
  <1>6. /\ pc' = [pc EXCEPT ![t] = "idle"] /\ arg' = [arg EXCEPT ![t] = NoRow]
        /\ UNCHANGED <<used, world, copy, plan, pick>>
    BY DEF Delete, Finish, locals
  <1>7. QED
    BY <1>2, <1>5, <1>6, WriteSafe

LEMMA RenameSafe ==
    ASSUME IInv, NEW t \in Tasks, RenameWorkspace(t)
    PROVE  IInv'
  <1>1. arg[t] \in Workspaces
    BY DEF RenameWorkspace, IInv, TaskOK
  <1>2. rows' \in Table /\ PortsDistinctIn(rows')
    <2>1. CASE UNCHANGED rows
      BY <2>1 DEF IInv, TypeOK, PortsDistinct
    <2>2. ASSUME NEW n \in Names, Listed(rows, arg[t]), rows' = [rows EXCEPT ![arg[t]].name = n]
          PROVE  rows' \in Table /\ PortsDistinctIn(rows')
      <3>1. rows[arg[t]] \in Row
        BY <1>1, <2>2 DEF IInv, TypeOK, Table, Listed
      <3>2. [rows[arg[t]] EXCEPT !.name = n] \in Row
        BY <3>1 DEF Row
      <3>3. rows' \in Table
        BY <1>1, <2>2, <3>2 DEF IInv, TypeOK, Table
      <3>4. \A v \in Workspaces :
              Listed(rows', v) => Listed(rows, v) /\ rows'[v].port = rows[v].port
        BY <1>1, <2>2, <3>1, <3>2 DEF IInv, TypeOK, Table, Row, Listed
      <3>5. QED
        BY <3>3, <3>4, SamePortsDistinct DEF IInv, TypeOK, PortsDistinct
    <2>3. QED
      BY <2>1, <2>2 DEF RenameWorkspace
  <1>3. /\ pc' = [pc EXCEPT ![t] = "idle"] /\ arg' = [arg EXCEPT ![t] = NoRow]
        /\ UNCHANGED <<used, world, copy, plan, pick>>
    BY DEF RenameWorkspace, Finish, locals
  <1>4. QED
    BY <1>2, <1>3, WriteSafe

\* start's full save: the copy it writes back was a committed table, so its ports
\* are distinct, however stale it is.
LEMMA StartSaveSafe ==
    ASSUME IInv, NEW t \in Tasks, StartSave(t)
    PROVE  IInv'
  <1>1. arg[t] \in Workspaces /\ Listed(copy[t], arg[t]) /\ copy[t] \in Table
    BY DEF StartSave, IInv, TaskOK, TypeOK
  <1>2. "starting" \in State
    BY DEF State
  <1>3. rows' = SetState(copy[t], arg[t], "starting")
    BY DEF StartSave
  <1>4. rows' \in Table
    BY <1>1, <1>2, <1>3, SetStateIsTable
  <1>5. PortsDistinctIn(rows')
    BY <1>1, <1>2, <1>3, <1>4, SetStateIsTable, SamePortsDistinct DEF IInv, CopiesDistinct
  <1>6. QED
    BY <1>1, <1>4, <1>5, WriteSafe DEF StartSave, Goto

LEMMA ReconcileApplySafe ==
    ASSUME IInv, NEW t \in Tasks, ReconcileApply(t)
    PROVE  IInv'
  <1>1. ASSUME NEW w \in Workspaces, Listed(rows, w), plan[t][w] # "none"
        PROVE  /\ [rows[w] EXCEPT !.state = plan[t][w]] \in Row
               /\ [rows[w] EXCEPT !.state = plan[t][w]].port = rows[w].port
    <2>1. rows[w] \in Row /\ plan[t][w] \in State
      BY <1>1 DEF IInv, TypeOK, Table, Listed
    <2>2. QED
      BY <2>1 DEF Row
  <1>2. \A w \in Workspaces :
          \/ rows'[w] = rows[w]
          \/ /\ Listed(rows, w)
             /\ rows'[w] \in Row
             /\ rows'[w].port = rows[w].port
    BY <1>1 DEF ReconcileApply
  <1>3. rows' \in Table
    <2>1. \A w \in Workspaces : rows'[w] \in Row \cup {NoRow}
      BY <1>2 DEF IInv, TypeOK, Table
    <2>2. QED
      BY <2>1 DEF ReconcileApply, Table
  <1>4. \A v \in Workspaces :
          Listed(rows', v) => Listed(rows, v) /\ rows'[v].port = rows[v].port
    BY <1>2 DEF Listed
  <1>5. PortsDistinctIn(rows')
    BY <1>3, <1>4, SamePortsDistinct DEF IInv, TypeOK, PortsDistinct
  <1>6. /\ pc' = [pc EXCEPT ![t] = "idle"] /\ arg' = [arg EXCEPT ![t] = NoRow]
        /\ UNCHANGED <<used, world, copy, pick>> /\ plan' = [plan EXCEPT ![t] = NoPlan]
    BY DEF ReconcileApply, Finish
  <1>7. QED
    BY <1>3, <1>5, <1>6, WriteSafe

\* The four mutates that only set a state.
LEMMA MarkSafe ==
    ASSUME IInv, NEW t \in Tasks,
           MarkRunning(t) \/ MarkError(t) \/ MarkStopping(t) \/ MarkStopped(t)
    PROVE  IInv'
  <1>1. arg[t] \in Workspaces
    BY DEF MarkRunning, MarkError, MarkStopping, MarkStopped, IInv, TaskOK
  <1>2. \E s \in State, next \in {"idle", "stop_down"} :
          MutateState(t, s, next) /\ UNCHANGED <<used, world, locals>>
    BY DEF MarkRunning, MarkError, MarkStopping, MarkStopped, State
  <1>3. QED
    BY <1>1, <1>2, MutateStateSafe DEF Step

LEMMA DockerSafe ==
    ASSUME IInv, NEW w \in Workspaces, StackReady(w) \/ StackCrash(w) \/ StackGone(w)
    PROVE  IInv'
  <1>1. stack' \in [Workspaces -> Stack]
    BY DEF StackReady, StackCrash, StackGone, IInv, TypeOK, Stack
  <1>2. UNCHANGED <<rows, used, compose, pc, arg, copy, plan, pick>>
    BY DEF StackReady, StackCrash, StackGone, locals
  <1>3. QED
    BY <1>1, <1>2, UnchangedTables DEF IInv, TypeOK, TaskOK, Listed

\* An operation the store refuses writes nothing and drops what it held.
LEMMA StoreFailsSafe ==
    ASSUME IInv, NEW t \in Tasks, StoreFails(t)
    PROVE  IInv'
  <1>1. rows' \in Table /\ PortsDistinctIn(rows')
    BY DEF StoreFails, IInv, TypeOK, PortsDistinct
  <1>2. QED
    BY <1>1, WriteSafe DEF StoreFails, Finish

LEMMA StutterSafe == ASSUME IInv, UNCHANGED vars PROVE IInv'
  BY UnchangedTables DEF IInv, TypeOK, TaskOK, Listed, vars

\* The invariant is inductive.
LEMMA TaskStepSafe ==
    ASSUME IInv, NEW t \in Tasks, TaskStep(t)
    PROVE  IInv'
  <1>1. CASE QuietStep(t)
    BY <1>1, QuietStepSafe
  <1>2. CASE ServeLoad(t) \/ ServeProbe(t) \/ StartLoad(t)
    BY <1>2, CopyStepSafe
  <1>3. CASE CreateAppend(t)
    BY <1>3, CreateAppendSafe
  <1>4. CASE Delete(t)
    BY <1>4, DeleteSafe
  <1>5. CASE RenameWorkspace(t)
    BY <1>5, RenameSafe
  <1>6. CASE StartSave(t)
    BY <1>6, StartSaveSafe
  <1>7. CASE ReconcileApply(t)
    BY <1>7, ReconcileApplySafe
  <1>8. CASE MarkRunning(t) \/ MarkError(t) \/ MarkStopping(t) \/ MarkStopped(t)
    BY <1>8, MarkSafe
  <1>9. QED
    BY <1>1, <1>2, <1>3, <1>4, <1>5, <1>6, <1>7, <1>8 DEF TaskStep, QuietStep

LEMMA NextSafe == ASSUME IInv, [Next]_vars PROVE IInv'
  BY RequestSafe, TaskStepSafe, StoreFailsSafe, DockerSafe, StutterSafe DEF Next

-----------------------------------------------------------------------------
\* The inductive invariant holds of every behaviour.
THEOREM Invariance == Spec => []IInv
  BY InitIInv, NextSafe, PTL DEF Spec

\* Every variable keeps its type: no operation leaves a malformed row, and no
\* task uses a workspace, a copy or a port it does not have.
THEOREM TypeCorrect == Spec => []TypeOK
  <1>1. IInv => TypeOK
    BY DEF IInv
  <1>2. QED
    BY <1>1, Invariance, PTL

\* Two workspaces never share a port, for any number of overlapping callers and
\* any calls that fail, in spite of start's full save of a stale table.
THEOREM PortsAlwaysDistinct == Spec => []PortsDistinct
  <1>1. IInv => PortsDistinct
    BY DEF IInv
  <1>2. QED
    BY <1>1, Invariance, PTL

-----------------------------------------------------------------------------
(* The manager and the atomic book *)

\* An id some table of the manager lists: the committed one or a copy of a task.
Known(w) == Listed(rows, w) \/ \E u \in Tasks : Listed(copy[u], w)

\* A creation that has its id and is not committed yet: nobody else has that id, and
\* no copy lists it, so no save can bring it in early.
Pending(t) == pc[t] = "create_append"
PendingOK(t) ==
    Pending(t) =>
        /\ arg[t] \in used
        /\ ~Known(arg[t])
        /\ \A u \in Tasks \ {t} : Pending(u) => arg[u] # arg[t]

BookInv ==
    /\ IInv
    /\ \A w \in Workspaces : Known(w) => w \in used
    /\ \A t \in Tasks : PendingOK(t)

LEMMA InitBookInv == Init => BookInv
<1> SUFFICES ASSUME Init PROVE BookInv
    OBVIOUS
<1>1. \A t \in Tasks : ~Pending(t)
    BY DEF Init, Pending
<1>2. \A t \in Tasks, w \in Workspaces : ~Listed(copy[t], w)
    BY DEF Init, Empty, Listed
<1>3. QED
    BY <1>1, <1>2, InitIInv DEF BookInv, Known, PendingOK, Init, ListedIds

\* A step that draws no id, starts no creation and lists only what was known.
LEMMA NothingNewKeepsBookInv ==
    ASSUME BookInv, IInv', UNCHANGED used,
           \A w \in Workspaces : Known(w)' => Known(w),
           \A u \in Tasks : Pending(u)' => Pending(u) /\ arg'[u] = arg[u]
    PROVE  BookInv'
<1>1. \A w \in Workspaces : Known(w)' => w \in used'
    BY DEF BookInv
<1>2. ASSUME NEW u \in Tasks PROVE PendingOK(u)'
  <2>1. CASE Pending(u)'
    <3>1. Pending(u) /\ arg'[u] = arg[u] /\ PendingOK(u) /\ arg[u] \in Workspaces
      BY <2>1 DEF BookInv, IInv, TaskOK, Pending
    <3>2. PICK w \in Workspaces : w = arg[u]
      BY <3>1
    <3>3. ~Known(w)' /\ w = arg'[u] /\ w \in used'
      BY <3>1, <3>2 DEF PendingOK
    <3>4. \A v \in Tasks \ {u} : Pending(v)' => arg'[v] # arg'[u]
      BY <3>1 DEF PendingOK
    <3>5. QED
      BY <3>3, <3>4 DEF PendingOK, Known, Listed, Pending
  <2>2. CASE ~Pending(u)'
    BY <2>2 DEF PendingOK
  <2>3. QED
    BY <2>1, <2>2
<1>3. QED
    BY <1>1, <1>2 DEF BookInv

\* What becomes of the ids that are gone when no id is drawn and no creation starts.
LEMMA GoneKept ==
    ASSUME BookInv, UNCHANGED used,
           \A w \in Workspaces : Listed(rows', w) <=> Listed(rows, w),
           \A u \in Tasks : /\ Pending(u)' <=> Pending(u)
                            /\ Pending(u) => arg'[u] = arg[u]
    PROVE  Gone' = Gone
<1>1. used \subseteq Workspaces /\ used' = used
    BY DEF BookInv, IInv, TypeOK
<1>2. QED
    BY <1>1 DEF Gone, Pending

\* Apart from the two steps of create, a task neither starts nor ends a creation,
\* and draws no id.
LEMMA OtherStepsKeepPending ==
    ASSUME BookInv, NEW t \in Tasks, TaskStep(t), ~CreateLoad(t), ~CreateAppend(t)
    PROVE  /\ UNCHANGED used
           /\ \A u \in Tasks : /\ Pending(u)' <=> Pending(u)
                               /\ Pending(u) => arg'[u] = arg[u]
<1> USE DEF Pending, Goto, Finish
<1>0. pc \in [Tasks -> Step] /\ arg \in [Tasks -> Workspaces \cup {NoRow}]
    BY DEF BookInv, IInv, TypeOK
<1>1. CASE Delete(t) \/ RenameWorkspace(t) \/ ServeLoad(t) \/ ServeProbe(t) \/ ServeWait(t)
    BY <1>0, <1>1 DEF Delete, RenameWorkspace, ServeLoad, ServeProbe, ServeWait
<1>2. CASE StartLoad(t) \/ StartSave(t) \/ StartUp(t) \/ StartWait(t)
    BY <1>0, <1>2 DEF StartLoad, StartSave, StartUp, StartWait
<1>3. CASE MarkRunning(t) \/ MarkError(t) \/ MarkStopping(t) \/ MarkStopped(t)
    BY <1>0, <1>3 DEF MarkRunning, MarkError, MarkStopping, MarkStopped, MutateState
<1>4. CASE SyncLoad(t) \/ Sync(t) \/ StopLoad(t) \/ StopDown(t)
    BY <1>0, <1>4 DEF SyncLoad, Sync, StopLoad, StopDown
<1>5. CASE ListProjectStates(t) \/ ReconcileLoad(t) \/ ReconcileBlind(t) \/ ReconcileApply(t)
    BY <1>0, <1>5 DEF ListProjectStates, ReconcileLoad, ReconcileBlind, ReconcileApply
<1>6. QED
    BY <1>1, <1>2, <1>3, <1>4, <1>5 DEF TaskStep

\* No step but the commit of a creation lists a workspace no table listed before.
LEMMA OtherStepsListKnown ==
    ASSUME BookInv, NEW t \in Tasks, TaskStep(t), ~CreateAppend(t)
    PROVE  \A w \in Workspaces : Known(w)' => Known(w)
<1>0. rows \in Table /\ copy \in [Tasks -> Table]
    BY DEF BookInv, IInv, TypeOK
<1>1. \A u \in Tasks : copy'[u] \in {copy[u], rows, Empty}
  <2>1. CASE ServeLoad(t) \/ ServeProbe(t) \/ StartLoad(t) \/ StartSave(t)
    BY <1>0, <2>1 DEF ServeLoad, ServeProbe, StartLoad, StartSave
  <2>2. CASE QuietStep(t)
    BY <2>2 DEF QuietStep, ServeWait, StartUp, StartWait, SyncLoad, Sync, StopLoad, StopDown,
                ListProjectStates, ReconcileLoad, ReconcileBlind, CreateLoad, locals
  <2>3. CASE Delete(t) \/ RenameWorkspace(t) \/ ReconcileApply(t) \/ MarkRunning(t)
             \/ MarkError(t) \/ MarkStopping(t) \/ MarkStopped(t)
    BY <2>3 DEF Delete, RenameWorkspace, ReconcileApply, MarkRunning, MarkError,
                MarkStopping, MarkStopped, locals
  <2>4. QED
    BY <2>1, <2>2, <2>3 DEF TaskStep, QuietStep
<1>2. \A w \in Workspaces : Listed(rows', w) => Known(w)
  <2>1. CASE UNCHANGED rows
    BY <2>1 DEF Known, Listed
  <2>2. CASE Delete(t) \/ RenameWorkspace(t)
    BY <1>0, <2>2, NoRowAssumption DEF Delete, RenameWorkspace, Known, Listed, Table
  <2>3. CASE ReconcileApply(t)
    BY <2>3 DEF ReconcileApply, Known, Listed
  <2>4. CASE StartSave(t)
    <3>1. arg[t] \in Workspaces /\ Listed(copy[t], arg[t])
      BY <2>4 DEF StartSave, BookInv, IInv, TaskOK
    <3>2. \A w \in Workspaces : Listed(rows', w) => Listed(copy[t], w)
      BY <1>0, <2>4, <3>1, SetStateIsTable DEF StartSave, State
    <3>3. QED
      BY <3>2 DEF Known
  <2>5. CASE MarkRunning(t) \/ MarkError(t) \/ MarkStopping(t) \/ MarkStopped(t)
    BY <1>0, <2>5 DEF MarkRunning, MarkError, MarkStopping, MarkStopped, MutateState,
                      SetState, Known, Listed, Table
  <2>6. CASE QuietStep(t) \/ ServeLoad(t) \/ ServeProbe(t) \/ StartLoad(t)
    BY <2>1, <2>6 DEF QuietStep, ServeWait, StartUp, StartWait, SyncLoad, Sync, StopLoad,
                StopDown, ListProjectStates, ReconcileLoad, ReconcileBlind, CreateLoad,
                ServeLoad, ServeProbe, StartLoad
  <2>7. QED
    BY <2>2, <2>3, <2>4, <2>5, <2>6 DEF TaskStep, QuietStep
<1>3. QED
    BY <1>1, <1>2 DEF Known, Listed, Empty

-----------------------------------------------------------------------------
(* Each step against the book *)

BookStep == Book!Next \/ (\E t \in Tasks : StartSave(t)) \/ UNCHANGED <<rows, Gone>>

\* A fresh id is drawn: it is not gone, and not listed either.
LEMMA CreateLoadBook ==
    ASSUME BookInv, NEW t \in Tasks, CreateLoad(t)
    PROVE  BookInv' /\ BookStep
<1>0. /\ IInv' /\ UNCHANGED <<rows, copy>>
      /\ pc \in [Tasks -> Step] /\ arg \in [Tasks -> Workspaces \cup {NoRow}]
      /\ used \subseteq Workspaces /\ arg[t] \in Workspaces
    BY TaskStepSafe DEF BookInv, CreateLoad, TaskStep, IInv, TypeOK, TaskOK
<1>1. \A w \in Workspaces : Known(w)' <=> Known(w)
    BY <1>0 DEF Known, Listed
<1>2. CASE arg[t] \notin used /\ used' = used \cup {arg[t]} /\ Goto(t, "create_append")
  <2>1. ~Known(arg[t])
    BY <1>0, <1>2 DEF BookInv
  <2>2. \A u \in Tasks : Pending(u) => PendingOK(u) /\ arg[u] \in used /\ u # t
    BY <1>0 DEF BookInv, PendingOK, Pending, CreateLoad
  <2>3. \A u \in Tasks : /\ Pending(u)' <=> (Pending(u) \/ u = t)
                         /\ arg'[u] = arg[u]
    BY <1>0, <1>2 DEF Pending, Goto
  <2>4. ASSUME NEW u \in Tasks PROVE PendingOK(u)'
    <3>1. CASE Pending(u)'
      <4>1. /\ arg'[u] \in used' /\ arg[u] \in Workspaces
            /\ \A v \in Tasks \ {u} : Pending(v)' => arg'[v] # arg'[u]
        BY <1>0, <1>2, <2>2, <2>3, <3>1 DEF PendingOK
      <4>2. ~Known(arg[u])
        BY <2>1, <2>2, <2>3, <3>1 DEF PendingOK
      <4>3. QED
        BY <1>0, <2>3, <4>1, <4>2 DEF PendingOK, Known, Listed, Pending
    <3>2. CASE ~Pending(u)'
      BY <3>2 DEF PendingOK
    <3>3. QED
      BY <3>1, <3>2
  <2>5. BookInv'
    BY <1>0, <1>1, <1>2, <2>4 DEF BookInv
  <2>6. Gone' = Gone
    BY <1>0, <1>2, <2>2, <2>3 DEF Gone, Pending, Listed
  <2>7. QED
    BY <1>0, <2>5, <2>6 DEF BookStep
<1>3. CASE UNCHANGED used /\ Finish(t)
  <2>1. \A u \in Tasks : /\ Pending(u)' <=> Pending(u)
                         /\ Pending(u) => arg'[u] = arg[u]
    BY <1>0, <1>3 DEF Pending, Finish, CreateLoad
  <2>2. BookInv'
    BY <1>0, <1>1, <1>3, <2>1, NothingNewKeepsBookInv
  <2>3. Gone' = Gone
    BY <1>0, <1>3, <2>1, GoneKept
  <2>4. QED
    BY <1>0, <2>2, <2>3 DEF BookStep
<1>4. QED
    BY <1>2, <1>3 DEF CreateLoad

\* The commit of a creation: Create in the book, or, when the port was taken in the
\* meantime, an id that is gone unused.
LEMMA CreateAppendBook ==
    ASSUME BookInv, NEW t \in Tasks, CreateAppend(t)
    PROVE  BookInv' /\ BookStep
<1> DEFINE w == arg[t]
<1>0. /\ IInv' /\ UNCHANGED <<used, copy>>
      /\ rows \in Table /\ copy \in [Tasks -> Table]
      /\ pc \in [Tasks -> Step] /\ arg \in [Tasks -> Workspaces \cup {NoRow}]
      /\ w \in Workspaces /\ pick[t] \in Ports /\ used \subseteq Workspaces
    BY TaskStepSafe DEF BookInv, CreateAppend, TaskStep, IInv, TypeOK, TaskOK
<1>1. Pending(t) /\ w \in used /\ ~Known(w)
      /\ \A u \in Tasks \ {t} : Pending(u) => arg[u] # w
    BY DEF BookInv, PendingOK, CreateAppend, Pending
<1>2. \A u \in Tasks : /\ Pending(u)' <=> (Pending(u) /\ u # t)
                       /\ u # t => arg'[u] = arg[u]
    BY <1>0 DEF Pending, CreateAppend, Finish
<1>3. \A v \in Workspaces \ {w} : rows'[v] = rows[v]
    BY <1>0 DEF CreateAppend, Table
<1>4. \A v \in Workspaces : Known(v)' => Known(v) \/ v = w
    BY <1>0, <1>3 DEF Known, Listed
<1>5. ASSUME NEW u \in Tasks PROVE PendingOK(u)'
  <2>1. CASE Pending(u)'
    <3>1. /\ Pending(u) /\ u # t /\ arg'[u] = arg[u] /\ arg[u] # w
          /\ arg[u] \in Workspaces /\ PendingOK(u)
      BY <1>1, <1>2, <2>1 DEF BookInv, IInv, TaskOK, Pending
    <3>2. ~Known(arg[u]) /\ arg[u] \in used
      BY <3>1 DEF PendingOK
    <3>3. \A v \in Tasks \ {u} : Pending(v)' => arg'[v] # arg'[u]
      BY <1>2, <3>1 DEF PendingOK
    <3>4. QED
      BY <1>0, <1>3, <3>1, <3>2, <3>3 DEF PendingOK, Known, Listed, Pending
  <2>2. CASE ~Pending(u)'
    BY <2>2 DEF PendingOK
  <2>3. QED
    BY <2>1, <2>2
<1>6. BookInv'
    BY <1>0, <1>1, <1>4, <1>5 DEF BookInv
<1>7. ~Listed(rows, w) /\ w \notin Gone
    BY <1>1 DEF Known, Gone, Pending
<1>8. \A v \in Workspaces \ {w} : v \in Gone' <=> v \in Gone
    BY <1>0, <1>1, <1>2, <1>3 DEF Gone, Pending, Listed
<1>9. CASE UNCHANGED rows
  <2>1. w \in Gone'
    BY <1>0, <1>1, <1>2, <1>7, <1>9 DEF Gone, Pending, Listed
  <2>2. Gone' = Gone \cup {w}
    BY <1>0, <1>8, <2>1 DEF Gone
  <2>3. Book!Waste(w)
    BY <1>7, <1>9, <2>2 DEF Book!Waste, Book!Listed, Listed
  <2>4. QED
    BY <1>0, <1>6, <2>3 DEF BookStep, Book!Next
<1>10. CASE ~PortTaken(t) /\ ~UNCHANGED rows
  <2>1. PICK n \in Names :
          rows' = [rows EXCEPT ![w] = [state |-> "stopped", port |-> pick[t], name |-> n]]
    BY <1>10 DEF CreateAppend
  <2>2. Listed(rows', w)
    <3>1. [state |-> "stopped", port |-> pick[t], name |-> n] \in Row
      BY <1>0 DEF Row, State
    <3>2. QED
      BY <1>0, <2>1, <3>1, NoRowAssumption DEF Listed, Table
  <2>3. Gone' = Gone
    BY <1>0, <1>7, <1>8, <2>2 DEF Gone
  <2>4. pick[t] \in Ports \ PortsOf(rows)
    BY <1>0, <1>10 DEF PortTaken
  <2>5. Book!Create(w)
    BY <1>7, <2>1, <2>3, <2>4
       DEF Book!Create, Book!Listed, Book!PortsOf, Book!ListedIds, Listed, PortsOf, ListedIds
  <2>6. QED
    BY <1>0, <1>6, <2>5 DEF BookStep, Book!Next
<1>11. QED
    BY <1>9, <1>10 DEF CreateAppend

\* A deletion, on the row as it is then.
LEMMA DeleteBook ==
    ASSUME BookInv, NEW t \in Tasks, Delete(t)
    PROVE  BookStep
<1> DEFINE w == arg[t]
<1>0. /\ rows \in Table /\ used \subseteq Workspaces /\ w \in Workspaces
    BY DEF BookInv, IInv, TypeOK, TaskOK, Delete
<1>1. /\ UNCHANGED used
      /\ \A u \in Tasks : /\ Pending(u)' <=> Pending(u)
                          /\ Pending(u) => arg'[u] = arg[u]
    BY OtherStepsKeepPending DEF TaskStep, Delete, CreateLoad, CreateAppend
<1>2. CASE MayDelete(w)
  <2>1. /\ rows' = [rows EXCEPT ![w] = NoRow]
        /\ Listed(rows, w) /\ rows[w].state = "stopped"
    BY <1>2 DEF Delete, MayDelete
  <2>2. w \in used /\ \A u \in Tasks : Pending(u) => arg[u] # w
    BY <1>0, <2>1 DEF BookInv, Known, PendingOK
  <2>3. /\ ~Listed(rows', w)
        /\ \A v \in Workspaces \ {w} : Listed(rows', v) <=> Listed(rows, v)
    BY <1>0, <2>1 DEF Listed, Table
  <2>4. Gone' = Gone \cup {w}
    BY <1>0, <1>1, <2>2, <2>3 DEF Gone, Pending
  <2>5. Book!Delete(w)
    BY <2>1, <2>4 DEF Book!Delete, Book!Listed, Listed
  <2>6. QED
    BY <1>0, <2>5 DEF BookStep, Book!Next
<1>3. CASE UNCHANGED rows
  <2>1. Gone' = Gone
    BY <1>1, <1>3, GoneKept DEF Listed
  <2>2. QED
    BY <1>3, <2>1 DEF BookStep
<1>4. QED
    BY <1>2, <1>3 DEF Delete

\* A rename, refused when the name is taken then.
LEMMA RenameBook ==
    ASSUME BookInv, NEW t \in Tasks, RenameWorkspace(t)
    PROVE  BookStep
<1> DEFINE w == arg[t]
<1>0. rows \in Table /\ w \in Workspaces
    BY DEF BookInv, IInv, TypeOK, TaskOK, RenameWorkspace
<1>1. /\ UNCHANGED used
      /\ \A u \in Tasks : /\ Pending(u)' <=> Pending(u)
                          /\ Pending(u) => arg'[u] = arg[u]
    BY OtherStepsKeepPending DEF TaskStep, RenameWorkspace, CreateLoad, CreateAppend
<1>2. ASSUME NEW n \in Names, Listed(rows, w), NameFree(w, n),
             rows' = [rows EXCEPT ![w].name = n]
      PROVE  BookStep
  <2>1. rows[w] \in Row /\ [rows[w] EXCEPT !.name = n] \in Row
    BY <1>0, <1>2 DEF Table, Listed, Row
  <2>2. \A v \in Workspaces : Listed(rows', v) <=> Listed(rows, v)
    BY <1>0, <1>2, <2>1, NoRowAssumption DEF Listed, Table
  <2>3. Gone' = Gone
    BY <1>1, <2>2, GoneKept
  <2>4. Book!Rename(w)
    BY <1>2, <2>3 DEF Book!Rename, Book!Listed, Book!ListedIds, NameFree, Listed, ListedIds
  <2>5. QED
    BY <1>0, <2>4 DEF BookStep, Book!Next
<1>3. CASE UNCHANGED rows
  <2>1. Gone' = Gone
    BY <1>1, <1>3, GoneKept DEF Listed
  <2>2. QED
    BY <1>3, <2>1 DEF BookStep
<1>4. QED
    BY <1>2, <1>3 DEF RenameWorkspace

\* A step that only sets states, of any rows, is ChangeStates in the book.
LEMMA StatesBook ==
    ASSUME BookInv, rows' \in Table, UNCHANGED used,
           \A w \in Workspaces :
               /\ Listed(rows', w) <=> Listed(rows, w)
               /\ Listed(rows, w) => \E s \in State : rows'[w] = [rows[w] EXCEPT !.state = s],
           \A u \in Tasks : /\ Pending(u)' <=> Pending(u)
                            /\ Pending(u) => arg'[u] = arg[u]
    PROVE  Book!Next
<1>1. Gone' = Gone
    BY GoneKept
<1>2. rows \in Table
    BY DEF BookInv, IInv, TypeOK
<1> DEFINE s == [w \in ListedIds(rows) |-> rows'[w].state]
<1>3. ASSUME NEW w \in ListedIds(rows)
      PROVE  s[w] \in State /\ rows'[w] = [rows[w] EXCEPT !.state = s[w]]
  <2>1. w \in Workspaces /\ Listed(rows, w) /\ rows[w] \in Row
    BY <1>2 DEF ListedIds, Listed, Table
  <2>2. PICK x \in State : rows'[w] = [rows[w] EXCEPT !.state = x]
    BY <2>1
  <2>3. rows'[w].state = x
    BY <2>1, <2>2 DEF Row
  <2>4. QED
    BY <2>2, <2>3
<1>4. s \in [ListedIds(rows) -> State]
    BY <1>3
<1>5. ASSUME NEW w \in Workspaces
      PROVE  rows'[w] = IF Listed(rows, w) THEN [rows[w] EXCEPT !.state = s[w]] ELSE NoRow
    BY <1>3 DEF ListedIds, Listed
<1>6. rows' = [w \in Workspaces |->
                 IF Listed(rows, w) THEN [rows[w] EXCEPT !.state = s[w]] ELSE NoRow]
    BY <1>5 DEF Table
<1>7. Book!ChangeStates
  <2> HIDE DEF s
  <2>1. QED
    BY <1>1, <1>4, <1>6 DEF Book!ChangeStates, Book!ListedIds, Book!Listed, Book!State,
                            ListedIds, Listed, State
<1>8. QED
    BY <1>7 DEF Book!Next

\* The mutates that set one state, and the updates of reconcile_all.
LEMMA StateStepsBook ==
    ASSUME BookInv, NEW t \in Tasks,
           \/ MarkRunning(t) \/ MarkError(t) \/ MarkStopping(t) \/ MarkStopped(t)
           \/ ReconcileApply(t)
    PROVE  BookStep
<1>0. /\ rows \in Table /\ rows' \in Table
      /\ plan \in [Tasks -> [Workspaces -> State \cup {"none"}]]
    BY TaskStepSafe DEF BookInv, IInv, TypeOK, TaskStep
<1>1. /\ UNCHANGED used
      /\ \A u \in Tasks : /\ Pending(u)' <=> Pending(u)
                          /\ Pending(u) => arg'[u] = arg[u]
    BY OtherStepsKeepPending
       DEF TaskStep, MarkRunning, MarkError, MarkStopping, MarkStopped, ReconcileApply,
           CreateLoad, CreateAppend
<1>2. ASSUME NEW w \in Workspaces, Listed(rows, w)
      PROVE  /\ rows[w] \in Row /\ rows[w] = [rows[w] EXCEPT !.state = rows[w].state]
             /\ rows[w].state \in State
             /\ \A s \in State : [rows[w] EXCEPT !.state = s] # NoRow
    BY <1>0, <1>2, NoRowAssumption DEF Listed, Table, Row
<1>3. CASE ReconcileApply(t)
  <2>1. \A w \in Workspaces :
          \/ rows'[w] = rows[w]
          \/ Listed(rows, w) /\ \E s \in State : rows'[w] = [rows[w] EXCEPT !.state = s]
    BY <1>0, <1>3 DEF ReconcileApply
  <2>2. \A w \in Workspaces :
          /\ Listed(rows', w) <=> Listed(rows, w)
          /\ Listed(rows, w) => \E s \in State : rows'[w] = [rows[w] EXCEPT !.state = s]
    BY <1>2, <2>1 DEF Listed
  <2>3. QED
    BY <1>0, <1>1, <2>2, StatesBook DEF BookStep
<1>4. CASE MarkRunning(t) \/ MarkError(t) \/ MarkStopping(t) \/ MarkStopped(t)
  <2>1. \/ UNCHANGED rows
        \/ Listed(rows, arg[t]) /\ \E s \in State : rows' = SetState(rows, arg[t], s)
    BY <1>4 DEF MarkRunning, MarkError, MarkStopping, MarkStopped, MutateState, State
  <2>2. \A w \in Workspaces :
          \/ rows'[w] = rows[w]
          \/ Listed(rows, w) /\ \E s \in State : rows'[w] = [rows[w] EXCEPT !.state = s]
    BY <1>0, <2>1 DEF SetState, Table
  <2>3. \A w \in Workspaces :
          /\ Listed(rows', w) <=> Listed(rows, w)
          /\ Listed(rows, w) => \E s \in State : rows'[w] = [rows[w] EXCEPT !.state = s]
    BY <1>2, <2>2 DEF Listed
  <2>4. QED
    BY <1>0, <1>1, <2>3, StatesBook DEF BookStep
<1>5. QED
    BY <1>3, <1>4

\* Every other step of a task, a request, Docker on its own: nothing the book sees.
LEMMA StutterBook ==
    ASSUME BookInv, UNCHANGED <<rows, used>>,
           \A u \in Tasks : /\ Pending(u)' <=> Pending(u)
                            /\ Pending(u) => arg'[u] = arg[u]
    PROVE  UNCHANGED <<rows, Gone>>
  BY GoneKept DEF Listed

LEMMA TaskStepBook ==
    ASSUME BookInv, NEW t \in Tasks, TaskStep(t)
    PROVE  BookInv' /\ BookStep
<1>1. CASE CreateLoad(t)
    BY <1>1, CreateLoadBook
<1>2. CASE CreateAppend(t)
    BY <1>2, CreateAppendBook
<1>3. CASE ~CreateLoad(t) /\ ~CreateAppend(t)
  <2>1. /\ UNCHANGED used
        /\ \A u \in Tasks : /\ Pending(u)' <=> Pending(u)
                            /\ Pending(u) => arg'[u] = arg[u]
    BY <1>3, OtherStepsKeepPending
  <2>2. BookInv'
    BY <1>3, <2>1, TaskStepSafe, OtherStepsListKnown, NothingNewKeepsBookInv DEF BookInv
  <2>3. BookStep
    <3>1. CASE Delete(t) \/ RenameWorkspace(t)
      BY <3>1, DeleteBook, RenameBook
    <3>2. CASE StartSave(t)
      BY <3>2 DEF BookStep
    <3>3. CASE \/ MarkRunning(t) \/ MarkError(t) \/ MarkStopping(t) \/ MarkStopped(t)
               \/ ReconcileApply(t)
      BY <3>3, StateStepsBook
    <3>4. CASE QuietStep(t) \/ ServeLoad(t) \/ ServeProbe(t) \/ StartLoad(t)
      <4>1. UNCHANGED rows
        BY <3>4 DEF QuietStep, ServeWait, StartUp, StartWait, SyncLoad, Sync, StopLoad,
                    StopDown, ListProjectStates, ReconcileLoad, ReconcileBlind, CreateLoad,
                    ServeLoad, ServeProbe, StartLoad
      <4>2. QED
        BY <2>1, <4>1, StutterBook DEF BookStep
    <3>5. QED
      BY <1>3, <3>1, <3>2, <3>3, <3>4 DEF TaskStep, QuietStep
  <2>4. QED
    BY <2>2, <2>3
<1>4. QED
    BY <1>1, <1>2, <1>3

\* A step that changes no table and neither starts nor ends a creation.
LEMMA InvisibleBook ==
    ASSUME BookInv, IInv', UNCHANGED <<rows, used, copy>>,
           \A u \in Tasks : /\ Pending(u)' <=> Pending(u)
                            /\ Pending(u) => arg'[u] = arg[u]
    PROVE  BookInv' /\ UNCHANGED <<rows, Gone>>
<1>1. \A w \in Workspaces : Known(w)' => Known(w)
    BY DEF Known, Listed
<1>2. BookInv'
    BY <1>1, NothingNewKeepsBookInv
<1>3. QED
    BY <1>2, StutterBook

LEMMA RequestBook ==
    ASSUME BookInv, NEW t \in Tasks, NEW o \in Operations, NEW w,
           w \in Workspaces \/ o = "reconcile", Request(t, o, w)
    PROVE  BookInv' /\ UNCHANGED <<rows, Gone>>
<1>0. IInv' /\ pc \in [Tasks -> Step] /\ arg \in [Tasks -> Workspaces \cup {NoRow}]
    BY RequestSafe DEF BookInv, IInv, TypeOK
<1>1. FirstStep[o] # "create_append"
    BY ChoiceAssumption DEF FirstStep, AllOperations
<1>2. QED
    BY <1>0, <1>1, InvisibleBook DEF Request, Pending, locals

LEMMA DockerBook ==
    ASSUME BookInv, NEW w \in Workspaces, StackReady(w) \/ StackCrash(w) \/ StackGone(w)
    PROVE  BookInv' /\ UNCHANGED <<rows, Gone>>
  BY DockerSafe, InvisibleBook DEF BookInv, StackReady, StackCrash, StackGone, Pending, locals

\* A creation the store refuses has drawn its id for nothing; any other operation it
\* refuses has not happened.
LEMMA StoreFailsBook ==
    ASSUME BookInv, NEW t \in Tasks, StoreFails(t)
    PROVE  BookInv' /\ [Book!Next]_<<rows, Gone>>
<1>0. /\ IInv' /\ UNCHANGED <<rows, used>>
      /\ pc \in [Tasks -> Step] /\ arg \in [Tasks -> Workspaces \cup {NoRow}]
      /\ copy \in [Tasks -> Table] /\ used \subseteq Workspaces
    BY StoreFailsSafe DEF StoreFails, BookInv, IInv, TypeOK
<1>1. \A u \in Tasks : /\ Pending(u)' <=> (Pending(u) /\ u # t)
                       /\ u # t => arg'[u] = arg[u]
    BY <1>0 DEF StoreFails, Finish, Pending
<1>2. \A w \in Workspaces : Known(w)' => Known(w)
    BY <1>0 DEF StoreFails, Known, Listed, Empty
<1>3. BookInv'
    BY <1>0, <1>1, <1>2, NothingNewKeepsBookInv
<1>4. CASE Pending(t)
  <2>1. /\ arg[t] \in Workspaces /\ arg[t] \in used /\ ~Listed(rows, arg[t])
        /\ \A u \in Tasks \ {t} : Pending(u) => arg[u] # arg[t]
    BY <1>4 DEF BookInv, PendingOK, Known, IInv, TaskOK, Pending
  <2>2. \A v \in Workspaces : v \in Gone' <=> (v \in Gone \/ v = arg[t])
    BY <1>0, <1>1, <1>4, <2>1 DEF Gone, Pending, Listed
  <2>3. Gone' = Gone \cup {arg[t]}
    BY <1>0, <2>1, <2>2 DEF Gone
  <2>4. Book!Waste(arg[t])
    BY <1>0, <2>1, <2>3 DEF Book!Waste, Book!Listed, Listed
  <2>5. QED
    BY <1>3, <2>1, <2>4 DEF Book!Next
<1>5. CASE ~Pending(t)
  <2>1. \A u \in Tasks : /\ Pending(u)' <=> Pending(u)
                         /\ Pending(u) => arg'[u] = arg[u]
    BY <1>1, <1>5
  <2>2. QED
    BY <1>0, <1>3, <2>1, StutterBook
<1>6. QED
    BY <1>4, <1>5

LEMMA UnchangedBook == ASSUME BookInv, UNCHANGED vars PROVE BookInv' /\ UNCHANGED <<rows, Gone>>
  BY StutterSafe, InvisibleBook DEF BookInv, vars, Pending

LEMMA NextBook == ASSUME BookInv, [Next]_vars PROVE BookInv' /\ BookStep
  BY RequestBook, TaskStepBook, StoreFailsBook, DockerBook, UnchangedBook DEF Next, BookStep

LEMMA InitBook == Init => Book!Init
<1> SUFFICES ASSUME Init PROVE Book!Init
    OBVIOUS
<1>1. rows \in Table /\ PortsDistinctIn(rows)
    BY DEF Init
<1>2. Gone = {}
    BY DEF Init, Gone, ListedIds
<1>3. QED
    BY <1>1, <1>2
       DEF Book!Init, Book!Table, Book!Row, Book!State, Book!PortsDistinctIn,
           Book!ListedIds, Book!Listed, Table, Row, State, PortsDistinctIn, ListedIds, Listed

\* For any numbers of workspaces and callers, any overlaps and any failing calls, the
\* save of start is the only write of the manager that is not a step of the atomic
\* book: create, delete, rename, stop and reconcile lose and undo nothing.
THEOREM OnlyStartLosesEdits == Spec => OnlyStartBreaksBook
<1>1. Init => BookInv /\ Book!Init
    BY InitBookInv, InitBook
<1>2. BookInv /\ [Next]_vars => BookInv'
    BY NextBook
<1>3. BookInv /\ [Next]_vars => [Book!Next \/ \E t \in Tasks : StartSave(t)]_<<rows, Gone>>
    BY NextBook DEF BookStep
<1>4. QED
    BY <1>1, <1>2, <1>3, PTL DEF Spec, OnlyStartBreaksBook

-----------------------------------------------------------------------------
(* Without open no start ever reaches its save *)

NoOpen == "open" \notin Operations
Opening(t) == pc[t] \in {"serve_load", "serve_probe", "start_load", "start_save"}
NobodyOpens == BookInv /\ \A t \in Tasks : ~Opening(t)

LEMMA NobodyOpensNext == NoOpen /\ NobodyOpens /\ [Next]_vars => NobodyOpens'
<1> SUFFICES ASSUME NoOpen, NobodyOpens, [Next]_vars PROVE \A u \in Tasks : ~Opening(u)'
    BY NextBook DEF NobodyOpens
<1>0. pc \in [Tasks -> Step] /\ \A u \in Tasks : ~Opening(u)
    BY DEF NobodyOpens, BookInv, IInv, TypeOK
<1> USE DEF Opening, Goto, Finish
<1>1. ASSUME NEW t \in Tasks, NEW o \in Operations, NEW w \in Workspaces, Request(t, o, w)
      PROVE  \A u \in Tasks : ~Opening(u)'
  <2>1. FirstStep[o] \notin {"serve_load", "serve_probe", "start_load", "start_save"}
    BY ChoiceAssumption DEF NoOpen, FirstStep, AllOperations
  <2>2. QED
    BY <1>0, <1>1, <2>1 DEF Request
<1>2. ASSUME NEW t \in Tasks, TaskStep(t)
      PROVE  \A u \in Tasks : ~Opening(u)'
  <2>1. CASE CreateLoad(t) \/ CreateAppend(t) \/ Delete(t) \/ RenameWorkspace(t)
    BY <1>0, <2>1 DEF CreateLoad, CreateAppend, Delete, RenameWorkspace
  <2>2. CASE ServeLoad(t) \/ ServeProbe(t) \/ ServeWait(t) \/ StartLoad(t) \/ StartSave(t)
    BY <1>0, <2>2 DEF ServeLoad, ServeProbe, ServeWait, StartLoad, StartSave
  <2>3. CASE StartUp(t) \/ StartWait(t) \/ StopDown(t) \/ SyncLoad(t) \/ Sync(t) \/ StopLoad(t)
    BY <1>0, <2>3 DEF StartUp, StartWait, StopDown, SyncLoad, Sync, StopLoad
  <2>4. CASE MarkRunning(t) \/ MarkError(t) \/ MarkStopping(t) \/ MarkStopped(t)
    BY <1>0, <2>4 DEF MarkRunning, MarkError, MarkStopping, MarkStopped, MutateState
  <2>5. CASE ListProjectStates(t) \/ ReconcileLoad(t) \/ ReconcileBlind(t) \/ ReconcileApply(t)
    BY <1>0, <2>5 DEF ListProjectStates, ReconcileLoad, ReconcileBlind, ReconcileApply
  <2>6. QED
    BY <1>2, <2>1, <2>2, <2>3, <2>4, <2>5 DEF TaskStep
<1>3. CASE \/ \E t \in Tasks : StoreFails(t)
           \/ \E w \in Workspaces : StackReady(w) \/ StackCrash(w) \/ StackGone(w)
           \/ UNCHANGED vars
    BY <1>0, <1>3 DEF StoreFails, StackReady, StackCrash, StackGone, vars
<1>4. QED
    BY <1>1, <1>2, <1>3 DEF Next

\* As long as nobody opens a workspace, the manager implements the atomic book: its
\* operations of several steps, overlapping and failing anywhere, each take effect
\* at one instant.
THEOREM BookWithoutOpen == NoOpen => (Spec => ImplementsBook)
<1> SUFFICES ASSUME NoOpen PROVE Spec => ImplementsBook
    OBVIOUS
<1>1. Init => NobodyOpens /\ Book!Init
    BY InitBookInv, InitBook DEF NobodyOpens, Opening, Init
<1>2. NobodyOpens /\ [Next]_vars => NobodyOpens'
    BY NobodyOpensNext
<1>3. NobodyOpens /\ [Next]_vars => [Book!Next]_<<rows, Gone>>
  <2> SUFFICES ASSUME NobodyOpens, [Next]_vars PROVE [Book!Next]_<<rows, Gone>>
      OBVIOUS
  <2>1. \A t \in Tasks : ~StartSave(t)
      BY DEF NobodyOpens, Opening, StartSave
  <2>2. QED
      BY <2>1, NextBook DEF NobodyOpens, BookStep
<1>4. QED
    BY <1>1, <1>2, <1>3, PTL DEF Spec, ImplementsBook, Book!Spec

-----------------------------------------------------------------------------
(* Launcher *)

Leaving == {"signalled", "closing", "exiting"}
Reconciling == {"ps", "ps_load", "ps_failed", "ps_apply"}
Stopping == {"stop_load", "stop_mark", "stop_down", "stop_done"}

\* Which thread may be where in which phase, whatever the gestures.
SessionOK ==
    /\ phase \in {"off", "boot", "open", "closed"} \cup Leaving
    /\ todo \subseteq Workspaces
    /\ phase \in {"off", "closed"} => \A t \in Tasks : pc[t] = "idle"
    /\ phase = "boot" => /\ \A t \in Workers : pc[t] = "idle"
                         /\ pc[Main] \in Reconciling \cup {"idle"}
    /\ phase = "open" => pc[Main] = "idle"
    /\ phase \in Leaving => pc[Main] \in Stopping \cup {"idle"}
    /\ \A t \in Workers : pc[t] \notin Reconciling

\* What is up was started from a Compose file.
ComposeOK ==
    /\ \A w \in Workspaces : stack[w] # "down" => compose[w] # NoPort
    /\ \A t \in Tasks : pc[t] \in {"start_save", "start_up"} => compose[arg[t]] # NoPort

BaseInv == BookInv /\ SessionOK /\ ComposeOK

\* The reconcile of a boot: its plan is what Docker holds, for every row it will not touch the
\* row is; a row is excused when docker ps or the store refused, or when its stack went since.
Seen(w, s) == s \in {"running", "starting", "stopped"} /\ (s = "stopped" <=> stack[w] = "down")
Answered == ListedIds(rows) \ (refused \cup vanished)
BootOK ==
    phase = "boot" =>
        /\ pc[Main] = "ps_failed" => refused = Workspaces
        /\ pc[Main] = "ps_load" => \A w \in Workspaces \ vanished : Seen(w, plan[Main][w])
        /\ pc[Main] = "ps_apply" =>
             \A w \in Answered :
                IF plan[Main][w] = "none" THEN AgreesWithDocker(w) ELSE Seen(w, plan[Main][w])
        /\ pc[Main] = "idle" => \A w \in Answered : AgreesWithDocker(w)
BootInv == BaseInv /\ BootOK

-----------------------------------------------------------------------------
(* Behind the busy flag *)

\* What the window does but for a double click, and the system but for a close or a signal
\* that finds a task in flight; or a launcher with a single worker.
OneWorker == \A t, u \in Workers : t = u
Flagged ==
    /\ "leave_while_busy" \notin Gestures /\ "ps" \notin Faults
    /\ "double_click" \notin Gestures \/ OneWorker

Passing == {"idle", "rename"}
\* One operation at a time, renames apart; the main thread works when the window does not.
Alone ==
    /\ \A t, u \in Tasks : pc[t] \notin Passing /\ pc[u] \notin Passing => t = u
    /\ phase # "open" => \A t \in Workers : pc[t] = "idle"

SameButNames(T, U) ==
    \A w \in Workspaces : /\ Listed(T, w) <=> Listed(U, w)
                          /\ Listed(T, w) => T[w].state = U[w].state
\* A task under way finds the table and Docker as its last step left them.
In(w, s) == Listed(rows, w) /\ rows[w].state = s
OpOK(t) ==
    LET w == arg[t] IN
    /\ pc[t] = "start_save" => SameButNames(copy[t], rows)
    /\ pc[t] \in {"start_up", "start_wait", "start_running", "start_error"} => In(w, "starting")
    /\ pc[t] \in {"start_wait", "start_running"} => stack[w] # "down" \/ w \in vanished
    /\ pc[t] = "stop_mark" => Listed(rows, w)
    /\ pc[t] \in {"stop_down", "stop_done"} => In(w, "stopping")
    /\ pc[t] = "stop_done" => stack[w] = "down"

\* What is up is listed and can be reached.
LiveListed(w) == stack[w] # "down" => Listed(rows, w) /\ rows[w].state # "stopped"

\* While docker ps answers, what a reconcile is about to mark STOPPED is down.
PlanOK ==
    phase = "boot" =>
        /\ pc[Main] # "ps_failed"
        /\ pc[Main] \in {"ps_load", "ps_apply"} =>
             \A w \in Workspaces : plan[Main][w] = "stopped" => stack[w] = "down"

\* A card that is wrong is excused, or has its start under way.
CardOK(w) ==
    Listed(rows, w) =>
        \/ AgreesWithDocker(w) \/ w \in refused \cup vanished
        \/ \E t \in Workers : pc[t] \in {"start_up", "start_error"} /\ arg[t] = w
BoardOK == phase = "open" => \A w \in Workspaces : CardOK(w)

\* A stop_all leaves behind it what is down, or says STOPPING, or the store refused.
Reported(w) == stack[w] # "down" => In(w, "stopping")
LeftOK(w) == w \in todo \/ (pc[Main] # "idle" /\ arg[Main] = w) \/ Reported(w) \/ w \in refused
LeaveOK ==
    /\ phase \in Leaving => \A w \in Workspaces : LeftOK(w)
    /\ phase = "closed" => \A w \in Workspaces : Reported(w) \/ w \in refused

FlagInv ==
    /\ BootInv /\ PlanOK /\ Alone /\ BoardOK /\ LeaveOK
    /\ \A w \in Workspaces : LiveListed(w)
    /\ \A t \in Tasks : OpOK(t)

\* With no rename in flight either, what a start has read is what is committed.
Calm == Flagged /\ ("inline_edit" \notin Gestures \/ OneWorker)
CalmInv ==
    /\ FlagInv
    /\ \A t, u \in Tasks : pc[t] # "idle" /\ pc[u] # "idle" => t = u
    /\ \A t \in Tasks : pc[t] = "start_save" => copy[t] = rows

-----------------------------------------------------------------------------
(* How a task moves *)

\* A step of a task is its own: the others stay where they are.
LEMMA OthersStay ==
    ASSUME IInv, NEW t \in Tasks, TaskStep(t)
    PROVE  \A u \in Tasks \ {t} : /\ pc'[u] = pc[u] /\ arg'[u] = arg[u]
                                  /\ copy'[u] = copy[u] /\ plan'[u] = plan[u]
<1> USE DEF Goto, Finish, locals
<1>0. /\ pc \in [Tasks -> Step] /\ arg \in [Tasks -> Workspaces \cup {NoRow}]
      /\ copy \in [Tasks -> Table] /\ plan \in [Tasks -> [Workspaces -> State \cup {"none"}]]
    BY DEF IInv, TypeOK
<1>1. CASE CreateLoad(t) \/ CreateAppend(t) \/ Delete(t) \/ RenameWorkspace(t)
    BY <1>0, <1>1 DEF CreateLoad, CreateAppend, Delete, RenameWorkspace
<1>2. CASE ServeLoad(t) \/ ServeProbe(t) \/ ServeWait(t) \/ StartLoad(t) \/ StartSave(t)
    BY <1>0, <1>2 DEF ServeLoad, ServeProbe, ServeWait, StartLoad, StartSave
<1>3. CASE StartUp(t) \/ StartWait(t) \/ StopDown(t) \/ SyncLoad(t) \/ Sync(t) \/ StopLoad(t)
    BY <1>0, <1>3 DEF StartUp, StartWait, StopDown, SyncLoad, Sync, StopLoad
<1>4. CASE MarkRunning(t) \/ MarkError(t) \/ MarkStopping(t) \/ MarkStopped(t)
    BY <1>0, <1>4 DEF MarkRunning, MarkError, MarkStopping, MarkStopped, MutateState
<1>5. CASE ListProjectStates(t) \/ ReconcileLoad(t) \/ ReconcileBlind(t) \/ ReconcileApply(t)
    BY <1>0, <1>5 DEF ListProjectStates, ReconcileLoad, ReconcileBlind, ReconcileApply
<1>6. QED
    BY <1>1, <1>2, <1>3, <1>4, <1>5 DEF TaskStep

\* It keeps to its operation, and to its workspace until the operation ends.
LEMMA OwnMove ==
    ASSUME IInv, NEW t \in Tasks, TaskStep(t)
    PROVE  /\ pc[t] # "idle" /\ pc'[t] \in Step
           /\ pc[t] = "rename" => pc'[t] = "idle"
           /\ pc[t] \in Stopping => pc'[t] \in Stopping \cup {"idle"}
           /\ pc[t] \in Reconciling => pc'[t] \in Reconciling \cup {"idle"}
           /\ pc'[t] \in Reconciling => pc[t] \in Reconciling
           /\ pc'[t] = "idle" \/ arg'[t] = arg[t]
<1> USE DEF Goto, Finish, Stopping, Reconciling
<1>0. /\ pc \in [Tasks -> Step] /\ arg \in [Tasks -> Workspaces \cup {NoRow}]
      /\ pc' \in [Tasks -> Step]
    BY TaskStepSafe DEF IInv, TypeOK
<1>1. CASE CreateLoad(t) \/ CreateAppend(t) \/ Delete(t) \/ RenameWorkspace(t)
    BY <1>0, <1>1 DEF CreateLoad, CreateAppend, Delete, RenameWorkspace
<1>2. CASE ServeLoad(t) \/ ServeProbe(t) \/ ServeWait(t) \/ StartLoad(t) \/ StartSave(t)
    BY <1>0, <1>2 DEF ServeLoad, ServeProbe, ServeWait, StartLoad, StartSave
<1>3. CASE StartUp(t) \/ StartWait(t) \/ StopDown(t) \/ SyncLoad(t) \/ Sync(t) \/ StopLoad(t)
    BY <1>0, <1>3 DEF StartUp, StartWait, StopDown, SyncLoad, Sync, StopLoad
<1>4. CASE MarkRunning(t) \/ MarkError(t) \/ MarkStopping(t) \/ MarkStopped(t)
    BY <1>0, <1>4 DEF MarkRunning, MarkError, MarkStopping, MarkStopped, MutateState
<1>5. CASE ListProjectStates(t) \/ ReconcileLoad(t) \/ ReconcileBlind(t) \/ ReconcileApply(t)
    BY <1>0, <1>5 DEF ListProjectStates, ReconcileLoad, ReconcileBlind, ReconcileApply
<1>6. QED
    BY <1>1, <1>2, <1>3, <1>4, <1>5 DEF TaskStep

\* What is written to a Compose file is a port, and up needs the file.
LEMMA TaskStepCompose == ASSUME IInv, ComposeOK, NEW t \in Tasks, TaskStep(t) PROVE ComposeOK'
<1> USE DEF Goto, Finish, world, ComposeOK
<1>0. /\ pc \in [Tasks -> Step] /\ arg \in [Tasks -> Workspaces \cup {NoRow}]
      /\ rows \in Table /\ compose \in [Workspaces -> Ports \cup {NoPort}]
      /\ stack \in [Workspaces -> Stack]
      /\ \A u \in Tasks : pc[u] \notin Reconciling \cup {"idle"} => arg[u] \in Workspaces
    BY DEF IInv, TypeOK, TaskOK, Reconciling
<1>1. CASE CreateLoad(t) \/ CreateAppend(t) \/ Delete(t) \/ RenameWorkspace(t)
    BY <1>0, <1>1 DEF CreateLoad, CreateAppend, Delete, RenameWorkspace
<1>2. CASE ServeLoad(t) \/ ServeProbe(t) \/ ServeWait(t) \/ StartSave(t)
    BY <1>0, <1>2 DEF ServeLoad, ServeProbe, ServeWait, StartSave
<1>3. CASE StartLoad(t)
  <2>1. Listed(rows, arg[t]) => rows[arg[t]].port \in Ports
    BY <1>0, <1>3 DEF Listed, Table, Row, StartLoad, Reconciling
  <2>2. \A w \in Workspaces : compose[w] # NoPort => compose'[w] # NoPort
    BY <1>0, <1>3, <2>1, NoPortAssumption DEF StartLoad
  <2>3. pc'[t] = "start_save" => compose'[arg'[t]] # NoPort
    BY <1>0, <1>3, <2>1, NoPortAssumption DEF StartLoad, Reconciling
  <2>4. QED
    BY <1>0, <1>3, <2>2, <2>3, OthersStay DEF StartLoad, Reconciling, TaskStep
<1>4. CASE StartUp(t) \/ StartWait(t) \/ StopDown(t) \/ SyncLoad(t) \/ Sync(t) \/ StopLoad(t)
    BY <1>0, <1>4 DEF StartUp, StartWait, StopDown, SyncLoad, Sync, StopLoad, Reconciling
<1>5. CASE MarkRunning(t) \/ MarkError(t) \/ MarkStopping(t) \/ MarkStopped(t)
    BY <1>0, <1>5 DEF MarkRunning, MarkError, MarkStopping, MarkStopped, MutateState
<1>6. CASE ListProjectStates(t) \/ ReconcileLoad(t) \/ ReconcileBlind(t) \/ ReconcileApply(t)
    BY <1>0, <1>6 DEF ListProjectStates, ReconcileLoad, ReconcileBlind, ReconcileApply
<1>7. QED
    BY <1>1, <1>2, <1>3, <1>4, <1>5, <1>6 DEF TaskStep

-----------------------------------------------------------------------------
(* What holds whatever the window lets through *)

LEMMA InitBase == LInit => BaseInv
<1> SUFFICES ASSUME LInit PROVE BaseInv
    OBVIOUS
<1>1. BookInv
    BY InitBookInv DEF LInit
<1>2. \A w \in Workspaces : stack[w] = "down"
    BY DEF LInit, Init, Empty, Listed
<1>3. QED
    BY <1>1, <1>2 DEF BaseInv, SessionOK, ComposeOK, LInit, Init, Leaving, Workers, Reconciling

LEMMA TaskStepBase ==
    ASSUME BaseInv, NEW t \in Tasks, TaskStep(t), UNCHANGED <<phase, todo>>
    PROVE  BaseInv'
<1>1. BookInv' /\ ComposeOK'
    BY TaskStepBook, TaskStepCompose DEF BaseInv, BookInv
<1>2. SessionOK'
  <2>1. IInv /\ Main \in Tasks
    BY LauncherAssumption DEF BaseInv, BookInv
  <2>2. QED
    BY <2>1, OthersStay, OwnMove DEF BaseInv, SessionOK, Workers, Leaving, Reconciling, Stopping
<1>3. QED
    BY <1>1, <1>2 DEF BaseInv

\* A thread is handed an operation: nothing but where it stands changes.
LEMMA RequestCompose ==
    ASSUME IInv, ComposeOK, NEW t \in Tasks, NEW o \in Operations, NEW w, Request(t, o, w)
    PROVE  /\ ComposeOK'
           /\ pc' = [pc EXCEPT ![t] = FirstStep[o]]
           /\ FirstStep[o] \in Step \ {"idle"}
           /\ FirstStep[o] \in Reconciling <=> o = "reconcile"
           /\ o = "halt" => FirstStep[o] = "stop_load"
           /\ o = "rename" <=> FirstStep[o] = "rename"
           /\ FirstStep[o] \notin {"create_append", "start_save", "start_up", "start_wait",
                  "start_running", "start_error", "stop_mark", "stop_down", "stop_done",
                  "ps_load", "ps_failed", "ps_apply"}
<1>1. /\ FirstStep[o] \in Step \ {"idle"}
      /\ FirstStep[o] \in Reconciling <=> o = "reconcile"
      /\ o = "halt" => FirstStep[o] = "stop_load"
      /\ o = "rename" <=> FirstStep[o] = "rename"
      /\ FirstStep[o] \notin {"create_append", "start_save", "start_up", "start_wait",
             "start_running", "start_error", "stop_mark", "stop_down", "stop_done",
             "ps_load", "ps_failed", "ps_apply"}
    BY ChoiceAssumption DEF FirstStep, AllOperations, Step, Reconciling
<1>2. ComposeOK'
    BY <1>1 DEF IInv, TypeOK, Request, ComposeOK, world
<1>3. QED
    BY <1>1, <1>2 DEF Request

LEMMA OfferedOperations ==
    ASSUME NEW g, NEW s
    PROVE  /\ Offered(g, s) \subseteq {"open", "stop", "delete", "rename"}
           /\ g # "inline_edit" => Offered(g, s) \subseteq {"open", "stop", "delete"}
           /\ g = "inline_edit" => Offered(g, s) = {"rename"}
           /\ ~BusyLocked(g) => \/ Offered(g, s) = {}
                                \/ g \in {"double_click", "inline_edit"}
  BY DEF Offered, PrimaryAction, CardActions, BusyLocked

\* The steps of a session that hand an operation to a thread.
LEMMA RequestBase ==
    ASSUME BaseInv,
           \/ Boot
           \/ \E w \in Workspaces : StopNext(w)
           \/ \E g \in Gestures, t \in Tasks, w \in Workspaces : CardGesture(g, t, w)
           \/ \E t \in Tasks, w \in Workspaces : NewWorkspace(t, w)
    PROVE  BaseInv'
<1>0. IInv /\ ComposeOK /\ Main \in Tasks /\ pc \in [Tasks -> Step]
    BY LauncherAssumption DEF BaseInv, BookInv, IInv, TypeOK
<1> USE DEF BaseInv, SessionOK, Workers, Leaving, Stopping
<1>1. CASE Boot
  <2>1. "reconcile" \in Operations /\ Request(Main, "reconcile", NoRow)
    BY <1>1 DEF Boot, Request
  <2>2. BookInv' /\ ComposeOK'
    BY <1>0, <2>1, RequestBook, RequestCompose
  <2>3. pc' = [pc EXCEPT ![Main] = "ps"]
    BY <2>1 DEF Request, FirstStep
  <2>4. SessionOK'
    BY <1>0, <1>1, <2>3 DEF Boot, Reconciling
  <2>5. QED
    BY <2>2, <2>4
<1>2. ASSUME NEW w \in Workspaces, StopNext(w)
      PROVE  BaseInv'
  <2>1. "halt" \in Operations /\ Request(Main, "halt", w)
    BY <1>2 DEF StopNext, Request
  <2>2. BookInv' /\ ComposeOK'
    BY <1>0, <2>1, RequestBook, RequestCompose
  <2>3. pc' = [pc EXCEPT ![Main] = "stop_load"]
    BY <2>1 DEF Request, FirstStep
  <2>4. SessionOK'
    BY <1>0, <1>2, <2>3 DEF StopNext, Reconciling
  <2>5. QED
    BY <2>2, <2>4
<1>3. ASSUME NEW t \in Workers, NEW o \in Operations \ {"reconcile"}, NEW w \in Workspaces,
             phase = "open", Request(t, o, w), UNCHANGED <<phase, todo>>
      PROVE  BaseInv'
  <2>1. BookInv' /\ ComposeOK' /\ pc' = [pc EXCEPT ![t] = FirstStep[o]]
        /\ FirstStep[o] \notin Reconciling
    BY <1>0, <1>3, RequestBook, RequestCompose
  <2>2. SessionOK'
    BY <1>0, <1>3, <2>1
  <2>3. QED
    BY <2>1, <2>2
<1>4. ASSUME NEW g \in Gestures, NEW t \in Tasks, NEW w \in Workspaces, CardGesture(g, t, w)
      PROVE  BaseInv'
  <2>1. PICK o \in Offered(g, rows[w].state) : Request(t, o, w)
    BY <1>4 DEF CardGesture
  <2>2. o \in Operations \ {"reconcile"}
    BY <2>1, OfferedOperations DEF Request
  <2>3. QED
    BY <1>3, <1>4, <2>1, <2>2 DEF CardGesture
<1>5. ASSUME NEW t \in Tasks, NEW w \in Workspaces, NewWorkspace(t, w)
      PROVE  BaseInv'
    BY <1>3, <1>5 DEF NewWorkspace, Request
<1>6. QED
    BY <1>1, <1>2, <1>4, <1>5

\* No thread outlives the process, and with it no copy and no creation under way.
LEMMA EndProcessBase ==
    ASSUME BaseInv, NEW p \in {"off", "closed"}, EndProcess(p)
    PROVE  BaseInv'
<1>1. IInv'
  <2>1. TypeOK'
    BY EmptyTable DEF BaseInv, BookInv, IInv, TypeOK, EndProcess, world, NoPlan, Step
  <2>2. (\A t \in Tasks : TaskOK(t))'
    BY DEF EndProcess, TaskOK
  <2>3. PortsDistinct' /\ CopiesDistinct'
    BY DEF BaseInv, BookInv, IInv, PortsDistinct, CopiesDistinct, EndProcess, PortsDistinctIn,
           ListedIds, Listed, Empty
  <2>4. QED
    BY <2>1, <2>2, <2>3 DEF IInv
<1>2. BookInv'
  <2>1. \A w \in Workspaces : Known(w)' => Known(w)
    BY DEF Known, EndProcess, Listed, Empty
  <2>2. \A t \in Tasks : ~Pending(t)'
    BY DEF Pending, EndProcess
  <2>3. QED
    BY <1>1, <2>1, <2>2 DEF BaseInv, BookInv, PendingOK, EndProcess
<1>3. ComposeOK' /\ SessionOK'
    BY LauncherAssumption DEF BaseInv, ComposeOK, SessionOK, EndProcess, world, Leaving, Workers,
                              Reconciling
<1>4. QED
    BY <1>2, <1>3 DEF BaseInv

\* The steps that only change the phase.
LEMMA PhaseBase ==
    ASSUME BaseInv, ShowWindow \/ Signal \/ Close \/ Unwind \/ AtExit \/ UNCHANGED lvars
    PROVE  BaseInv'
<1>1. UNCHANGED vars
    BY DEF ShowWindow, Signal, Close, Unwind, AtExit, StopAll, lvars
<1>2. BookInv' /\ ComposeOK'
    BY <1>1, UnchangedBook DEF BaseInv, ComposeOK, vars
<1>3. pc' = pc
    BY <1>1 DEF vars
<1>4. SessionOK'
    BY <1>3 DEF BaseInv, SessionOK, ShowWindow, Signal, Close, Leave, Unwind, AtExit, StopAll,
                StopAllDone, lvars, Leaving, Reconciling, Stopping, ListedIds, Workers
<1>5. QED
    BY <1>2, <1>4 DEF BaseInv

LEMMA DockerBase ==
    ASSUME BaseInv, NEW w \in Workspaces, StackReady(w) \/ StackCrash(w), UNCHANGED <<phase, todo>>
    PROVE  /\ BaseInv'
           /\ UNCHANGED <<rows, used, compose, pc, arg, copy, plan>>
           /\ \A v \in Workspaces : stack'[v] = "down" <=> stack[v] = "down"
<1>1. /\ UNCHANGED <<rows, used, compose, pc, arg, copy, plan>>
      /\ \A v \in Workspaces : stack'[v] = "down" <=> stack[v] = "down"
    BY DEF StackReady, StackCrash, locals, BaseInv, BookInv, IInv, TypeOK
<1>2. BookInv'
    BY DockerBook DEF BaseInv
<1>3. QED
    BY <1>1, <1>2 DEF BaseInv, ComposeOK, SessionOK

\* A stack that goes: it alone changes.
LEMMA VanishBase ==
    ASSUME BaseInv, NEW w \in Workspaces, Vanish(w)
    PROVE  /\ BaseInv'
           /\ UNCHANGED <<rows, pc, arg, copy, plan, phase, todo, refused>>
           /\ stack' = [stack EXCEPT ![w] = "down"] /\ vanished' = vanished \cup {w}
<1>1. StackGone(w) /\ stack \in [Workspaces -> Stack]
    BY DEF Vanish, BaseInv, BookInv, IInv, TypeOK
<1>2. /\ UNCHANGED <<rows, compose, pc, arg, copy, plan, phase, todo, refused>>
      /\ stack' = [stack EXCEPT ![w] = "down"] /\ vanished' = vanished \cup {w}
    BY <1>1 DEF StackGone, Vanish, locals
<1>3. BookInv'
    BY <1>1, DockerBook DEF BaseInv
<1>4. ComposeOK' /\ SessionOK'
    BY <1>1, <1>2 DEF BaseInv, ComposeOK, SessionOK
<1>5. QED
    BY <1>2, <1>3, <1>4 DEF BaseInv

\* An operation the store refuses: the thread is idle, the others and the world are as they were.
LEMMA RefuseBase ==
    ASSUME BaseInv, NEW t \in Tasks, Refuse(t)
    PROVE  /\ BaseInv'
           /\ UNCHANGED <<rows, stack, phase, todo, vanished>>
           /\ pc' = [pc EXCEPT ![t] = "idle"] /\ pc[t] \in StoreSteps
           /\ \A u \in Tasks \ {t} : /\ pc'[u] = pc[u] /\ arg'[u] = arg[u]
                                     /\ copy'[u] = copy[u] /\ plan'[u] = plan[u]
           /\ refused' = refused \cup Missed(t)
<1>0. /\ StoreFails(t)
      /\ pc \in [Tasks -> Step] /\ arg \in [Tasks -> Workspaces \cup {NoRow}]
      /\ copy \in [Tasks -> Table] /\ plan \in [Tasks -> [Workspaces -> State \cup {"none"}]]
    BY DEF Refuse, BaseInv, BookInv, IInv, TypeOK
<1>1. /\ UNCHANGED <<rows, stack, compose, phase, todo, vanished>>
      /\ pc' = [pc EXCEPT ![t] = "idle"] /\ pc[t] \in StoreSteps
      /\ \A u \in Tasks \ {t} : /\ pc'[u] = pc[u] /\ arg'[u] = arg[u]
                                /\ copy'[u] = copy[u] /\ plan'[u] = plan[u]
      /\ refused' = refused \cup Missed(t)
    BY <1>0 DEF Refuse, StoreFails, Finish, world
<1>2. BookInv'
    BY <1>0, StoreFailsBook DEF BaseInv
<1>3. ComposeOK'
    BY <1>0, <1>1 DEF BaseInv, ComposeOK
<1>4. SessionOK'
  <2>1. Main \in Tasks /\ \A u \in Tasks : pc'[u] \in {pc[u], "idle"}
    BY <1>0, <1>1, LauncherAssumption
  <2>2. QED
    BY <1>1, <2>1 DEF BaseInv, SessionOK, Workers, Reconciling
<1>5. QED
    BY <1>1, <1>2, <1>3, <1>4 DEF BaseInv

LEMMA NextBase == ASSUME BaseInv, [LNext]_lvars PROVE BaseInv'
<1>1. CASE Exit \/ Kill
    BY <1>1, EndProcessBase DEF Exit, Kill
<1>2. QED
    BY <1>1, TaskStepBase, RequestBase, PhaseBase, DockerBase, RefuseBase, VanishBase
       DEF LNext, Work

-----------------------------------------------------------------------------
(* The reconcile of a boot *)

LEMMA BootStep ==
    ASSUME BootInv, phase = "boot", NEW t \in Tasks, Work(t)
    PROVE  BootOK'
<1>0. /\ rows \in Table /\ stack \in [Workspaces -> Stack]
      /\ pc \in [Tasks -> Step] /\ Main \in Tasks
      /\ plan \in [Tasks -> [Workspaces -> State \cup {"none"}]]
      /\ "none" \notin State
      /\ TaskStep(t) /\ UNCHANGED phase
    BY LauncherAssumption DEF BootInv, BaseInv, BookInv, IInv, TypeOK, State, Work
<1>1. t = Main /\ pc[Main] \in Reconciling
    BY <1>0, OwnMove DEF BootInv, BaseInv, BookInv, SessionOK, Workers
<1> USE DEF BootOK, Seen, AgreesWithDocker, Answered, Goto, Finish
<1>2. CASE ListProjectStates(t)
  <2>1. CASE pc'[t] = "ps_load"
    <3>1. /\ UNCHANGED stack
          /\ \A w \in Workspaces : plan'[Main][w] = LiveState(w)
      BY <1>0, <1>1, <1>2, <2>1 DEF ListProjectStates, world
    <3>2. QED
      BY <1>0, <1>1, <2>1, <3>1 DEF LiveState, Stack
  <2>2. CASE pc'[t] = "ps_failed"
    BY <1>0, <1>1, <2>2 DEF Work
  <2>3. QED
    BY <1>0, <1>1, <1>2, <2>1, <2>2 DEF ListProjectStates
<1>3. ASSUME ~ListProjectStates(t)
      PROVE  pc'[t] # "ps_load" /\ refused' = refused /\ vanished' = vanished
  <2>1. pc'[t] \in {"ps_apply", "idle"}
    BY <1>0, <1>1, <1>3
       DEF TaskStep, Reconciling, CreateLoad, CreateAppend, Delete, RenameWorkspace, ServeLoad,
           ServeProbe, ServeWait, StartLoad, StartSave, StartUp, StartWait, MarkRunning,
           MarkError, SyncLoad, Sync, StopLoad, MarkStopping, StopDown, MarkStopped,
           ReconcileLoad, ReconcileBlind, ReconcileApply
  <2>2. QED
    BY <2>1 DEF Work, Settled
<1>4. CASE ReconcileLoad(t)
  <2>0. UNCHANGED <<refused, vanished>>
    BY <1>0, <1>1, <1>3, <1>4 DEF ReconcileLoad, ListProjectStates
  <2>1. \A w \in Workspaces \ vanished : Seen(w, Live(t, w))
    BY <1>1, <1>4 DEF BootInv, BaseInv, ComposeOK, ReconcileLoad, Live
  <2>2. \A w \in ListedIds(rows) \ vanished :
          IF Differs(t, w) THEN Seen(w, Live(t, w)) ELSE AgreesWithDocker(w)
    BY <2>1 DEF Differs, ListedIds
  <2>3. \A w \in Workspaces \ vanished : Live(t, w) # "none"
    BY <2>1
  <2>4. /\ UNCHANGED <<rows, stack>>
        /\ \A w \in Workspaces :
             plan'[Main][w] = IF Differs(t, w) THEN Live(t, w) ELSE "none"
        /\ pc'[Main] = "ps_apply"
    BY <1>0, <1>1, <1>4 DEF ReconcileLoad, world
  <2>5. \A w \in ListedIds(rows) \ vanished :
          IF plan'[Main][w] = "none" THEN AgreesWithDocker(w) ELSE Seen(w, plan'[Main][w])
    BY <2>2, <2>3, <2>4 DEF ListedIds
  <2>6. QED
    BY <2>0, <2>4, <2>5 DEF ListedIds, Listed
<1>5. CASE ReconcileBlind(t)
  <2>1. refused = Workspaces /\ UNCHANGED <<refused, vanished>> /\ pc'[Main] = "ps_apply"
    BY <1>0, <1>1, <1>3, <1>5 DEF BootInv, ReconcileBlind, ListProjectStates
  <2>2. QED
    BY <2>1 DEF ListedIds
<1>6. CASE ReconcileApply(t)
  <2>0. UNCHANGED <<refused, vanished>>
    BY <1>0, <1>1, <1>3, <1>6 DEF ReconcileApply, ListProjectStates
  <2>1. /\ pc'[Main] = "idle" /\ UNCHANGED stack
        /\ \A w \in Workspaces :
             rows'[w] = IF Listed(rows, w) /\ plan[t][w] # "none"
                        THEN [rows[w] EXCEPT !.state = plan[t][w]] ELSE rows[w]
    BY <1>0, <1>1, <1>6 DEF ReconcileApply, world
  <2>2. \A w \in Answered :
          IF plan[t][w] = "none" THEN AgreesWithDocker(w) ELSE Seen(w, plan[t][w])
    BY <1>0, <1>1, <1>6 DEF BootInv, ReconcileApply
  <2>3. \A w \in Workspaces : Listed(rows', w) => Listed(rows, w)
    BY <2>1 DEF Listed
  <2>4. \A w \in ListedIds(rows) : rows[w] \in Row
    BY <1>0 DEF Table, ListedIds, Listed
  <2>5. ASSUME NEW w \in ListedIds(rows)
        PROVE  rows'[w].state = IF plan[t][w] # "none" THEN plan[t][w] ELSE rows[w].state
    BY <2>1, <2>4 DEF ListedIds, Row
  <2>6. \A w \in ListedIds(rows') \ (refused \cup vanished) :
          /\ rows'[w].state \in {"running", "starting"} => stack'[w] # "down"
          /\ rows'[w].state = "stopped" => stack'[w] = "down"
    BY <2>1, <2>2, <2>3, <2>5 DEF ListedIds
  <2>7. QED
    BY <2>0, <2>1, <2>6 DEF ListedIds, Listed
<1>7. QED
    BY <1>0, <1>1, <1>2, <1>4, <1>5, <1>6
       DEF TaskStep, Reconciling, CreateLoad, CreateAppend, Delete, RenameWorkspace, ServeLoad,
           ServeProbe, ServeWait, StartLoad, StartSave, StartUp, StartWait, MarkRunning,
           MarkError, SyncLoad, Sync, StopLoad, MarkStopping, StopDown, MarkStopped

LEMMA NextBoot ==
    ASSUME BootInv, [LNext]_lvars
    PROVE  BootInv'
<1> SUFFICES BootOK'
    BY NextBase DEF BootInv
<1>1. ASSUME phase' # "boot" PROVE BootOK'
    BY <1>1 DEF BootOK
<1>2. ASSUME NEW t \in Tasks, Work(t) PROVE BootOK'
    BY <1>1, <1>2, BootStep DEF Work
<1>3. CASE Boot
    BY <1>3, LauncherAssumption
       DEF Boot, Request, FirstStep, BootOK, BootInv, BaseInv, BookInv, IInv, TypeOK
<1>4. ASSUME NEW w \in Workspaces, StackReady(w) \/ StackCrash(w),
             UNCHANGED <<phase, todo, excuses>>
      PROVE  BootOK'
  <2>1. /\ UNCHANGED <<rows, pc, plan, phase, refused, vanished>>
        /\ \A v \in Workspaces : stack'[v] = "down" <=> stack[v] = "down"
    BY <1>4, DockerBase DEF BootInv, excuses
  <2>2. \A v \in ListedIds(rows) : v \in Workspaces
    BY DEF ListedIds
  <2>3. QED
    BY <2>1, <2>2 DEF BootInv, BootOK, Seen, Answered, AgreesWithDocker, ListedIds, Listed
<1>5. CASE UNCHANGED lvars
    BY <1>5 DEF BootInv, BootOK, Seen, Answered, AgreesWithDocker, ListedIds, Listed, lvars, vars,
                excuses
<1>6. CASE \/ ShowWindow \/ Signal \/ Close \/ Unwind \/ AtExit \/ Exit \/ Kill
           \/ \E w \in Workspaces : StopNext(w)
           \/ \E g \in Gestures, t \in Tasks, w \in Workspaces : CardGesture(g, t, w)
           \/ \E t \in Tasks, w \in Workspaces : NewWorkspace(t, w)
  <2>1. phase' # "boot"
    BY <1>6 DEF ShowWindow, Signal, Close, Unwind, AtExit, Exit, Kill, StopNext, Leave,
                CardGesture, NewWorkspace, StopAll, EndProcess
  <2>2. QED
    BY <1>1, <2>1
<1>7. ASSUME NEW t \in Tasks, Refuse(t), phase = "boot" PROVE BootOK'
  <2>1. /\ pc[t] \in StoreSteps /\ pc' = [pc EXCEPT ![t] = "idle"] /\ Main \in Tasks
        /\ refused' = refused \cup Missed(t) /\ pc \in [Tasks -> Step]
    BY <1>7, RefuseBase, LauncherAssumption DEF BootInv, BaseInv, BookInv, IInv, TypeOK
  <2>2. t = Main /\ pc[Main] \in Reconciling
    BY <1>7, <2>1 DEF BootInv, BaseInv, SessionOK, Workers, StoreSteps
  <2>3. pc'[Main] = "idle" /\ Workspaces \subseteq refused'
    BY <2>1, <2>2 DEF StoreSteps, Reconciling, Missed
  <2>4. QED
    BY <2>3 DEF BootOK, Answered, ListedIds
<1>8. ASSUME NEW w \in Workspaces, Vanish(w) PROVE BootOK'
  <2>1. /\ UNCHANGED <<rows, pc, plan, phase, refused>> /\ vanished' = vanished \cup {w}
        /\ \A v \in Workspaces \ {w} : stack'[v] = stack[v]
    BY <1>8, VanishBase DEF BootInv, BaseInv, BookInv, IInv, TypeOK
  <2>2. \A v \in ListedIds(rows) : v \in Workspaces
    BY DEF ListedIds
  <2>3. QED
    BY <2>1, <2>2 DEF BootInv, BootOK, Seen, Answered, AgreesWithDocker, ListedIds, Listed
<1>9. QED
    BY <1>1, <1>2, <1>3, <1>4, <1>5, <1>6, <1>7, <1>8 DEF LNext, Refuse

\* The table and the threads keep their types in every session, for any workspaces, threads,
\* gestures and faults.
THEOREM SessionsTyped == LSpec => []TypeOK
<1>1. LInit => BaseInv
    BY InitBase
<1>2. BaseInv /\ [LNext]_lvars => BaseInv'
    BY NextBase
<1>3. BaseInv => TypeOK
    BY DEF BaseInv, BookInv, IInv
<1>4. QED
    BY <1>1, <1>2, <1>3, PTL DEF LSpec

\* Two workspaces never share a port, over any sessions, whatever the user does, the system
\* kills or Docker refuses.
THEOREM SessionsKeepPorts == LSpec => []PortsDistinct
<1>1. LInit => BaseInv
    BY InitBase
<1>2. BaseInv /\ [LNext]_lvars => BaseInv'
    BY NextBase
<1>3. BaseInv => PortsDistinct
    BY DEF BaseInv, BookInv, IInv
<1>4. QED
    BY <1>1, <1>2, <1>3, PTL DEF LSpec

\* The reconcile of a boot repairs whatever earlier sessions left, their overlapping operations,
\* kills and vanished stacks included, for any workspaces, threads and faults: a card a window
\* first shows is wrong only when this very reconcile had no answer from docker ps or was refused
\* by the store, or when the stack went after the answer.
THEOREM BootRepairs == LSpec => BootRestoresBoard
<1>1. LInit => BootInv
    BY InitBase DEF BootInv, BootOK, LInit
<1>2. BootInv /\ [LNext]_lvars => BootInv'
    BY NextBoot
<1>3. BootInv /\ [LNext]_lvars =>
        [phase = "boot" /\ phase' = "open" =>
           \A w \in ListedIds(rows) \ (refused \cup vanished) : AgreesWithDocker(w)]_lvars
  <2> SUFFICES ASSUME BootInv, LNext, phase = "boot", phase' = "open"
               PROVE  \A w \in ListedIds(rows) \ (refused \cup vanished) : AgreesWithDocker(w)
      OBVIOUS
  <2>1. ShowWindow
      BY DEF LNext, Boot, Signal, Close, Unwind, AtExit, Exit, Kill, StopNext, Leave,
             StopAllDone, CardGesture, NewWorkspace, StopAll, EndProcess, Work, Refuse, Vanish
  <2>2. QED
      BY <2>1 DEF BootInv, BootOK, Answered, ShowWindow
<1>4. QED
    BY <1>1, <1>2, <1>3, PTL DEF LSpec, BootRestoresBoard

-----------------------------------------------------------------------------
(* Behind the busy flag: one step of a task *)

LEMMA FlagTypes ==
    ASSUME FlagInv
    PROVE  /\ IInv /\ BaseInv /\ Main \in Tasks
           /\ rows \in Table /\ stack \in [Workspaces -> Stack]
           /\ compose \in [Workspaces -> Ports \cup {NoPort}]
           /\ pc \in [Tasks -> Step] /\ arg \in [Tasks -> Workspaces \cup {NoRow}]
           /\ copy \in [Tasks -> Table]
           /\ \A t \in Tasks : pc[t] \notin Reconciling \cup {"idle"} => arg[t] \in Workspaces
  BY LauncherAssumption DEF FlagInv, BootInv, BaseInv, BookInv, IInv, TypeOK, TaskOK, Reconciling

\* Who takes a step, and in which phase.
LEMMA WhoSteps ==
    ASSUME FlagInv, NEW t \in Tasks, TaskStep(t)
    PROVE  /\ phase \in {"boot", "open"} \cup Leaving
           /\ phase = "boot" <=> pc[t] \in Reconciling
           /\ phase = "open" => t \in Workers
           /\ phase \in Leaving => t = Main /\ pc[t] \in Stopping
           /\ pc[t] # "rename" => \A u \in Tasks \ {t} : pc[u] \in Passing
<1>1. pc[t] # "idle" /\ IInv
    BY OwnMove, FlagTypes
<1>2. QED
    BY <1>1 DEF FlagInv, BootInv, BaseInv, SessionOK, Alone, Workers, Passing, Stopping,
                Reconciling, Leaving

LEMMA AloneStep ==
    ASSUME FlagInv, NEW t \in Tasks, Work(t)
    PROVE  Alone'
<1>1. /\ TaskStep(t) /\ UNCHANGED phase
      /\ \A u \in Tasks \ {t} : pc'[u] = pc[u]
      /\ pc'[t] \notin Passing => pc[t] \notin Passing
    BY OthersStay, OwnMove, FlagTypes DEF Passing, Work
<1>2. phase # "open" => t = Main
    BY <1>1, WhoSteps DEF Leaving, FlagInv, Alone, Workers, BootInv, BaseInv, SessionOK, Reconciling
<1>3. QED
    BY <1>1, <1>2 DEF FlagInv, Alone, Workers

\* What the step of t owes for its own workspace w.
Excused(w) == w \in refused \cup vanished
MayDiffer(t, w) == pc[t] \in {"start_up", "start_error"} \/ Excused(w)
OwnWorkspace(t, w) ==
    /\ OpOK(t)' /\ LiveListed(w)'
    /\ pc[t] \in Stopping /\ pc'[t] = "idle" => Reported(w)'
    /\ (Listed(rows, w) => AgreesWithDocker(w) \/ MayDiffer(t, w)) =>
          (Listed(rows, w) => AgreesWithDocker(w) \/ MayDiffer(t, w))'
\* What it leaves as it was.
OtherWorkspaces(w) ==
    \A v \in Workspaces \ {w} :
        /\ Listed(rows, v)' <=> Listed(rows, v)
        /\ Listed(rows, v) => rows'[v].state = rows[v].state
        /\ stack'[v] = "down" <=> stack[v] = "down"

\* Only the workspace of the task may lose its excuse, and only to a start or a teardown that
\* has committed.
LEMMA ExcusesStay ==
    ASSUME FlagInv, NEW t \in Tasks, Work(t), pc[t] \notin Reconciling
    PROVE  /\ refused' = refused \ Settled(t) /\ vanished' = vanished \ Settled(t)
           /\ Settled(t) = IF pc'[t] \in {"start_up", "stop_down"} THEN {arg[t]} ELSE {}
<1>1. pc'[t] \notin Reconciling
    BY OwnMove, FlagTypes DEF Work
<1>2. QED
    BY <1>1 DEF Work, Settled, Reconciling

LEMMA StepKeepsFlag ==
    ASSUME FlagInv, NEW t \in Tasks, Work(t), BootInv',
           pc[t] \notin Reconciling, pc[t] # "rename",
           NEW w \in Workspaces, w = arg[t], OwnWorkspace(t, w), OtherWorkspaces(w)
    PROVE  FlagInv'
<1>0. /\ pc[t] # "idle"
      /\ \A u \in Tasks \ {t} : pc'[u] = pc[u] /\ arg'[u] = arg[u]
      /\ \A u \in Tasks \ {t} : pc[u] \in Passing
      /\ phase = "open" => t \in Workers
      /\ phase \in Leaving => t = Main /\ pc[t] \in Stopping
      /\ phase \in {"open"} \cup Leaving
      /\ pc'[t] = "idle" \/ arg'[t] = arg[t]
      /\ UNCHANGED <<phase, todo>>
      /\ \A v \in Workspaces \ {w} : /\ v \in refused' <=> v \in refused
                                     /\ v \in vanished' <=> v \in vanished
    BY FlagTypes, OthersStay, OwnMove, WhoSteps, ExcusesStay DEF Work
<1>1. Alone'
    BY AloneStep
<1>2. \A u \in Tasks : OpOK(u)'
    BY <1>0 DEF OwnWorkspace, OpOK, Passing
<1>3. ASSUME NEW v \in Workspaces PROVE LiveListed(v)'
    BY <1>3 DEF OwnWorkspace, OtherWorkspaces, FlagInv, LiveListed
<1>4. ASSUME phase = "open", NEW v \in Workspaces PROVE CardOK(v)'
  <2>1. CASE v = w
    <3>1. Listed(rows, w) => AgreesWithDocker(w) \/ MayDiffer(t, w)
      BY <1>0, <1>4 DEF FlagInv, BoardOK, CardOK, Passing, Workers, MayDiffer, Excused
    <3>2. (Listed(rows, w) => AgreesWithDocker(w) \/ MayDiffer(t, w))'
      BY <3>1 DEF OwnWorkspace
    <3>3. QED
      BY <1>0, <1>4, <2>1, <3>2 DEF CardOK, Workers, MayDiffer, Excused
  <2>2. CASE v # w
    <3>1. /\ Listed(rows, v)' <=> Listed(rows, v)
          /\ Listed(rows, v) => (AgreesWithDocker(v)' <=> AgreesWithDocker(v))
      BY <2>2 DEF OtherWorkspaces, AgreesWithDocker
    <3>2. QED
      BY <1>0, <1>4, <2>2, <3>1 DEF FlagInv, BoardOK, CardOK, Passing, Workers
  <2>3. QED
    BY <2>1, <2>2
<1>5. ASSUME phase \in Leaving, NEW v \in Workspaces PROVE LeftOK(v)'
    BY <1>0, <1>5 DEF OwnWorkspace, OtherWorkspaces, FlagInv, LeaveOK, LeftOK, Reported, In
<1>6. QED
    BY <1>0, <1>1, <1>2, <1>3, <1>4, <1>5 DEF FlagInv, PlanOK, BoardOK, LeaveOK, Leaving

\* Every action but those of rename and reconcile, on what it does to its own workspace.
LEMMA StepOwn ==
    ASSUME FlagInv, NEW t \in Tasks, Work(t), pc[t] \notin Reconciling, pc[t] # "rename",
           NEW w \in Workspaces, w = arg[t]
    PROVE  OwnWorkspace(t, w) /\ OtherWorkspaces(w)
<1>0. /\ IInv /\ pc[t] # "idle"
      /\ rows \in Table /\ stack \in [Workspaces -> Stack] /\ rows' \in Table
      /\ pc \in [Tasks -> Step] /\ arg \in [Tasks -> Workspaces \cup {NoRow}]
      /\ copy \in [Tasks -> Table]
      /\ OpOK(t) /\ LiveListed(w) /\ ComposeOK
      /\ pc'[t] = "idle" \/ arg'[t] = w
      /\ NoRow \notin Row
      /\ TaskStep(t)
    BY FlagTypes, OwnMove, TaskStepSafe, NoRowAssumption
       DEF FlagInv, BootInv, BaseInv, IInv, TypeOK, Work
<1>00. /\ Excused(w) /\ pc'[t] \notin {"start_up", "stop_down"} => Excused(w)'
       /\ w \in vanished /\ pc'[t] \notin {"start_up", "stop_down"} => w \in vanished'
    BY ExcusesStay DEF Excused
<1> USE <1>00
    DEF OpOK, In, LiveListed, Reported, AgreesWithDocker, OwnWorkspace, OtherWorkspaces, MayDiffer
<1>1. CASE \/ CreateLoad(t) \/ ServeLoad(t) \/ ServeProbe(t) \/ ServeWait(t) \/ StartLoad(t)
           \/ SyncLoad(t) \/ Sync(t)
  <2>1. UNCHANGED <<rows, stack>>
    BY <1>1 DEF CreateLoad, ServeLoad, ServeProbe, ServeWait, StartLoad, SyncLoad, Sync, world
  <2>2. /\ pc[t] \notin Stopping
        /\ pc'[t] \in {"idle", "create_append", "serve_probe", "serve_wait", "start_load",
                       "start_save", "stop_load", "sync"}
        /\ pc'[t] = "start_save" => copy'[t] = rows
        /\ pc[t] \notin {"start_up", "start_error"}
    BY <1>0, <1>1 DEF CreateLoad, ServeLoad, ServeProbe, ServeWait, StartLoad, SyncLoad, Sync,
                      Goto, Finish, Stopping
  <2>3. QED
    BY <1>0, <2>1, <2>2 DEF SameButNames, Listed
<1>2. CASE CreateAppend(t)
  <2>1. ~Listed(rows, w) /\ pick[t] \in Ports
    BY <1>0, <1>2 DEF FlagInv, BootInv, BaseInv, BookInv, PendingOK, Pending, Known, CreateAppend,
                      IInv, TaskOK
  <2>2. /\ \A v \in Workspaces \ {w} : rows'[v] = rows[v]
        /\ Listed(rows', w) => rows'[w].state = "stopped"
    BY <1>0, <1>2, <2>1 DEF CreateAppend, Table, Listed
  <2>3. UNCHANGED stack /\ pc'[t] = "idle" /\ pc[t] = "create_append"
    BY <1>0, <1>2 DEF CreateAppend, Finish, world
  <2>4. QED
    BY <1>0, <2>1, <2>2, <2>3 DEF Listed, Stopping
<1>3. CASE Delete(t)
  <2>1. /\ \A v \in Workspaces \ {w} : rows'[v] = rows[v]
        /\ rows'[w] = rows[w] \/ (Listed(rows, w) /\ rows[w].state = "stopped" /\ rows'[w] = NoRow)
    BY <1>0, <1>3 DEF Delete, Table, MayDelete
  <2>2. UNCHANGED stack /\ pc'[t] = "idle" /\ pc[t] = "delete"
    BY <1>0, <1>3 DEF Delete, Finish, world
  <2>3. QED
    BY <1>0, <2>1, <2>2 DEF Listed, Stopping
<1>4. CASE StartSave(t)
  <2>1. /\ Listed(copy[t], w) /\ SameButNames(copy[t], rows)
    BY <1>0, <1>4 DEF StartSave, IInv, TaskOK
  <2>2. /\ \A v \in Workspaces \ {w} : rows'[v] = copy[t][v]
        /\ Listed(rows', w) /\ rows'[w].state = "starting"
    <3>1. copy[t] \in Table /\ copy[t][w] \in Row
      BY <1>0, <2>1 DEF Table, Listed
    <3>2. /\ [copy[t][w] EXCEPT !.state = "starting"] \in Row
          /\ [copy[t][w] EXCEPT !.state = "starting"].state = "starting"
      BY <3>1 DEF Row, State
    <3>3. rows' = [copy[t] EXCEPT ![w] = [copy[t][w] EXCEPT !.state = "starting"]]
      BY <1>4 DEF StartSave, SetState
    <3>4. QED
      BY <1>0, <3>1, <3>2, <3>3 DEF Table, Listed
  <2>3. UNCHANGED stack /\ pc'[t] = "start_up" /\ pc[t] = "start_save"
    BY <1>0, <1>4 DEF StartSave, Goto, world
  <2>4. QED
    BY <1>0, <2>1, <2>2, <2>3 DEF Listed, Stopping, SameButNames
<1>5. CASE StartUp(t)
  <2>1. /\ UNCHANGED rows /\ pc[t] = "start_up"
        /\ \A v \in Workspaces \ {w} : stack'[v] = stack[v]
        /\ \/ pc'[t] = "start_wait" /\ stack'[w] # "down"
           \/ pc'[t] = "start_error"
    BY <1>0, <1>5 DEF StartUp, Goto
  <2>2. QED
    BY <1>0, <2>1 DEF Listed, Stopping
<1>6. CASE StartWait(t)
  <2>1. /\ UNCHANGED <<rows, stack>> /\ pc[t] = "start_wait"
        /\ pc'[t] \in {"start_running", "start_error"}
    BY <1>0, <1>6 DEF StartWait, Goto, world
  <2>2. QED
    BY <1>0, <2>1 DEF Listed, Stopping
<1>7. ASSUME NEW s \in State, NEW next \in {"idle", "stop_down"}, MutateState(t, s, next),
             UNCHANGED stack
      PROVE  /\ \A v \in Workspaces \ {w} : rows'[v] = rows[v]
             /\ \/ /\ Listed(rows, w) /\ Listed(rows', w) /\ rows'[w].state = s
                   /\ pc'[t] = next
                \/ ~Listed(rows, w) /\ rows'[w] = rows[w] /\ pc'[t] = "idle"
    BY <1>0, <1>7 DEF MutateState, SetState, Table, Listed, Goto, Finish, Row
<1>8. CASE MarkRunning(t)
  <2>1. pc[t] = "start_running" /\ MutateState(t, "running", "idle") /\ UNCHANGED stack
    BY <1>8 DEF MarkRunning, world
  <2>2. QED
    BY <1>0, <1>7, <2>1 DEF Listed, Stopping, State
<1>9. CASE MarkError(t)
  <2>1. pc[t] = "start_error" /\ MutateState(t, "error", "idle") /\ UNCHANGED stack
    BY <1>9 DEF MarkError, world
  <2>2. QED
    BY <1>0, <1>7, <2>1 DEF Listed, Stopping, State
<1>10. CASE StopLoad(t)
  <2>1. /\ UNCHANGED <<rows, stack>> /\ pc[t] = "stop_load"
        /\ \/ pc'[t] = "stop_mark" /\ Listed(rows, w)
           \/ pc'[t] = "idle" /\ (~Listed(rows, w) \/ rows[w].state = "stopped")
    BY <1>0, <1>10 DEF StopLoad, Goto, Finish, world, NeedsStop
  <2>2. QED
    BY <1>0, <2>1 DEF Listed
<1>11. CASE MarkStopping(t)
  <2>1. pc[t] = "stop_mark" /\ MutateState(t, "stopping", "stop_down") /\ UNCHANGED stack
    BY <1>11 DEF MarkStopping, world
  <2>2. QED
    BY <1>0, <1>7, <2>1 DEF Listed, State
<1>12. CASE StopDown(t)
  <2>1. /\ UNCHANGED rows /\ pc[t] = "stop_down"
        /\ \A v \in Workspaces \ {w} : stack'[v] = stack[v]
        /\ pc'[t] \in {"idle", "stop_done"}
        /\ stack'[w] \in {stack[w], "down"}
        /\ pc'[t] = "stop_done" => stack'[w] = "down"
    BY <1>0, <1>12 DEF StopDown, Goto, Finish, ComposeOK
  <2>2. QED
    BY <1>0, <2>1 DEF Listed
<1>13. CASE MarkStopped(t)
  <2>1. pc[t] = "stop_done" /\ MutateState(t, "stopped", "idle") /\ UNCHANGED stack
    BY <1>13 DEF MarkStopped, world
  <2>2. QED
    BY <1>0, <1>7, <2>1 DEF Listed, State
<1> HIDE <1>00
    DEF OpOK, In, LiveListed, Reported, AgreesWithDocker, OwnWorkspace, OtherWorkspaces, MayDiffer
<1>14. QED
    BY <1>0, <1>1, <1>2, <1>3, <1>4, <1>5, <1>6, <1>8, <1>9, <1>10, <1>11, <1>12, <1>13
       DEF TaskStep, RenameWorkspace, ListProjectStates, ReconcileLoad, ReconcileBlind,
           ReconcileApply, Reconciling

\* A rename changes names, also those under a start in flight, which does not look at them.
LEMMA RenameFlag ==
    ASSUME FlagInv, NEW t \in Tasks, RenameWorkspace(t), Work(t), BootInv'
    PROVE  FlagInv'
<1>0. /\ rows \in Table /\ arg[t] \in Workspaces /\ TaskStep(t) /\ NoRow \notin Row
      /\ pc[t] = "rename" /\ pc'[t] = "idle" /\ UNCHANGED <<stack, copy>>
      /\ \A u \in Tasks \ {t} : pc'[u] = pc[u] /\ arg'[u] = arg[u]
      /\ phase = "open" /\ t \in Workers /\ UNCHANGED <<phase, todo, refused, vanished>>
    BY FlagTypes, OthersStay, OwnMove, WhoSteps, ExcusesStay, NoRowAssumption
       DEF RenameWorkspace, TaskStep, Work, locals, world, Reconciling, Stopping, Leaving
<1>1. ASSUME NEW v \in Workspaces
      PROVE  /\ Listed(rows', v) <=> Listed(rows, v)
             /\ Listed(rows, v) => rows'[v].state = rows[v].state
  <2>1. CASE UNCHANGED rows
    BY <2>1 DEF Listed
  <2>2. ASSUME NEW n \in Names, Listed(rows, arg[t]), rows' = [rows EXCEPT ![arg[t]].name = n]
        PROVE  /\ Listed(rows', v) <=> Listed(rows, v)
               /\ Listed(rows, v) => rows'[v].state = rows[v].state
    <3>1. rows[arg[t]] \in Row
      BY <1>0, <2>2 DEF Table, Listed
    <3>2. /\ [rows[arg[t]] EXCEPT !.name = n] \in Row
          /\ [rows[arg[t]] EXCEPT !.name = n].state = rows[arg[t]].state
      BY <3>1 DEF Row
    <3>3. QED
      BY <1>0, <2>2, <3>2 DEF Table, Listed
  <2>3. QED
    BY <1>0, <2>1, <2>2 DEF RenameWorkspace
<1>2. Alone'
    BY <1>0, AloneStep
<1>3. ASSUME NEW u \in Tasks PROVE OpOK(u)'
  <2>1. CASE u = t
    BY <1>0, <2>1 DEF OpOK
  <2>2. CASE u # t
    <3>1. pc[u] \notin Reconciling \cup {"idle"} => arg[u] \in Workspaces
      BY FlagTypes
    <3>2. OpOK(u) /\ pc'[u] = pc[u] /\ arg'[u] = arg[u] /\ copy'[u] = copy[u]
      BY <1>0, <2>2 DEF FlagInv
    <3>3. arg[u] \in Workspaces => (In(arg[u], "starting")' <=> In(arg[u], "starting"))
                                 /\ (In(arg[u], "stopping")' <=> In(arg[u], "stopping"))
      BY <1>1, <3>2 DEF In
    <3>4. SameButNames(copy[u], rows) => SameButNames(copy'[u], rows')
      BY <1>1, <3>2 DEF SameButNames
    <3>5. CASE arg[u] \notin Workspaces
      BY <3>1, <3>2, <3>5 DEF OpOK, Reconciling
    <3>6. CASE arg[u] \in Workspaces
      BY <1>0, <1>1, <3>2, <3>3, <3>4, <3>6 DEF OpOK
    <3>7. QED
      BY <3>5, <3>6
  <2>3. QED
    BY <2>1, <2>2
<1>4. ASSUME NEW v \in Workspaces PROVE LiveListed(v)'
    BY <1>0, <1>1, <1>4 DEF FlagInv, LiveListed
<1>5. ASSUME NEW v \in Workspaces PROVE CardOK(v)'
  <2>1. CardOK(v)
    BY <1>0, <1>5 DEF FlagInv, BoardOK
  <2>2. Listed(rows, v) => (AgreesWithDocker(v)' <=> AgreesWithDocker(v))
    BY <1>0, <1>1, <1>5 DEF AgreesWithDocker
  <2>3. QED
    BY <1>0, <1>1, <1>5, <2>1, <2>2 DEF CardOK, Workers
<1>6. QED
    BY <1>0, <1>2, <1>3, <1>4, <1>5 DEF FlagInv, PlanOK, BoardOK, LeaveOK, Leaving

\* The reconcile of a boot: what it marks STOPPED is down.
LEMMA ReconcileFlag ==
    ASSUME "ps" \notin Faults, FlagInv, NEW t \in Tasks, Work(t), pc[t] \in Reconciling, BootInv'
    PROVE  FlagInv'
<1>00. TaskStep(t) /\ UNCHANGED <<phase, todo>>
    BY DEF Work
<1> USE <1>00
<1>0. /\ rows \in Table /\ IInv /\ pc \in [Tasks -> Step] /\ Main \in Tasks
      /\ phase = "boot" /\ t = Main /\ UNCHANGED stack
      /\ \A u \in Tasks \ {t} : pc'[u] = pc[u] /\ pc[u] = "idle"
      /\ pc'[t] \in Reconciling \cup {"idle"}
      /\ ReconcileApply(t) \/ UNCHANGED rows
      /\ ReconcileApply(t) => pc'[t] = "idle"
  <2>1. IInv /\ phase = "boot"
    BY FlagTypes, WhoSteps
  <2>2. t = Main /\ \A u \in Tasks \ {t} : pc'[u] = pc[u] /\ pc[u] = "idle"
    BY <2>1, OthersStay DEF FlagInv, Alone, Workers, Reconciling
  <2>3. (ReconcileApply(t) \/ UNCHANGED rows) /\ UNCHANGED stack
    BY DEF Reconciling, TaskStep, ListProjectStates, ReconcileLoad, ReconcileBlind,
           ReconcileApply, CreateLoad, CreateAppend, Delete, RenameWorkspace, ServeLoad,
           ServeProbe, ServeWait, StartLoad, StartSave, StartUp, StartWait, MarkRunning,
           MarkError, SyncLoad, Sync, StopLoad, MarkStopping, StopDown, MarkStopped, world
  <2>4. QED
    BY <2>1, <2>2, <2>3, OwnMove, FlagTypes DEF ReconcileApply, Finish
<1>1. \A u \in Tasks : OpOK(u)'
    BY <1>0 DEF OpOK, Reconciling
<1>2. ASSUME NEW v \in Workspaces PROVE LiveListed(v)'
  <2>1. CASE UNCHANGED rows
    BY <1>0, <2>1 DEF FlagInv, LiveListed, Listed
  <2>2. CASE ReconcileApply(t)
    <3>1. rows'[v] = IF Listed(rows, v) /\ plan[t][v] # "none"
                     THEN [rows[v] EXCEPT !.state = plan[t][v]] ELSE rows[v]
      BY <2>2 DEF ReconcileApply
    <3>2. plan[t][v] \in State \cup {"none"}
      BY <1>0 DEF IInv, TypeOK
    <3>3. Listed(rows, v) => rows[v] \in Row
      BY <1>0 DEF Table, Listed
    <3>4. Listed(rows, v) /\ plan[t][v] # "none" =>
            /\ [rows[v] EXCEPT !.state = plan[t][v]] \in Row
            /\ [rows[v] EXCEPT !.state = plan[t][v]].state = plan[t][v]
      BY <3>2, <3>3 DEF Row
    <3>5. plan[t][v] = "stopped" => stack[v] = "down"
      BY <1>0, <2>2 DEF FlagInv, PlanOK, ReconcileApply
    <3>6. QED
      BY <1>0, <3>1, <3>4, <3>5, NoRowAssumption DEF FlagInv, LiveListed, Listed
  <2>3. QED
    BY <1>0, <2>1, <2>2
<1>3. PlanOK'
  <2>1. CASE ListProjectStates(t)
    <3>1. pc'[Main] = "ps_load" /\ \A w \in Workspaces : plan'[Main][w] = LiveState(w)
      BY <1>0, <2>1 DEF ListProjectStates, Goto, IInv, TypeOK
    <3>2. QED
      BY <1>0, <3>1 DEF PlanOK, LiveState, IInv, TypeOK, Stack
  <2>2. CASE ReconcileLoad(t)
    <3>1. /\ pc'[Main] = "ps_apply"
          /\ \A w \in Workspaces : plan'[Main][w] \in {Live(t, w), "none"}
      BY <1>0, <2>2 DEF ReconcileLoad, Goto, IInv, TypeOK
    <3>2. \A w \in Workspaces : Live(t, w) = "stopped" => stack[w] = "down"
      BY <1>0, <2>2 DEF ReconcileLoad, Live, FlagInv, PlanOK, BootInv, BaseInv, ComposeOK
    <3>3. QED
      BY <1>0, <3>1, <3>2 DEF PlanOK
  <2>3. CASE ReconcileBlind(t)
    BY <1>0, <2>3 DEF ReconcileBlind, FlagInv, PlanOK
  <2>4. CASE ReconcileApply(t)
    BY <1>0, <2>4 DEF PlanOK
  <2>5. QED
    BY <1>0, <2>1, <2>2, <2>3, <2>4
       DEF TaskStep, Reconciling, CreateLoad, CreateAppend, Delete, RenameWorkspace, ServeLoad,
           ServeProbe, ServeWait, StartLoad, StartSave, StartUp, StartWait, MarkRunning,
           MarkError, SyncLoad, Sync, StopLoad, MarkStopping, StopDown, MarkStopped
<1>4. QED
    BY <1>0, <1>1, <1>2, <1>3, AloneStep DEF FlagInv, BoardOK, LeaveOK, Leaving

LEMMA TaskStepFlag ==
    ASSUME "ps" \notin Faults, FlagInv, BootInv', NEW t \in Tasks, Work(t)
    PROVE  FlagInv'
<1> USE DEF Work
<1>1. CASE pc[t] \in Reconciling
    BY <1>1, ReconcileFlag
<1>2. CASE pc[t] = "rename"
  <2>1. RenameWorkspace(t)
    BY <1>2 DEF TaskStep, ListProjectStates, ReconcileLoad, ReconcileBlind,
           ReconcileApply, CreateLoad, CreateAppend, Delete, RenameWorkspace, ServeLoad,
           ServeProbe, ServeWait, StartLoad, StartSave, StartUp, StartWait, MarkRunning,
           MarkError, SyncLoad, Sync, StopLoad, MarkStopping, StopDown, MarkStopped
  <2>2. QED
    BY <2>1, RenameFlag
<1>3. CASE pc[t] \notin Reconciling /\ pc[t] # "rename"
  <2>1. PICK w \in Workspaces : w = arg[t]
    BY <1>3, FlagTypes, OwnMove
  <2>2. OwnWorkspace(t, w) /\ OtherWorkspaces(w)
    BY <1>3, <2>1, StepOwn
  <2>3. QED
    BY <1>3, <2>1, <2>2, StepKeepsFlag
<1>4. QED
    BY <1>1, <1>2, <1>3

-----------------------------------------------------------------------------
(* Behind the busy flag: the window, Docker and the end of a process *)

\* An idle thread handed an operation: no card changes, and its first step expects nothing.
LEMMA HandedFlag ==
    ASSUME FlagInv, NEW t \in Tasks, NEW o \in Operations, NEW w, Request(t, o, w),
           BootInv', PlanOK', Alone', LeaveOK', phase' = "open" => phase = "open",
           UNCHANGED excuses
    PROVE  FlagInv'
<1>0. /\ pc \in [Tasks -> Step] /\ arg \in [Tasks -> Workspaces \cup {NoRow}]
      /\ pc[t] = "idle" /\ UNCHANGED <<rows, stack, copy>>
      /\ \A u \in Tasks \ {t} : pc'[u] = pc[u] /\ arg'[u] = arg[u]
      /\ pc'[t] \notin {"create_append", "start_save", "start_up", "start_wait",
             "start_running", "start_error", "stop_mark", "stop_down", "stop_done"}
  <2>1. /\ pc \in [Tasks -> Step] /\ arg \in [Tasks -> Workspaces \cup {NoRow}]
        /\ IInv /\ ComposeOK
    BY FlagTypes DEF BaseInv
  <2>2. FirstStep[o] \notin {"create_append", "start_save", "start_up", "start_wait",
             "start_running", "start_error", "stop_mark", "stop_down", "stop_done"}
    BY <2>1, RequestCompose
  <2>3. QED
    BY <2>1, <2>2 DEF Request, world, locals
<1>1. ASSUME NEW u \in Tasks PROVE OpOK(u)'
  <2>1. CASE u = t
    BY <1>0, <2>1 DEF OpOK
  <2>2. CASE u # t
    BY <1>0, <2>2 DEF FlagInv, OpOK, SameButNames, In, Listed, excuses
  <2>3. QED
    BY <2>1, <2>2
<1>2. ASSUME NEW v \in Workspaces PROVE LiveListed(v)'
    BY <1>0, <1>2 DEF FlagInv, LiveListed, Listed
<1>3. ASSUME phase = "open", NEW v \in Workspaces PROVE CardOK(v)'
  <2>1. CardOK(v)
    BY <1>3 DEF FlagInv, BoardOK
  <2>2. AgreesWithDocker(v)' <=> AgreesWithDocker(v)
    BY <1>0 DEF AgreesWithDocker
  <2>3. QED
    BY <1>0, <2>1, <2>2 DEF CardOK, Listed, Workers, excuses
<1>4. QED
    BY <1>1, <1>2, <1>3 DEF FlagInv, BoardOK

LEMMA RequestFlag ==
    ASSUME Flagged, FlagInv, BootInv',
           \/ Boot
           \/ \E w \in Workspaces : StopNext(w)
           \/ \E g \in Gestures, t \in Tasks, w \in Workspaces : CardGesture(g, t, w)
           \/ \E t \in Tasks, w \in Workspaces : NewWorkspace(t, w)
    PROVE  FlagInv'
<1>0. /\ pc \in [Tasks -> Step] /\ arg \in [Tasks -> Workspaces \cup {NoRow}]
      /\ Main \in Tasks /\ SessionOK /\ IInv /\ ComposeOK
    BY FlagTypes DEF BaseInv
<1>1. CASE Boot
  <2>1. "reconcile" \in Operations /\ Request(Main, "reconcile", NoRow)
    BY <1>1 DEF Boot, Request
  <2>2. pc' = [pc EXCEPT ![Main] = "ps"] /\ phase' = "boot"
    BY <1>1 DEF Boot, Request, FirstStep
  <2>3. Alone'
    BY <1>0, <1>1, <2>2 DEF SessionOK, Alone, Workers, Passing, Boot
  <2>4. LeaveOK' /\ PlanOK'
    BY <1>0, <2>2 DEF LeaveOK, Leaving, PlanOK
  <2>5. QED
    BY <1>0, <1>1, <2>1, <2>2, <2>3, <2>4, HandedFlag DEF Boot
<1>2. ASSUME NEW w \in Workspaces, StopNext(w)
      PROVE  FlagInv'
  <2>1. /\ "halt" \in Operations /\ Request(Main, "halt", w)
        /\ phase \in Leaving /\ todo' = todo \ {w}
        /\ UNCHANGED <<phase, rows, stack, refused, excuses>>
    BY <1>2 DEF StopNext, Request, Leaving, world, excuses
  <2>2. /\ pc[Main] = "idle" /\ pc' = [pc EXCEPT ![Main] = "stop_load"]
        /\ arg' = [arg EXCEPT ![Main] = w]
    BY <2>1 DEF Request, FirstStep
  <2>3. Alone'
    BY <1>0, <2>1, <2>2 DEF FlagInv, Alone, Workers, Leaving, Passing
  <2>4. LeaveOK' /\ PlanOK'
    BY <1>0, <2>1, <2>2 DEF FlagInv, LeaveOK, LeftOK, Reported, In, Listed, Leaving, PlanOK
  <2>5. QED
    BY <1>0, <2>1, <2>3, <2>4, HandedFlag
<1>3. ASSUME NEW t \in Workers, NEW o \in Operations, NEW w \in Workspaces, Request(t, o, w),
             phase = "open", UNCHANGED <<phase, todo, excuses>>,
             ~Busy \/ OneWorker \/ o = "rename"
      PROVE  FlagInv'
  <2>1. pc' = [pc EXCEPT ![t] = FirstStep[o]] /\ (o = "rename" => FirstStep[o] = "rename")
    BY <1>0, <1>3, RequestCompose DEF Workers
  <2>2. pc[Main] = "idle"
    BY <1>0, <1>3 DEF SessionOK
  <2>3. Alone'
    <3>1. CASE ~Busy \/ OneWorker
      BY <1>0, <1>3, <2>1, <2>2, <3>1 DEF Alone, Workers, Busy, OneWorker, Passing
    <3>2. CASE o = "rename"
      BY <1>0, <1>3, <2>1, <3>2 DEF FlagInv, Alone, Workers, Passing
    <3>3. QED
      BY <1>3, <3>1, <3>2
  <2>4. LeaveOK' /\ PlanOK'
    BY <1>3 DEF LeaveOK, Leaving, PlanOK
  <2>5. QED
    BY <1>3, <2>3, <2>4, HandedFlag DEF Workers
<1>4. ASSUME NEW g \in Gestures, NEW t \in Tasks, NEW w \in Workspaces, CardGesture(g, t, w)
      PROVE  FlagInv'
  <2>1. PICK o \in Offered(g, rows[w].state) : Request(t, o, w)
    BY <1>4 DEF CardGesture
  <2>2. o \in Operations
    BY <2>1 DEF Request
  <2>3. ~Busy \/ OneWorker \/ o = "rename"
    BY <1>4, <2>1, OfferedOperations DEF CardGesture, Flagged
  <2>4. QED
    BY <1>3, <1>4, <2>1, <2>2, <2>3 DEF CardGesture
<1>5. ASSUME NEW t \in Tasks, NEW w \in Workspaces, NewWorkspace(t, w)
      PROVE  FlagInv'
    BY <1>3, <1>5 DEF NewWorkspace, Request
<1>6. QED
    BY <1>1, <1>2, <1>4, <1>5

\* The window opens on what the boot has repaired; a stop_all takes every listed workspace.
LEMMA PhaseFlag ==
    ASSUME Flagged, FlagInv, BootInv',
           ShowWindow \/ Signal \/ Close \/ Unwind \/ AtExit \/ UNCHANGED lvars
    PROVE  FlagInv'
<1>0. /\ UNCHANGED <<rows, stack, pc, arg, copy, vanished>> /\ SessionOK
      /\ pc[Main] = "idle" \/ UNCHANGED lvars
      /\ refused \subseteq refused' \/ refused' = Workspaces
    BY DEF excuses, ShowWindow, Signal, Close, Leave, Unwind, AtExit, StopAll, StopAllDone, lvars, vars,
           FlagInv, BootInv, BaseInv, SessionOK, Leaving
<1>1. \A u \in Tasks : OpOK(u)'
    BY <1>0 DEF FlagInv, OpOK, SameButNames, In, Listed
<1>2. \A v \in Workspaces : LiveListed(v)'
    BY <1>0 DEF FlagInv, LiveListed, Listed
<1>3. Alone'
    BY <1>0 DEF FlagInv, Alone, ShowWindow, Signal, Close, Leave, Flagged, Unwind, AtExit,
                StopAll, StopAllDone, lvars, Busy, SessionOK, Leaving
<1>4. BoardOK'
  <2>1. CASE ShowWindow
    <3>1. \A w \in Answered : AgreesWithDocker(w)
      BY <2>1 DEF FlagInv, BootInv, BootOK, ShowWindow
    <3>2. \A w \in Workspaces :
            Listed(rows', w) => AgreesWithDocker(w)' \/ w \in (refused \cup vanished)'
      BY <1>0, <2>1, <3>1 DEF AgreesWithDocker, Answered, ListedIds, Listed, ShowWindow, excuses
    <3>3. QED
      BY <3>2 DEF BoardOK, CardOK
  <2>2. CASE UNCHANGED lvars
    BY <1>0, <2>2 DEF FlagInv, BoardOK, CardOK, AgreesWithDocker, Listed, lvars, excuses
  <2>3. CASE Signal \/ Close \/ Unwind \/ AtExit
    BY <2>3 DEF Signal, Close, Unwind, AtExit, StopAll, BoardOK
  <2>4. QED
    BY <2>1, <2>2, <2>3
<1>5. LeaveOK'
  <2>1. CASE ShowWindow
    BY <2>1 DEF ShowWindow, LeaveOK, Leaving
  <2>2. CASE UNCHANGED lvars
    BY <1>0, <2>2 DEF FlagInv, LeaveOK, LeftOK, Reported, In, Listed, lvars, excuses
  <2>3. CASE Signal \/ Close \/ Unwind \/ AtExit
    <3>1. phase' \in Leaving /\ (todo' = ListedIds(rows) \/ refused' = Workspaces)
      BY <2>3 DEF Signal, Close, Unwind, AtExit, StopAll, Leaving
    <3>2. \A v \in Workspaces : LeftOK(v)'
      BY <1>0, <3>1 DEF FlagInv, LiveListed, LeftOK, Reported, ListedIds
    <3>3. QED
      BY <3>1, <3>2 DEF LeaveOK, Leaving
  <2>4. QED
    BY <2>1, <2>2, <2>3
<1>6. PlanOK'
    BY <1>0 DEF FlagInv, PlanOK, ShowWindow, Signal, Close, Unwind, AtExit, StopAll, lvars, vars
<1>7. QED
    BY <1>1, <1>2, <1>3, <1>4, <1>5, <1>6 DEF FlagInv

LEMMA DockerFlag ==
    ASSUME FlagInv, BootInv', NEW w \in Workspaces, StackReady(w) \/ StackCrash(w),
           UNCHANGED <<phase, todo, excuses>>
    PROVE  FlagInv'
<1>0. /\ UNCHANGED <<rows, used, compose, pc, arg, copy, plan, phase, todo, refused, vanished>>
      /\ \A v \in Workspaces : stack'[v] = "down" <=> stack[v] = "down"
    BY DockerBase, FlagTypes DEF excuses
<1>1. ASSUME NEW u \in Tasks PROVE OpOK(u)'
  <2>1. pc[u] \notin Reconciling \cup {"idle"} => arg[u] \in Workspaces
    BY FlagTypes
  <2>2. QED
    BY <1>0, <2>1 DEF FlagInv, OpOK, SameButNames, In, Listed, Reconciling
<1>2. \A v \in Workspaces : LiveListed(v)' /\ (Reported(v)' <=> Reported(v))
    BY <1>0 DEF FlagInv, LiveListed, Listed, Reported, In
<1>3. \A v \in Workspaces : AgreesWithDocker(v)' <=> AgreesWithDocker(v)
    BY <1>0 DEF AgreesWithDocker
<1>4. Alone' /\ BoardOK' /\ LeaveOK' /\ PlanOK'
    BY <1>0, <1>2, <1>3 DEF FlagInv, Alone, BoardOK, CardOK, LeaveOK, LeftOK, PlanOK, Listed
<1>5. QED
    BY <1>1, <1>2, <1>4 DEF FlagInv

\* A stack that goes: its card is excused, and there is less to stop.
LEMMA VanishFlag ==
    ASSUME FlagInv, BootInv', NEW w \in Workspaces, Vanish(w)
    PROVE  FlagInv'
<1>0. /\ UNCHANGED <<rows, pc, arg, copy, plan, phase, todo, refused>>
      /\ vanished' = vanished \cup {w}
      /\ \A v \in Workspaces : stack'[v] = IF v = w THEN "down" ELSE stack[v]
    BY VanishBase, FlagTypes
<1>1. ASSUME NEW u \in Tasks PROVE OpOK(u)'
  <2>1. pc[u] \notin Reconciling \cup {"idle"} => arg[u] \in Workspaces
    BY FlagTypes
  <2>2. QED
    BY <1>0, <2>1 DEF FlagInv, OpOK, SameButNames, In, Listed, Reconciling
<1>2. \A v \in Workspaces : LiveListed(v)' /\ (Reported(v) => Reported(v)')
    BY <1>0 DEF FlagInv, LiveListed, Listed, Reported, In
<1>3. \A v \in Workspaces \ {w} : AgreesWithDocker(v)' <=> AgreesWithDocker(v)
    BY <1>0 DEF AgreesWithDocker
<1>4. Alone' /\ BoardOK' /\ LeaveOK' /\ PlanOK'
    BY <1>0, <1>2, <1>3 DEF FlagInv, Alone, BoardOK, CardOK, LeaveOK, LeftOK, PlanOK, Listed
<1>5. QED
    BY <1>1, <1>2, <1>4 DEF FlagInv

\* An operation the store refuses: what a start, a teardown or a stop_all leaves unsaid is excused.
LEMMA RefuseFlag ==
    ASSUME FlagInv, BootInv', NEW t \in Tasks, Refuse(t)
    PROVE  FlagInv'
<1>0. /\ UNCHANGED <<rows, stack, phase, todo, vanished>>
      /\ pc \in [Tasks -> Step] /\ Main \in Tasks
      /\ pc[t] \in StoreSteps /\ pc'[t] = "idle"
      /\ \A u \in Tasks \ {t} : /\ pc'[u] = pc[u] /\ arg'[u] = arg[u]
                                /\ copy'[u] = copy[u] /\ plan'[u] = plan[u]
      /\ refused' = refused \cup Missed(t)
    BY RefuseBase, FlagTypes
<1>1. ASSUME NEW u \in Tasks PROVE OpOK(u)'
  <2>1. CASE u = t
    BY <1>0, <2>1 DEF OpOK
  <2>2. CASE u # t
    BY <1>0, <2>2 DEF FlagInv, OpOK, SameButNames, In, Listed
  <2>3. QED
    BY <2>1, <2>2
<1>2. \A v \in Workspaces : LiveListed(v)' /\ (AgreesWithDocker(v)' <=> AgreesWithDocker(v))
    BY <1>0 DEF FlagInv, LiveListed, Listed, AgreesWithDocker
<1>3. Alone' /\ PlanOK'
    BY <1>0 DEF FlagInv, Alone, PlanOK, Passing, Workers
<1>4. ASSUME phase = "open", NEW v \in Workspaces PROVE CardOK(v)'
  <2>1. pc[t] = "start_error" => arg[t] \in refused'
    BY <1>0 DEF Missed
  <2>2. pc[t] # "start_up"
    BY <1>0 DEF StoreSteps
  <2>3. CardOK(v)
    BY <1>4 DEF FlagInv, BoardOK
  <2>4. QED
    BY <1>0, <1>2, <2>1, <2>2, <2>3 DEF CardOK, Listed, Workers
<1>5. refused \subseteq refused'
    BY <1>0
<1>6. ASSUME phase \in Leaving, NEW v \in Workspaces PROVE LeftOK(v)'
  <2>0. LeftOK(v)
    BY <1>6 DEF FlagInv, LeaveOK
  <2>1. LeftOK(v) /\ (Reported(v) => Reported(v)')
    BY <1>0, <2>0 DEF Reported, In, Listed
  <2>2. CASE t = Main
    <3>1. pc[Main] \in {"stop_load", "stop_mark", "stop_done"}
      BY <1>0, <1>6, <2>2 DEF FlagInv, BootInv, BaseInv, SessionOK, Stopping, StoreSteps, Leaving
    <3>2. arg[Main] = v => Reported(v) \/ v \in refused'
      BY <1>0, <2>2, <3>1 DEF Missed, FlagInv, OpOK, Reported
    <3>3. QED
      BY <1>0, <1>5, <2>1, <2>2, <3>2 DEF LeftOK
  <2>3. CASE t # Main
    BY <1>0, <1>5, <2>1, <2>3 DEF LeftOK
  <2>4. QED
    BY <2>2, <2>3
<1>7. BoardOK'
    BY <1>0, <1>4 DEF BoardOK
<1>8. LeaveOK'
  <2>1. ASSUME phase = "closed", NEW v \in Workspaces PROVE Reported(v)' \/ v \in refused'
    <3>1. Reported(v) \/ v \in refused
      BY <2>1 DEF FlagInv, LeaveOK
    <3>2. QED
      BY <1>0, <1>5, <3>1 DEF Reported, In, Listed
  <2>2. QED
    BY <1>0, <1>6, <2>1 DEF LeaveOK
<1>9. QED
    BY <1>1, <1>2, <1>3, <1>7, <1>8 DEF FlagInv

\* The end of a process leaves the table and Docker as they are.
LEMMA EndFlag ==
    ASSUME FlagInv, BootInv', Exit \/ Kill
    PROVE  FlagInv'
<1>0. /\ UNCHANGED <<rows, stack, refused, vanished>> /\ \A t \in Tasks : pc'[t] = "idle"
      /\ phase' \in {"off", "closed"}
      /\ phase' = "closed" => StopAllDone("exiting")
    BY DEF Exit, Kill, EndProcess, world, excuses
<1>1. LeaveOK'
    BY <1>0 DEF FlagInv, LeaveOK, LeftOK, Reported, In, Listed, StopAllDone, Leaving
<1>2. QED
    BY <1>0, <1>1 DEF FlagInv, PlanOK, Alone, BoardOK, LiveListed, OpOK, Listed, Passing, Workers

LEMMA NextFlag ==
    ASSUME Flagged, FlagInv, [LNext]_lvars
    PROVE  FlagInv'
<1>1. BootInv' /\ "ps" \notin Faults
    BY NextBoot DEF Flagged, FlagInv
<1>2. QED
    BY <1>1, TaskStepFlag, RequestFlag, PhaseFlag, DockerFlag, RefuseFlag, VanishFlag, EndFlag
       DEF LNext

LEMMA InitFlag == LInit => FlagInv
<1> SUFFICES ASSUME LInit PROVE FlagInv
    OBVIOUS
<1>1. \A w \in Workspaces : stack[w] = "down"
    BY DEF LInit, Init, Empty, Listed
<1>2. \A t \in Tasks : pc[t] = "idle"
    BY DEF LInit, Init
<1>3. BootInv /\ phase = "off"
    BY InitBase DEF LInit, BootInv, BootOK
<1>4. QED
    BY <1>1, <1>2, <1>3 DEF FlagInv, PlanOK, Alone, BoardOK, LeaveOK, LiveListed, OpOK, Leaving,
                            Workers, Passing

LEMMA FlagInvariance == Flagged => (LSpec => []FlagInv)
<1> SUFFICES ASSUME Flagged PROVE LSpec => []FlagInv
    OBVIOUS
<1>1. LInit => FlagInv
    BY InitFlag
<1>2. FlagInv /\ [LNext]_lvars => FlagInv'
    BY NextFlag
<1>3. QED
    BY <1>1, <1>2, PTL DEF LSpec

\* As long as the busy flag stands between the lifecycle calls and docker ps answers, no stack
\* is ever orphaned: what is up is listed and not STOPPED, for any workspaces, threads, kills
\* and failing starts and stops.
THEOREM NoStackIsOrphaned == Flagged => (LSpec => []LiveStackListed)
<1> SUFFICES ASSUME Flagged PROVE LSpec => []LiveStackListed
    OBVIOUS
<1>1. FlagInv => LiveStackListed
    BY DEF FlagInv, LiveStackListed, LiveListed
<1>2. QED
    BY <1>1, FlagInvariance, PTL

\* Then an idle board also tells the truth about what is up, whatever calls of Docker failed
\* and whenever the launcher was killed: a card can be wrong only for a row whose last mark, or
\* whose boot's reconcile, the store refused, or whose stack went by itself.
THEOREM IdleBoardIsTrue == Flagged => (LSpec => []BoardMatchesDocker)
<1> SUFFICES ASSUME Flagged PROVE LSpec => []BoardMatchesDocker
    OBVIOUS
<1>1. FlagInv => BoardMatchesDocker
    BY DEF FlagInv, BoardMatchesDocker, BoardOK, CardOK, Idle, Busy, ListedIds
<1>2. QED
    BY <1>1, FlagInvariance, PTL

\* And a launcher that closes leaves a stack up only under a listed row that says STOPPING, or
\* that the store would not let the last of its stop_all read or mark.
THEOREM CloseLeavesNothingUnsaid == Flagged => (LSpec => []ClosedOrReported)
<1> SUFFICES ASSUME Flagged PROVE LSpec => []ClosedOrReported
    OBVIOUS
<1>1. FlagInv => ClosedOrReported
    BY DEF FlagInv, ClosedOrReported, LeaveOK, LiveListed, Reported, In
<1>2. QED
    BY <1>1, FlagInvariance, PTL

-----------------------------------------------------------------------------
(* Behind the busy flag, and with no rename during a start: the atomic book *)

LEMMA CalmTask ==
    ASSUME CalmInv, FlagInv', NEW t \in Tasks, TaskStep(t)
    PROVE  CalmInv' /\ [Book!Next]_<<rows, Gone>>
<1>0. /\ IInv /\ BookInv /\ pc[t] # "idle"
      /\ rows \in Table /\ copy \in [Tasks -> Table] /\ pc \in [Tasks -> Step]
      /\ \A u \in Tasks \ {t} : pc[u] = "idle" /\ pc'[u] = "idle"
    BY OthersStay, OwnMove, FlagTypes DEF CalmInv, FlagInv, BootInv, BaseInv
<1>1. pc'[t] = "start_save" => StartLoad(t)
  <2> USE DEF Goto, Finish
  <2>1. CASE CreateLoad(t) \/ CreateAppend(t) \/ Delete(t) \/ RenameWorkspace(t)
    BY <1>0, <2>1 DEF CreateLoad, CreateAppend, Delete, RenameWorkspace
  <2>2. CASE ServeLoad(t) \/ ServeProbe(t) \/ ServeWait(t) \/ StartLoad(t) \/ StartSave(t)
    BY <1>0, <2>2 DEF ServeLoad, ServeProbe, ServeWait, StartSave
  <2>3. CASE StartUp(t) \/ StartWait(t) \/ StopDown(t) \/ SyncLoad(t) \/ Sync(t) \/ StopLoad(t)
    BY <1>0, <2>3 DEF StartUp, StartWait, StopDown, SyncLoad, Sync, StopLoad
  <2>4. CASE MarkRunning(t) \/ MarkError(t) \/ MarkStopping(t) \/ MarkStopped(t)
    BY <1>0, <2>4 DEF MarkRunning, MarkError, MarkStopping, MarkStopped, MutateState
  <2>5. CASE ListProjectStates(t) \/ ReconcileLoad(t) \/ ReconcileBlind(t) \/ ReconcileApply(t)
    BY <1>0, <2>5 DEF ListProjectStates, ReconcileLoad, ReconcileBlind, ReconcileApply
  <2>6. QED
    BY <2>1, <2>2, <2>3, <2>4, <2>5 DEF TaskStep
<1>2. StartLoad(t) /\ pc'[t] = "start_save" => copy'[t] = rows'
    BY <1>0 DEF StartLoad, Goto, Finish
<1>3. CalmInv'
    BY <1>0, <1>1, <1>2 DEF CalmInv
<1>4. CASE \E u \in Tasks : StartSave(u)
  <2>1. StartSave(t) /\ copy[t] = rows
    BY <1>0, <1>4 DEF StartSave, CalmInv
  <2>2. /\ UNCHANGED used
        /\ \A u \in Tasks : /\ Pending(u)' <=> Pending(u)
                            /\ Pending(u) => arg'[u] = arg[u]
    BY <1>0, <2>1, OtherStepsKeepPending DEF StartSave, CreateLoad, CreateAppend
  <2>3. /\ arg[t] \in Workspaces /\ Listed(rows, arg[t]) /\ rows[arg[t]] \in Row
        /\ rows' = [rows EXCEPT ![arg[t]] = [rows[arg[t]] EXCEPT !.state = "starting"]]
    BY <1>0, <2>1 DEF IInv, TaskOK, StartSave, SetState, Table, Listed
  <2>4. rows' \in Table
    BY TaskStepSafe, <1>0 DEF IInv, TypeOK
  <2>5. ASSUME NEW w \in Workspaces
        PROVE  /\ Listed(rows', w) <=> Listed(rows, w)
               /\ Listed(rows, w) => \E s \in State : rows'[w] = [rows[w] EXCEPT !.state = s]
    <3>1. CASE w = arg[t]
      <4>1. "starting" \in State /\ [rows[arg[t]] EXCEPT !.state = "starting"] \in Row
        BY <2>3 DEF Row, State
      <4>2. rows'[w] = [rows[w] EXCEPT !.state = "starting"]
        BY <1>0, <2>3, <3>1 DEF Table
      <4>3. QED
        BY <2>3, <3>1, <4>1, <4>2, NoRowAssumption DEF Listed
    <3>2. CASE w # arg[t]
      <4>1. rows'[w] = rows[w]
        BY <1>0, <2>3, <3>2 DEF Table
      <4>2. Listed(rows, w) => /\ rows[w].state \in State
                               /\ rows[w] = [rows[w] EXCEPT !.state = rows[w].state]
        BY <1>0 DEF Listed, Table, Row
      <4>3. QED
        BY <4>1, <4>2 DEF Listed
    <3>3. QED
      BY <3>1, <3>2
  <2>6. Book!Next
    BY <1>0, <2>2, <2>4, <2>5, StatesBook
  <2>7. QED
    BY <1>3, <2>6
<1>5. CASE ~\E u \in Tasks : StartSave(u)
    BY <1>0, <1>3, <1>5, TaskStepBook DEF BookStep
<1>6. QED
    BY <1>4, <1>5

\* The window, as long as it hands out an operation only when nothing is in flight.
LEMMA CalmRequest ==
    ASSUME Calm, CalmInv, FlagInv',
           \/ Boot
           \/ \E w \in Workspaces : StopNext(w)
           \/ \E g \in Gestures, t \in Tasks, w \in Workspaces : CardGesture(g, t, w)
           \/ \E t \in Tasks, w \in Workspaces : NewWorkspace(t, w)
    PROVE  CalmInv' /\ UNCHANGED <<rows, Gone>>
<1>0. /\ IInv /\ BookInv /\ ComposeOK /\ SessionOK /\ Main \in Tasks /\ pc \in [Tasks -> Step]
      /\ phase # "open" => \A t \in Workers : pc[t] = "idle"
    BY FlagTypes DEF CalmInv, FlagInv, BootInv, BaseInv, Alone
<1>1. ASSUME NEW t \in Tasks, NEW o \in Operations, NEW w, Request(t, o, w),
             w \in Workspaces \/ o = "reconcile", \A u \in Tasks : pc[u] = "idle"
      PROVE  CalmInv' /\ UNCHANGED <<rows, Gone>>
  <2>1. UNCHANGED <<rows, Gone>>
    BY <1>0, <1>1, RequestBook
  <2>2. pc' = [pc EXCEPT ![t] = FirstStep[o]] /\ FirstStep[o] # "start_save"
    BY <1>0, <1>1, RequestCompose
  <2>3. CalmInv'
    BY <1>0, <1>1, <2>2 DEF CalmInv
  <2>4. QED
    BY <2>1, <2>3
<1>2. CASE Boot
  <2>1. Request(Main, "reconcile", NoRow) /\ "reconcile" \in Operations
    BY <1>2 DEF Boot, Request
  <2>2. \A u \in Tasks : pc[u] = "idle"
    BY <1>0, <1>2 DEF Boot, SessionOK
  <2>3. QED
    BY <1>0, <1>1, <2>1, <2>2
<1>3. ASSUME NEW w \in Workspaces, StopNext(w)
      PROVE  CalmInv' /\ UNCHANGED <<rows, Gone>>
  <2>1. Request(Main, "halt", w) /\ "halt" \in Operations /\ pc[Main] = "idle"
    BY <1>3 DEF StopNext, Request
  <2>2. \A u \in Tasks : pc[u] = "idle"
    BY <1>0, <1>3, <2>1 DEF StopNext, Workers
  <2>3. QED
    BY <1>0, <1>1, <2>1, <2>2
<1>4. ASSUME NEW g \in Gestures, NEW t \in Tasks, NEW w \in Workspaces, CardGesture(g, t, w)
      PROVE  CalmInv' /\ UNCHANGED <<rows, Gone>>
  <2>1. PICK o \in Offered(g, rows[w].state) : Request(t, o, w)
    BY <1>4 DEF CardGesture
  <2>2. o \in Operations /\ pc[t] = "idle" /\ pc[Main] = "idle"
    BY <1>0, <1>4, <2>1 DEF Request, CardGesture, SessionOK
  <2>3. ~Busy \/ OneWorker
    BY <1>4, <2>1, OfferedOperations DEF CardGesture, Calm, Flagged
  <2>4. \A u \in Tasks : pc[u] = "idle"
    BY <1>4, <2>2, <2>3 DEF Busy, OneWorker, Workers, CardGesture
  <2>5. QED
    BY <1>1, <2>1, <2>2, <2>4
<1>5. ASSUME NEW t \in Tasks, NEW w \in Workspaces, NewWorkspace(t, w)
      PROVE  CalmInv' /\ UNCHANGED <<rows, Gone>>
  <2>1. /\ Request(t, "create", w) /\ "create" \in Operations
        /\ \A u \in Tasks : pc[u] = "idle"
    BY <1>0, <1>5 DEF NewWorkspace, Request, Busy, SessionOK, Workers
  <2>2. QED
    BY <1>1, <2>1
<1>6. QED
    BY <1>2, <1>3, <1>4, <1>5

\* A process that ends takes with it at most one creation that has its id: an id wasted.
LEMMA CalmEnd ==
    ASSUME CalmInv, FlagInv', Exit \/ Kill
    PROVE  CalmInv' /\ [Book!Next]_<<rows, Gone>>
<1>0. /\ BookInv /\ used \subseteq Workspaces
      /\ UNCHANGED <<rows, used>> /\ \A t \in Tasks : pc'[t] = "idle"
    BY FlagTypes DEF Exit, Kill, EndProcess, CalmInv, FlagInv, BootInv, BaseInv, BookInv, IInv,
                     TypeOK
<1>1. CalmInv'
    BY <1>0 DEF CalmInv
<1>2. Gone' = {w \in used : ~Listed(rows, w)}
    BY <1>0 DEF Gone, Listed
<1>3. CASE \A t \in Tasks : ~Pending(t)
  <2>1. Gone' = Gone
    BY <1>2, <1>3 DEF Gone, Pending
  <2>2. QED
    BY <1>0, <1>1, <2>1
<1>4. ASSUME NEW t \in Tasks, Pending(t)
      PROVE  CalmInv' /\ [Book!Next]_<<rows, Gone>>
  <2>1. /\ arg[t] \in used /\ ~Listed(rows, arg[t]) /\ arg[t] \in Workspaces
        /\ \A u \in Tasks : Pending(u) => u = t
    BY <1>0, <1>4 DEF BookInv, PendingOK, Known, Pending, CalmInv
  <2>2. Gone' = Gone \cup {arg[t]}
    BY <1>0, <1>2, <1>4, <2>1 DEF Gone, Pending
  <2>3. Book!Waste(arg[t])
    BY <1>0, <2>1, <2>2 DEF Book!Waste, Book!Listed, Listed
  <2>4. QED
    BY <1>1, <2>1, <2>3 DEF Book!Next
<1>5. QED
    BY <1>3, <1>4

LEMMA CalmNext ==
    ASSUME Calm, CalmInv, [LNext]_lvars
    PROVE  CalmInv' /\ [Book!Next]_<<rows, Gone>>
<1>0. FlagInv' /\ BookInv /\ BaseInv
    BY NextFlag DEF Calm, CalmInv, FlagInv, BootInv, BaseInv
<1>1. CASE \E t \in Tasks : Work(t)
    BY <1>0, <1>1, CalmTask DEF Work
<1>2. CASE \/ Boot
           \/ \E w \in Workspaces : StopNext(w)
           \/ \E g \in Gestures, t \in Tasks, w \in Workspaces : CardGesture(g, t, w)
           \/ \E t \in Tasks, w \in Workspaces : NewWorkspace(t, w)
    BY <1>0, <1>2, CalmRequest
<1>3. CASE Exit \/ Kill
    BY <1>0, <1>3, CalmEnd
<1>4. CASE ShowWindow \/ Signal \/ Close \/ Unwind \/ AtExit \/ UNCHANGED lvars
  <2>1. UNCHANGED vars
    BY <1>4 DEF ShowWindow, Signal, Close, Unwind, AtExit, StopAll, lvars
  <2>2. UNCHANGED <<rows, Gone>>
    BY <1>0, <2>1, UnchangedBook
  <2>3. QED
    BY <1>0, <2>1, <2>2 DEF CalmInv, vars
<1>5. ASSUME NEW w \in Workspaces, StackReady(w) \/ StackCrash(w) \/ StackGone(w)
      PROVE  CalmInv' /\ [Book!Next]_<<rows, Gone>>
  <2>1. UNCHANGED <<rows, Gone>>
    BY <1>0, <1>5, DockerBook
  <2>2. QED
    BY <1>0, <1>5, <2>1 DEF CalmInv, StackReady, StackCrash, StackGone, locals
<1>6. ASSUME NEW t \in Tasks, Refuse(t)
      PROVE  CalmInv' /\ [Book!Next]_<<rows, Gone>>
  <2>1. [Book!Next]_<<rows, Gone>>
    BY <1>0, <1>6, StoreFailsBook DEF Refuse
  <2>2. /\ UNCHANGED rows /\ pc'[t] = "idle"
        /\ \A u \in Tasks \ {t} : pc'[u] = pc[u] /\ copy'[u] = copy[u]
    BY <1>0, <1>6, RefuseBase DEF BaseInv, BookInv, IInv, TypeOK
  <2>3. QED
    BY <1>0, <2>1, <2>2 DEF CalmInv
<1>7. QED
    BY <1>1, <1>2, <1>3, <1>4, <1>5, <1>6 DEF LNext, Vanish

\* As long as the window hands out its operations one at a time, sessions over the manager
\* implement the atomic book: with full starts, kills and closes at any point, no creation,
\* rename or deletion is lost or undone, for any workspaces, ports, names and threads.
THEOREM SessionsKeepTheBook == Calm => (LSpec => ImplementsBook)
<1> SUFFICES ASSUME Calm PROVE LSpec => ImplementsBook
    OBVIOUS
<1>1. LInit => CalmInv /\ Book!Init
    BY InitFlag, InitBook DEF CalmInv, LInit, Init
<1>2. CalmInv /\ [LNext]_lvars => CalmInv' /\ [Book!Next]_<<rows, Gone>>
    BY CalmNext
<1>3. QED
    BY <1>1, <1>2, PTL DEF LSpec, ImplementsBook, Book!Spec

=============================================================================
