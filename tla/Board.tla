-------------------------------- MODULE Board --------------------------------
(***************************************************************************)
(* The window between the user and WorkspaceManager: the cached cards      *)
(* (gui/workspace_model.py), the gestures and modal menus and questions    *)
(* (gui/board.py, gui/window.py), the tasks on pool threads and the busy   *)
(* flag (gui/actions.py), and what the tasks post to the GUI thread's      *)
(* event queue (gui/notifier.py, queued signals).  Launcher has the        *)
(* manager's steps and takes this window as exact; here an operation is    *)
(* the commits and notifications it makes.                                 *)
(***************************************************************************)
EXTENDS Naturals, Sequences, FiniteSets

CONSTANTS
    Workspaces,
    Tasks,        \* pool threads
    NoRow,        \* no such workspace
    Uses,         \* gestures of an instance
    BoardFaults,  \* Docker calls that may fail
    MaxOverlaps   \* bound: tasks dispatched while another is under way, before the window settles

UseSet == {"pill", "header", "menu", "double_click", "inline_edit", "new"}
State == {"stopped", "starting", "running", "stopping", "error"}
ASSUME BoardAssumption ==
    /\ Uses \subseteq UseSet /\ BoardFaults \subseteq {"up", "down", "reconcile", "sync"}
    /\ MaxOverlaps \in Nat /\ NoRow \notin State

VARIABLES
    rows,        \* states of the committed workspaces
    up,          \* workspaces whose stack is up
    used,        \* workspaces created so far
    pc,          \* where each task is
    job,         \* the operation and the workspace of each task
    copy,        \* the rows a start has loaded and will save
    snap,        \* the row it will notify
    idle,        \* _end_busy: whether it took the last task off the count
    pending,     \* WorkspaceActions._pending
    queue,       \* events posted to the GUI thread
    cards,       \* WorkspaceListModel._rows
    busy,        \* MainWindow._busy
    modals,      \* nested event loops, the innermost last
    overlaps,    \* history: tasks dispatched while another was under way, since the window
                 \* last settled
    unlocked     \* history: one of them by a gesture that the busy flag does not lock

taskvars == <<pc, job, copy, snap, idle, pending>>
window == <<cards, busy, modals>>
history == <<overlaps, unlocked>>
bvars == <<rows, up, used, taskvars, queue, window, history>>

Job == [op : {"open", "stop", "delete", "rename", "create"}, on : Workspaces]
TaskStep == {"idle", "begin", "save", "tell", "docker", "tell_end", "tell_failed",
             "end", "emit", "fail", "emit_failed"}
Event == [kind : {"row"}, on : Workspaces, state : State \cup {NoRow}]
         \cup [kind : {"list", "idle", "failed"}]
Modal == [kind : {"menu", "confirm"}, on : Workspaces, state : State] \cup [kind : {"new", "failed"}]

NoJob == [op |-> "none", on |-> NoRow]
NoRows == [w \in Workspaces |-> NoRow]
Listed(w) == rows[w] # NoRow
Goto(t, s) == pc' = [pc EXCEPT ![t] = s]
At(t, s) == pc[t] = s
Post(events) == queue' = queue \o events

BInit ==
    /\ used \in SUBSET Workspaces /\ up \in SUBSET used
    /\ \E seen \in SUBSET up :  \* by the reconcile at startup
         rows = [w \in Workspaces |-> CASE w \in seen -> "running"
                                         [] w \in used \ seen -> "stopped"
                                         [] OTHER -> NoRow]
    /\ pc = [t \in Tasks |-> "idle"]
    /\ job = [t \in Tasks |-> NoJob]
    /\ copy = [t \in Tasks |-> NoRows] /\ snap = [t \in Tasks |-> NoRow] /\ idle = [t \in Tasks |-> FALSE] /\ pending = 0
    /\ queue = <<>> /\ cards = rows /\ busy = FALSE /\ modals = <<>> /\ overlaps = 0 /\ unlocked = FALSE

-----------------------------------------------------------------------------
(* A task: the operation, then done or fail *)

\* store.mutate on the task's row, to be notified afterwards.
Commit(t, s, next) ==
    /\ rows' = [rows EXCEPT ![job[t].on] = s]
    /\ snap' = [snap EXCEPT ![t] = s]
    /\ Goto(t, next)
NoCommit(t, next) == Goto(t, next) /\ UNCHANGED <<rows, snap>>

\* Mutant of MayDelete: the window has asked.
DeleteAsked(w) == Listed(w)
MayDelete(w) == rows[w] = "stopped"

\* What an operation finds: nothing to do, a refusal, or its first commit.  A start is
\* made unless Docker (or, when it does not answer, the row) says running, and commits by
\* saving all it has loaded.
Begin(t) ==
    LET w == job[t].on  o == job[t].op IN
    /\ At(t, "begin")
    /\ \/ o = "open" /\ Listed(w) /\ copy' = [copy EXCEPT ![t] = rows] /\ NoCommit(t, "save")
       \/ /\ UNCHANGED copy
          /\ \/ o = "open" /\ Listed(w) /\ (w \in up \/ rows[w] = "running") /\ NoCommit(t, "end")
             \/ o = "stop" /\ Listed(w) /\ rows[w] # "stopped" /\ Commit(t, "stopping", "tell")
             \/ o = "stop" /\ rows[w] = "stopped" /\ NoCommit(t, "end")
             \/ o = "delete" /\ MayDelete(w) /\ Commit(t, NoRow, "tell_end")
             \/ o = "rename" /\ Listed(w) /\ Commit(t, rows[w], "tell_end")
             \/ o = "create" /\ Commit(t, "stopped", "tell_end")
             \/ o \in {"open", "stop", "rename"} /\ ~Listed(w) /\ NoCommit(t, "fail")
             \/ o = "delete" /\ ~MayDelete(w) /\ NoCommit(t, "fail")
    /\ UNCHANGED <<up, used, job, idle, pending, queue, window, history>>

\* store.save of the loaded configuration, the workspace starting.
Save(t) ==
    /\ At(t, "save")
    /\ rows' = [copy[t] EXCEPT ![job[t].on] = "starting"]
    /\ snap' = [snap EXCEPT ![t] = "starting"] /\ copy' = [copy EXCEPT ![t] = NoRows]
    /\ Goto(t, "tell")
    /\ UNCHANGED <<up, used, job, idle, pending, queue, window, history>>

\* docker compose up and the readiness, or down; then the second commit.  A row that is
\* gone fails it.
Docker(t) ==
    LET w == job[t].on IN
    /\ At(t, "docker")
    /\ IF job[t].op = "open"
       THEN \/ up' = up \cup {w} /\ Listed(w) /\ Commit(t, "running", "tell_end")
            \/ /\ "up" \in BoardFaults /\ up' \in {up, up \cup {w}}
               /\ Listed(w) /\ Commit(t, "error", "tell_failed")
            \/ up' = up \cup {w} /\ ~Listed(w) /\ NoCommit(t, "fail")
       ELSE \/ up' = up \ {w} /\ Listed(w) /\ Commit(t, "stopped", "tell_end")
            \/ "down" \in BoardFaults /\ up' \in {up, up \ {w}} /\ NoCommit(t, "fail")
            \/ up' = up \ {w} /\ ~Listed(w) /\ NoCommit(t, "fail")
    /\ UNCHANGED <<used, job, copy, idle, pending, queue, window, history>>

\* The manager notifies: the row it committed, except that a start reads it again, or the
\* list.  A row that has gone meanwhile raises there.
RowEvent(t) ==
    [kind |-> "row", on |-> job[t].on,
     state |-> IF job[t].op = "open" /\ ~At(t, "tell") THEN rows[job[t].on] ELSE snap[t]]
\* Mutant of Told: a start that failed notifies nobody.
ToldOfSuccess(t) == At(t, "tell_end") /\ Listed(job[t].on)
Told(t) == Listed(job[t].on)
Tell(t) ==
    /\ \/ At(t, "tell") /\ Goto(t, "docker") /\ Post(<<RowEvent(t)>>)
       \/ /\ pc[t] \in {"tell_end", "tell_failed"}
          /\ Goto(t, IF job[t].op # "open" \/ (At(t, "tell_end") /\ Listed(job[t].on))
                     THEN "end" ELSE "fail")
          /\ CASE job[t].op \in {"create", "delete"} -> Post(<<[kind |-> "list"]>>)
               [] job[t].op = "open" /\ ~Told(t) -> UNCHANGED queue
               [] OTHER -> Post(<<RowEvent(t)>>)
    /\ snap' = [snap EXCEPT ![t] = NoRow]
    /\ UNCHANGED <<rows, up, used, job, copy, idle, pending, window, history>>

\* Mutant of CountsDown: a task that raised stays on the count.
CountsDownDone(t) == At(t, "end")
CountsDown(t) == TRUE

\* _end_busy under the lock; what it has to emit follows outside of it.
EndBusy(t) ==
    /\ pc[t] \in {"end", "fail"}
    /\ pending' = IF CountsDown(t) THEN IF pending > 0 THEN pending - 1 ELSE 0 ELSE pending
    /\ idle' = [idle EXCEPT ![t] = (pending' = 0)]
    /\ Goto(t, IF At(t, "end") THEN "emit" ELSE "emit_failed")
    /\ UNCHANGED <<rows, up, used, job, copy, snap, queue, window, history>>

\* busyChanged(False), and failed; created and ready only show something.
Emit(t) ==
    /\ pc[t] \in {"emit", "emit_failed"}
    /\ Post((IF idle[t] THEN <<[kind |-> "idle"]>> ELSE <<>>)
            \o (IF At(t, "emit_failed") THEN <<[kind |-> "failed"]>> ELSE <<>>))
    /\ Goto(t, "idle")
    /\ idle' = [idle EXCEPT ![t] = FALSE]
    /\ job' = [job EXCEPT ![t] = NoJob]
    /\ UNCHANGED <<rows, up, used, copy, snap, pending, window, history>>

Work(t) == Begin(t) \/ Save(t) \/ Docker(t) \/ Tell(t) \/ EndBusy(t) \/ Emit(t)

-----------------------------------------------------------------------------
(* The GUI thread *)

\* Mutant of Applied: an unknown row is ignored.
AppliedKnown(e) == IF cards[e.on] # NoRow THEN [cards EXCEPT ![e.on] = e.state] ELSE cards
\* apply_workspace: one card, or a reload for a row the model does not know.
Applied(e) == IF cards[e.on] # NoRow THEN [cards EXCEPT ![e.on] = e.state] ELSE rows

\* What the model holds afterwards: the one card, or the list read again.
Shown(e) == CASE e.kind = "row" -> Applied(e) [] e.kind = "list" -> rows [] OTHER -> cards

\* One posted event, also inside the event loop of a menu or a question.
Deliver ==
    LET e == Head(queue) IN
    /\ queue # <<>> /\ queue' = Tail(queue)
    /\ cards' = Shown(e)
    /\ busy' = (busy /\ e.kind # "idle")
    /\ modals' = IF e.kind = "failed" THEN Append(modals, [kind |-> "failed"]) ELSE modals
    /\ UNCHANGED <<rows, up, used, taskvars, history>>

\* Every task has ended and all it posted is delivered; the cards are right.
AtRest == queue = <<>> /\ \A t \in Tasks : pc[t] = "idle"
Settled == AtRest /\ cards = rows
UnderWay == \/ \E t \in Tasks : pc[t] # "idle"
            \/ \E i \in DOMAIN queue : queue[i].kind = "idle"

\* _dispatch: _begin_busy, whose signal is delivered at once, and the pool.
Dispatch(t, o, w, locked) ==
    /\ At(t, "idle")
    /\ Goto(t, "begin")
    /\ job' = [job EXCEPT ![t] = [op |-> o, on |-> w]]
    /\ pending' = pending + 1
    /\ busy' = TRUE
    /\ overlaps' = (IF Settled THEN 0 ELSE overlaps) + (IF UnderWay THEN 1 ELSE 0)
    /\ overlaps' <= MaxOverlaps
    /\ unlocked' = ((unlocked /\ ~Settled) \/ (UnderWay /\ ~locked))
    /\ UNCHANGED <<rows, up, copy, snap, idle, queue, cards>>

\* status.py, as Launcher has it.
CanStop(s) == s \in {"starting", "running", "error"}
CanOpen(s) == s \in {"stopped", "error", "running"}
Does(o, s) == (o = "open" /\ CanOpen(s)) \/ (o = "stop" /\ CanStop(s))

\* Mutant of Free: a card gesture takes its turn whatever runs.
AlwaysFree == TRUE
Free == ~busy

Use(g) == g \in Uses /\ modals = <<>>

\* The pill and the header button, refused while busy.
Pill(t, w) ==
    /\ Use("pill") /\ Free
    /\ \/ cards[w] = "running" /\ Dispatch(t, "stop", w, TRUE)
       \/ cards[w] \in {"stopped", "error"} /\ Dispatch(t, "open", w, TRUE)
StopButton(t, w) == Use("header") /\ Free /\ CanStop(cards[w]) /\ Dispatch(t, "stop", w, TRUE)
\* A double click and the editor of the name, which nothing refuses.
DoubleClick(t, w) == Use("double_click") /\ CanOpen(cards[w]) /\ Dispatch(t, "open", w, FALSE)
EditName(t, w) == Use("inline_edit") /\ Dispatch(t, "rename", w, FALSE)

Gesture(t, w) ==
    /\ cards[w] # NoRow
    /\ Pill(t, w) \/ StopButton(t, w) \/ DoubleClick(t, w) \/ EditName(t, w)
    /\ UNCHANGED <<used, modals>>

\* The menu, or the dialog of a creation, opens; the menu keeps the row it was built from.
OpenModal ==
    /\ \/ \E w \in Workspaces :
            /\ Use("menu") /\ Free /\ cards[w] # NoRow
            /\ modals' = <<[kind |-> "menu", on |-> w, state |-> cards[w]]>>
       \/ Use("new") /\ Free /\ modals' = <<[kind |-> "new"]>>
    /\ UNCHANGED <<rows, up, used, taskvars, queue, cards, busy, history>>

Top == modals[Len(modals)]
Pop == modals' = SubSeq(modals, 1, Len(modals) - 1)

\* It is dismissed, or a message is read.
Dismiss ==
    /\ modals # <<>> /\ Pop
    /\ UNCHANGED <<rows, up, used, taskvars, queue, cards, busy, history>>

\* An entry of the menu: delete asks first; the others are refused by now if a task runs.
\* The question and the dialog of a creation are not: they were opened when none did.
Answer(t) ==
    /\ modals # <<>>
    /\ \/ /\ Top.kind = "menu" /\ Top.state = "stopped"
          /\ modals' = [modals EXCEPT ![Len(modals)] = [Top EXCEPT !.kind = "confirm"]]
          /\ UNCHANGED <<rows, up, used, taskvars, queue, cards, busy, history>>
       \/ /\ Top.kind = "menu" /\ Free /\ Pop /\ UNCHANGED used
          /\ \E o \in {"open", "stop"} : Does(o, Top.state) /\ Dispatch(t, o, Top.on, TRUE)
       \/ Top.kind = "confirm" /\ Pop /\ Dispatch(t, "delete", Top.on, TRUE) /\ UNCHANGED used
       \/ /\ Top.kind = "new" /\ Pop
          /\ \E w \in Workspaces \ used : used' = used \cup {w} /\ Dispatch(t, "create", w, TRUE)

GuiNext == Deliver \/ OpenModal \/ Dismiss \/ \E t \in Tasks : Answer(t) \/ \E w \in Workspaces : Gesture(t, w)
BNext == GuiNext \/ \E t \in Tasks : Work(t)
BSpec == BInit /\ [][BNext]_bvars

-----------------------------------------------------------------------------
(* Properties *)

BTypeOK ==
    /\ rows \in [Workspaces -> State \cup {NoRow}] /\ up \subseteq Workspaces /\ used \subseteq Workspaces
    /\ pc \in [Tasks -> TaskStep] /\ job \in [Tasks -> Job \cup {NoJob}]
    /\ copy \in [Tasks -> [Workspaces -> State \cup {NoRow}]]
    /\ snap \in [Tasks -> State \cup {NoRow}] /\ idle \in [Tasks -> BOOLEAN]
    /\ queue \in Seq(Event) /\ cards \in [Workspaces -> State \cup {NoRow}]
    /\ busy \in BOOLEAN /\ modals \in Seq(Modal) /\ overlaps \in 0..MaxOverlaps /\ unlocked \in BOOLEAN
    /\ pending = Cardinality({t \in Tasks : pc[t] \notin {"idle", "emit", "emit_failed"}})

\* The controls come back: when every task has ended and everything it posted is delivered,
\* nothing is locked, whatever overlapped or failed (_end_busy, _on_busy).
UnlockedAtRest == AtRest => ~busy

\* Nothing but a double click or the editor of a name starts a task while another is under
\* way, although menus and questions opened before it act without looking again; and as
\* long as neither has, the window is locked for as long as a task works (_run).
LockedWhileWorking == ~unlocked => overlaps = 0 /\ (pending > 0 => busy)

\* ... and, once everything is delivered, every card shows its committed row, although each
\* notification carries a row of its own (apply_workspace, refresh).
CardsShowRows == overlaps = 0 /\ AtRest => cards = rows

\* A question asked of an old card never removes a workspace that is not stopped
\* (_confirm_delete, delete); only a start that saves an older configuration may lose one.
DeletedWasStopped ==
    [][\A w \in Workspaces :
          Listed(w) /\ rows'[w] = NoRow /\ rows[w] # "stopped" => \E t \in Tasks : Save(t)]_bvars

\* The same without the condition.
LockedWheneverWorking == pending > 0 => busy
CardsAlwaysShowRows == AtRest => cards = rows

=============================================================================
