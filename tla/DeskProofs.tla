------------------------------ MODULE DeskProofs ------------------------------
(***************************************************************************)
(* Board and CloseSequence, for any workspaces, tasks, gestures and        *)
(* faults: the window is unlocked when everything has ended, a delete      *)
(* takes no workspace that is not stopped, a close that reports itself     *)
(* complete leaves nothing up, and no workspace is brought down before     *)
(* its workflows are saved.                                                *)
(***************************************************************************)
EXTENDS CloseSequence, FiniteSetTheorems, TLAPS

-----------------------------------------------------------------------------
(* Board: what its variables hold *)

Table == [Workspaces -> State \cup {NoRow}]

\* A task that has begun is about a workspace; what is posted and what is asked are, too.
BoardOK ==
    /\ rows \in Table /\ copy \in [Tasks -> Table] /\ cards \in Table
    /\ snap \in [Tasks -> State \cup {NoRow}]
    /\ pc \in [Tasks -> TaskStep] /\ idle \in [Tasks -> BOOLEAN] /\ busy \in BOOLEAN
    /\ job \in [Tasks -> Job \cup {NoJob}] /\ \A t \in Tasks : pc[t] # "idle" => job[t] \in Job
    /\ queue \in Seq(Event) /\ modals \in Seq(Modal)

LEMMA BoardOKInit == BInit => BoardOK
<1>1. SUFFICES ASSUME BInit PROVE BoardOK
  OBVIOUS
<1>2. rows \in Table /\ cards \in Table BY <1>1 DEF BInit, Table, State
<1>3. copy \in [Tasks -> Table] BY <1>1 DEF BInit, NoRows, Table
<1>4. idle \in [Tasks -> BOOLEAN] /\ busy \in BOOLEAN BY <1>1 DEF BInit
<1>5. /\ snap \in [Tasks -> State \cup {NoRow}] /\ pc \in [Tasks -> TaskStep]
      /\ job \in [Tasks -> Job \cup {NoJob}] /\ \A t \in Tasks : pc[t] = "idle"
  BY <1>1 DEF BInit, TaskStep
<1>6. queue \in Seq(Event) /\ modals \in Seq(Modal) BY <1>1 DEF BInit
<1>7. QED BY <1>2, <1>3, <1>4, <1>5, <1>6 DEF BoardOK

LEMMA JobOf == ASSUME BoardOK, NEW t \in Tasks, pc[t] # "idle"
               PROVE  job[t].op \in {"open", "stop", "delete", "rename", "create"} /\ job[t].on \in Workspaces
BY DEF BoardOK, Job

LEMMA CommitKeeps ==
    ASSUME BoardOK, NEW t \in Tasks, NEW s \in State \cup {NoRow}, NEW step \in TaskStep \ {"idle"},
           pc[t] # "idle", Commit(t, s, step) \/ NoCommit(t, step)
    PROVE  rows' \in Table /\ snap' \in [Tasks -> State \cup {NoRow}] /\ pc' \in [Tasks -> TaskStep]
           /\ \A u \in Tasks : pc'[u] # "idle" => pc[u] # "idle"
<1>1. rows' \in Table
  <2>1. CASE rows' = rows BY <2>1 DEF BoardOK
  <2>2. CASE rows' = [rows EXCEPT ![job[t].on] = s] BY <2>2, JobOf DEF BoardOK, Table
  <2>3. QED BY <2>1, <2>2 DEF Commit, NoCommit
<1>2. snap' \in [Tasks -> State \cup {NoRow}] BY DEF Commit, NoCommit, BoardOK
<1>3. pc' = [pc EXCEPT ![t] = step] BY DEF Commit, NoCommit, Goto
<1>4. pc' \in [Tasks -> TaskStep] /\ \A u \in Tasks : pc'[u] # "idle" => pc[u] # "idle"
  BY <1>3 DEF BoardOK
<1>5. QED BY <1>1, <1>2, <1>4

LEMMA AppendIs ==
    ASSUME NEW S, NEW q \in Seq(S), NEW a \in S
    PROVE  /\ q \o <<a>> = Append(q, a) /\ q \o <<a>> \in Seq(S) /\ Append(q, a) \in Seq(S)
           /\ <<a>> \o <<>> = <<a>> /\ <<>> \o <<a>> = <<a>> /\ q \o (<<>> \o <<>>) = q
           /\ Append(q, a)[Len(q) + 1] = a /\ Len(Append(q, a)) = Len(q) + 1
           /\ \A i \in 1..Len(q) : Append(q, a)[i] = q[i]
OBVIOUS

LEMMA ExceptKeeps ==
    ASSUME NEW S, NEW q \in Seq(S), NEW i \in 1..Len(q), NEW a \in S
    PROVE  [q EXCEPT ![i] = a] \in Seq(S)
<1>1. PICK n \in Nat : q \in [1..n -> S] BY DEF Seq
<1>2. [q EXCEPT ![i] = a] \in [1..n -> S] BY <1>1
<1>3. QED BY <1>2

LEMMA AppendTwo ==
    ASSUME NEW S, NEW q \in Seq(S), NEW a \in S, NEW b \in S
    PROVE  q \o (<<a>> \o <<b>>) = Append(Append(q, a), b)
OBVIOUS

LEMMA BeginKeeps == ASSUME BoardOK, NEW t \in Tasks, Begin(t) PROVE BoardOK'
<1>1. pc[t] # "idle" BY DEF Begin, At
<1>2. copy' \in [Tasks -> Table] BY DEF Begin, BoardOK
<1>3. \E s \in State \cup {NoRow}, step \in TaskStep \ {"idle"} : Commit(t, s, step) \/ NoCommit(t, step)
  <2>1. /\ job[t].on \in Workspaces /\ rows[job[t].on] \in State \cup {NoRow}
        /\ "stopping" \in State /\ "stopped" \in State
        /\ {"save", "end", "tell", "tell_end", "fail"} \subseteq TaskStep \ {"idle"}
    BY <1>1, JobOf DEF BoardOK, Table, State, TaskStep
  <2>2. QED BY <2>1 DEF Begin
<1>4. rows' \in Table /\ snap' \in [Tasks -> State \cup {NoRow}] /\ pc' \in [Tasks -> TaskStep]
      /\ \A u \in Tasks : pc'[u] # "idle" => pc[u] # "idle"
  BY <1>1, <1>3, CommitKeeps
<1>5. UNCHANGED <<job, idle, queue, cards, busy, modals>> BY DEF Begin, window
<1>6. QED BY <1>2, <1>4, <1>5 DEF BoardOK

LEMMA SaveKeeps == ASSUME BoardOK, NEW t \in Tasks, Save(t) PROVE BoardOK'
<1>1. pc[t] # "idle" /\ job[t].on \in Workspaces BY JobOf DEF Save, At
<1>2. rows' \in Table BY <1>1 DEF Save, BoardOK, Table, State
<1>3. NoRows \in Table BY DEF NoRows, Table
<1>4. QED BY <1>1, <1>2, <1>3 DEF Save, Goto, BoardOK, State, TaskStep, window

LEMMA DockerKeeps == ASSUME BoardOK, NEW t \in Tasks, Docker(t) PROVE BoardOK'
<1>1. pc[t] # "idle" BY DEF Docker, At
<1>2. \E s \in State \cup {NoRow}, step \in TaskStep \ {"idle"} : Commit(t, s, step) \/ NoCommit(t, step)
  <2>1. {"running", "error", "stopped"} \subseteq State /\ {"tell_end", "tell_failed", "fail"} \subseteq TaskStep \ {"idle"}
    BY DEF State, TaskStep
  <2>2. QED BY <2>1 DEF Docker
<1>3. rows' \in Table /\ snap' \in [Tasks -> State \cup {NoRow}] /\ pc' \in [Tasks -> TaskStep]
      /\ \A u \in Tasks : pc'[u] # "idle" => pc[u] # "idle"
  BY <1>1, <1>2, CommitKeeps
<1>4. QED BY <1>3 DEF Docker, BoardOK, window

LEMMA TellKeeps ==
    ASSUME BoardOK, NEW t \in Tasks, Tell(t)
    PROVE  BoardOK' /\ \E e \in Event : e.kind # "idle" /\ (queue' = queue \/ queue' = Append(queue, e))
<1>1. pc[t] # "idle" BY DEF Tell, At
<1>2. RowEvent(t) \in Event /\ RowEvent(t).kind # "idle" BY <1>1, JobOf DEF RowEvent, BoardOK, Table, Event
<1>3. [kind |-> "list"] \in Event /\ [kind |-> "list"].kind # "idle" BY DEF Event
<1>4. queue' = queue \/ queue' = queue \o <<RowEvent(t)>> \/ queue' = queue \o <<[kind |-> "list"]>>
  BY DEF Tell, Post
<1>5. \E e \in Event : e.kind # "idle" /\ (queue' = queue \/ queue' = Append(queue, e))
  BY <1>2, <1>3, <1>4, AppendIs DEF BoardOK
<1>6. queue' \in Seq(Event) BY <1>5, AppendIs DEF BoardOK
<1>7. pc' \in [Tasks -> TaskStep] /\ \A u \in Tasks : pc'[u] # "idle" => pc[u] # "idle"
  BY <1>1 DEF Tell, Goto, BoardOK, TaskStep
<1>8. QED BY <1>5, <1>6, <1>7 DEF Tell, BoardOK, window

LEMMA EndBusyKeeps == ASSUME BoardOK, NEW t \in Tasks, EndBusy(t) PROVE BoardOK'
<1>1. pc[t] # "idle" BY DEF EndBusy
<1>2. QED BY <1>1 DEF EndBusy, Goto, BoardOK, TaskStep, window

\* What a task posts when it has ended.
LEMMA EmitKeeps ==
    ASSUME BoardOK, NEW t \in Tasks, Emit(t)
    PROVE  /\ BoardOK'
           /\ Len(queue') >= Len(queue) /\ \A i \in 1..Len(queue) : queue'[i] = queue[i]
           /\ idle[t] => queue'[Len(queue) + 1].kind = "idle" /\ Len(queue) + 1 \in 1..Len(queue')
           /\ \A i \in 1..Len(queue') : i > Len(queue) =>
                 \/ queue'[i].kind = "failed"
                 \/ queue'[i].kind = "idle" /\ i = Len(queue) + 1
<1> DEFINE a == [kind |-> "idle"]
           b == [kind |-> "failed"]
<1>1. a \in Event /\ b \in Event BY DEF Event
<1>2. \/ idle[t] /\ queue' = queue \o (<<a>> \o <<b>>)
      \/ idle[t] /\ queue' = queue \o (<<a>> \o <<>>)
      \/ ~idle[t] /\ queue' = queue \o (<<>> \o <<b>>)
      \/ ~idle[t] /\ queue' = queue \o (<<>> \o <<>>)
  BY DEF Emit, Post, BoardOK
<1>3. queue \in Seq(Event) BY DEF BoardOK
<1>4. Append(queue, a) \in Seq(Event) BY <1>1, <1>3, AppendIs
<1>5. \/ idle[t] /\ queue' = Append(Append(queue, a), b)
      \/ idle[t] /\ queue' = Append(queue, a)
      \/ ~idle[t] /\ queue' = Append(queue, b)
      \/ ~idle[t] /\ queue' = queue
  BY <1>1, <1>2, <1>3, AppendIs, AppendTwo
<1>6. queue' \in Seq(Event) /\ Len(queue') >= Len(queue) /\ \A i \in 1..Len(queue) : queue'[i] = queue[i]
  <2>1. CASE queue' = Append(Append(queue, a), b) BY <1>1, <1>3, <1>4, <2>1
  <2>2. CASE queue' = Append(queue, a) BY <1>1, <1>3, <2>2
  <2>3. CASE queue' = Append(queue, b) BY <1>1, <1>3, <2>3
  <2>4. CASE queue' = queue BY <1>3, <2>4
  <2>5. QED BY <1>5, <2>1, <2>2, <2>3, <2>4
<1>7. ASSUME idle[t] PROVE queue'[Len(queue) + 1].kind = "idle" /\ Len(queue) + 1 \in 1..Len(queue')
  <2>1. queue'[Len(queue) + 1] = a /\ Len(queue') >= Len(queue) + 1
    BY <1>1, <1>3, <1>4, <1>5, <1>7
  <2>2. QED BY <1>3, <2>1
<1>8. \A i \in 1..Len(queue') : i > Len(queue) =>
         \/ queue'[i].kind = "failed"
         \/ queue'[i].kind = "idle" /\ i = Len(queue) + 1
  <2>1. CASE queue' = Append(Append(queue, a), b) BY <1>1, <1>3, <1>4, <2>1
  <2>2. CASE queue' = Append(queue, a) BY <1>1, <1>3, <2>2
  <2>3. CASE queue' = Append(queue, b) BY <1>1, <1>3, <2>3
  <2>4. CASE queue' = queue BY <1>3, <2>4
  <2>5. QED BY <1>5, <2>1, <2>2, <2>3, <2>4
<1>9. BoardOK' BY <1>6 DEF Emit, Goto, BoardOK, TaskStep, window
<1>10. QED BY <1>6, <1>7, <1>8, <1>9

LEMMA WorkKeeps == ASSUME BoardOK, NEW t \in Tasks, Work(t) PROVE BoardOK'
BY BeginKeeps, SaveKeeps, DockerKeeps, TellKeeps, EndBusyKeeps, EmitKeeps DEF Work

\* A task is dispatched for a workspace and one of the operations.
LEMMA DispatchKeeps ==
    ASSUME BoardOK, NEW t \in Tasks, NEW o \in {"open", "stop", "delete", "rename", "create"},
           NEW w \in Workspaces, NEW locked, Dispatch(t, o, w, locked), modals' \in Seq(Modal)
    PROVE  BoardOK'
<1>1. [op |-> o, on |-> w] \in Job BY DEF Job
<1>2. job' \in [Tasks -> Job \cup {NoJob}] /\ pc' \in [Tasks -> TaskStep]
      /\ \A u \in Tasks : pc'[u] # "idle" => job'[u] \in Job
  BY <1>1 DEF Dispatch, Goto, BoardOK, TaskStep
<1>3. UNCHANGED <<rows, copy, cards, snap, idle, queue>> /\ busy' \in BOOLEAN BY DEF Dispatch
<1>4. QED BY <1>2, <1>3 DEF BoardOK

LEMMA DeliverKeeps == BoardOK /\ Deliver => BoardOK'
<1>1. SUFFICES ASSUME BoardOK, Deliver PROVE BoardOK'
  OBVIOUS
<1>2. queue \in Seq(Event) /\ queue # <<>> /\ queue' = Tail(queue) BY <1>1 DEF BoardOK, Deliver
<1>3. Head(queue) \in Event /\ queue' \in Seq(Event) BY <1>2
<1>4. cards' \in Table
  <2>1. CASE Head(queue).kind = "row"
    <3>1. Head(queue).on \in Workspaces /\ Head(queue).state \in State \cup {NoRow}
      BY <1>3, <2>1 DEF Event
    <3>2. cards' = Applied(Head(queue)) BY <1>1, <2>1 DEF Deliver, Shown
    <3>3. QED BY <1>1, <3>1, <3>2 DEF Applied, BoardOK, Table
  <2>2. CASE Head(queue).kind = "list" BY <1>1, <2>2 DEF Deliver, Shown, BoardOK
  <2>3. CASE Head(queue).kind \notin {"row", "list"} BY <1>1, <2>3 DEF Deliver, Shown, BoardOK
  <2>4. QED BY <2>1, <2>2, <2>3
<1>5. modals' \in Seq(Modal)
  <2>1. [kind |-> "failed"] \in Modal BY DEF Modal
  <2>2. QED BY <1>1, <2>1, AppendIs DEF Deliver, BoardOK
<1>6. UNCHANGED <<rows, copy, snap, pc, idle, job>> /\ busy' \in BOOLEAN BY <1>1 DEF Deliver, taskvars
<1>7. QED BY <1>1, <1>3, <1>4, <1>5, <1>6 DEF BoardOK

LEMMA PrefixIs ==
    ASSUME NEW S, NEW q \in Seq(S), NEW n \in 0..Len(q)
    PROVE  Len(SubSeq(q, 1, n)) = n /\ \A i \in 1..n : SubSeq(q, 1, n)[i] = q[i]
OBVIOUS

LEMMA TopIs == ASSUME BoardOK, modals # <<>> PROVE Top \in Modal /\ Len(modals) \in 1..Len(modals)
BY DEF BoardOK, Top

LEMMA PopKeeps == ASSUME BoardOK, modals # <<>>, Pop PROVE modals' \in Seq(Modal)
<1>1. modals \in Seq(Modal) /\ Len(modals) \in Nat \ {0} BY DEF BoardOK
<1>2. modals' = SubSeq(modals, 1, Len(modals) - 1) BY DEF Pop
<1>3. QED BY <1>1, <1>2

LEMMA AnswerKeeps == ASSUME BoardOK, NEW t \in Tasks, Answer(t) PROVE BoardOK'
<1>1. modals # <<>> /\ Top \in Modal BY TopIs DEF Answer
<1>2. CASE /\ Top.kind = "menu" /\ Top.state = "stopped"
           /\ modals' = [modals EXCEPT ![Len(modals)] = [Top EXCEPT !.kind = "confirm"]]
           /\ UNCHANGED <<rows, up, used, taskvars, queue, cards, busy, history>>
  <2>1. [Top EXCEPT !.kind = "confirm"] \in Modal BY <1>1, <1>2 DEF Modal
  <2>2. modals \in Seq(Modal) /\ Len(modals) \in 1..Len(modals) BY <1>1, TopIs DEF BoardOK
  <2>3. modals' \in Seq(Modal) BY <1>2, <2>1, <2>2, ExceptKeeps
  <2>4. QED BY <1>2, <2>3 DEF BoardOK, taskvars
<1>3. CASE Pop /\ \E o \in {"open", "stop"} : Top.kind = "menu" /\ Dispatch(t, o, Top.on, TRUE)
  <2>1. Top.on \in Workspaces BY <1>1, <1>3 DEF Modal
  <2>2. QED BY <1>1, <1>3, <2>1, PopKeeps, DispatchKeeps
<1>4. CASE Pop /\ Top.kind = "confirm" /\ Dispatch(t, "delete", Top.on, TRUE)
  <2>1. Top.on \in Workspaces BY <1>1, <1>4 DEF Modal
  <2>2. QED BY <1>1, <1>4, <2>1, PopKeeps, DispatchKeeps
<1>5. CASE Pop /\ \E w \in Workspaces \ used : Dispatch(t, "create", w, TRUE)
  BY <1>1, <1>5, PopKeeps, DispatchKeeps
<1>6. QED BY <1>2, <1>3, <1>4, <1>5 DEF Answer

LEMMA GestureKeeps == ASSUME BoardOK, NEW t \in Tasks, NEW w \in Workspaces, Gesture(t, w) PROVE BoardOK'
<1>1. modals' \in Seq(Modal) BY DEF Gesture, BoardOK
<1>2. \E o \in {"open", "stop", "delete", "rename", "create"}, locked \in BOOLEAN : Dispatch(t, o, w, locked)
  BY DEF Gesture, Pill, StopButton, DoubleClick, EditName
<1>3. QED BY <1>1, <1>2, DispatchKeeps

LEMMA OpenModalKeeps == BoardOK /\ OpenModal => BoardOK'
<1>1. SUFFICES ASSUME BoardOK, OpenModal PROVE BoardOK'
  OBVIOUS
<1>2. modals' \in Seq(Modal)
  <2>1. CASE \E w \in Workspaces :
               cards[w] # NoRow /\ modals' = <<[kind |-> "menu", on |-> w, state |-> cards[w]]>>
    <3>1. PICK w \in Workspaces :
               cards[w] # NoRow /\ modals' = <<[kind |-> "menu", on |-> w, state |-> cards[w]]>>
      BY <2>1
    <3>2. [kind |-> "menu", on |-> w, state |-> cards[w]] \in Modal BY <1>1, <3>1 DEF Modal, BoardOK, Table
    <3>3. QED BY <3>1, <3>2
  <2>2. CASE modals' = <<[kind |-> "new"]>>
    <3>1. [kind |-> "new"] \in Modal BY DEF Modal
    <3>2. QED BY <2>2, <3>1
  <2>3. QED BY <1>1, <2>1, <2>2 DEF OpenModal
<1>3. QED BY <1>1, <1>2 DEF OpenModal, BoardOK, taskvars

LEMMA BoardStep == BoardOK /\ BNext => BoardOK'
<1>1. SUFFICES ASSUME BoardOK, BNext PROVE BoardOK'
  OBVIOUS
<1>2. CASE Dismiss BY <1>1, <1>2, PopKeeps DEF Dismiss, BoardOK, taskvars
<1>3. QED BY <1>1, <1>2, WorkKeeps, DeliverKeeps, OpenModalKeeps, AnswerKeeps, GestureKeeps DEF BNext, GuiNext

-----------------------------------------------------------------------------
(* Board: the controls come back *)

AtWork == {t \in Tasks : pc[t] \notin {"idle", "emit", "emit_failed"}}

\* The count is of the tasks at work, and a locked window has a reason to come unlocked: a
\* task at work, one that is about to say that it was the last, or its event.
Counted == pending = Cardinality(AtWork)
LockHasReason ==
    busy => \/ AtWork # {}
            \/ \E t \in Tasks : pc[t] \in {"emit", "emit_failed"} /\ idle[t]
            \/ \E i \in 1..Len(queue) : queue[i].kind = "idle"
UnlockInv == BoardOK /\ Counted /\ LockHasReason

LEMMA UnlockInit == BInit => UnlockInv
<1>1. SUFFICES ASSUME BInit PROVE UnlockInv
  OBVIOUS
<1>2. AtWork = {} BY <1>1 DEF BInit, AtWork
<1>3. Counted BY <1>1, <1>2, FS_EmptySet DEF BInit, Counted
<1>4. QED BY <1>1, <1>3, BoardOKInit DEF BInit, UnlockInv, LockHasReason

\* A task that goes on with its work changes neither the count nor the reason.
LEMMA GoesOnWorking ==
    ASSUME UnlockInv, NEW t \in Tasks, NEW s \in TaskStep \ {"idle", "emit", "emit_failed"},
           t \in AtWork, Goto(t, s), UNCHANGED <<pending, busy>>, BoardOK'
    PROVE  UnlockInv'
<1>1. AtWork' = AtWork BY DEF AtWork, Goto, UnlockInv, BoardOK
<1>2. QED BY <1>1 DEF UnlockInv, Counted, LockHasReason

LEMMA WorkStepsGoOn ==
    ASSUME UnlockInv, NEW t \in Tasks, Begin(t) \/ Save(t) \/ Docker(t) \/ Tell(t)
    PROVE  UnlockInv'
<1>1. BoardOK' BY WorkKeeps DEF UnlockInv, Work
<1>2. t \in AtWork BY DEF AtWork, Begin, Save, Docker, Tell, At
<1>3. UNCHANGED <<pending, busy>> BY DEF Begin, Save, Docker, Tell, window
<1>4. {"save", "tell", "docker", "tell_end", "tell_failed", "end", "fail"} \subseteq TaskStep \ {"idle", "emit", "emit_failed"}
  BY DEF TaskStep
<1>5. \E s \in TaskStep \ {"idle", "emit", "emit_failed"} : Goto(t, s)
  <2>1. CASE Begin(t) BY <1>4, <2>1 DEF Begin, Commit, NoCommit
  <2>2. CASE Save(t) BY <1>4, <2>2 DEF Save
  <2>3. CASE Docker(t) BY <1>4, <2>3 DEF Docker, Commit, NoCommit
  <2>4. CASE Tell(t) BY <1>4, <2>4 DEF Tell
  <2>5. QED BY <2>1, <2>2, <2>3, <2>4
<1>6. QED BY <1>1, <1>2, <1>3, <1>5, GoesOnWorking

LEMMA EndBusyUnlocks ==
    ASSUME IsFiniteSet(Tasks), UnlockInv, NEW t \in Tasks, EndBusy(t)
    PROVE  UnlockInv'
<1>1. BoardOK' BY EndBusyKeeps DEF UnlockInv
<1>2. t \in AtWork /\ AtWork' = AtWork \ {t}
  BY DEF EndBusy, Goto, AtWork, UnlockInv, BoardOK
<1>3. IsFiniteSet(AtWork) BY FS_Subset DEF AtWork
<1>4. Cardinality(AtWork') = Cardinality(AtWork) - 1 /\ Cardinality(AtWork) \in Nat /\ Cardinality(AtWork') \in Nat
  BY <1>2, <1>3, FS_RemoveElement, FS_CardinalityType
<1>5. pending' = pending - 1 /\ Counted'
  BY <1>4 DEF EndBusy, CountsDown, UnlockInv, Counted
<1>6. CASE pending' = 0
  BY <1>1, <1>5, <1>6 DEF EndBusy, Goto, UnlockInv, BoardOK, LockHasReason
<1>7. CASE pending' # 0
  <2>1. AtWork' # {} BY <1>5, <1>7, FS_EmptySet DEF Counted
  <2>2. QED BY <1>1, <1>5, <2>1 DEF UnlockInv, LockHasReason
<1>8. QED BY <1>6, <1>7

LEMMA EmitUnlocks == ASSUME UnlockInv, NEW t \in Tasks, Emit(t) PROVE UnlockInv'
<1>1. /\ BoardOK'
      /\ Len(queue') >= Len(queue) /\ \A i \in 1..Len(queue) : queue'[i] = queue[i]
      /\ idle[t] => queue'[Len(queue) + 1].kind = "idle" /\ Len(queue) + 1 \in 1..Len(queue')
  BY EmitKeeps DEF UnlockInv
<1>2. AtWork' = AtWork BY DEF Emit, Goto, AtWork, UnlockInv, BoardOK
<1>3. UNCHANGED <<pending, busy>> BY DEF Emit, window
<1>4. LockHasReason'
  <2>1. SUFFICES ASSUME busy PROVE LockHasReason'
    BY <1>3 DEF LockHasReason
  <2>2. CASE AtWork # {} BY <1>2, <2>2 DEF LockHasReason
  <2>3. CASE \E u \in Tasks : pc[u] \in {"emit", "emit_failed"} /\ idle[u]
    <3>1. PICK u \in Tasks : pc[u] \in {"emit", "emit_failed"} /\ idle[u] BY <2>3
    <3>2. CASE u = t BY <1>1, <3>1, <3>2 DEF LockHasReason
    <3>3. CASE u # t BY <3>1, <3>3 DEF Emit, Goto, UnlockInv, BoardOK, LockHasReason
    <3>4. QED BY <3>2, <3>3
  <2>4. CASE \E i \in 1..Len(queue) : queue[i].kind = "idle"
    <3>1. PICK i \in 1..Len(queue) : queue[i].kind = "idle" BY <2>4
    <3>2. Len(queue) \in Nat /\ Len(queue') \in Nat BY <1>1 DEF UnlockInv, BoardOK
    <3>3. i \in 1..Len(queue') /\ queue'[i].kind = "idle" BY <1>1, <3>1, <3>2
    <3>4. QED BY <3>3 DEF LockHasReason
  <2>5. QED BY <2>1, <2>2, <2>3, <2>4 DEF UnlockInv, LockHasReason
<1>5. QED BY <1>1, <1>2, <1>3, <1>4 DEF UnlockInv, Counted

LEMMA DeliverUnlocks == UnlockInv /\ Deliver => UnlockInv'
<1>1. SUFFICES ASSUME UnlockInv, Deliver PROVE UnlockInv'
  OBVIOUS
<1>2. BoardOK' BY <1>1, DeliverKeeps DEF UnlockInv
<1>3. UNCHANGED <<pc, idle, pending>> /\ AtWork' = AtWork BY <1>1 DEF Deliver, taskvars, AtWork
<1>4. LockHasReason'
  <2>1. SUFFICES ASSUME busy' PROVE LockHasReason'
    BY DEF LockHasReason
  <2>2. busy /\ Head(queue).kind # "idle" BY <1>1, <2>1 DEF Deliver
  <2>3. CASE \E i \in 1..Len(queue) : queue[i].kind = "idle"
    <3>1. PICK i \in 1..Len(queue) : queue[i].kind = "idle" BY <2>3
    <3>2. queue \in Seq(Event) /\ queue # <<>> /\ queue' = Tail(queue)
      BY <1>1 DEF UnlockInv, BoardOK, Deliver
    <3>3. i # 1 BY <2>2, <3>1, <3>2
    <3>4. i - 1 \in 1..Len(queue') /\ queue'[i - 1] = queue[i] BY <3>1, <3>2, <3>3
    <3>5. QED BY <3>1, <3>4 DEF LockHasReason
  <2>4. QED BY <1>1, <1>3, <2>2, <2>3 DEF UnlockInv, LockHasReason
<1>5. QED BY <1>1, <1>2, <1>3, <1>4 DEF UnlockInv, Counted

LEMMA DispatchCounts ==
    ASSUME IsFiniteSet(Tasks), UnlockInv, NEW t \in Tasks, NEW o, NEW w, NEW locked,
           Dispatch(t, o, w, locked), BoardOK'
    PROVE  UnlockInv'
<1>1. t \notin AtWork /\ AtWork' = AtWork \cup {t}
  BY DEF Dispatch, At, Goto, AtWork, UnlockInv, BoardOK
<1>2. IsFiniteSet(AtWork) BY FS_Subset DEF AtWork
<1>3. Cardinality(AtWork') = Cardinality(AtWork) + 1 BY <1>1, <1>2, FS_AddElement
<1>4. Counted' BY <1>3 DEF Dispatch, UnlockInv, Counted
<1>5. AtWork' # {} BY <1>1
<1>6. QED BY <1>4, <1>5 DEF UnlockInv, LockHasReason

LEMMA UnlockStep == IsFiniteSet(Tasks) /\ UnlockInv /\ BNext => UnlockInv'
<1>1. SUFFICES ASSUME IsFiniteSet(Tasks), UnlockInv, BNext PROVE UnlockInv'
  OBVIOUS
<1>2. BoardOK' BY <1>1, BoardStep DEF UnlockInv
<1>3. CASE \E t \in Tasks : Work(t)
  BY <1>1, <1>3, WorkStepsGoOn, EndBusyUnlocks, EmitUnlocks DEF Work
<1>4. CASE Deliver BY <1>1, <1>4, DeliverUnlocks
<1>5. CASE UNCHANGED <<taskvars, queue, busy>>
  BY <1>1, <1>2, <1>5 DEF UnlockInv, Counted, LockHasReason, AtWork, taskvars
<1>6. ASSUME NEW t \in Tasks, Answer(t) PROVE UnlockInv'
  <2>1. CASE UNCHANGED <<taskvars, queue, busy>> BY <1>5, <2>1
  <2>2. CASE ~UNCHANGED <<taskvars, queue, busy>>
    BY <1>1, <1>2, <1>6, <2>2, DispatchCounts DEF Answer
  <2>3. QED BY <2>1, <2>2
<1>7. ASSUME NEW t \in Tasks, NEW w \in Workspaces, Gesture(t, w) PROVE UnlockInv'
  BY <1>1, <1>2, <1>7, DispatchCounts DEF Gesture, Pill, StopButton, DoubleClick, EditName
<1>8. CASE OpenModal \/ Dismiss BY <1>5, <1>8 DEF OpenModal, Dismiss
<1>9. QED BY <1>1, <1>3, <1>4, <1>6, <1>7, <1>8 DEF BNext, GuiNext

-----------------------------------------------------------------------------
(* Board: what a delete takes *)

\* No commit of an operation but a delete takes a row away.
LEMMA BeginDeletesStopped ==
    ASSUME BoardOK, NEW t \in Tasks, Begin(t), NEW w \in Workspaces, Listed(w), rows'[w] = NoRow
    PROVE  rows[w] = "stopped"
<1>1. job[t].on \in Workspaces /\ rows \in Table BY JobOf DEF Begin, At, BoardOK
<1>2. PICK s : rows' = [rows EXCEPT ![job[t].on] = s] /\ (s = NoRow => rows[job[t].on] = "stopped")
  <2>1. CASE UNCHANGED rows
    BY <2>1 DEF Listed
  <2>2. CASE MayDelete(job[t].on) /\ Commit(t, NoRow, "tell_end") BY <2>2 DEF MayDelete, Commit
  <2>3. CASE Listed(job[t].on) /\ Commit(t, rows[job[t].on], "tell_end") BY <2>3 DEF Listed, Commit
  <2>4. CASE \E s \in {"stopped", "stopping"}, step \in TaskStep : Commit(t, s, step)
    BY <2>4, BoardAssumption DEF Commit, State
  <2>5. QED BY <2>1, <2>2, <2>3, <2>4 DEF Begin, NoCommit, TaskStep
<1>3. CASE w = job[t].on BY <1>1, <1>2, <1>3 DEF Table
<1>4. CASE w # job[t].on BY <1>1, <1>2, <1>4 DEF Table, Listed
<1>5. QED BY <1>3, <1>4

LEMMA DockerDeletesNone ==
    ASSUME BoardOK, NEW t \in Tasks, Docker(t), NEW w \in Workspaces, Listed(w)
    PROVE  rows'[w] # NoRow
<1>1. rows \in Table BY DEF BoardOK
<1>2. rows' = rows \/ \E s \in {"running", "error", "stopped"} : rows' = [rows EXCEPT ![job[t].on] = s]
  BY DEF Docker, Commit, NoCommit
<1>3. QED BY <1>1, <1>2, BoardAssumption DEF Table, Listed, State

LEMMA GuiKeepsRows == GuiNext => UNCHANGED rows
<1>1. \A t \in Tasks : Answer(t) => UNCHANGED rows BY DEF Answer, Dispatch
<1>2. \A t \in Tasks, w \in Workspaces : Gesture(t, w) => UNCHANGED rows
  BY DEF Gesture, Pill, StopButton, DoubleClick, EditName, Dispatch
<1>3. QED BY <1>1, <1>2 DEF GuiNext, Deliver, OpenModal, Dismiss

LEMMA BoardDeletesStopped ==
    ASSUME BoardOK, BNext, NEW w \in Workspaces, Listed(w), rows'[w] = NoRow, rows[w] # "stopped"
    PROVE  \E t \in Tasks : Save(t)
<1>1. rows' # rows BY DEF Listed
<1>2. PICK t \in Tasks : Work(t) BY <1>1, GuiKeepsRows DEF BNext
<1>3. ~Begin(t) BY BeginDeletesStopped
<1>4. ~Docker(t) BY DockerDeletesNone
<1>5. ~Tell(t) /\ ~EndBusy(t) /\ ~Emit(t) BY <1>1 DEF Tell, EndBusy, Emit
<1>6. QED BY <1>2, <1>3, <1>4, <1>5 DEF Work

-----------------------------------------------------------------------------
(* Board: one task at a time behind the lock *)

\* Only the first modal can be something other than a message of a failure.
ModalsOK == \A i \in 2..Len(modals) : modals[i].kind = "failed"

\* What has been dispatched and is not yet over: a task, or the event that says it was the last.
OneEpisode ==
    /\ \A t, u \in Tasks : pc[t] # "idle" /\ pc[u] # "idle" => t = u
    /\ \A i, j \in 1..Len(queue) : queue[i].kind = "idle" /\ queue[j].kind = "idle" => i = j
    /\ \A t \in Tasks, i \in 1..Len(queue) : pc[t] # "idle" => queue[i].kind # "idle"
Asked == modals # <<>> /\ modals[1].kind # "failed"

\* Until a gesture that nothing locks overlaps, there is one episode, the window is locked
\* throughout, and what was opened before waits for none.
LockInv ==
    /\ overlaps \in Nat /\ unlocked \in BOOLEAN /\ (unlocked <=> overlaps # 0)
    /\ ModalsOK
    /\ overlaps = 0 => OneEpisode /\ (UnderWay => busy) /\ (Asked => ~UnderWay)

LEMMA UnderWayIs ==
    ASSUME BoardOK
    PROVE  UnderWay <=> \/ \E t \in Tasks : pc[t] # "idle"
                        \/ \E i \in 1..Len(queue) : queue[i].kind = "idle"
BY DEF BoardOK, UnderWay

LEMMA LockInit == BInit => LockInv
<1>1. SUFFICES ASSUME BInit PROVE LockInv
  OBVIOUS
<1>2. overlaps = 0 /\ unlocked = FALSE /\ queue = <<>> /\ modals = <<>> /\ \A t \in Tasks : pc[t] = "idle"
  BY <1>1 DEF BInit
<1>3. Len(modals) = 0 /\ Len(queue) = 0 /\ DOMAIN queue = {} BY <1>2
<1>4. ModalsOK /\ ~Asked BY <1>2, <1>3 DEF ModalsOK, Asked
<1>5. OneEpisode /\ ~UnderWay BY <1>2, <1>3 DEF OneEpisode, UnderWay
<1>6. QED BY <1>2, <1>4, <1>5 DEF LockInv

\* A step that starts and ends no episode, and posts nothing that ends one.
LEMMA LockStays ==
    ASSUME BoardOK, BoardOK', LockInv, UNCHANGED <<busy, modals, overlaps, unlocked>>,
           \A u \in Tasks : pc'[u] # "idle" <=> pc[u] # "idle",
           queue' = queue \/ \E e \in Event : e.kind # "idle" /\ queue' = Append(queue, e)
    PROVE  LockInv'
<1>1. /\ queue \in Seq(Event) /\ Len(queue) \in Nat /\ Len(queue') \in Nat
      /\ \A i \in 1..Len(queue') : queue'[i].kind = "idle" => i \in 1..Len(queue) /\ queue[i].kind = "idle"
  <2>1. CASE queue' = queue BY <2>1 DEF BoardOK
  <2>2. CASE \E e \in Event : e.kind # "idle" /\ queue' = Append(queue, e) BY <2>2 DEF BoardOK
  <2>3. QED BY <2>1, <2>2
<1>2. UnderWay' => UnderWay BY <1>1, UnderWayIs DEF UnderWay, BoardOK
<1>3. OneEpisode => OneEpisode' BY <1>1 DEF OneEpisode
<1>4. QED BY <1>2, <1>3 DEF LockInv, ModalsOK, Asked

LEMMA WorkLocks ==
    ASSUME BoardOK, LockInv, NEW t \in Tasks, Begin(t) \/ Save(t) \/ Docker(t) \/ Tell(t) \/ EndBusy(t)
    PROVE  LockInv'
<1>1. BoardOK' BY WorkKeeps DEF Work
<1>2. UNCHANGED <<busy, modals, overlaps, unlocked>>
  BY DEF Begin, Save, Docker, Tell, EndBusy, window, history
<1>3. pc[t] # "idle" BY DEF Begin, Save, Docker, Tell, EndBusy, At
<1>4. \E s \in TaskStep \ {"idle"} : Goto(t, s)
  <2>1. {"save", "tell", "docker", "tell_end", "tell_failed", "end", "fail", "emit", "emit_failed"} \subseteq TaskStep \ {"idle"}
    BY DEF TaskStep
  <2>2. CASE Begin(t) BY <2>1, <2>2 DEF Begin, Commit, NoCommit
  <2>3. CASE Save(t) BY <2>1, <2>3 DEF Save
  <2>4. CASE Docker(t) BY <2>1, <2>4 DEF Docker, Commit, NoCommit
  <2>5. CASE Tell(t) BY <2>1, <2>5 DEF Tell
  <2>6. CASE EndBusy(t) BY <2>1, <2>6 DEF EndBusy
  <2>7. QED BY <2>2, <2>3, <2>4, <2>5, <2>6
<1>5. \A u \in Tasks : pc'[u] # "idle" <=> pc[u] # "idle" BY <1>3, <1>4 DEF Goto, BoardOK
<1>6. queue' = queue \/ \E e \in Event : e.kind # "idle" /\ queue' = Append(queue, e)
  BY TellKeeps DEF Begin, Save, Docker, EndBusy
<1>7. QED BY <1>1, <1>2, <1>5, <1>6, LockStays

LEMMA EmitLocks == ASSUME BoardOK, LockInv, NEW t \in Tasks, Emit(t) PROVE LockInv'
<1>1. /\ BoardOK' /\ Len(queue) \in Nat /\ Len(queue') \in Nat
      /\ \A i \in 1..Len(queue') : queue'[i].kind = "idle" =>
            i = Len(queue) + 1 \/ (i \in 1..Len(queue) /\ queue[i].kind = "idle")
  BY EmitKeeps DEF BoardOK
<1>2. UNCHANGED <<busy, modals, overlaps, unlocked>> /\ pc[t] # "idle" /\ pc'[t] = "idle"
      /\ \A u \in Tasks : u # t => pc'[u] = pc[u]
  BY DEF Emit, window, history, Goto, BoardOK
<1>3. UnderWay BY <1>2 DEF UnderWay
<1>4. OneEpisode => OneEpisode'
  <2>1. SUFFICES ASSUME OneEpisode PROVE OneEpisode'
    OBVIOUS
  <2>2. \A u \in Tasks : pc'[u] = "idle" BY <1>2, <2>1 DEF OneEpisode
  <2>3. \A i \in 1..Len(queue') : queue'[i].kind = "idle" => i = Len(queue) + 1
    BY <1>1, <1>2, <2>1 DEF OneEpisode
  <2>4. QED BY <2>2, <2>3 DEF OneEpisode
<1>5. QED BY <1>2, <1>3, <1>4 DEF LockInv, ModalsOK, Asked

LEMMA DeliverLocks == BoardOK /\ LockInv /\ Deliver => LockInv'
<1>1. SUFFICES ASSUME BoardOK, LockInv, Deliver PROVE LockInv'
  OBVIOUS
<1>2. /\ queue \in Seq(Event) /\ queue # <<>> /\ queue' = Tail(queue) /\ modals \in Seq(Modal)
      /\ UNCHANGED <<pc, overlaps, unlocked>> /\ BoardOK'
  BY <1>1, DeliverKeeps DEF BoardOK, Deliver, taskvars, history
<1>3. /\ Len(queue) \in Nat \ {0} /\ Len(queue') = Len(queue) - 1
      /\ queue[1] = Head(queue) /\ \A i \in 1..Len(queue') : i + 1 \in 1..Len(queue) /\ queue'[i] = queue[i + 1]
  BY <1>2
<1>4. UnderWay' => UnderWay BY <1>1, <1>2, <1>3, UnderWayIs DEF UnderWay, BoardOK
<1>5. OneEpisode => OneEpisode' /\ (UnderWay' => Head(queue).kind # "idle")
  <2>1. SUFFICES ASSUME OneEpisode PROVE OneEpisode' /\ (UnderWay' => Head(queue).kind # "idle")
    OBVIOUS
  <2>2. \A i, j \in 1..Len(queue') : queue'[i].kind = "idle" /\ queue'[j].kind = "idle" => i = j
    <3>1. SUFFICES ASSUME NEW i \in 1..Len(queue'), NEW j \in 1..Len(queue'),
                          queue'[i].kind = "idle", queue'[j].kind = "idle"
                   PROVE  i = j
      OBVIOUS
    <3>2. i + 1 = j + 1 BY <1>3, <2>1, <3>1 DEF OneEpisode
    <3>3. QED BY <1>3, <3>2
  <2>3. \A t \in Tasks, i \in 1..Len(queue') : pc'[t] # "idle" => queue'[i].kind # "idle"
    BY <1>2, <1>3, <2>1 DEF OneEpisode
  <2>4. ASSUME UnderWay', Head(queue).kind = "idle" PROVE FALSE
    <3>1. 1 \in 1..Len(queue) /\ queue[1].kind = "idle" BY <1>3, <2>4
    <3>2. \A t \in Tasks : pc[t] = "idle" BY <2>1, <3>1 DEF OneEpisode
    <3>3. PICK i \in 1..Len(queue') : queue'[i].kind = "idle"
      BY <1>2, <2>4, <3>2 DEF UnderWay, BoardOK
    <3>4. i + 1 = 1 BY <1>3, <2>1, <3>1, <3>3 DEF OneEpisode
    <3>5. QED BY <1>3, <3>4
  <2>5. QED BY <1>2, <2>1, <2>2, <2>3, <2>4 DEF OneEpisode
<1>6. ModalsOK' /\ (Asked' => Asked)
  <2>1. [kind |-> "failed"] \in Modal /\ [kind |-> "failed"].kind = "failed" BY DEF Modal
  <2>2. CASE modals' = modals BY <1>1, <2>2 DEF LockInv, ModalsOK, Asked
  <2>3. CASE modals' = Append(modals, [kind |-> "failed"])
    BY <1>1, <1>2, <2>1, <2>3 DEF LockInv, ModalsOK, Asked
  <2>4. QED BY <1>1, <2>2, <2>3 DEF Deliver
<1>7. busy' = (busy /\ Head(queue).kind # "idle") BY <1>1 DEF Deliver
<1>8. QED BY <1>1, <1>2, <1>4, <1>5, <1>6, <1>7 DEF LockInv

\* A gesture the busy flag locks finds no task under way, unless an unlocked one has overlapped.
LEMMA DispatchLocks ==
    ASSUME BoardOK, LockInv, NEW t \in Tasks, NEW o, NEW w, NEW locked \in BOOLEAN,
           Dispatch(t, o, w, locked), BoardOK', modals' = <<>>,
           locked /\ overlaps = 0 => ~UnderWay
    PROVE  LockInv' /\ (overlaps' = 0 => ~UnderWay /\ (Settled \/ overlaps = 0))
<1>1. /\ overlaps' = (IF Settled THEN 0 ELSE overlaps) + (IF UnderWay THEN 1 ELSE 0)
      /\ unlocked' = ((unlocked /\ ~Settled) \/ (UnderWay /\ ~locked))
      /\ busy' = TRUE /\ queue' = queue /\ Goto(t, "begin") /\ pc[t] = "idle"
  BY DEF Dispatch, At
<1>2. Settled => ~UnderWay BY UnderWayIs DEF Settled, AtRest, UnderWay
<1>3. overlaps \in Nat /\ unlocked \in BOOLEAN /\ (unlocked <=> overlaps # 0) /\ UnderWay \in BOOLEAN
  BY DEF LockInv, UnderWay
<1>4. overlaps' \in Nat /\ (overlaps' = 0 => ~UnderWay /\ (Settled \/ overlaps = 0))
  BY <1>1, <1>3
<1>5. unlocked' \in BOOLEAN /\ (unlocked' <=> overlaps' # 0)
  <2>1. CASE Settled BY <1>1, <1>2, <1>3, <2>1
  <2>2. CASE ~Settled /\ UnderWay
    <3>1. overlaps' # 0 BY <1>1, <1>3, <2>2
    <3>2. unlocked' BY <1>1, <1>3, <2>2
    <3>3. QED BY <3>1, <3>2, <1>1
  <2>3. CASE ~Settled /\ ~UnderWay BY <1>1, <1>3, <2>3
  <2>4. QED BY <2>1, <2>2, <2>3
<1>6. ASSUME ~UnderWay PROVE OneEpisode'
  <2>1. \A u \in Tasks : pc[u] = "idle" BY <1>6 DEF UnderWay
  <2>2. \A i \in 1..Len(queue) : queue[i].kind # "idle" BY <1>6, UnderWayIs
  <2>3. \A u \in Tasks : pc'[u] # "idle" => u = t BY <1>1, <2>1 DEF Goto, BoardOK
  <2>4. QED BY <1>1, <2>2, <2>3 DEF OneEpisode
<1>7. ModalsOK' /\ ~Asked' BY DEF ModalsOK, Asked
<1>8. QED BY <1>1, <1>4, <1>5, <1>6, <1>7 DEF LockInv

\* What answers a menu, a question or the dialog of a creation has opened alone.
LEMMA AnswerPops ==
    ASSUME BoardOK, LockInv, modals # <<>>, Top.kind # "failed"
    PROVE  Asked /\ Len(modals) = 1 /\ (Pop => modals' = <<>>)
<1>1. modals \in Seq(Modal) /\ Len(modals) \in Nat \ {0} BY DEF BoardOK
<1>2. Len(modals) = 1
  <2>1. SUFFICES ASSUME Len(modals) # 1 PROVE FALSE
    OBVIOUS
  <2>2. Len(modals) \in 2..Len(modals)
    <3>1. \A n \in Nat \ {0} : n # 1 => n \in 2..n OBVIOUS
    <3>2. QED BY <1>1, <2>1, <3>1
  <2>3. modals[Len(modals)].kind = "failed" BY <2>2 DEF LockInv, ModalsOK
  <2>4. QED BY <2>3 DEF Top
<1>3. QED BY <1>1, <1>2 DEF Asked, Top, Pop

LEMMA AnswerDispatches ==
    ASSUME BoardOK, LockInv, NEW t \in Tasks, Answer(t)
    PROVE  \/ /\ UNCHANGED <<rows, up, used, taskvars, queue, cards, busy, history>>
              /\ modals' = [modals EXCEPT ![Len(modals)] = [Top EXCEPT !.kind = "confirm"]]
              /\ Asked /\ Len(modals) = 1
           \/ /\ \E o \in {"open", "stop", "delete", "create"}, w \in Workspaces : Dispatch(t, o, w, TRUE)
              /\ modals' = <<>> /\ (overlaps = 0 => ~UnderWay)
<1>1. modals # <<>> /\ Top.kind # "failed" BY DEF Answer
<1>2. Asked /\ Len(modals) = 1 /\ (Pop => modals' = <<>>) /\ (overlaps = 0 => ~UnderWay)
  BY <1>1, AnswerPops DEF LockInv
<1>3. Top \in Modal BY <1>1, TopIs
<1>4. Top.kind \in {"menu", "confirm"} => Top.on \in Workspaces BY <1>3 DEF Modal
<1>5. QED BY <1>2, <1>4 DEF Answer

LEMMA GestureDispatches ==
    ASSUME BoardOK, LockInv, NEW t \in Tasks, NEW w \in Workspaces, Gesture(t, w)
    PROVE  \E o \in {"open", "stop", "rename"}, locked \in BOOLEAN :
              /\ Dispatch(t, o, w, locked) /\ modals' = <<>>
              /\ locked /\ overlaps = 0 => ~UnderWay
<1>1. modals' = <<>> BY DEF Gesture, Pill, StopButton, DoubleClick, EditName, Use
<1>2. Free /\ overlaps = 0 => ~UnderWay BY DEF Free, LockInv
<1>3. QED BY <1>1, <1>2 DEF Gesture, Pill, StopButton, DoubleClick, EditName

\* A step of the user's that dispatches nothing.
LEMMA ModalLocks ==
    ASSUME BoardOK, BoardOK', LockInv, UNCHANGED <<pc, queue, busy, overlaps, unlocked>>,
           ModalsOK', Asked' => (Asked \/ ~UnderWay)
    PROVE  LockInv'
BY UnderWayIs DEF LockInv, OneEpisode, UnderWay, BoardOK

LEMMA LockStep == BoardOK /\ LockInv /\ BNext => LockInv'
<1>1. SUFFICES ASSUME BoardOK, LockInv, BNext PROVE LockInv'
  OBVIOUS
<1>2. BoardOK' BY <1>1, BoardStep
<1>3. CASE \E t \in Tasks : Work(t) BY <1>1, <1>3, WorkLocks, EmitLocks DEF Work
<1>4. CASE Deliver BY <1>1, <1>4, DeliverLocks
<1>5. CASE OpenModal
  <2>1. Free /\ Len(modals') = 1 /\ UNCHANGED <<pc, queue, busy, overlaps, unlocked>>
    BY <1>5 DEF OpenModal, taskvars, history
  <2>2. ModalsOK' /\ ((overlaps = 0) => ~UnderWay) BY <1>1, <2>1 DEF ModalsOK, LockInv, Free
  <2>3. UnderWay' <=> UnderWay BY <2>1 DEF UnderWay
  <2>4. QED BY <1>1, <2>1, <2>2, <2>3 DEF LockInv, OneEpisode
<1>6. CASE Dismiss
  <2>1. modals \in Seq(Modal) /\ modals # <<>> /\ modals' = SubSeq(modals, 1, Len(modals) - 1)
        /\ UNCHANGED <<pc, queue, busy, overlaps, unlocked>>
    BY <1>1, <1>6 DEF Dismiss, Pop, BoardOK, taskvars, history
  <2>2. /\ Len(modals) \in Nat \ {0} /\ Len(modals') = Len(modals) - 1
        /\ \A i \in 1..Len(modals') : modals'[i] = modals[i]
    <3>1. Len(modals) \in Nat \ {0} BY <2>1
    <3>2. Len(modals) - 1 \in 0..Len(modals) BY <3>1
    <3>3. QED BY <2>1, <3>1, <3>2, PrefixIs
  <2>3. ModalsOK' BY <1>1, <2>2 DEF LockInv, ModalsOK
  <2>4. Asked' => Asked BY <1>2, <2>1, <2>2 DEF Asked, BoardOK
  <2>5. QED BY <1>1, <1>2, <2>1, <2>3, <2>4, ModalLocks
<1>7. ASSUME NEW t \in Tasks, Answer(t) PROVE LockInv'
  <2>1. CASE /\ UNCHANGED <<rows, up, used, taskvars, queue, cards, busy, history>>
             /\ modals' = [modals EXCEPT ![Len(modals)] = [Top EXCEPT !.kind = "confirm"]]
             /\ Asked /\ Len(modals) = 1
    <3>1. Len(modals') = 1 BY <1>1, <2>1 DEF BoardOK
    <3>2. ModalsOK' BY <3>1 DEF ModalsOK
    <3>3. UNCHANGED <<pc, queue, busy, overlaps, unlocked>> BY <2>1 DEF taskvars, history
    <3>4. QED BY <1>1, <1>2, <2>1, <3>2, <3>3, ModalLocks
  <2>2. CASE \E o \in {"open", "stop", "delete", "create"}, w \in Workspaces :
                Dispatch(t, o, w, TRUE) /\ modals' = <<>> /\ (overlaps = 0 => ~UnderWay)
    BY <1>1, <1>2, <2>2, DispatchLocks
  <2>3. QED BY <1>1, <1>7, <2>1, <2>2, AnswerDispatches
<1>8. ASSUME NEW t \in Tasks, NEW w \in Workspaces, Gesture(t, w) PROVE LockInv'
  BY <1>1, <1>2, <1>8, GestureDispatches, DispatchLocks
<1>9. QED BY <1>1, <1>3, <1>4, <1>5, <1>6, <1>7, <1>8 DEF BNext, GuiNext

-----------------------------------------------------------------------------
(* Board: what the cards show *)

Repaints(i) == queue[i].kind \in {"row", "list"}
\* The card of w is right, or will be once the last of what is posted for it is delivered.
Right(w) ==
    \/ cards[w] = rows[w] /\ \A i \in 1..Len(queue) : ~Repaints(i)
    \/ \E i \in 1..Len(queue) :
          /\ queue[i].kind = "list" \/ (queue[i].kind = "row" /\ queue[i].state = rows[w])
          /\ \A j \in 1..Len(queue) : j > i => ~Repaints(j)

\* Where a task is alone: what it has told of its row, and what it will tell.
TaskTells(t) ==
    LET w == job[t].on  o == job[t].op IN
    /\ pc[t] \in {"begin", "save", "docker", "end", "fail", "emit", "emit_failed"} => Right(w)
    /\ pc[t] = "save" => o = "open" /\ copy[t] = rows
    /\ pc[t] \in {"tell", "docker"} => o \in {"open", "stop"}
    /\ pc[t] = "tell_failed" => o = "open"
    /\ pc[t] \in {"save", "tell", "docker", "tell_failed"} => Listed(w)
    /\ pc[t] = "tell_end" => o \in {"create", "delete"} \/ Listed(w)
    /\ pc[t] = "tell" \/ (pc[t] = "tell_end" /\ o \in {"stop", "rename"}) => snap[t] = rows[w]
    /\ pc[t] \in {"emit", "emit_failed"} => idle[t]

\* An episode is about one workspace; the other cards are right all the while.
About(w) ==
    /\ \A v \in Workspaces : v # w => cards[v] = rows[v]
    /\ \A i \in 1..Len(queue) : queue[i].kind = "row" => queue[i].on = w
    /\ \A t \in Tasks : pc[t] # "idle" => job[t].on = w /\ TaskTells(t)
    /\ (\A t \in Tasks : pc[t] = "idle") => Right(w)

CardsInv ==
    overlaps = 0 =>
        /\ \A i, j \in 1..Len(queue) : queue[i].kind = "idle" /\ j > i => queue[j].kind = "failed"
        /\ UnderWay => \E w \in Workspaces : About(w)
        /\ ~UnderWay => cards = rows /\ \A i \in 1..Len(queue) : queue[i].kind = "failed"

LEMMA CardsInit == BInit => CardsInv
<1>1. SUFFICES ASSUME BInit PROVE CardsInv
  OBVIOUS
<1>2. queue = <<>> /\ cards = rows /\ \A t \in Tasks : pc[t] = "idle" BY <1>1 DEF BInit
<1>3. Len(queue) = 0 /\ DOMAIN queue = {} BY <1>2
<1>4. ~UnderWay BY <1>2, <1>3 DEF UnderWay
<1>5. QED BY <1>2, <1>3, <1>4 DEF CardsInv

\* The episode that is under way.
Episode(w) == BoardOK /\ UnlockInv /\ LockInv /\ CardsInv /\ overlaps = 0 /\ About(w)

\* A task alone in its episode posts nothing, and disturbs no row but its own.
LEMMA AboutStays ==
    ASSUME NEW w \in Workspaces, Episode(w), NEW t \in Tasks, pc[t] # "idle",
           NEW s \in TaskStep \ {"idle"}, Goto(t, s),
           UNCHANGED <<job, queue, cards, overlaps>>,
           \A v \in Workspaces : v # w => rows'[v] = rows[v],
           TaskTells(t)'
    PROVE  CardsInv'
<1>1. \A u \in Tasks : pc'[u] # "idle" => u = t BY DEF Goto, Episode, BoardOK, LockInv, OneEpisode
<1>2. pc'[t] # "idle" /\ job'[t].on = w BY DEF Goto, Episode, BoardOK, About
<1>3. About(w)' BY <1>1, <1>2 DEF Episode, About
<1>4. UnderWay' BY <1>2 DEF UnderWay
<1>5. \A i, j \in 1..Len(queue') : queue'[i].kind = "idle" /\ j > i => queue'[j].kind = "failed"
  BY DEF Episode, CardsInv
<1>6. QED BY <1>3, <1>4, <1>5 DEF CardsInv

\* Its card stays right while its row is.
LEMMA RightStays ==
    ASSUME NEW w \in Workspaces, Right(w), UNCHANGED <<queue, cards>>, rows'[w] = rows[w]
    PROVE  Right(w)'
BY DEF Right, Repaints

LEMMA BeginShows == ASSUME NEW w \in Workspaces, Episode(w), NEW t \in Tasks, Begin(t) PROVE CardsInv'
<1>1. /\ pc[t] = "begin" /\ job[t].on = w /\ Right(w) /\ BoardOK
      /\ UNCHANGED <<job, queue, cards, overlaps>>
      /\ job[t].op \in {"open", "stop", "delete", "rename", "create"}
  BY JobOf DEF Begin, At, window, history, Episode, About, TaskTells
<1> DEFINE Shows(s) == s \in TaskStep \ {"idle"} /\ Goto(t, s) /\ TaskTells(t)'
                       /\ \A v \in Workspaces : v # w => rows'[v] = rows[v]
<1>2. Goto(t, "save") => pc'[t] = "save" BY DEF Goto, BoardOK, Episode
<1>3. ASSUME NEW s, Goto(t, s) PROVE pc'[t] = s BY <1>1, <1>3 DEF Goto, BoardOK
<1>4. \A s : rows' = [rows EXCEPT ![w] = s] =>
                rows'[w] = s /\ \A v \in Workspaces : v # w => rows'[v] = rows[v]
  BY <1>1 DEF BoardOK, Table
<1>5. \A s : snap' = [snap EXCEPT ![t] = s] => snap'[t] = s BY <1>1 DEF BoardOK
<1>6. NoRow # "stopping" /\ NoRow # "stopped" BY BoardAssumption DEF State
<1>7. CASE Listed(w) /\ job[t].op = "open" /\ copy' = [copy EXCEPT ![t] = rows] /\ NoCommit(t, "save")
  <2>1. copy'[t] = rows /\ rows' = rows /\ pc'[t] = "save" /\ Right(w)'
    BY <1>1, <1>2, <1>7, RightStays DEF NoCommit, BoardOK
  <2>2. TaskTells(t)' BY <1>1, <1>7, <2>1 DEF TaskTells, Listed
  <2>3. Shows("save") BY <1>7, <2>1, <2>2 DEF NoCommit, TaskStep
  <2>4. QED BY <1>1, <2>3, AboutStays
<1>8. CASE \E s \in {"end", "fail"} : NoCommit(t, s)
  <2>1. PICK s \in {"end", "fail"} : NoCommit(t, s) BY <1>8
  <2>2. rows' = rows /\ pc'[t] = s /\ Right(w)' BY <1>1, <1>3, <2>1, RightStays DEF NoCommit
  <2>3. TaskTells(t)' BY <1>1, <2>1, <2>2 DEF TaskTells
  <2>4. Shows(s) BY <2>1, <2>2, <2>3 DEF NoCommit, TaskStep
  <2>5. QED BY <1>1, <2>4, AboutStays
<1>9. CASE job[t].op = "stop" /\ Commit(t, "stopping", "tell")
  <2>1. rows'[w] = "stopping" /\ snap'[t] = "stopping" /\ pc'[t] = "tell"
        /\ \A v \in Workspaces : v # w => rows'[v] = rows[v]
    BY <1>1, <1>3, <1>4, <1>5, <1>9 DEF Commit
  <2>2. TaskTells(t)' BY <1>1, <1>6, <1>9, <2>1 DEF TaskTells, Listed
  <2>3. Shows("tell") BY <1>9, <2>1, <2>2 DEF Commit, TaskStep
  <2>4. QED BY <1>1, <2>3, AboutStays
<1>10. CASE job[t].op \in {"delete", "create"} /\ \E s : Commit(t, s, "tell_end")
  <2>1. pc'[t] = "tell_end" /\ \A v \in Workspaces : v # w => rows'[v] = rows[v]
    BY <1>1, <1>3, <1>4, <1>10 DEF Commit
  <2>2. TaskTells(t)' BY <1>1, <1>10, <2>1 DEF TaskTells
  <2>3. Shows("tell_end") BY <1>10, <2>1, <2>2 DEF Commit, TaskStep
  <2>4. QED BY <1>1, <2>3, AboutStays
<1>11. CASE job[t].op = "rename" /\ Listed(w) /\ Commit(t, rows[w], "tell_end")
  <2>1. rows'[w] = rows[w] /\ snap'[t] = rows[w] /\ pc'[t] = "tell_end"
        /\ \A v \in Workspaces : v # w => rows'[v] = rows[v]
    BY <1>1, <1>3, <1>4, <1>5, <1>11 DEF Commit
  <2>2. TaskTells(t)' BY <1>1, <1>11, <2>1 DEF TaskTells, Listed
  <2>3. Shows("tell_end") BY <1>11, <2>1, <2>2 DEF Commit, TaskStep
  <2>4. QED BY <1>1, <2>3, AboutStays
<1>12. QED BY <1>1, <1>7, <1>8, <1>9, <1>10, <1>11 DEF Begin

LEMMA SaveShows == ASSUME NEW w \in Workspaces, Episode(w), NEW t \in Tasks, Save(t) PROVE CardsInv'
<1>1. /\ pc[t] = "save" /\ job[t].on = w /\ job[t].op = "open" /\ copy[t] = rows /\ BoardOK
      /\ UNCHANGED <<job, queue, cards, overlaps>> /\ Goto(t, "tell")
  BY DEF Save, At, window, history, Episode, About, TaskTells
<1>2. rows'[w] = "starting" /\ snap'[t] = "starting" /\ pc'[t] = "tell"
      /\ \A v \in Workspaces : v # w => rows'[v] = rows[v]
  BY <1>1 DEF Save, Goto, BoardOK, Table
<1>3. NoRow # "starting" BY BoardAssumption DEF State
<1>4. TaskTells(t)' BY <1>1, <1>2, <1>3 DEF TaskTells, Listed
<1>5. "tell" \in TaskStep \ {"idle"} BY DEF TaskStep
<1>6. QED BY <1>1, <1>2, <1>4, <1>5, AboutStays

LEMMA DockerShows == ASSUME NEW w \in Workspaces, Episode(w), NEW t \in Tasks, Docker(t) PROVE CardsInv'
<1>1. /\ pc[t] = "docker" /\ job[t].on = w /\ job[t].op \in {"open", "stop"} /\ Listed(w) /\ Right(w)
      /\ BoardOK /\ UNCHANGED <<job, queue, cards, overlaps>>
  BY DEF Docker, At, window, history, Episode, About, TaskTells
<1>2. ASSUME NEW s, Goto(t, s) PROVE pc'[t] = s BY <1>1, <1>2 DEF Goto, BoardOK
<1>3. \A s : rows' = [rows EXCEPT ![w] = s] =>
                rows'[w] = s /\ \A v \in Workspaces : v # w => rows'[v] = rows[v]
  BY <1>1 DEF BoardOK, Table
<1>4. \A s : snap' = [snap EXCEPT ![t] = s] => snap'[t] = s BY <1>1 DEF BoardOK
<1>5. {"tell_end", "tell_failed", "fail"} \subseteq TaskStep \ {"idle"} BY DEF TaskStep
<1>6. CASE \E s \in {"running", "error", "stopped"}, n \in {"tell_end", "tell_failed"} :
              Commit(t, s, n) /\ (n = "tell_failed" => job[t].op = "open")
  <2>1. PICK s \in {"running", "error", "stopped"}, n \in {"tell_end", "tell_failed"} :
              Commit(t, s, n) /\ (n = "tell_failed" => job[t].op = "open")
    BY <1>6
  <2>2. rows'[w] = s /\ snap'[t] = s /\ pc'[t] = n /\ Goto(t, n)
        /\ \A v \in Workspaces : v # w => rows'[v] = rows[v]
    BY <1>1, <1>2, <1>3, <1>4, <2>1 DEF Commit
  <2>3. s # NoRow BY BoardAssumption DEF State
  <2>4. TaskTells(t)' BY <1>1, <2>1, <2>2, <2>3 DEF TaskTells, Listed
  <2>5. QED BY <1>1, <1>5, <2>2, <2>4, AboutStays
<1>7. CASE NoCommit(t, "fail")
  <2>1. rows' = rows /\ pc'[t] = "fail" /\ Right(w)' /\ Goto(t, "fail")
    BY <1>1, <1>2, <1>7, RightStays DEF NoCommit
  <2>2. TaskTells(t)' BY <1>1, <2>1 DEF TaskTells
  <2>3. QED BY <1>1, <1>5, <2>1, <2>2, AboutStays
<1>8. QED BY <1>1, <1>6, <1>7 DEF Docker

LEMMA EndBusyShows ==
    ASSUME IsFiniteSet(Tasks), NEW w \in Workspaces, Episode(w), NEW t \in Tasks, EndBusy(t)
    PROVE  CardsInv'
<1>1. /\ pc[t] \in {"end", "fail"} /\ job[t].on = w /\ Right(w)
      /\ BoardOK /\ UNCHANGED <<job, queue, cards, overlaps, rows>>
  BY DEF EndBusy, window, history, Episode, About, TaskTells
<1>2. AtWork = {t} BY <1>1 DEF AtWork, Episode, LockInv, OneEpisode
<1>3. pending = 1 BY <1>2, FS_Singleton DEF Episode, UnlockInv, Counted
<1>4. pending' = 0 /\ idle'[t]
  <2>1. pending' = 0 BY <1>3 DEF EndBusy, CountsDown
  <2>2. idle' = [idle EXCEPT ![t] = (pending' = 0)] /\ idle \in [Tasks -> BOOLEAN]
    BY <1>1 DEF EndBusy, BoardOK
  <2>3. QED BY <2>1, <2>2, Zenon
<1>5. PICK s \in {"emit", "emit_failed"} : Goto(t, s) BY <1>1 DEF EndBusy
<1>6. pc'[t] = s /\ Right(w)' BY <1>1, <1>5, RightStays DEF Goto, BoardOK
<1>7. TaskTells(t)' BY <1>1, <1>4, <1>5, <1>6 DEF TaskTells
<1>8. s \in TaskStep \ {"idle"} BY <1>5 DEF TaskStep
<1>9. QED BY <1>1, <1>5, <1>7, <1>8, AboutStays

\* What a task tells is what its row says.
LEMMA TellShows == ASSUME NEW w \in Workspaces, Episode(w), NEW t \in Tasks, Tell(t) PROVE CardsInv'
<1> DEFINE o == job[t].op
           last == Len(queue) + 1
           list == [kind |-> "list"]
<1>1. /\ pc[t] \in {"tell", "tell_end", "tell_failed"} /\ job[t].on = w /\ TaskTells(t)
      /\ BoardOK /\ UNCHANGED <<job, cards, overlaps, rows>>
      /\ o \in {"open", "stop", "delete", "rename", "create"}
  BY JobOf DEF Tell, At, window, history, Episode, About
<1>2. RowEvent(t) \in Event /\ RowEvent(t).kind = "row" /\ RowEvent(t).on = w
      /\ (o \in {"open", "stop", "rename"} => RowEvent(t).state = rows[w])
  <2>1. RowEvent(t) \in Event BY <1>1 DEF RowEvent, BoardOK, Table, Event
  <2>2. QED BY <1>1, <2>1 DEF RowEvent, At, TaskTells
<1>3. list \in Event /\ list.kind = "list" BY DEF Event
<1>4. PICK s \in {"docker", "end", "fail"} : Goto(t, s) /\ (s = "docker" => pc[t] = "tell")
  BY <1>1 DEF Tell, At
<1>5. \E e \in Event : /\ queue' = Append(queue, e)
                       /\ e.kind = "list" \/ (e.kind = "row" /\ e.on = w /\ e.state = rows[w])
  <2>1. CASE o \in {"create", "delete"}
    <3>1. pc[t] # "tell" BY <1>1, <2>1 DEF TaskTells
    <3>2. queue' = queue \o <<list>> BY <1>1, <2>1, <3>1 DEF Tell, At, Post
    <3>3. QED BY <1>1, <1>3, <3>2, AppendIs DEF BoardOK
  <2>2. CASE o \notin {"create", "delete"}
    <3>1. Listed(w) BY <1>1, <2>2 DEF TaskTells
    <3>2. queue' = queue \o <<RowEvent(t)>> BY <1>1, <2>2, <3>1 DEF Tell, At, Post, Told
    <3>3. QED BY <1>1, <1>2, <2>2, <3>2, AppendIs DEF BoardOK
  <2>3. QED BY <2>1, <2>2
<1>6. PICK e \in Event : /\ queue' = Append(queue, e)
                         /\ e.kind = "list" \/ (e.kind = "row" /\ e.on = w /\ e.state = rows[w])
  BY <1>5
<1>7. /\ Len(queue) \in Nat /\ Len(queue') = last /\ queue'[last] = e
      /\ \A i \in 1..Len(queue) : queue'[i] = queue[i]
  BY <1>1, <1>6, AppendIs DEF BoardOK
<1>8. Right(w)' BY <1>1, <1>6, <1>7 DEF Right
<1>9. pc'[t] = s /\ \A u \in Tasks : pc'[u] # "idle" => u = t
  BY <1>1, <1>4 DEF Goto, BoardOK, Episode, LockInv, OneEpisode
<1>10. TaskTells(t)' BY <1>1, <1>4, <1>8, <1>9 DEF TaskTells, Listed
<1>11. About(w)' 
  <2>1. \A i \in 1..Len(queue') : queue'[i].kind = "row" => queue'[i].on = w
    BY <1>6, <1>7 DEF Episode, About
  <2>2. QED BY <1>1, <1>4, <1>9, <1>10, <2>1 DEF Episode, About
<1>12. \A i \in 1..Len(queue') : queue'[i].kind # "idle"
  BY <1>1, <1>6, <1>7 DEF Episode, LockInv, OneEpisode
<1>13. UnderWay' BY <1>4, <1>9 DEF UnderWay
<1>14. QED BY <1>11, <1>12, <1>13 DEF CardsInv

LEMMA EmitShows == ASSUME NEW w \in Workspaces, Episode(w), NEW t \in Tasks, Emit(t) PROVE CardsInv'
<1>1. /\ pc[t] \in {"emit", "emit_failed"} /\ job[t].on = w /\ Right(w) /\ idle[t]
      /\ BoardOK /\ UNCHANGED <<cards, overlaps, rows>> /\ Goto(t, "idle")
  BY DEF Emit, window, history, Episode, About, TaskTells
<1>2. /\ BoardOK' /\ Len(queue) \in Nat /\ Len(queue') \in Nat /\ Len(queue') >= Len(queue)
      /\ \A i \in 1..Len(queue) : queue'[i] = queue[i]
      /\ queue'[Len(queue) + 1].kind = "idle" /\ Len(queue) + 1 \in 1..Len(queue')
      /\ \A i \in 1..Len(queue') : i > Len(queue) =>
            \/ queue'[i].kind = "failed"
            \/ queue'[i].kind = "idle" /\ i = Len(queue) + 1
  BY <1>1, EmitKeeps DEF BoardOK
<1>3. \A u \in Tasks : pc'[u] = "idle" BY <1>1 DEF Goto, BoardOK, Episode, LockInv, OneEpisode
<1>4. \A i \in 1..Len(queue) : queue[i].kind # "idle" BY <1>1 DEF Episode, LockInv, OneEpisode
<1>5. \A i \in 1..Len(queue') : queue'[i].kind \in {"row", "list"} => i \in 1..Len(queue) BY <1>2
<1>6. Right(w)'
  <2>1. CASE cards[w] = rows[w] /\ \A i \in 1..Len(queue) : ~Repaints(i)
    BY <1>1, <1>2, <1>5, <2>1 DEF Right, Repaints
  <2>2. ASSUME NEW i \in 1..Len(queue),
               queue[i].kind = "list" \/ (queue[i].kind = "row" /\ queue[i].state = rows[w]),
               \A j \in 1..Len(queue) : j > i => ~Repaints(j)
        PROVE  Right(w)'
    <3>1. i \in 1..Len(queue') /\ queue'[i] = queue[i] BY <1>2
    <3>2. \A j \in 1..Len(queue') : j > i => ~Repaints(j)' BY <1>2, <1>5, <2>2 DEF Repaints
    <3>3. QED BY <1>1, <2>2, <3>1, <3>2 DEF Right
  <2>3. QED BY <1>1, <2>1, <2>2 DEF Right
<1>7. About(w)'
  <2>1. \A i \in 1..Len(queue') : queue'[i].kind = "row" => queue'[i].on = w
    BY <1>2, <1>5 DEF Episode, About
  <2>2. QED BY <1>1, <1>3, <1>6, <2>1 DEF Episode, About
<1>8. \A i, j \in 1..Len(queue') : queue'[i].kind = "idle" /\ j > i => queue'[j].kind = "failed"
  BY <1>2, <1>4
<1>9. UnderWay' BY <1>2, UnderWayIs DEF UnderWay, BoardOK
<1>10. QED BY <1>7, <1>8, <1>9 DEF CardsInv

\* One event: the last that repaints the card leaves it right.
LEMMA DeliverShows ==
    ASSUME BoardOK, UnlockInv, LockInv, CardsInv, Deliver PROVE CardsInv'
<1> DEFINE e == Head(queue)
<1>1. SUFFICES ASSUME overlaps = 0 PROVE CardsInv'
  BY DEF Deliver, history, CardsInv
<1>2. /\ queue \in Seq(Event) /\ queue # <<>> /\ queue' = Tail(queue)
      /\ UNCHANGED <<rows, job, pc, copy, snap, idle, overlaps>> /\ BoardOK' /\ cards' = Shown(e)
  BY DeliverKeeps DEF BoardOK, Deliver, taskvars, history
<1>3. /\ Len(queue) \in Nat \ {0} /\ Len(queue') = Len(queue) - 1 /\ queue[1] = e /\ 1 \in 1..Len(queue)
      /\ \A i \in 1..Len(queue') : i + 1 \in 1..Len(queue) /\ queue'[i] = queue[i + 1]
      /\ \A i \in 1..Len(queue) : i # 1 => i - 1 \in 1..Len(queue') /\ queue'[i - 1] = queue[i]
  BY <1>2
<1>4. /\ \A i, j \in 1..Len(queue) : queue[i].kind = "idle" /\ j > i => queue[j].kind = "failed"
      /\ UnderWay => \E w \in Workspaces : About(w)
      /\ ~UnderWay => cards = rows /\ \A i \in 1..Len(queue) : queue[i].kind = "failed"
      /\ OneEpisode
  BY <1>1 DEF CardsInv, LockInv
<1>5. \A i, j \in 1..Len(queue') : queue'[i].kind = "idle" /\ j > i => queue'[j].kind = "failed"
  <2>1. SUFFICES ASSUME NEW i \in 1..Len(queue'), NEW j \in 1..Len(queue'),
                        queue'[i].kind = "idle", j > i
                 PROVE  queue'[j].kind = "failed"
    OBVIOUS
  <2>2. j + 1 > i + 1 /\ queue[i + 1].kind = "idle" BY <1>3, <2>1
  <2>3. queue[j + 1].kind = "failed" BY <1>3, <1>4, <2>1, <2>2
  <2>4. QED BY <1>3, <2>1, <2>3
<1>6. CASE ~UnderWay
  <2>1. e.kind = "failed" /\ cards' = rows' BY <1>2, <1>3, <1>4, <1>6 DEF Shown
  <2>2. \A i \in 1..Len(queue') : queue'[i].kind = "failed"
    <3>1. SUFFICES ASSUME NEW i \in 1..Len(queue') PROVE queue'[i].kind = "failed"
      OBVIOUS
    <3>2. i + 1 \in 1..Len(queue) /\ queue'[i] = queue[i + 1] BY <1>3
    <3>3. QED BY <1>4, <1>6, <3>2
  <2>3. \A t \in Tasks : pc'[t] = "idle" BY <1>2, <1>6 DEF UnderWay
  <2>4. ~UnderWay' BY <1>2, <2>2, <2>3 DEF UnderWay, BoardOK
  <2>5. QED BY <1>5, <2>1, <2>2, <2>4 DEF CardsInv
<1>7. CASE UnderWay /\ e.kind = "idle"
  <2>1. PICK w \in Workspaces : About(w) BY <1>4, <1>7
  <2>2. \A t \in Tasks : pc[t] = "idle" BY <1>3, <1>4, <1>7 DEF OneEpisode
  <2>3. \A i \in 1..Len(queue) : i # 1 => queue[i].kind = "failed" BY <1>3, <1>4, <1>7
  <2>4. cards[w] = rows[w] BY <1>3, <1>7, <2>1, <2>2, <2>3 DEF About, Right, Repaints
  <2>5. cards' = rows'
    <3>1. \A v \in Workspaces : cards[v] = rows[v] BY <2>1, <2>4 DEF About
    <3>2. cards = rows BY <3>1 DEF BoardOK, Table
    <3>3. QED BY <1>2, <1>7, <3>2 DEF Shown
  <2>6. \A i \in 1..Len(queue') : queue'[i].kind = "failed"
    <3>1. SUFFICES ASSUME NEW i \in 1..Len(queue') PROVE queue'[i].kind = "failed"
      OBVIOUS
    <3>2. i + 1 # 1 BY <1>3
    <3>3. QED BY <1>3, <2>3, <3>2
  <2>7. ~UnderWay' BY <1>2, <2>2, <2>6 DEF UnderWay, BoardOK
  <2>8. QED BY <1>5, <2>5, <2>6, <2>7 DEF CardsInv
<1>8. CASE UnderWay /\ e.kind # "idle"
  <2>1. PICK w \in Workspaces : About(w) BY <1>4, <1>8
  <2>2. e \in Event /\ (e.kind = "row" => e.on = w) BY <1>2, <1>3, <2>1 DEF About
  <2>3. /\ \A v \in Workspaces : v # w => cards'[v] = rows[v]
        /\ e.kind = "list" \/ (e.kind = "row" /\ e.state = rows[w]) => cards'[w] = rows[w]
        /\ e.kind \notin {"row", "list"} => cards' = cards
    BY <1>2, <2>1, <2>2 DEF Shown, Applied, BoardOK, Table, About
  <2>4. Right(w) => Right(w)'
    <3>1. CASE cards[w] = rows[w] /\ \A i \in 1..Len(queue) : ~Repaints(i)
      <4>1. cards'[w] = rows'[w] BY <1>2, <1>3, <2>3, <3>1 DEF Repaints
      <4>2. \A i \in 1..Len(queue') : ~Repaints(i)' BY <1>3, <3>1 DEF Repaints
      <4>3. QED BY <4>1, <4>2 DEF Right
    <3>2. ASSUME NEW i \in 1..Len(queue),
                 queue[i].kind = "list" \/ (queue[i].kind = "row" /\ queue[i].state = rows[w]),
                 \A j \in 1..Len(queue) : j > i => ~Repaints(j)
          PROVE  Right(w)'
      <4>1. ASSUME NEW j \in 1..Len(queue'), j > i - 1 PROVE ~Repaints(j)'
        <5>1. j + 1 > i /\ j + 1 \in 1..Len(queue) /\ queue'[j] = queue[j + 1] BY <1>3, <4>1
        <5>2. QED BY <3>2, <5>1 DEF Repaints
      <4>2. CASE i = 1
        <5>1. cards'[w] = rows'[w] BY <1>2, <1>3, <2>3, <3>2, <4>2
        <5>2. \A j \in 1..Len(queue') : j > i - 1 BY <1>3, <4>2
        <5>3. QED BY <4>1, <5>1, <5>2 DEF Right
      <4>3. CASE i # 1
        <5>1. i - 1 \in 1..Len(queue') /\ queue'[i - 1] = queue[i] BY <1>3, <4>3
        <5>2. QED BY <1>2, <3>2, <4>1, <5>1 DEF Right
      <4>4. QED BY <4>2, <4>3
    <3>3. QED BY <3>1, <3>2 DEF Right
  <2>5. About(w)'
    <3>1. \A i \in 1..Len(queue') : queue'[i].kind = "row" => queue'[i].on = w
      BY <1>3, <2>1 DEF About
    <3>2. ASSUME NEW t \in Tasks, pc'[t] # "idle" PROVE job'[t].on = w /\ TaskTells(t)'
      <4>1. job[t].on = w /\ TaskTells(t) BY <1>2, <2>1, <3>2 DEF About
      <4>2. QED BY <1>2, <2>4, <4>1 DEF TaskTells, Listed
    <3>3. QED BY <1>2, <2>1, <2>3, <2>4, <3>1, <3>2 DEF About
  <2>6. UnderWay'
    <3>1. CASE \E t \in Tasks : pc[t] # "idle" BY <1>2, <3>1 DEF UnderWay
    <3>2. ASSUME NEW i \in 1..Len(queue), queue[i].kind = "idle" PROVE UnderWay'
      <4>1. i # 1 BY <1>3, <1>8, <3>2
      <4>2. i - 1 \in 1..Len(queue') /\ queue'[i - 1].kind = "idle" BY <1>3, <3>2, <4>1
      <4>3. PICK k \in 1..Len(queue') : queue'[k].kind = "idle" BY <4>2
      <4>4. DOMAIN queue' = 1..Len(queue') BY <1>2 DEF BoardOK
      <4>5. QED BY <4>3, <4>4 DEF UnderWay
    <3>3. QED BY <1>8, <3>1, <3>2, UnderWayIs
  <2>7. QED BY <1>5, <2>5, <2>6 DEF CardsInv
<1>9. QED BY <1>6, <1>7, <1>8

\* A new episode finds every card right.
LEMMA DispatchShows ==
    ASSUME BoardOK, BoardOK', LockInv, CardsInv, NEW t \in Tasks, NEW o, NEW w \in Workspaces,
           NEW locked \in BOOLEAN, Dispatch(t, o, w, locked), modals' = <<>>,
           locked /\ overlaps = 0 => ~UnderWay
    PROVE  CardsInv'
<1>1. SUFFICES ASSUME overlaps' = 0 PROVE CardsInv'
  BY DEF CardsInv
<1>2. ~UnderWay /\ (Settled \/ overlaps = 0) BY <1>1, DispatchLocks
<1>3. /\ Goto(t, "begin") /\ job' = [job EXCEPT ![t] = [op |-> o, on |-> w]]
      /\ UNCHANGED <<rows, queue, cards>>
  BY DEF Dispatch
<1>4. cards = rows /\ \A i \in 1..Len(queue) : queue[i].kind = "failed"
  <2>1. CASE Settled
    <3>1. queue = <<>> /\ cards = rows BY <2>1 DEF Settled, AtRest
    <3>2. QED BY <3>1
  <2>2. CASE overlaps = 0 BY <1>2, <2>2 DEF CardsInv
  <2>3. QED BY <1>2, <2>1, <2>2
<1>5. pc'[t] = "begin" /\ job'[t].on = w /\ \A u \in Tasks : pc'[u] # "idle" => u = t
  BY <1>2, <1>3 DEF Goto, BoardOK, UnderWay
<1>6. Right(w)' BY <1>3, <1>4 DEF Right, Repaints
<1>7. TaskTells(t)' BY <1>5, <1>6 DEF TaskTells
<1>8. About(w)' BY <1>3, <1>4, <1>5, <1>6, <1>7 DEF About
<1>9. UnderWay' BY <1>5 DEF UnderWay
<1>10. QED BY <1>3, <1>4, <1>8, <1>9 DEF CardsInv

\* A step that touches only modals.
LEMMA CardsStutter ==
    ASSUME CardsInv, UNCHANGED <<rows, taskvars, queue, cards, overlaps>>
    PROVE  CardsInv'
<1>1. UNCHANGED <<rows, pc, job, copy, snap, idle, queue, cards, overlaps>> BY DEF taskvars
<1>2. UnderWay' <=> UnderWay BY <1>1 DEF UnderWay
<1>3. ASSUME NEW w \in Workspaces PROVE Right(w)' <=> Right(w) BY <1>1 DEF Right, Repaints
<1>4. ASSUME NEW w \in Workspaces, About(w) PROVE About(w)'
  <2>1. ASSUME NEW t \in Tasks, pc'[t] # "idle", NEW v \in Workspaces, v = w
        PROVE job'[t].on = w /\ TaskTells(t)'
    <3>1. job[t].on = w /\ TaskTells(t) BY <1>1, <1>4, <2>1 DEF About
    <3>2. Right(w)' <=> Right(w) BY <1>3
    <3>3. QED BY <1>1, <3>1, <3>2 DEF TaskTells, Listed
  <2>2. QED BY <1>1, <1>3, <1>4, <2>1 DEF About
<1>5. QED BY <1>1, <1>2, <1>4 DEF CardsInv

LEMMA CardsStep ==
    IsFiniteSet(Tasks) /\ BoardOK /\ UnlockInv /\ LockInv /\ CardsInv /\ BNext => CardsInv'
<1>1. SUFFICES ASSUME IsFiniteSet(Tasks), BoardOK, UnlockInv, LockInv, CardsInv, BNext PROVE CardsInv'
  OBVIOUS
<1>2. BoardOK' BY <1>1, BoardStep
<1>3. ASSUME NEW t \in Tasks, Work(t) PROVE CardsInv'
  <2>1. UNCHANGED overlaps /\ pc[t] # "idle"
    BY <1>3 DEF Work, Begin, Save, Docker, Tell, EndBusy, Emit, history, At
  <2>2. CASE overlaps # 0 BY <2>1, <2>2 DEF CardsInv
  <2>3. CASE overlaps = 0
    <3>1. UnderWay BY <2>1 DEF UnderWay
    <3>2. PICK w \in Workspaces : About(w) BY <1>1, <2>3, <3>1 DEF CardsInv
    <3>3. Episode(w) BY <1>1, <2>3, <3>2 DEF Episode
    <3>4. QED BY <1>1, <1>3, <3>3, BeginShows, SaveShows, DockerShows, TellShows, EndBusyShows, EmitShows
      DEF Work
  <2>4. QED BY <2>2, <2>3
<1>4. CASE Deliver BY <1>1, <1>4, DeliverShows
<1>5. CASE UNCHANGED <<rows, taskvars, queue, cards, overlaps>> BY <1>1, <1>5, CardsStutter
<1>6. CASE OpenModal \/ Dismiss BY <1>5, <1>6 DEF OpenModal, Dismiss, history
<1>7. ASSUME NEW t \in Tasks, Answer(t) PROVE CardsInv'
  <2>1. CASE UNCHANGED <<rows, up, used, taskvars, queue, cards, busy, history>>
    BY <1>5, <2>1 DEF history
  <2>2. CASE \E o \in {"open", "stop", "delete", "create"}, w \in Workspaces :
                Dispatch(t, o, w, TRUE) /\ modals' = <<>> /\ (overlaps = 0 => ~UnderWay)
    BY <1>1, <1>2, <2>2, DispatchShows
  <2>3. QED BY <1>1, <1>7, <2>1, <2>2, AnswerDispatches
<1>8. ASSUME NEW t \in Tasks, NEW w \in Workspaces, Gesture(t, w) PROVE CardsInv'
  BY <1>1, <1>2, <1>8, GestureDispatches, DispatchShows
<1>9. QED BY <1>1, <1>3, <1>4, <1>6, <1>7, <1>8 DEF BNext, GuiNext

-----------------------------------------------------------------------------
(* CloseSequence: nothing is left up *)

Before == {"no", "reconcile", "relist"}
AtOne == {"sync", "sync_failed", "stop", "down", "stop_failed"}
Working == {"next"} \cup AtOne
Over == {"complete", "aborted"}

\* The list is of workspaces, empty before and after, and not while one of it is handled.
ListOK ==
    /\ close \in Before \cup Working \cup Over
    /\ todo \in Seq(Entry)
    /\ close \in Before \cup Over => todo = <<>>
    /\ close \in AtOne => todo # <<>>

IsToDo(w) == \E i \in 1..Len(todo) : todo[i].on = w

\* Once Docker was asked, no row of a stack that is up says stopped, and the stack is still
\* in the list or was skipped: a workspace leaves the list only with its stack down.
NoneForgotten ==
    sighted /\ close \in {"relist", "complete"} \cup Working =>
        /\ rows = [w \in Workspaces |-> rows[w]]
        /\ \A w \in Workspaces : w \in up /\ Listed(w) =>
             /\ rows[w] # "stopped"
             /\ close = "relist" \/ IsToDo(w) \/ w \in skipped

CloseInv == ListOK /\ NoneForgotten
             /\ (close \in {"no", "reconcile"} => ~sighted)

LEMMA TailKeeps ==
    ASSUME NEW s \in Seq(Entry), s # <<>>, NEW i \in 1..Len(s), s[i].on # Head(s).on
    PROVE  \E j \in 1..Len(Tail(s)) : Tail(s)[j].on = s[i].on
<1>1. i # 1 OBVIOUS
<1>2. i - 1 \in 1..Len(Tail(s)) /\ Tail(s)[i - 1] = s[i] BY <1>1
<1>3. QED BY <1>2

LEMMA HeadIsWorkspace ==
    ASSUME NEW s \in Seq(Entry), s # <<>>
    PROVE  Head(s).on \in Workspaces /\ Tail(s) \in Seq(Entry)
<1>1. Head(s) \in Entry /\ Tail(s) \in Seq(Entry) OBVIOUS
<1>2. QED BY <1>1 DEF Entry

\* The list that is read again has every workspace that is listed.
LEMMA ListingHasAll ==
    ASSUME NEW l \in Lists, Listing(l)
    PROVE  /\ l \in Seq(Entry)
           /\ \A w \in Workspaces : Listed(w) => \E i \in 1..Len(l) : l[i].on = w
<1>1. PICK n \in Nat : l \in [1..n -> Entry] BY DEF Lists
<1>2. l \in Seq(Entry) /\ Len(l) = n BY <1>1
<1>3. ASSUME NEW w \in Workspaces, Listed(w) PROVE \E i \in 1..Len(l) : l[i].on = w
  <2>1. [on |-> w, state |-> rows[w]] \in {[on |-> v, state |-> rows[v]] : v \in {u \in Workspaces : Listed(u)}}
    BY <1>3
  <2>2. [on |-> w, state |-> rows[w]] \in ToSet(l) BY <2>1 DEF Listing
  <2>3. PICK i \in DOMAIN l : l[i] = [on |-> w, state |-> rows[w]] BY <2>2 DEF ToSet
  <2>4. QED BY <1>1, <1>2, <2>3
<1>4. QED BY <1>2, <1>3

LEMMA CloseInvInit == CInit => CloseInv
BY DEF CInit, CloseInv, ListOK, NoneForgotten, Before, Working, AtOne, Over

LEMMA RunKeeps == CloseInv /\ Run => CloseInv'
BY DEF CloseInv, ListOK, NoneForgotten, Before, Working, AtOne, Over, Run, Now

LEMMA ReconcileKeeps == CloseInv /\ Reconcile => CloseInv'
<1>1. SUFFICES ASSUME CloseInv, Reconcile PROVE CloseInv'
  OBVIOUS
<1>2. ListOK' /\ close' = "relist" /\ up' = up
  BY <1>1 DEF CloseInv, ListOK, Before, Working, AtOne, Over, Reconcile, Now
<1>3. CASE ~sighted' BY <1>2, <1>3 DEF CloseInv, NoneForgotten
<1>4. CASE sighted'
  <2>1. PICK partly \in SUBSET up :
          rows' = [w \in Workspaces |-> CASE ~Listed(w) -> NoRow
                                          [] w \in partly -> "starting"
                                          [] w \in up -> "running"
                                          [] OTHER -> "stopped"]
    BY <1>1, <1>4 DEF Reconcile, CloseInv
  <2>2. \A w \in Workspaces : w \in up /\ Listed(w)' => rows'[w] # "stopped"
    BY <2>1 DEF Listed
  <2>3. rows' = [w \in Workspaces |-> rows'[w]] BY <2>1
  <2>4. QED BY <1>2, <2>2, <2>3 DEF CloseInv, NoneForgotten, Listed
<1>5. QED BY <1>3, <1>4

LEMMA RelistKeeps == CloseInv /\ Relist => CloseInv'
<1>1. SUFFICES ASSUME CloseInv, Relist PROVE CloseInv'
  OBVIOUS
<1>2. PICK l \in Lists : Listing(l) /\ todo' = l BY <1>1 DEF Relist
<1>3. /\ todo' \in Seq(Entry)
      /\ \A w \in Workspaces : Listed(w) => \E i \in 1..Len(todo') : todo'[i].on = w
  BY <1>2, ListingHasAll
<1>4. close = "relist" /\ close' = "next" /\ UNCHANGED <<rows, up, skipped, sighted>>
  BY <1>1 DEF Relist, Now, bvars
<1>5. QED BY <1>1, <1>3, <1>4 DEF CloseInv, ListOK, NoneForgotten, IsToDo, Listed, Before, Working, AtOne, Over

\* From one step to another with the same list and rows, or to an abort.
LEMMA MovesOn ==
    ASSUME CloseInv, close \in Working, UNCHANGED <<rows, up, todo, sighted, skipped>>,
           close' \in AtOne \/ (close' = "complete" /\ todo = <<>>),
           close' \in AtOne => todo # <<>>
    PROVE  CloseInv'
BY DEF CloseInv, ListOK, NoneForgotten, IsToDo, Listed, Before, Working, AtOne, Over

LEMMA Aborts ==
    ASSUME CloseInv, close' = "aborted", todo' = <<>>
    PROVE  CloseInv'
BY DEF CloseInv, ListOK, NoneForgotten, Before, Working, AtOne, Over

\* The current workspace leaves the list: its stack is down, or it is skipped.
LEMMA NextOne ==
    ASSUME CloseInv, close \in AtOne, close' = "next", todo' = Tail(todo), UNCHANGED sighted,
           rows' = rows \/ rows' = [rows EXCEPT ![Current] = "stopped"],
           up' \subseteq up, skipped \subseteq skipped',
           Current \notin up' \/ Current \in skipped' \/ (rows[Current] = "stopped" /\ rows' = rows),
           rows' = rows \/ Current \notin up'
    PROVE  CloseInv'
<1>1. todo \in Seq(Entry) /\ todo # <<>> BY DEF CloseInv, ListOK
<1>2. Current \in Workspaces /\ Tail(todo) \in Seq(Entry) BY <1>1, HeadIsWorkspace DEF Current
<1>3. ListOK' /\ close' \notin {"no", "reconcile"}
  BY <1>2 DEF ListOK, Before, Working, AtOne, Over
<1>4. ASSUME NEW w \in Workspaces, IsToDo(w), w # Current PROVE IsToDo(w)'
  BY <1>1, <1>4, TailKeeps DEF IsToDo, Current
<1>5. CASE sighted
  <2>1. /\ rows = [w \in Workspaces |-> rows[w]]
        /\ \A w \in Workspaces : w \in up /\ Listed(w) =>
             rows[w] # "stopped" /\ (IsToDo(w) \/ w \in skipped)
    BY <1>5 DEF CloseInv, NoneForgotten, Working, AtOne
  <2>2. rows' = [w \in Workspaces |-> rows'[w]] /\ \A w \in Workspaces : w # Current => rows'[w] = rows[w]
    BY <2>1, <1>2
  <2>3. ASSUME NEW w \in Workspaces, w \in up', Listed(w)'
        PROVE  rows'[w] # "stopped" /\ (IsToDo(w)' \/ w \in skipped')
    <3>1. CASE w # Current BY <3>1, <2>1, <2>2, <2>3, <1>4 DEF Listed
    <3>2. CASE w = Current BY <3>2, <2>1, <2>3, <1>2 DEF Listed
    <3>3. QED BY <3>1, <3>2
  <2>4. QED BY <1>3, <2>2, <2>3 DEF CloseInv, NoneForgotten
<1>6. CASE ~sighted BY <1>3, <1>6 DEF CloseInv, NoneForgotten
<1>7. QED BY <1>5, <1>6

LEMMA StopKeeps == CloseInv /\ Stop => CloseInv'
<1>1. SUFFICES ASSUME CloseInv, Stop PROVE CloseInv'
  OBVIOUS
<1>2. CASE rows[Current] = "stopped"
  BY <1>1, <1>2, NextOne DEF Stop, Now, AtOne
<1>3. CASE rows[Current] # "stopped"
  <2>1. /\ close = "stop" /\ close' = "down" /\ rows' = [rows EXCEPT ![Current] = "stopping"]
        /\ UNCHANGED <<todo, up, skipped, sighted>>
    BY <1>1, <1>3 DEF Stop, Now
  <2>2. todo \in Seq(Entry) /\ todo # <<>> BY <1>1, <2>1 DEF CloseInv, ListOK, AtOne
  <2>3. Current \in Workspaces BY <2>2, HeadIsWorkspace DEF Current
  <2>4. \A w \in Workspaces : IsToDo(w)' <=> IsToDo(w) BY <2>1 DEF IsToDo
  <2>5. IsToDo(Current) BY <2>2 DEF IsToDo, Current
  <2>6. QED
    BY <1>1, <2>1, <2>2, <2>3, <2>4, <2>5 DEF CloseInv, ListOK, NoneForgotten, Listed, Before, Working, AtOne, Over
<1>4. QED BY <1>2, <1>3

LEMMA DownKeeps == CloseInv /\ Down => CloseInv'
<1>1. SUFFICES ASSUME CloseInv, Down PROVE CloseInv'
  OBVIOUS
<1>2. CASE close' = "next"
  BY <1>1, <1>2, NextOne DEF Down, Now, AtOne
<1>3. CASE close' = "stop_failed"
  BY <1>1, <1>3 DEF Down, Now, CloseInv, ListOK, NoneForgotten, IsToDo, Listed, Before, Working, AtOne, Over
<1>4. QED BY <1>1, <1>2, <1>3 DEF Down, Now

LEMMA CloseInvStep == CloseInv /\ [CNext]_cvars => CloseInv'
<1>1. SUFFICES ASSUME CloseInv, [CNext]_cvars PROVE CloseInv'
  OBVIOUS
<1>2. CASE close = "no" /\ BNext /\ UNCHANGED closevars
  BY <1>1, <1>2 DEF closevars, CloseInv, ListOK, NoneForgotten, Before, Working, AtOne, Over
<1>3. CASE Run BY <1>1, <1>3, RunKeeps
<1>4. CASE Reconcile BY <1>1, <1>4, ReconcileKeeps
<1>5. CASE Relist BY <1>1, <1>5, RelistKeeps
<1>6. CASE NextWorkspace
  BY <1>1, <1>6, MovesOn DEF NextWorkspace, Now, Working, AtOne, bvars
<1>7. CASE Sync
  BY <1>1, <1>7, MovesOn DEF Sync, Now, Working, AtOne, bvars, CloseInv, ListOK
<1>8. CASE AfterSyncFailed
  <2>1. CASE close' = "aborted" BY <1>1, <1>8, <2>1, Aborts DEF AfterSyncFailed
  <2>2. CASE close' # "aborted"
    BY <1>1, <1>8, <2>2, MovesOn DEF AfterSyncFailed, SyncAgain, Now, Working, AtOne, bvars, CloseInv, ListOK
  <2>3. QED BY <2>1, <2>2
<1>9. CASE Stop BY <1>1, <1>9, StopKeeps
<1>10. CASE Down BY <1>1, <1>10, DownKeeps
<1>11. CASE AfterStopFailed
  <2>1. CASE Now("stop") /\ UNCHANGED <<todo, skipped>>
    BY <1>1, <1>11, <2>1, MovesOn DEF AfterStopFailed, Now, Working, AtOne, bvars, CloseInv, ListOK
  <2>2. CASE Now("next") /\ todo' = Tail(todo) /\ skipped' = skipped \cup {Current}
    BY <1>1, <1>11, <2>2, NextOne DEF AfterStopFailed, Now, AtOne, bvars
  <2>3. CASE AfterAbort BY <1>1, <2>3, Aborts DEF AfterAbort, Now
  <2>4. QED BY <1>11, <2>1, <2>2, <2>3 DEF AfterStopFailed
<1>12. CASE UNCHANGED cvars
  BY <1>1, <1>12 DEF cvars, bvars, closevars, CloseInv, ListOK, NoneForgotten, IsToDo, Listed
<1>13. QED BY <1>1, <1>2, <1>3, <1>4, <1>5, <1>6, <1>7, <1>8, <1>9, <1>10, <1>11, <1>12
           DEF CNext, CloseNext

\* A complete close has brought down, or been told to skip, every listed stack that was up,
\* for any number of workspaces, failures and retries (CloseSequence.run, manager.stop).
THEOREM ClosedIsDown == CSpec => []CompleteMeansDown
<1>1. CloseInv => CompleteMeansDown
  BY DEF CloseInv, ListOK, NoneForgotten, IsToDo, CompleteMeansDown, Over, Working, AtOne, Before
<1>2. QED BY CloseInvInit, CloseInvStep, <1>1, PTL DEF CSpec

-----------------------------------------------------------------------------
(* The order: saved before it is brought down *)

FromFirst(k) == \A i \in k..Len(todo) : todo[i].state = rows[todo[i].on]

\* No workspace is twice in the list: the stop of one leaves what the list says of the
\* others true, and the state that was looked at is that of the row that is stopped.
StillTrue ==
    /\ close \in Working => \A i, j \in 1..Len(todo) : todo[i].on = todo[j].on => i = j
    /\ close \in {"next", "sync", "sync_failed"} => FromFirst(1)
    /\ close \in {"stop", "down", "stop_failed"} => FromFirst(2)
    /\ close \in {"stop", "down", "stop_failed"} =>
         (rows[Current] = "running" /\ Current \in Keyed => Current \in settled)

SavedInv == CloseInv /\ BoardOK /\ StillTrue

\* A list of as many entries as there are workspaces, with each of them, has none twice.
LEMMA ListingOnce ==
    ASSUME NEW l \in Lists, Listing(l)
    PROVE  /\ \A i \in 1..Len(l) : l[i].state = rows[l[i].on]
           /\ \A i, j \in 1..Len(l) : l[i].on = l[j].on => i = j
<1> DEFINE S == {v \in Workspaces : Listed(v)}
           g == [i \in 1..Len(l) |-> l[i].on]
<1>1. l \in Seq(Entry) /\ Len(l) \in Nat /\ DOMAIN l = 1..Len(l)
  BY ListingHasAll
<1>2. \A i \in 1..Len(l) : l[i] \in {[on |-> w, state |-> rows[w]] : w \in S}
  BY <1>1 DEF Listing, ToSet
<1>3. \A i \in 1..Len(l) : l[i].on \in S /\ l[i].state = rows[l[i].on]
  BY <1>2
<1>4. \A w \in S : \E i \in 1..Len(l) : l[i].on = w
  BY ListingHasAll
<1>5. g \in Surjection(1..Len(l), S)
  BY <1>3, <1>4 DEF Surjection
<1>6. IsFiniteSet(1..Len(l)) /\ Cardinality(1..Len(l)) = Cardinality(S)
  BY <1>1, FS_Interval DEF Listing
<1>7. g \in Injection(1..Len(l), S)
  BY <1>5, <1>6, FS_SurjSameCardinalityImpliesInj
<1>8. \A i, j \in 1..Len(l) : g[i] = g[j] => i = j
  BY <1>7 DEF Injection, IsInjective
<1>9. QED BY <1>3, <1>8

LEMMA SavedInvInit == CInit => SavedInv
BY CloseInvInit, BoardOKInit DEF CInit, SavedInv, StillTrue, Working, AtOne

LEMMA CloseKeepsRest ==
    CloseNext => UNCHANGED <<pc, job, copy, snap, idle, pending, queue, cards, busy, modals, overlaps, unlocked>>
BY DEF CloseNext, Run, Reconcile, Relist, NextWorkspace, Sync, AfterSyncFailed, Stop, Down,
       AfterStopFailed, bvars, taskvars, window, history

\* Reconcile and the stops change rows one table to another, and take none away.
LEMMA CloseKeepsBoard ==
    ASSUME ListOK, BoardOK, CloseNext
    PROVE  BoardOK' /\ \A w \in Workspaces : Listed(w) => rows'[w] # NoRow
<1>1. rows' \in Table /\ \A w \in Workspaces : Listed(w) => rows'[w] # NoRow
  <2>1. CASE Reconcile BY <2>1, BoardAssumption DEF Reconcile, BoardOK, Table, Listed, State
  <2>2. CASE Stop BY <2>2, BoardAssumption DEF Stop, BoardOK, Table, Listed, State
  <2>3. CASE Down BY <2>3, BoardAssumption DEF Down, BoardOK, Table, Listed, State
  <2>4. CASE rows' = rows BY <2>4 DEF BoardOK, Listed
  <2>5. QED
    BY <2>1, <2>2, <2>3, <2>4 DEF CloseNext, Run, Relist, NextWorkspace, Sync, AfterSyncFailed,
              AfterStopFailed, bvars
<1>2. QED BY <1>1, CloseKeepsRest DEF BoardOK

\* Steps that leave the list and the rows alone.
LEMMA SameList ==
    ASSUME StillTrue, close \in Working, UNCHANGED <<rows, todo>>, close' \in AtOne,
           close' \in {"sync", "sync_failed"} => close \in {"next", "sync", "sync_failed"},
           close' \in {"stop", "down", "stop_failed"} =>
             rows[Current] # "running" \/ Current \notin Keyed \/ Current \in settled'
    PROVE  StillTrue'
BY DEF StillTrue, FromFirst, Current, Working, AtOne

\* The head has gone: what is left of the list is as true as it was, whatever happened to
\* the row of the head.
LEMMA HeadGone ==
    ASSUME ListOK, BoardOK, StillTrue, close \in {"stop", "down", "stop_failed"},
           close' = "next", todo' = Tail(todo),
           rows' = rows \/ \E s : rows' = [rows EXCEPT ![Current] = s]
    PROVE  StillTrue'
<1>1. todo \in Seq(Entry) /\ todo # <<>> BY DEF ListOK, AtOne
<1>2. /\ Len(Tail(todo)) = Len(todo) - 1 /\ Len(todo) \in Nat
      /\ \A i \in 1..Len(Tail(todo)) : Tail(todo)[i] = todo[i + 1]
  BY <1>1
<1>3. \A i, j \in 1..Len(todo) : todo[i].on = todo[j].on => i = j BY DEF StillTrue, Working, AtOne
<1>4. \A i \in 2..Len(todo) : todo[i].on # Current /\ todo[i].on \in Workspaces
  <2>1. ASSUME NEW i \in 2..Len(todo) PROVE todo[i].on # Current /\ todo[i].on \in Workspaces
    <3>1. todo[i] \in Entry /\ 1 \in 1..Len(todo) /\ Head(todo) = todo[1] BY <1>1
    <3>2. QED BY <3>1, <1>3 DEF Current, Entry
  <2>2. QED BY <2>1
<1>5. \A w \in Workspaces : w # Current => rows'[w] = rows[w] BY DEF BoardOK, Table
<1>6. FromFirst(1)'
  <2>1. ASSUME NEW i \in 1..Len(Tail(todo)) PROVE Tail(todo)[i].state = rows'[Tail(todo)[i].on]
    <3>1. i + 1 \in 2..Len(todo) /\ Tail(todo)[i] = todo[i + 1] BY <1>2
    <3>2. todo[i + 1].state = rows[todo[i + 1].on] BY <3>1 DEF StillTrue, FromFirst
    <3>3. QED BY <3>1, <3>2, <1>4, <1>5
  <2>2. QED BY <2>1 DEF FromFirst
<1>7. \A i, j \in 1..Len(Tail(todo)) : Tail(todo)[i].on = Tail(todo)[j].on => i = j
  <2>1. ASSUME NEW i \in 1..Len(Tail(todo)), NEW j \in 1..Len(Tail(todo)), Tail(todo)[i].on = Tail(todo)[j].on
        PROVE  i = j
    <3>1. i + 1 = j + 1 BY <1>2, <1>3, <2>1
    <3>2. QED BY <3>1
  <2>2. QED BY <2>1
<1>8. QED BY <1>6, <1>7 DEF StillTrue

LEMMA StillTrueStep == SavedInv /\ CloseNext => StillTrue'
<1>1. SUFFICES ASSUME SavedInv, CloseNext PROVE StillTrue'
  OBVIOUS
<1> USE DEF Now
<1>2. ListOK /\ BoardOK /\ StillTrue BY <1>1 DEF SavedInv, CloseInv
<1>3. CASE Run BY <1>2, <1>3 DEF Run, StillTrue, Working, AtOne
<1>4. CASE Reconcile BY <1>2, <1>4 DEF Reconcile, StillTrue, Working, AtOne
<1>5. CASE Relist
  <2>1. PICK l \in Lists : Listing(l) /\ todo' = l BY <1>5 DEF Relist
  <2>2. close' = "next" /\ rows' = rows BY <1>5 DEF Relist, bvars
  <2>3. QED BY <2>1, <2>2, ListingOnce DEF StillTrue, FromFirst
<1>6. CASE NextWorkspace
  <2>1. CASE close' = "complete" BY <2>1 DEF StillTrue, Working, AtOne
  <2>2. CASE close' # "complete"
    <3>1. close = "next" /\ todo # <<>> /\ close' = IF Exports(Head(todo)) THEN "sync" ELSE "stop"
      BY <1>6, <2>2 DEF NextWorkspace
    <3>2. UNCHANGED <<rows, todo, settled>> BY <1>6 DEF NextWorkspace, bvars
    <3>3. Head(todo).state = rows[Current]
      <4>1. 1 \in 1..Len(todo) /\ Head(todo) = todo[1] BY <1>2, <3>1 DEF ListOK
      <4>2. QED BY <1>2, <3>1, <4>1 DEF StillTrue, FromFirst, Current
    <3>4. close' = "stop" => rows[Current] # "running" \/ Current \notin Keyed
      BY <3>1, <3>3 DEF Exports, Current
    <3>5. QED BY <1>2, <3>1, <3>2, <3>4, SameList DEF Working, AtOne
  <2>3. QED BY <2>1, <2>2
<1>7. CASE Sync BY <1>2, <1>7, SameList DEF Sync, Working, AtOne, bvars
<1>8. CASE AfterSyncFailed
  <2>1. CASE close' = "aborted" BY <2>1 DEF StillTrue, Working, AtOne
  <2>2. CASE close' # "aborted"
    BY <1>2, <1>8, <2>2, SameList DEF AfterSyncFailed, SyncAgain, Working, AtOne, bvars
  <2>3. QED BY <2>1, <2>2
<1>9. CASE Stop
  <2>1. CASE rows[Current] = "stopped" BY <1>2, <1>9, <2>1, HeadGone DEF Stop
  <2>2. CASE rows[Current] # "stopped"
    <3>1. /\ close = "stop" /\ close' = "down" /\ todo' = todo
          /\ rows' = [rows EXCEPT ![Current] = "stopping"]
      BY <1>9, <2>2 DEF Stop
    <3>2. \A i \in 2..Len(todo) : todo[i].on # Current /\ todo[i].on \in Workspaces
      <4>1. todo \in Seq(Entry) /\ todo # <<>> BY <1>2, <3>1 DEF ListOK, AtOne
      <4>2. ASSUME NEW i \in 2..Len(todo) PROVE todo[i].on # Current /\ todo[i].on \in Workspaces
        <5>1. todo[i] \in Entry /\ i \in 1..Len(todo) /\ 1 \in 1..Len(todo) /\ Head(todo) = todo[1] BY <4>1
        <5>2. \A k, j \in 1..Len(todo) : todo[k].on = todo[j].on => k = j
          BY <1>2, <3>1 DEF StillTrue, Working, AtOne
        <5>3. QED BY <5>1, <5>2 DEF Current, Entry
      <4>3. QED BY <4>2
    <3>3. \A w \in Workspaces : w # Current => rows'[w] = rows[w] BY <1>2, <3>1 DEF BoardOK, Table
    <3>4. Current' = Current /\ Current \in Workspaces
      BY <1>2, <3>1, HeadIsWorkspace DEF Current, ListOK, AtOne
    <3>5. rows'[Current] = "stopping" BY <1>2, <3>1, <3>4 DEF BoardOK, Table
    <3>6. FromFirst(2)' BY <1>2, <3>1, <3>2, <3>3 DEF StillTrue, FromFirst
    <3>7. \A i, j \in 1..Len(todo) : todo[i].on = todo[j].on => i = j
      BY <1>2, <3>1 DEF StillTrue, Working, AtOne
    <3>8. QED BY <3>1, <3>4, <3>5, <3>6, <3>7 DEF StillTrue
  <2>3. QED BY <2>1, <2>2
<1>10. CASE Down
  <2>1. CASE close' = "next" BY <1>2, <1>10, <2>1, HeadGone DEF Down
  <2>2. CASE close' # "next"
    BY <1>2, <1>10, <2>2, SameList DEF Down, StillTrue, Working, AtOne
  <2>3. QED BY <2>1, <2>2
<1>11. CASE AfterStopFailed
  <2>1. CASE close' = "stop" /\ UNCHANGED <<todo, skipped>>
    BY <1>2, <1>11, <2>1, SameList DEF AfterStopFailed, StillTrue, Working, AtOne, bvars
  <2>2. CASE close' = "next" /\ todo' = Tail(todo)
    BY <1>2, <1>11, <2>2, HeadGone DEF AfterStopFailed, bvars
  <2>3. CASE close' = "aborted" BY <2>3 DEF StillTrue, Working, AtOne
  <2>4. QED BY <1>11, <2>1, <2>2, <2>3 DEF AfterStopFailed, AfterAbort
<1>12. QED BY <1>1, <1>3, <1>4, <1>5, <1>6, <1>7, <1>8, <1>9, <1>10, <1>11 DEF CloseNext

LEMMA SavedInvStep == SavedInv /\ [CNext]_cvars => SavedInv'
<1>1. SUFFICES ASSUME SavedInv, [CNext]_cvars PROVE SavedInv'
  OBVIOUS
<1>2. CloseInv' BY <1>1, CloseInvStep DEF SavedInv
<1>3. CASE close = "no" /\ BNext /\ UNCHANGED closevars
  BY <1>1, <1>2, <1>3, BoardStep DEF SavedInv, StillTrue, Working, AtOne, closevars
<1>4. CASE CloseNext
  BY <1>1, <1>2, <1>4, CloseKeepsBoard, StillTrueStep DEF SavedInv, CloseInv
<1>5. CASE UNCHANGED cvars
  BY <1>1, <1>2, <1>5 DEF SavedInv, BoardOK, StillTrue, FromFirst, Current, cvars, bvars, taskvars, window, closevars
<1>6. QED BY <1>1, <1>3, <1>4, <1>5 DEF CNext

\* At close = "stop" only the stop of the current workspace changes a row.
LEMMA SavedStep ==
    ASSUME SavedInv, [CNext]_cvars, close = "stop", NEW w \in Keyed,
           rows[w] = "running", rows'[w] # "running"
    PROVE  w \in settled
<1>1. Stop
  BY DEF CNext, CloseNext, Run, Reconcile, Relist, NextWorkspace, Sync, AfterSyncFailed, Down,
         AfterStopFailed, cvars, bvars
<1>2. rows' = [rows EXCEPT ![Current] = "stopping"] BY <1>1 DEF Stop
<1>3. w = Current BY <1>2, KeyedAssumption DEF SavedInv, BoardOK, Table
<1>4. QED BY <1>3 DEF SavedInv, StillTrue

\* Export and push come before the stop of each workspace, or the caller has said to go
\* without, for any list, failures and retries and whatever the table was before the
\* window closed (CloseSequence._next, "the order is the whole point").
THEOREM SavedFirst == CSpec => SavedBeforeDown
<1>1. SavedInv /\ [CNext]_cvars =>
        [\A w \in Keyed : close = "stop" /\ rows[w] = "running" /\ rows'[w] # "running"
                            => w \in settled]_cvars
  BY SavedStep
<1>2. QED BY SavedInvInit, SavedInvStep, <1>1, PTL DEF CSpec, SavedBeforeDown

-----------------------------------------------------------------------------
(* What holds of the window until it closes, and after *)

\* The rows, the list and the copies are of their types (the window's part of BTypeOK).
THEOREM DeskTypes == CSpec => []BoardOK
<1>1. SavedInv => BoardOK BY DEF SavedInv
<1>2. QED BY SavedInvInit, SavedInvStep, <1>1, PTL DEF CSpec

\* The close leaves the window as it was.
LEMMA UnlockInvKeeps ==
    ASSUME IsFiniteSet(Tasks), UnlockInv, SavedInv, [CNext]_cvars
    PROVE  UnlockInv'
<1>1. CASE BNext BY <1>1, UnlockStep
<1>2. CASE CloseNext \/ UNCHANGED cvars
  <2>1. UNCHANGED <<pc, idle, pending, queue, busy>>
    BY <1>2, CloseKeepsRest DEF cvars, bvars, taskvars, window
  <2>2. BoardOK' BY SavedInvStep DEF SavedInv
  <2>3. QED BY <2>1, <2>2 DEF UnlockInv, Counted, LockHasReason, AtWork
<1>3. QED BY <1>1, <1>2 DEF CNext

LEMMA LockInvKeeps ==
    ASSUME LockInv, SavedInv, [CNext]_cvars
    PROVE  LockInv'
<1>1. CASE BNext BY <1>1, LockStep DEF SavedInv
<1>2. CASE CloseNext \/ UNCHANGED cvars
  <2>1. UNCHANGED <<pc, queue, busy, modals, overlaps, unlocked>>
    BY <1>2, CloseKeepsRest DEF cvars, bvars, taskvars, window, history
  <2>2. BoardOK' BY SavedInvStep DEF SavedInv
  <2>3. ModalsOK' /\ (Asked' <=> Asked) BY <2>1 DEF LockInv, ModalsOK, Asked
  <2>4. QED BY <2>1, <2>2, <2>3, ModalLocks DEF SavedInv
<1>3. QED BY <1>1, <1>2 DEF CNext

\* When every task has ended and all it posted is delivered, nothing is locked: for any
\* number of tasks that overlap, fail, or emit in another order than they were counted
\* (_begin_busy, _end_busy, _on_busy).
THEOREM ControlsComeBack ==
    ASSUME IsFiniteSet(Tasks)
    PROVE  CSpec => []UnlockedAtRest
<1>1. CInit => UnlockInv /\ SavedInv BY UnlockInit, SavedInvInit DEF CInit
<1>2. UnlockInv /\ SavedInv /\ [CNext]_cvars => (UnlockInv /\ SavedInv)'
  BY UnlockInvKeeps, SavedInvStep
<1>3. UnlockInv => UnlockedAtRest
  BY DEF UnlockInv, LockHasReason, BoardOK, AtWork, AtRest, UnlockedAtRest
<1>4. QED BY <1>1, <1>2, <1>3, PTL DEF CSpec

\* Until a double click or the edit of a name overlaps a task, no two tasks are under way, and
\* the window is locked while one is, whatever menus and questions were open before (_run).
THEOREM WindowLocks ==
    ASSUME IsFiniteSet(Tasks)
    PROVE  CSpec => []LockedWhileWorking
<1> DEFINE Inv == UnlockInv /\ SavedInv /\ LockInv
<1>1. CInit => Inv BY UnlockInit, SavedInvInit, LockInit DEF CInit
<1>2. Inv /\ [CNext]_cvars => Inv' BY UnlockInvKeeps, LockInvKeeps, SavedInvStep
<1>3. Inv => LockedWhileWorking
  <2>1. SUFFICES ASSUME Inv, overlaps = 0, pending > 0 PROVE busy
    BY DEF LockedWhileWorking, LockInv
  <2>2. AtWork # {} BY <2>1, FS_EmptySet DEF UnlockInv, Counted
  <2>3. UnderWay BY <2>2 DEF AtWork, UnderWay
  <2>4. QED BY <2>1, <2>3 DEF LockInv
<1>4. QED BY <1>1, <1>2, <1>3, PTL DEF CSpec

\* A close that has begun never opens the window again.
LEMMA CloseGoesOn == CloseNext => close' # "no"
<1>1. Run \/ Reconcile \/ Relist => close' # "no" BY DEF Run, Reconcile, Relist, Now
<1>2. NextWorkspace \/ Sync => close' # "no" BY DEF NextWorkspace, Sync, Now
<1>3. AfterSyncFailed => close' # "no" BY DEF AfterSyncFailed, SyncAgain, Now
<1>4. Stop \/ Down => close' # "no" BY DEF Stop, Down, Now
<1>5. AfterStopFailed => close' # "no" BY DEF AfterStopFailed, AfterAbort, Now
<1>6. QED BY <1>1, <1>2, <1>3, <1>4, <1>5 DEF CloseNext

\* As long as no task has overlapped, every card shows its committed row once all that was
\* posted is delivered, although each notification carries a row of its own.
THEOREM CardsComeRight ==
    ASSUME IsFiniteSet(Tasks)
    PROVE  CSpec => []OpenCardsShowRows
<1> DEFINE Inv == UnlockInv /\ SavedInv /\ LockInv /\ (close = "no" => CardsInv)
<1>1. CInit => Inv BY UnlockInit, SavedInvInit, LockInit, CardsInit DEF CInit
<1>2. Inv /\ [CNext]_cvars => Inv'
  <2>1. SUFFICES ASSUME Inv, [CNext]_cvars, close' = "no" PROVE CardsInv'
    BY UnlockInvKeeps, LockInvKeeps, SavedInvStep
  <2>2. close = "no" /\ (BNext \/ UNCHANGED bvars)
    <3>1. ~CloseNext BY <2>1, CloseGoesOn
    <3>2. QED BY <2>1, <3>1 DEF CNext, cvars, closevars
  <2>3. CASE BNext BY <2>1, <2>2, <2>3, CardsStep DEF SavedInv
  <2>4. CASE UNCHANGED bvars BY <2>1, <2>2, <2>4, CardsStutter DEF bvars, window, history
  <2>5. QED BY <2>2, <2>3, <2>4
<1>3. Inv => OpenCardsShowRows
  <2>1. SUFFICES ASSUME Inv, close = "no", overlaps = 0, AtRest PROVE cards = rows
    BY DEF OpenCardsShowRows, CardsShowRows
  <2>2. ~UnderWay BY <2>1 DEF UnderWay, AtRest
  <2>3. QED BY <2>1, <2>2 DEF CardsInv
<1>4. QED BY <1>1, <1>2, <1>3, PTL DEF CSpec

\* However old the card is that a delete was asked of, the workspace it takes is stopped;
\* only the save of an older configuration takes another (_confirm_delete, delete).
THEOREM DeleteTakesStopped == CSpec => DeletedWasStopped
<1>1. SavedInv /\ [CNext]_cvars =>
        [\A w \in Workspaces :
            Listed(w) /\ rows'[w] = NoRow /\ rows[w] # "stopped" => \E t \in Tasks : Save(t)]_bvars
  <2>1. SUFFICES ASSUME SavedInv, [CNext]_cvars, NEW w \in Workspaces,
                        Listed(w), rows'[w] = NoRow, rows[w] # "stopped"
                 PROVE  \E t \in Tasks : Save(t)
    OBVIOUS
  <2>2. BNext BY <2>1, CloseKeepsBoard DEF CNext, cvars, bvars, Listed, SavedInv, CloseInv
  <2>3. QED BY <2>1, <2>2, BoardDeletesStopped DEF SavedInv
<1>2. QED BY SavedInvInit, SavedInvStep, <1>1, PTL DEF CSpec, DeletedWasStopped

=============================================================================
