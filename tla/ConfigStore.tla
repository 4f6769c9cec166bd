----------------------------- MODULE ConfigStore -----------------------------
(***************************************************************************)
(* core/config.py: ConfigStore over SQLite, statement by statement.  Every *)
(* thread of a process shares one store, its RLock and its connection;     *)
(* processes meet in SQLite, which lets one of them hold BEGIN IMMEDIATE   *)
(* and gives each SELECT outside a transaction its own snapshot.           *)
(***************************************************************************)
EXTENDS AtomicStore

CONSTANTS
    Processes,
    ProcessOf,  \* the process of each caller
    NoCaller,
    HasLegacy,  \* a config.json is there
    Faults      \* busy: BEGIN gives up after busy_timeout; commit: it fails

ASSUME StoreAssumption ==
    /\ ProcessOf \in [Callers -> Processes]
    /\ NoCaller \notin Callers
    /\ HasLegacy \in BOOLEAN
    /\ Faults \subseteq {"busy", "commit"}

Operation == {"load", "mutate", "save"}
Step == {"idle", "lock", "exists", "connect", "import_begin", "import_commit",
         "select_meta", "select_rows", "begin", "write", "commit"}

VARIABLES
    pc,      \* where each caller is in its call
    op,      \* which call
    rlock,   \* the caller that has self._lock, per process
    writer,  \* the caller inside BEGIN IMMEDIATE
    seen,    \* load: the meta values already read
    draft    \* the uncommitted content of the writer's transaction

svars == <<db, told, pc, op, rlock, writer, seen, draft>>

SInit ==
    /\ Init
    /\ pc = [c \in Callers |-> "idle"]
    /\ op = [c \in Callers |-> "load"]
    /\ rlock = [p \in Processes |-> NoCaller]
    /\ writer = NoCaller
    /\ seen = [c \in Callers |-> 0]
    /\ draft = [c \in Callers |-> Legacy]

Goto(c, s) == pc' = [pc EXCEPT ![c] = s]

Call(c, o) ==
    /\ pc[c] = "idle"
    /\ Goto(c, "lock")
    /\ op' = [op EXCEPT ![c] = o]
    /\ UNCHANGED <<db, told, rlock, writer, seen, draft>>

\* with self._lock; save asks nothing of the file, the others look for it.
TakeLock(c) ==
    /\ pc[c] = "lock" /\ rlock[ProcessOf[c]] = NoCaller
    /\ rlock' = [rlock EXCEPT ![ProcessOf[c]] = c]
    /\ Goto(c, IF op[c] = "save" THEN "begin" ELSE "exists")
    /\ UNCHANGED <<db, told, op, writer, seen, draft>>

\* The call ends: its lock goes, and its transaction if it has one.
Return(c, v) ==
    /\ Goto(c, "idle")
    /\ rlock' = [rlock EXCEPT ![ProcessOf[c]] = NoCaller]
    /\ writer' = IF writer = c THEN NoCaller ELSE writer
    /\ Answer(c, v)
    /\ op' = [op EXCEPT ![c] = "load"]
    /\ seen' = [seen EXCEPT ![c] = 0]
    /\ draft' = [draft EXCEPT ![c] = Legacy]
Raise(c) == Return(c, Refused) /\ UNCHANGED db

-----------------------------------------------------------------------------
(* A missing database: the legacy file is imported, or the call is refused. *)

Found(c) == IF op[c] = "load" THEN "select_meta" ELSE "begin"

\* Mutant of Exists: whether there is a configuration yet is not asked.
ExistsImporting(c) ==
    /\ pc[c] = "exists"
    /\ \/ HasLegacy /\ Goto(c, "connect") /\ UNCHANGED <<db, told, op, rlock, writer, seen, draft>>
       \/ ~HasLegacy /\ Raise(c)

Exists(c) ==
    /\ pc[c] = "exists"
    /\ \/ /\ db # Missing \/ HasLegacy
          /\ Goto(c, IF db # Missing THEN Found(c) ELSE "connect")
          /\ UNCHANGED <<db, told, op, rlock, writer, seen, draft>>
       \/ /\ db = Missing /\ ~HasLegacy
          /\ Raise(c)

\* Opening the database creates it, with its schema and nothing else.
Connect(c) ==
    /\ pc[c] = "connect"
    /\ db' = IF db = Missing THEN Blank ELSE db
    /\ Goto(c, "import_begin")
    /\ UNCHANGED <<told, op, rlock, writer, seen, draft>>

ImportBegin(c) ==
    /\ pc[c] = "import_begin" /\ writer = NoCaller
    /\ writer' = c
    /\ Goto(c, "import_commit")
    /\ UNCHANGED <<db, told, op, rlock, seen, draft>>

ImportCommit(c) ==
    /\ pc[c] = "import_commit"
    /\ db' = Legacy
    /\ writer' = NoCaller
    /\ Goto(c, Found(c))
    /\ UNCHANGED <<told, op, rlock, seen, draft>>

-----------------------------------------------------------------------------
(* load: two SELECTs, each with the snapshot of its own instant *)

\* Mutant of SelectMeta: what a blank database holds is given out.
SelectMetaUnchecked(c) ==
    /\ pc[c] = "select_meta"
    /\ \/ /\ db \in Config
          /\ seen' = [seen EXCEPT ![c] = db.meta]
          /\ Goto(c, "select_rows")
          /\ UNCHANGED <<db, told, op, rlock, writer, draft>>
       \/ /\ db \notin Config
          /\ Return(c, db)
          /\ UNCHANGED db

SelectMeta(c) ==
    /\ pc[c] = "select_meta"
    /\ \/ /\ db \in Config
          /\ seen' = [seen EXCEPT ![c] = db.meta]
          /\ Goto(c, "select_rows")
          /\ UNCHANGED <<db, told, op, rlock, writer, draft>>
       \/ /\ db \notin Config
          /\ Raise(c)

SelectRows(c) ==
    /\ pc[c] = "select_rows"
    /\ Return(c, [meta |-> seen[c], rows |-> db.rows])
    /\ UNCHANGED db

-----------------------------------------------------------------------------
(* mutate and save: one transaction *)

\* Mutant of MayWrite: a deferred BEGIN, which nobody waits for.
BeginDeferred(c) == TRUE

MayWrite(c) == writer = NoCaller

\* BEGIN IMMEDIATE; save opens the database first and so creates it.
Begin(c) ==
    /\ pc[c] = "begin" /\ MayWrite(c)
    /\ db' = IF db = Missing THEN Blank ELSE db
    /\ writer' = c
    /\ Goto(c, "write")
    /\ UNCHANGED <<told, op, rlock, seen, draft>>

\* Mutant of Busy: the import waits without a limit.
BusyWriting(c) ==
    /\ "busy" \in Faults
    /\ pc[c] = "begin" /\ writer # NoCaller
    /\ Raise(c)

\* The other writer kept its transaction longer than busy_timeout.
Busy(c) ==
    /\ "busy" \in Faults
    /\ pc[c] \in {"begin", "import_begin"} /\ writer # NoCaller
    /\ Raise(c)

\* Inside the transaction: what is to be written, read and edited for mutate.
Drafts(c) ==
    IF op[c] = "save" THEN Savable(c)
    ELSE IF db \in Config THEN Edits(db) ELSE {}

Write(c) ==
    /\ pc[c] = "write"
    /\ \E d \in Drafts(c) : draft' = [draft EXCEPT ![c] = d]
    /\ Goto(c, "commit")
    /\ UNCHANGED <<db, told, op, rlock, writer, seen>>

\* Nothing to read in a blank database, or the caller's function raises: rollback.
WriteFails(c) ==
    /\ pc[c] = "write" /\ op[c] = "mutate"
    /\ Raise(c)

Commit(c) ==
    /\ pc[c] = "commit"
    /\ db' = draft[c]
    /\ Return(c, draft[c])

CommitFails(c) ==
    /\ "commit" \in Faults
    /\ pc[c] \in {"commit", "import_commit"}
    /\ Raise(c)

\* The process dies: SQLite rolls its transaction back.
Crash(p) ==
    LET mine == {c \in Callers : ProcessOf[c] = p} IN
    /\ pc' = [c \in Callers |-> IF c \in mine THEN "idle" ELSE pc[c]]
    /\ told' = [c \in Callers |-> IF c \in mine THEN Refused ELSE told[c]]
    /\ rlock' = [rlock EXCEPT ![p] = NoCaller]
    /\ writer' = IF writer \in mine THEN NoCaller ELSE writer
    /\ op' = [c \in Callers |-> IF c \in mine THEN "load" ELSE op[c]]
    /\ seen' = [c \in Callers |-> IF c \in mine THEN 0 ELSE seen[c]]
    /\ draft' = [c \in Callers |-> IF c \in mine THEN Legacy ELSE draft[c]]
    /\ UNCHANGED db

CallStep(c) ==
    \/ TakeLock(c) \/ Exists(c) \/ Connect(c) \/ ImportBegin(c) \/ ImportCommit(c)
    \/ SelectMeta(c) \/ SelectRows(c)
    \/ Begin(c) \/ Busy(c) \/ Write(c) \/ WriteFails(c) \/ Commit(c) \/ CommitFails(c)

SNext ==
    \/ \E c \in Callers, o \in Operation : Call(c, o)
    \/ \E c \in Callers : CallStep(c)
    \/ \E p \in Processes : Crash(p)

SSpec == SInit /\ [][SNext]_svars

\* Every caller keeps running; a transaction ends.
FairSSpec == SSpec /\ \A c \in Callers : WF_svars(CallStep(c))

-----------------------------------------------------------------------------
STypeOK ==
    /\ db \in Config \cup NoConfig
    /\ told \in [Callers -> Config \cup {Refused}]
    /\ pc \in [Callers -> Step]
    /\ op \in [Callers -> Operation]
    /\ rlock \in [Processes -> Callers \cup {NoCaller}]
    /\ writer \in Callers \cup {NoCaller}
    /\ seen \in [Callers -> 0..MaxVersion]
    /\ draft \in [Callers -> Config]

Atomic == INSTANCE AtomicStore

\* With one launcher process, as launcher.lock has it, the store is atomic: each
\* load, mutate and save is one step on one committed configuration, whatever
\* threads overlap and wherever the process dies.
ImplementsAtomicStore == Atomic!Spec

\* mutate changes what is committed now, never what was a moment ago: no edit is
\* lost between two mutates, of one process or of several.
MutateIsAtomic ==
    [][\A c \in Callers :
         op[c] = "mutate" /\ pc[c] = "commit" /\ pc'[c] = "idle" /\ told'[c] \in Config =>
             db' \in Edits(db)]_svars

\* load gives a configuration that is committed, not halves of two.
LoadIsCommitted ==
    [][\A c \in Callers :
         pc[c] = "select_rows" /\ pc'[c] = "idle" /\ told'[c] \in Config =>
             told'[c] = db]_svars

\* config.json is imported only while no configuration is in the database.
ImportedOnce ==
    [][\A c \in Callers :
         pc[c] = "import_commit" /\ pc'[c] \in {"select_meta", "begin"} => db \in NoConfig]_svars

\* A call that has the store's lock ends: busy_timeout bounds every wait for the
\* other processes' transactions.
LockedCallsEnd == \A c \in Callers : pc[c] \notin {"idle", "lock"} ~> pc[c] = "idle"

=============================================================================
