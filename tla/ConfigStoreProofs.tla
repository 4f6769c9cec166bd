-------------------------- MODULE ConfigStoreProofs --------------------------
(***************************************************************************)
(* ConfigStore, for every number of callers: between processes, a mutate   *)
(* loses no edit; inside one process, every call is one atomic step.       *)
(***************************************************************************)
EXTENDS ConfigStore, TLAPS

\* launcher.lock admits one process.
OneProcess == \A p, q \in Processes : p = q

InTransaction == {"import_commit", "write", "commit"}

\* Who is inside a transaction is the writer, and what a mutate is about to commit
\* is an edit of what is committed: nobody else can have changed that.
WriterInv ==
    /\ STypeOK
    /\ \A c \in Callers : pc[c] \in InTransaction => writer = c
    /\ \A c \in Callers : pc[c] = "commit" /\ op[c] = "mutate" => db \in Config /\ draft[c] \in Edits(db)
    /\ \A c \in Callers : pc[c] = "select_rows" => db \in Config

\* In one process the RLock adds: what a load or an import saw still holds, and a
\* save commits what its caller may save.
LockInv ==
    /\ \A c \in Callers : pc[c] \notin {"idle", "lock"} => rlock[ProcessOf[c]] = c
    /\ \A c \in Callers : pc[c] = "select_rows" => seen[c] = db.meta
    /\ \A c \in Callers : pc[c] \in {"connect", "import_begin", "import_commit"} => db \in NoConfig
    /\ \A c \in Callers : pc[c] \in {"begin", "write", "commit"} => op[c] # "load"
    /\ \A c \in Callers : pc[c] = "commit" /\ op[c] # "mutate" => draft[c] \in Savable(c)

-----------------------------------------------------------------------------
\* Editing a configuration gives a configuration.
LEMMA EditsAreConfigs ==
    ASSUME NEW v \in Config
    PROVE  Edits(v) \subseteq Config
  <1> SUFFICES ASSUME NEW h \in Half, v[h] < MaxVersion
               PROVE  [v EXCEPT ![h] = @ + 1] \in Config
    BY DEF Edits
  <1>1. v[h] \in 0..MaxVersion
    BY DEF Config, Half
  <1>2. v[h] + 1 \in 0..MaxVersion
    BY <1>1, MaxVersionAssumption
  <1>3. QED
    BY <1>2 DEF Config, Half

LEMMA LegacyIsConfig == Legacy \in Config
  BY MaxVersionAssumption DEF Legacy, Config

LEMMA SavableAreConfigs ==
    ASSUME STypeOK, NEW c \in Callers
    PROVE  Savable(c) \subseteq Config
  BY EditsAreConfigs, LegacyIsConfig DEF Savable, STypeOK

\* Initially nobody is in a call.
LEMMA InitWriterInv == SInit => WriterInv
  BY LegacyIsConfig, MaxVersionAssumption
  DEF SInit, Init, WriterInv, STypeOK, InTransaction, NoConfig, Step, Operation

LEMMA TypeStep ==
    ASSUME WriterInv, [SNext]_svars
    PROVE  STypeOK'
  <1> USE StoreAssumption
  <1>1. ASSUME NEW c \in Callers, NEW o \in Operation, Call(c, o) PROVE STypeOK'
    BY <1>1 DEF WriterInv, STypeOK, Call, Goto, Step
  <1>2. ASSUME NEW c \in Callers, NEW v \in Config \cup {Refused}, Return(c, v),
               db' \in Config \cup NoConfig
        PROVE  STypeOK'
    BY <1>2, LegacyIsConfig, MaxVersionAssumption
    DEF WriterInv, STypeOK, Return, Answer, Goto, Step, Operation
  <1>3. ASSUME NEW c \in Callers, Raise(c) PROVE STypeOK'
    BY <1>2, <1>3 DEF Raise, WriterInv, STypeOK
  <1>4. ASSUME NEW c \in Callers, CallStep(c) PROVE STypeOK'
    <2>1. CASE TakeLock(c)
      BY <2>1 DEF WriterInv, STypeOK, TakeLock, Goto, Step
    <2>2. CASE Exists(c)
      BY <1>3, <2>2 DEF WriterInv, STypeOK, Exists, Found, Goto, Step
    <2>3. CASE Connect(c)
      BY <2>3 DEF WriterInv, STypeOK, Connect, Goto, Step, NoConfig
    <2>4. CASE ImportBegin(c)
      BY <2>4 DEF WriterInv, STypeOK, ImportBegin, Goto, Step
    <2>5. CASE ImportCommit(c)
      BY <2>5, LegacyIsConfig DEF WriterInv, STypeOK, ImportCommit, Found, Goto, Step
    <2>6. CASE SelectMeta(c)
      BY <1>3, <2>6 DEF WriterInv, STypeOK, SelectMeta, Goto, Step, Config
    <2>7. CASE SelectRows(c)
      <3>1. [meta |-> seen[c], rows |-> db.rows] \in Config
        BY <2>7 DEF SelectRows, WriterInv, STypeOK, Config
      <3>2. QED
        BY <1>2, <2>7, <3>1 DEF SelectRows, WriterInv, STypeOK
    <2>8. CASE Begin(c)
      BY <2>8 DEF WriterInv, STypeOK, Begin, Goto, Step, NoConfig
    <2>9. CASE Busy(c) \/ WriteFails(c) \/ CommitFails(c)
      BY <1>3, <2>9 DEF Busy, WriteFails, CommitFails
    <2>10. CASE Write(c)
      <3>1. Drafts(c) \subseteq Config
        BY EditsAreConfigs, SavableAreConfigs DEF Drafts, WriterInv
      <3>2. QED
        BY <2>10, <3>1 DEF WriterInv, STypeOK, Write, Goto, Step
    <2>11. CASE Commit(c)
      <3>1. draft[c] \in Config
        BY DEF WriterInv, STypeOK
      <3>2. QED
        BY <1>2, <2>11, <3>1 DEF Commit, WriterInv, STypeOK
    <2>12. QED
      BY <1>4, <2>1, <2>2, <2>3, <2>4, <2>5, <2>6, <2>7, <2>8, <2>9, <2>10, <2>11 DEF CallStep
  <1>5. ASSUME NEW p \in Processes, Crash(p) PROVE STypeOK'
    BY <1>5, LegacyIsConfig, MaxVersionAssumption DEF WriterInv, STypeOK, Crash, Step, Operation
  <1>6. CASE UNCHANGED svars
    BY <1>6 DEF svars, WriterInv, STypeOK
  <1>7. QED
    BY <1>1, <1>4, <1>5, <1>6 DEF SNext

\* Nobody changes db under another caller's transaction.
LEMMA WriterStep ==
    ASSUME WriterInv, [SNext]_svars
    PROVE  WriterInv'
  <1>t. STypeOK'
    BY TypeStep
  <1> DEFINE Txn == /\ \A d \in Callers : pc[d] \in InTransaction => writer = d
                    /\ \A d \in Callers : pc[d] = "commit" /\ op[d] = "mutate" =>
                                              db \in Config /\ draft[d] \in Edits(db)
                    /\ \A d \in Callers : pc[d] = "select_rows" => db \in Config
  <1> HIDE DEF Txn
  <1>s. STypeOK /\ Txn
    BY DEF WriterInv, Txn
  <1>1. ASSUME NEW c \in Callers, NEW o \in Operation, Call(c, o) PROVE Txn'
    BY <1>1, <1>s DEF Txn, STypeOK, Call, Goto, InTransaction
  <1>2. ASSUME NEW c \in Callers, NEW v, Return(c, v),
               \/ UNCHANGED db
               \/ writer = c /\ db' \in Config /\ pc[c] \in InTransaction
        PROVE  Txn'
    BY <1>2, <1>s, StoreAssumption DEF Txn, STypeOK, Return, Goto, InTransaction
  <1>3. ASSUME NEW c \in Callers, Raise(c) PROVE Txn'
    BY <1>2, <1>3 DEF Raise
  <1>4. ASSUME NEW c \in Callers, CallStep(c) PROVE Txn'
    <2>1. CASE TakeLock(c)
      BY <2>1, <1>s DEF Txn, STypeOK, TakeLock, Goto, InTransaction
    <2>2. CASE Exists(c)
      BY <1>3, <2>2, <1>s DEF Txn, STypeOK, Exists, Found, Goto, InTransaction
    <2>3. CASE Connect(c)
      BY <2>3, <1>s, SentinelAssumption DEF Txn, STypeOK, Connect, Goto, InTransaction
    <2>4. CASE ImportBegin(c)
      BY <2>4, <1>s, StoreAssumption DEF Txn, STypeOK, ImportBegin, Goto, InTransaction
    <2>5. CASE ImportCommit(c)
      BY <2>5, <1>s, LegacyIsConfig DEF Txn, STypeOK, ImportCommit, Found, Goto, InTransaction
    <2>6. CASE SelectMeta(c)
      BY <1>3, <2>6, <1>s DEF Txn, STypeOK, SelectMeta, Goto, InTransaction
    <2>7. CASE SelectRows(c)
      BY <1>2, <2>7 DEF SelectRows
    <2>8. CASE Begin(c)
      BY <2>8, <1>s, SentinelAssumption, StoreAssumption
      DEF Txn, STypeOK, Begin, MayWrite, Goto, InTransaction
    <2>9. CASE Busy(c) \/ WriteFails(c) \/ CommitFails(c)
      BY <1>3, <2>9 DEF Busy, WriteFails, CommitFails
    <2>10. CASE Write(c)
      BY <2>10, <1>s DEF Txn, STypeOK, Write, Drafts, Goto, InTransaction
    <2>11. CASE Commit(c)
      BY <1>2, <2>11, <1>s DEF Commit, Txn, STypeOK, InTransaction
    <2>12. QED
      BY <1>4, <2>1, <2>2, <2>3, <2>4, <2>5, <2>6, <2>7, <2>8, <2>9, <2>10, <2>11 DEF CallStep
  <1>5. ASSUME NEW p \in Processes, Crash(p) PROVE Txn'
    BY <1>5, <1>s, StoreAssumption DEF Txn, STypeOK, Crash, InTransaction
  <1>6. ASSUME UNCHANGED svars PROVE Txn'
    BY <1>6, <1>s DEF svars, Txn, InTransaction
  <1>7. Txn'
    BY <1>1, <1>4, <1>5, <1>6 DEF SNext
  <1>8. QED
    BY <1>t, <1>7 DEF Txn, WriterInv

\* For any number of processes and threads, no edit is lost between two mutates.
THEOREM MutatesAreAtomic == SSpec => MutateIsAtomic
  <1> DEFINE Safe == \A c \in Callers :
                       op[c] = "mutate" /\ pc[c] = "commit" /\ pc'[c] = "idle"
                           /\ told'[c] \in Config => db' \in Edits(db)
  <1>1. SInit => WriterInv
    BY InitWriterInv
  <1>2. WriterInv /\ [SNext]_svars => WriterInv'
    BY WriterStep
  <1>3. WriterInv /\ [SNext]_svars => [Safe]_svars
    <2> SUFFICES ASSUME WriterInv, SNext, NEW c \in Callers, op[c] = "mutate",
                        pc[c] = "commit", pc'[c] = "idle", told'[c] \in Config
                 PROVE  db' \in Edits(db)
      OBVIOUS
    <2>1. ASSUME NEW d \in Callers, NEW o \in Operation, Call(d, o) PROVE FALSE
      BY <2>1 DEF Call, Goto, WriterInv, STypeOK
    <2>2. ASSUME NEW d \in Callers, CallStep(d) PROVE db' \in Edits(db)
      <3>1. d = c
        BY <2>2
        DEF CallStep, TakeLock, Exists, Connect, ImportBegin, ImportCommit, SelectMeta, SelectRows,
            Begin, Busy, Write, WriteFails, Commit, CommitFails, Raise, Return, Goto, WriterInv,
            STypeOK
      <3>2. Commit(c) \/ CommitFails(c)
        BY <2>2, <3>1
        DEF CallStep, TakeLock, Exists, Connect, ImportBegin, ImportCommit, SelectMeta, SelectRows,
            Begin, Busy, Write, WriteFails
      <3>3. ~CommitFails(c)
        BY SentinelAssumption DEF CommitFails, Raise, Return, Answer, WriterInv, STypeOK
      <3>4. QED
        BY <3>2, <3>3 DEF Commit, WriterInv
    <2>3. ASSUME NEW p \in Processes, Crash(p) PROVE FALSE
      BY <2>3, SentinelAssumption DEF Crash, WriterInv, STypeOK
    <2>4. QED
      BY <2>1, <2>2, <2>3 DEF SNext
  <1>4. QED
    BY <1>1, <1>2, <1>3, PTL DEF SSpec, MutateIsAtomic

-----------------------------------------------------------------------------
(* One process *)

\* Initially nobody has the lock.
LEMMA InitLockInv == SInit => LockInv
  BY DEF SInit, LockInv

\* The RLock keeps the calls of one process apart.
LEMMA LockStep ==
    ASSUME OneProcess, WriterInv, LockInv, [SNext]_svars
    PROVE  LockInv'
  <1>p. \A c, d \in Callers : ProcessOf[c] = ProcessOf[d]
    BY StoreAssumption DEF OneProcess
  <1>s. STypeOK /\ STypeOK' /\ LockInv
    BY TypeStep DEF WriterInv
  <1>a. \A c, d \in Callers : pc[c] \notin {"idle", "lock"} /\ pc[d] \notin {"idle", "lock"} => c = d
    BY <1>p, <1>s DEF LockInv
  <1>1. ASSUME NEW c \in Callers, NEW o \in Operation, Call(c, o) PROVE LockInv'
    BY <1>1, <1>s DEF LockInv, STypeOK, Call, Goto, Savable
  <1>2. ASSUME NEW c \in Callers, NEW v, Return(c, v), pc[c] \notin {"idle", "lock"} PROVE LockInv'
    <2>1. \A d \in Callers : pc'[d] \in {"idle", "lock"}
      BY <1>2, <1>a, <1>s DEF Return, Goto, STypeOK
    <2>2. QED
      BY <2>1 DEF LockInv
  <1>3. ASSUME NEW c \in Callers, Raise(c), pc[c] \notin {"idle", "lock"} PROVE LockInv'
    BY <1>2, <1>3 DEF Raise
  <1>4. ASSUME NEW c \in Callers, CallStep(c) PROVE LockInv'
    <2>1. CASE TakeLock(c)
      <3>1. \A d \in Callers : d # c => pc[d] \in {"idle", "lock"}
        BY <2>1, <1>p, <1>s, StoreAssumption DEF TakeLock, LockInv
      <3>2. QED
        BY <2>1, <3>1, <1>s, StoreAssumption DEF LockInv, STypeOK, TakeLock, Goto
    <2>2. CASE Exists(c)
      BY <1>3, <2>2, <1>a, <1>s DEF LockInv, STypeOK, Exists, Found, Goto, NoConfig
    <2>3. CASE Connect(c)
      BY <2>3, <1>a, <1>s DEF LockInv, STypeOK, Connect, Goto, NoConfig
    <2>4. CASE ImportBegin(c)
      BY <2>4, <1>a, <1>s DEF LockInv, STypeOK, ImportBegin, Goto
    <2>5. CASE ImportCommit(c)
      BY <2>5, <1>a, <1>s DEF LockInv, STypeOK, ImportCommit, Found, Goto
    <2>6. CASE SelectMeta(c)
      BY <1>3, <2>6, <1>a, <1>s DEF LockInv, STypeOK, SelectMeta, Goto
    <2>7. CASE SelectRows(c)
      BY <1>2, <2>7 DEF SelectRows
    <2>8. CASE Begin(c)
      BY <2>8, <1>a, <1>s DEF LockInv, STypeOK, Begin, Goto
    <2>9. CASE Busy(c) \/ WriteFails(c) \/ CommitFails(c)
      BY <1>3, <2>9 DEF Busy, WriteFails, CommitFails
    <2>10. CASE Write(c)
      BY <2>10, <1>a, <1>s DEF LockInv, STypeOK, Write, Drafts, Goto, Savable, Operation
    <2>11. CASE Commit(c)
      BY <1>2, <2>11 DEF Commit
    <2>12. QED
      BY <1>4, <2>1, <2>2, <2>3, <2>4, <2>5, <2>6, <2>7, <2>8, <2>9, <2>10, <2>11 DEF CallStep
  <1>5. ASSUME NEW p \in Processes, Crash(p) PROVE LockInv'
    <2>1. \A d \in Callers : pc'[d] = "idle"
      BY <1>5, StoreAssumption DEF Crash, OneProcess
    <2>2. QED
      BY <2>1 DEF LockInv
  <1>6. CASE UNCHANGED svars
    BY <1>6, <1>s DEF svars, LockInv, Savable
  <1>7. QED
    BY <1>1, <1>4, <1>5, <1>6 DEF SNext

\* What a caller is answered, when its call returns, is what Atomic answers.
LEMMA StepIsAtomic ==
    ASSUME OneProcess, WriterInv, LockInv, SNext
    PROVE  [Atomic!Next]_<<db, told>>
  <1>s. STypeOK
    BY DEF WriterInv
  <1>1. ASSUME NEW c \in Callers, NEW o \in Operation, Call(c, o) PROVE UNCHANGED <<db, told>>
    BY <1>1 DEF Call
  <1>2. ASSUME NEW c \in Callers, Raise(c) PROVE Atomic!Next
    BY <1>2 DEF Raise, Return, Answer, Atomic!Next, Atomic!Refuse, Atomic!Answer
  <1>3. ASSUME NEW c \in Callers, CallStep(c) PROVE [Atomic!Next]_<<db, told>>
    <2>1. CASE TakeLock(c) \/ ImportBegin(c) \/ Write(c)
      BY <2>1 DEF TakeLock, ImportBegin, Write
    <2>2. CASE Exists(c) \/ SelectMeta(c)
      BY <1>2, <2>2 DEF Exists, SelectMeta
    <2>3. CASE Connect(c)
      BY <2>3 DEF Connect, Atomic!Next, Atomic!Create
    <2>4. CASE ImportCommit(c)
      BY <2>4 DEF ImportCommit, LockInv, Atomic!Next, Atomic!Import, NoConfig, Atomic!NoConfig,
                  Legacy, Atomic!Legacy
    <2>5. CASE SelectRows(c)
      <3>1. db \in Config /\ seen[c] = db.meta
        BY <2>5 DEF SelectRows, WriterInv, LockInv
      <3>2. [meta |-> seen[c], rows |-> db.rows] = db
        BY <3>1 DEF Config
      <3>3. Atomic!Load(c)
        BY <2>5, <3>1, <3>2
        DEF SelectRows, Return, Answer, Atomic!Load, Atomic!Answer, Config, Atomic!Config
      <3>4. QED
        BY <3>3 DEF Atomic!Next
    <2>6. CASE Begin(c)
      BY <2>6 DEF Begin, Atomic!Next, Atomic!Create
    <2>7. CASE Busy(c) \/ WriteFails(c) \/ CommitFails(c)
      BY <1>2, <2>7 DEF Busy, WriteFails, CommitFails
    <2>8. CASE Commit(c)
      <3>1. CASE op[c] = "mutate"
        <4>1. Atomic!Mutate(c)
          BY <2>8, <3>1
          DEF Commit, Return, Answer, WriterInv, Atomic!Mutate, Atomic!Answer, Config,
              Atomic!Config, Edits, Atomic!Edits, Half, Atomic!Half
        <4>2. QED
          BY <4>1 DEF Atomic!Next
      <3>2. CASE op[c] # "mutate"
        <4>1. draft[c] \in Atomic!Savable(c)
          BY <2>8, <3>2
          DEF Commit, LockInv, Savable, Atomic!Savable, Config, Atomic!Config, Edits,
              Atomic!Edits, Half, Atomic!Half, Legacy, Atomic!Legacy
        <4>2. Atomic!Save(c)
          BY <2>8, <4>1 DEF Commit, Return, Answer, Atomic!Save, Atomic!Answer
        <4>3. QED
          BY <4>2 DEF Atomic!Next
      <3>3. QED
        BY <3>1, <3>2
    <2>9. QED
      BY <1>3, <2>1, <2>2, <2>3, <2>4, <2>5, <2>6, <2>7, <2>8 DEF CallStep
  <1>4. ASSUME NEW p \in Processes, Crash(p) PROVE Atomic!Next
    BY <1>4 DEF Crash, Atomic!Next, Atomic!Forget
  <1>5. QED
    BY <1>1, <1>3, <1>4 DEF SNext

\* In one launcher process, for any number of threads, the store implements the
\* atomic store: every load, mutate and save is one step of it.
THEOREM StoreIsAtomic == OneProcess => (SSpec => ImplementsAtomicStore)
  <1> SUFFICES ASSUME OneProcess PROVE SSpec => ImplementsAtomicStore
    OBVIOUS
  <1>1. SInit => WriterInv /\ LockInv /\ Atomic!Init
    BY InitWriterInv, InitLockInv
    DEF SInit, Init, Atomic!Init, Config, Atomic!Config
  <1>2. WriterInv /\ LockInv /\ [SNext]_svars => WriterInv' /\ LockInv'
    BY WriterStep, LockStep
  <1>3. WriterInv /\ LockInv /\ [SNext]_svars => [Atomic!Next]_<<db, told>>
    <2>1. CASE SNext
      BY <2>1, StepIsAtomic
    <2>2. CASE UNCHANGED svars
      BY <2>2 DEF svars
    <2>3. QED
      BY <2>1, <2>2
  <1>4. QED
    BY <1>1, <1>2, <1>3, PTL DEF SSpec, ImplementsAtomicStore, Atomic!Spec

=============================================================================
