----------------------------- MODULE Provision -----------------------------
(***************************************************************************)
(* Making one workspace ready: its database settings in the store (update, *)
(* configure_db), start's way from the Compose file to the migrations of   *)
(* the managed database (MigrationRunner, psql in the Postgres container), *)
(* and ensure_running's owner, API key and n8n credential (n8n/owner.py,   *)
(* n8n/api.py, database/credentials.py).  n8n keeps its users, keys and    *)
(* credentials in the database of the Compose file it runs with: SQLite,   *)
(* or the managed Postgres.                                                *)
(***************************************************************************)
EXTENDS Naturals, Sequences, FiniteSets, Functions, FiniteSetsExt

CONSTANTS
    Callers,
    Passwords,    \* of the managed database, drawn by token_hex
    Keys,         \* API keys n8n will issue
    NoDb,         \* DbMode.NONE
    Nothing,      \* no key, no credential, no role, no Compose file, no container
    LastMigration,
    Settings,     \* operations on the settings and on the stack of an instance
    ProvisionFaults

SettingSet == {"start", "ensure", "configure_db", "update", "stop", "revoke"}
ProvisionFaultSet == {"docker", "ready", "role", "refused", "sql", "timeout", "owner",
                      "list_keys", "delete_key", "create_key", "api", "answer"}

ASSUME ProvisionAssumption ==
    /\ LastMigration \in Nat
    /\ NoDb \notin Passwords /\ Nothing \notin Passwords \cup Keys
    /\ Settings \subseteq SettingSet /\ ProvisionFaults \subseteq ProvisionFaultSet

VARIABLES
    row,         \* the workspace in the store
    compose,     \* database of the Compose file on disk
    stack,       \* database of the running containers
    keys, issued, \* API keys labelled n8n-launcher per database of n8n; keys issued so far
    credential,  \* password in the credential workspace-<name>, per database of n8n
    role,        \* password of the Postgres role
    recorded,    \* public.schema_migrations
    ran,         \* history: migrations whose transaction was committed
    orphans,     \* migrations still running in the container for a launcher that gave up
    tpc,         \* where each task is
    held,        \* the workspace object it works on
    pending,     \* migrations it has still to run
    rotating,    \* it is replacing a key n8n refused
    ended        \* how its last operation ended

pvars == <<row, compose, stack, keys, issued, credential, role, recorded, ran, orphans,
           tpc, held, pending, rotating, ended>>
store == <<row, compose>>
n8n == <<keys, issued, credential>>
postgres == <<role, recorded, ran, orphans>>
task == <<held, pending, rotating>>

Migrations == 1..LastMigration
Home(db) == IF db = NoDb THEN "sqlite" ELSE "postgres"
Homes == {"sqlite", "postgres"}
Row == [db : Passwords \cup {NoDb}, key : Keys \cup {Nothing}, restart_required : BOOLEAN]
PrSteps == {"idle", "load", "save", "up", "ready", "role", "applied", "migrate", "running",
          "serving", "setup", "remove", "create", "save_key", "credential", "import",
          "configure"}
\* With "no_folder" ensure_running returns, too: there is no n8nPipelines/ to import.
Outcomes == {"ok", "no_folder", "unauthorized", "failed"}

PrInit ==
    /\ row = [db |-> NoDb, key |-> Nothing, restart_required |-> FALSE]
    /\ compose = Nothing /\ stack = Nothing
    /\ keys = [h \in Homes |-> {}] /\ issued = {} /\ credential = [h \in Homes |-> Nothing]
    /\ role = Nothing /\ recorded = {} /\ ran = <<>> /\ orphans = {}
    /\ tpc = [t \in Callers |-> "idle"]
    /\ held = [t \in Callers |-> row]
    /\ pending = [t \in Callers |-> {}]
    /\ rotating = [t \in Callers |-> FALSE]
    /\ ended = [t \in Callers |-> "ok"]

Fault(f) == f \in ProvisionFaults
Goto(t, s) == tpc' = [tpc EXCEPT ![t] = s]
On(t, s, next) == tpc[t] = s /\ Goto(t, next) /\ UNCHANGED ended
Hold(t, w) == held' = [held EXCEPT ![t] = w]
\* Mutant of End: the plan of the migrations survives the operation.
EndWithPlan(t, outcome) ==
    /\ Goto(t, "idle")
    /\ ended' = [ended EXCEPT ![t] = outcome]
    /\ Hold(t, row)
    /\ rotating' = [rotating EXCEPT ![t] = FALSE]
    /\ UNCHANGED pending

\* The operation returns or raises; nothing it held outlives it.
End(t, outcome) ==
    /\ Goto(t, "idle")
    /\ ended' = [ended EXCEPT ![t] = outcome]
    /\ Hold(t, row)
    /\ pending' = [pending EXCEPT ![t] = {}]
    /\ rotating' = [rotating EXCEPT ![t] = FALSE]
Raises(t, s) == tpc[t] = s /\ End(t, "failed")

-----------------------------------------------------------------------------
(* The settings *)

\* Mutant of Flagged: a change of the database asks for no restart.
NotFlagged(w) == w
\* Of update: the container has these settings only after a restart.
Flagged(w) == [w EXCEPT !.restart_required = TRUE]

\* update(db=...), (port=...) or (n8n_version=...), of the row as it is in the transaction.
Update(db) == row' = Flagged([row EXCEPT !.db = db])
UpdateOther(t) ==
    /\ "update" \in Settings /\ tpc[t] = "idle"
    /\ Update(row.db)
    /\ UNCHANGED <<compose, stack, tpc, ended>> /\ UNCHANGED <<n8n, postgres, task>>

\* configure_db decides by the workspace object of its caller.
BeginConfigure(t) ==
    /\ "configure_db" \in Settings
    /\ On(t, "idle", "configure")
    /\ Hold(t, row)
    /\ UNCHANGED <<store, stack, n8n, postgres, pending, rotating>>

\* The identity of a managed database is kept; a database turned on gets a fresh password.
Configure(t) ==
    /\ tpc[t] = "configure"
    /\ \E db \in Passwords \cup {NoDb} :
         \/ db = NoDb /\ Update(NoDb)
         \/ db # NoDb /\ held[t].db = NoDb /\ Update(db)
         \/ db # NoDb /\ held[t].db # NoDb /\ db # held[t].db /\ Update(held[t].db)
         \/ db # NoDb /\ db = held[t].db /\ UNCHANGED row
    /\ End(t, "ok")
    /\ UNCHANGED <<compose, stack, n8n, postgres>>

-----------------------------------------------------------------------------
(* start *)

\* ensure_running starts a stack Docker does not report as running.
BeginStart(t) ==
    /\ tpc[t] = "idle" /\ UNCHANGED ended
    /\ \/ "start" \in Settings /\ stack = Nothing /\ Goto(t, "load") /\ UNCHANGED rotating
       \/ /\ "ensure" \in Settings
          /\ Goto(t, IF stack = Nothing THEN "load" ELSE "serving")
          /\ UNCHANGED rotating
    /\ Hold(t, row)
    /\ UNCHANGED <<store, stack, n8n, postgres, pending>>

\* store.load, write_compose, and the store.save of the whole configuration.
LoadAndWrite(t) ==
    /\ On(t, "load", "save")
    /\ Hold(t, row)
    /\ compose' = Home(row.db)
    /\ UNCHANGED <<row, stack, n8n, postgres, pending, rotating>>
SaveStarting(t) ==
    /\ On(t, "save", "up")
    /\ row' = held[t]
    /\ UNCHANGED <<compose, stack, n8n, postgres, task>>

\* docker compose up --wait: other containers replace those of another Compose file, and
\* what ran in them ends.  It may fail after that.
Up(t) ==
    \/ /\ On(t, "up", "ready")
       /\ stack' = compose
       /\ orphans' = IF stack = compose THEN orphans ELSE {}
       /\ UNCHANGED <<store, n8n, role, recorded, ran, task>>
    \/ /\ Fault("docker") /\ Raises(t, "up")
       /\ stack' \in {stack, compose}
       /\ orphans' = IF stack' = stack THEN orphans ELSE {}
       /\ UNCHANGED <<store, n8n, role, recorded, ran>>

\* wait_for_n8n, within its timeout.
Ready(t) ==
    /\ \/ stack # Nothing /\ On(t, "ready", IF held[t].db = NoDb THEN "running" ELSE "role")
          /\ UNCHANGED task
       \/ (Fault("ready") \/ stack = Nothing) /\ Raises(t, "ready")
    /\ UNCHANGED <<store, stack, n8n, postgres>>

Reachable == stack = "postgres"

\* MigrationRunner.ensure: CREATE ROLE or ALTER ROLE, and the database.
EnsureRole(t) ==
    /\ \/ Reachable /\ role' = held[t].db /\ On(t, "role", "applied") /\ UNCHANGED task
       \/ Reachable /\ Fault("role") /\ role' = held[t].db /\ Raises(t, "role")
       \/ (Fault("refused") \/ ~Reachable) /\ Raises(t, "role") /\ UNCHANGED role
    /\ UNCHANGED <<store, stack, n8n, recorded, ran, orphans>>

\* The role logs in with the password of the workspace object.
LogsIn(t) == Reachable /\ role = held[t].db

\* MigrationRunner.applied, once, before the first migration.
Applied(t) ==
    /\ \/ /\ LogsIn(t) /\ On(t, "applied", "migrate")
          /\ pending' = [pending EXCEPT ![t] = Migrations \ recorded]
          /\ UNCHANGED <<held, rotating>>
       \/ (Fault("refused") \/ ~LogsIn(t)) /\ Raises(t, "applied")
    /\ UNCHANGED <<store, stack, n8n, postgres>>

\* Mutant of CommitMigration: the record is not in the transaction of the migration.
CommitTwice(m) == ran' = Append(ran, m) /\ recorded' = recorded \cup {m}
\* BEGIN, the file, INSERT into schema_migrations, COMMIT: its primary key refuses a second.
CommitMigration(m) == m \notin recorded /\ CommitTwice(m)

\* Mutant of GoesOn: a migration that fails is left for the next start.
GoesOnAnyway(t, m) == pending' = [pending EXCEPT ![t] = @ \ {m}] /\ UNCHANGED <<tpc, ended, held, rotating>>
\* What raises ends the start, with the migrations after it.
GoesOn(t, m) == End(t, "failed")

\* One migration in psql with ON_ERROR_STOP.  A timeout kills psql's client and not what
\* it has started in the container.
Migrate(t) ==
    /\ tpc[t] = "migrate" /\ pending[t] # {}
    /\ LET m == Min(pending[t]) IN
         \/ /\ LogsIn(t) /\ CommitMigration(m)
            /\ pending' = [pending EXCEPT ![t] = @ \ {m}]
            /\ UNCHANGED <<tpc, ended, held, rotating, orphans>>
         \/ /\ Fault("sql") \/ m \in recorded \/ ~LogsIn(t)
            /\ GoesOn(t, m)
            /\ UNCHANGED <<recorded, ran, orphans>>
         \/ /\ Fault("timeout") /\ LogsIn(t)
            /\ orphans' = orphans \cup {m}
            /\ End(t, "failed")
            /\ UNCHANGED <<recorded, ran>>
    /\ UNCHANGED <<store, stack, n8n, role>>

\* In the container, at last: a commit, or a rollback.
OrphanEnds ==
    /\ \E m \in orphans :
         /\ orphans' = orphans \ {m}
         /\ CommitMigration(m) \/ UNCHANGED <<recorded, ran>>
    /\ UNCHANGED <<store, stack, n8n, role, tpc, ended, task>>

Migrated(t) ==
    /\ pending[t] = {} /\ On(t, "migrate", "running")
    /\ UNCHANGED <<store, stack, n8n, postgres, task>>

\* mark_running, on the row of the moment.
MarkRunning(t) ==
    /\ On(t, "running", "serving")
    /\ row' = [row EXCEPT !.restart_required = FALSE]
    /\ Hold(t, row')
    /\ UNCHANGED <<compose, stack, n8n, postgres, pending, rotating>>

StopStack(t) ==
    /\ "stop" \in Settings /\ tpc[t] = "idle" /\ stack # Nothing
    /\ stack' = Nothing /\ orphans' = {}
    /\ UNCHANGED <<store, n8n, role, recorded, ran, tpc, ended, task>>

-----------------------------------------------------------------------------
(* ensure_running, once the stack is up *)

\* What the key of the workspace object is worth to the n8n that runs.
Accepted(t) == stack # Nothing /\ held[t].key \in keys[stack]

\* start alone returns here; a workspace without a key gets one.
Serving(t) ==
    /\ \/ "start" \in Settings /\ tpc[t] = "serving" /\ End(t, "ok")
       \/ /\ "ensure" \in Settings
          /\ On(t, "serving", IF held[t].key = Nothing THEN "setup" ELSE "credential")
          /\ UNCHANGED task
    /\ UNCHANGED <<store, stack, n8n, postgres>>

\* POST /rest/owner/setup until it sticks or says `already', then the login.
SetUpOwner(t) ==
    /\ \/ stack # Nothing /\ On(t, "setup", "remove") /\ UNCHANGED task
       \/ (Fault("owner") \/ stack = Nothing) /\ Raises(t, "setup")
    /\ UNCHANGED <<store, stack, n8n, postgres>>

\* _remove_launcher_keys: a list that fails removes nothing, a delete that fails raises.
RemoveKeys(t) ==
    /\ \/ /\ stack # Nothing /\ On(t, "remove", "create")
          /\ \/ keys' = [keys EXCEPT ![stack] = {}]
             \/ Fault("list_keys") /\ UNCHANGED keys
          /\ UNCHANGED task
       \/ /\ stack # Nothing /\ Fault("delete_key") /\ Raises(t, "remove")
          /\ \E gone \in SUBSET keys[stack] : keys' = [keys EXCEPT ![stack] = @ \ gone]
       \/ stack = Nothing /\ Raises(t, "remove") /\ UNCHANGED keys
    /\ UNCHANGED <<store, stack, issued, credential, postgres>>

\* POST /rest/api-keys; the answer holds the only copy of the key.
CreateKey(t) ==
    /\ \/ /\ stack # Nothing
          /\ \E k \in Keys \ issued :
               /\ keys' = [keys EXCEPT ![stack] = @ \cup {k}] /\ issued' = issued \cup {k}
               /\ \/ On(t, "create", "save_key") /\ Hold(t, [held[t] EXCEPT !.key = k])
                     /\ UNCHANGED <<pending, rotating>>
                  \/ Fault("answer") /\ Raises(t, "create")
       \/ (Fault("create_key") \/ stack = Nothing) /\ Raises(t, "create") /\ UNCHANGED <<keys, issued>>
    /\ UNCHANGED <<store, stack, credential, postgres>>

\* Mutant of KeyToSave: a rotated key is not saved.
OnlyFirstKey(t) == IF rotating[t] THEN row.key ELSE held[t].key
KeyToSave(t) == held[t].key
SaveKey(t) ==
    /\ On(t, "save_key", "credential")
    /\ row' = [row EXCEPT !.key = KeyToSave(t)]
    /\ UNCHANGED <<compose, stack, n8n, postgres, task>>

\* data_db_target: what a managed database is reached with.
HasTarget(w) == w.db # NoDb
\* A credential of that name is left alone, whatever password it holds.
EnsurePostgresCredential(t) ==
    \/ credential[stack] # Nothing /\ UNCHANGED n8n
    \/ /\ credential[stack] = Nothing
       /\ credential' = [credential EXCEPT ![stack] = held[t].db]
       /\ UNCHANGED <<keys, issued>>

\* _ensure_db_credentials: nothing without a managed database; a refused key is replaced
\* once.
EnsureCredential(t) ==
    /\ \/ ~HasTarget(held[t]) /\ On(t, "credential", "import") /\ UNCHANGED <<task, n8n>>
       \/ /\ HasTarget(held[t]) /\ Accepted(t)
          /\ EnsurePostgresCredential(t)
          /\ \/ On(t, "credential", "import") /\ UNCHANGED task
             \/ Fault("answer") /\ Raises(t, "credential")
       \/ /\ HasTarget(held[t]) /\ ~Accepted(t) /\ stack # Nothing /\ ~rotating[t]
          /\ On(t, "credential", "setup")
          /\ rotating' = [rotating EXCEPT ![t] = TRUE]
          /\ UNCHANGED <<held, pending, n8n>>
       \/ /\ tpc[t] = "credential" /\ HasTarget(held[t]) /\ ~Accepted(t) /\ rotating[t]
          /\ End(t, "unauthorized") /\ UNCHANGED n8n
       \/ /\ HasTarget(held[t]) /\ (Fault("api") \/ stack = Nothing) /\ Raises(t, "credential")
          /\ UNCHANGED n8n
    /\ UNCHANGED <<store, stack, postgres>>

\* _import_workflows needs the key again (the import itself is WorkflowSync), but in a
\* workspace that has no n8nPipelines/ when the pull is over.
ImportWorkflows(t) ==
    /\ tpc[t] = "import"
    /\ \/ End(t, "no_folder")
       \/ Accepted(t) /\ End(t, "ok")
       \/ ~Accepted(t) /\ End(t, "unauthorized")
       \/ (Fault("api") \/ stack = Nothing) /\ End(t, "failed")
    /\ UNCHANGED <<store, stack, n8n, postgres>>

\* A user deletes API keys in n8n.
RevokeKeys ==
    /\ "revoke" \in Settings /\ \E h \in Homes : keys[h] # {} /\ keys' = [keys EXCEPT ![h] = {}]
    /\ UNCHANGED <<store, stack, issued, credential, postgres, tpc, ended, task>>

ProvisionTask(t) ==
    \/ UpdateOther(t) \/ BeginConfigure(t) \/ Configure(t)
    \/ BeginStart(t) \/ LoadAndWrite(t) \/ SaveStarting(t) \/ Up(t) \/ Ready(t)
    \/ EnsureRole(t) \/ Applied(t) \/ Migrate(t) \/ Migrated(t) \/ MarkRunning(t) \/ StopStack(t)
    \/ Serving(t) \/ SetUpOwner(t) \/ RemoveKeys(t) \/ CreateKey(t) \/ SaveKey(t)
    \/ EnsureCredential(t) \/ ImportWorkflows(t)
PrNext == (\E t \in Callers : ProvisionTask(t)) \/ OrphanEnds \/ RevokeKeys
PrSpec == PrInit /\ [][PrNext]_pvars

-----------------------------------------------------------------------------
(* Properties *)

PrTypeOK ==
    /\ row \in Row
    /\ compose \in Homes \cup {Nothing} /\ stack \in Homes \cup {Nothing}
    /\ keys \in [Homes -> SUBSET issued] /\ issued \subseteq Keys
    /\ credential \in [Homes -> Passwords \cup {Nothing}] /\ role \in Passwords \cup {Nothing}
    /\ recorded \subseteq Migrations /\ ran \in Seq(Migrations) /\ orphans \subseteq Migrations
    /\ tpc \in [Callers -> PrSteps] /\ held \in [Callers -> Row] /\ pending \in [Callers -> SUBSET Migrations]
    /\ rotating \in [Callers -> BOOLEAN] /\ ended \in [Callers -> Outcomes]
    /\ \A t \in Callers : pending[t] # {} => tpc[t] = "migrate"

Quiet == \A t \in Callers : tpc[t] \in {"idle", "serving", "setup", "remove", "create", "save_key",
                                      "credential", "import"}

\* Unless a start is under way, a running stack whose database is not the configured one
\* has its restart announced (update, start's mark_running, summary_line).
RestartIsAsked == Quiet /\ stack \notin {Nothing, Home(row.db)} => row.restart_required

\* Whatever was interrupted, every migration has run at most once, in the order of the
\* file names and without a gap, and the table records exactly those (MigrationRunner.apply).
MigrationsInOrder == ran = [i \in 1..Len(ran) |-> i] /\ recorded = Range(ran)

\* start calls its workspace running only with every migration applied and a role that its
\* configured password opens.  (A reconcile that finds the containers up does so, too.)
RunningIsMigrated ==
    [][\A t \in Callers : (tpc[t] = "running" /\ tpc'[t] = "serving" /\ row.db # NoDb) =>
          recorded = Migrations /\ role = row.db]_pvars

\* ensure_running comes past its credential, and to the end of its import, only with a key
\* that n8n accepts and that the store has, also when it has replaced a refused one
\* (_ensure_db_credentials).  Without a database and without n8nPipelines/ it uses no key and
\* returns with one n8n refuses.
KeyIsSaved ==
    [][\A t \in Callers :
          \/ tpc[t] = "credential" /\ tpc'[t] = "import" /\ HasTarget(held[t])
          \/ tpc[t] = "import" /\ tpc'[t] = "idle" /\ ended'[t] = "ok"
          => row.key \in keys[stack]]_pvars

\* ... and, with nothing left to restart for, a credential with the password of the role.
CredentialOpensDb ==
    [][\A t \in Callers : (tpc[t] = "import" /\ tpc'[t] = "idle" /\ ended'[t] \in {"ok", "no_folder"}
                          /\ row.db # NoDb /\ ~row.restart_required /\ stack = "postgres") =>
          credential["postgres"] = role]_pvars

\* A key n8n refuses is replaced, so no ensure_running ends with that refusal.
RefusedKeyIsReplaced == \A t \in Callers : ended[t] # "unauthorized"

=============================================================================
