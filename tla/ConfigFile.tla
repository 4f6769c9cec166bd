----------------------------- MODULE ConfigFile -----------------------------
(***************************************************************************)
(* The life of launcher.db over many runs of the launcher: __main__.py     *)
(* (load, first launch, an unreadable configuration moved aside, the loads *)
(* of _close_session and atexit) over the two files SQLite keeps in WAL    *)
(* mode.  What one transaction does is in ConfigStore; here a commit is    *)
(* one step, into the sidecar, and a configuration is a number.            *)
(*                                                                         *)
(* SQLite: a commit goes to launcher.db-wal until a checkpoint copies it   *)
(* into launcher.db; opening reads both; the last close checkpoints and    *)
(* removes the sidecar, unless launcher.db is no longer where it was       *)
(* opened; creating launcher.db removes a sidecar of that name.            *)
(***************************************************************************)
EXTENDS Naturals

CONSTANTS
    MaxEdits,   \* bound: configurations committed after the first
    None,       \* no such file, no configuration
    Blank,      \* a database with its schema only
    Faults      \* connect, read: load fails; replace: the move fails; kill

Legacy == 0

ASSUME FileAssumption ==
    /\ MaxEdits \in Nat
    /\ None \notin Nat /\ Blank \notin Nat /\ None # Blank
    /\ Faults \subseteq {"connect", "read", "replace", "kill"}

VARIABLES
    legacy,   \* a config.json of an older launcher is there; nothing removes it
    main,     \* what launcher.db holds by itself
    wal,      \* what launcher.db-wal adds up to
    backups,  \* what the launcher.db.corrupt-<timestamp> files hold
    conn,     \* the cached connection: none, live, or moved with the file
    phase,    \* off, importing, unreadable, wizard, open, finally, stopping,
              \* atexit, ending
    current,  \* the configuration in use: the last one committed
    aside,    \* configurations the launcher left for another one
    edits     \* how many were committed

cvars == <<legacy, main, wal, backups, conn, phase, current, aside, edits>>

FInit ==
    /\ legacy \in BOOLEAN
    /\ main = None /\ wal = None /\ backups = {}
    /\ conn = "none" /\ phase = "off"
    /\ current = None /\ aside = {} /\ edits = 0

Stored == IF main = None THEN None ELSE IF wal = None THEN main ELSE wal
Exists == main # None

\* _connect: opening a missing launcher.db creates it.
Connect ==
    /\ conn' = IF conn = "none" THEN "live" ELSE conn
    /\ IF conn = "none" /\ ~Exists
       THEN main' = Blank /\ wal' = None
       ELSE UNCHANGED <<main, wal>>

\* Another configuration than the one in use takes over.
TakeOver(v) ==
    /\ current' = v
    /\ aside' = IF current = None THEN aside ELSE aside \cup {current}

-----------------------------------------------------------------------------
(* main: store.load, and what follows when it raises *)

LoadOk ==
    /\ phase = "off" /\ Exists /\ Stored # Blank
    /\ Connect
    /\ phase' = "open"
    /\ UNCHANGED <<backups, current, aside, edits>>

\* The load of a blank database raises, and any load may.
LoadFails ==
    /\ phase = "off" /\ Exists
    /\ \/ "connect" \in Faults /\ UNCHANGED conn
       \/ ("read" \in Faults \/ Stored = Blank) /\ conn' = "live"
    /\ phase' = "unreadable"
    /\ UNCHANGED <<main, wal, backups, current, aside, edits>>

LoadMissing ==
    /\ phase = "off" /\ ~Exists
    /\ IF legacy
       THEN Connect /\ phase' = "importing"
       ELSE phase' = "wizard" /\ UNCHANGED <<main, wal, conn>>
    /\ UNCHANGED <<backups, current, aside, edits>>

\* _migrate_legacy commits.
ImportLegacy ==
    /\ phase = "importing"
    /\ wal' = Legacy
    /\ TakeOver(Legacy)
    /\ phase' = "open"
    /\ UNCHANGED <<main, backups, conn, edits>>

\* Mutant of BackUp: an unreadable configuration taken for a first launch.
FirstLaunchAgain ==
    /\ phase = "unreadable"
    /\ phase' = "wizard"
    /\ UNCHANGED <<main, wal, backups, conn, current, aside, edits>>

\* _backup_unreadable_config moves launcher.db, and only that file.
BackUp ==
    /\ phase = "unreadable"
    /\ backups' = backups \cup {main}
    /\ main' = None
    /\ conn' = IF conn = "live" THEN "moved" ELSE conn
    /\ TakeOver(None)
    /\ phase' = "finally"
    /\ UNCHANGED <<wal, edits>>

BackUpFails ==
    /\ "replace" \in Faults
    /\ phase = "unreadable"
    /\ phase' = "finally"
    /\ UNCHANGED <<main, wal, backups, conn, current, aside, edits>>

\* The wizard saves a new configuration, or is cancelled.
WizardSave ==
    /\ phase = "wizard" /\ edits < MaxEdits
    /\ conn' = "live"
    /\ main' = IF Exists THEN main ELSE Blank
    /\ edits' = edits + 1
    /\ wal' = edits'
    /\ TakeOver(edits')
    /\ phase' = "open"
    /\ UNCHANGED backups

WizardCancel ==
    /\ phase = "wizard"
    /\ phase' = "finally"
    /\ UNCHANGED <<main, wal, backups, conn, current, aside, edits>>

-----------------------------------------------------------------------------
(* The session *)

\* Any mutate or save: of the window's tasks, of stop_all.
Edit ==
    /\ phase \in {"open", "stopping", "ending"} /\ conn = "live"
    /\ current # None /\ edits < MaxEdits
    /\ edits' = edits + 1
    /\ wal' = edits' /\ current' = edits'
    /\ UNCHANGED <<main, backups, conn, phase, aside>>

Checkpoint ==
    /\ conn = "live" /\ wal # None
    /\ main # wal
    /\ main' = wal
    /\ UNCHANGED <<wal, backups, conn, phase, current, aside, edits>>

Quit ==
    /\ phase = "open"
    /\ phase' = "finally"
    /\ UNCHANGED <<main, wal, backups, conn, current, aside, edits>>

\* The load of _close_session and the one of atexit's stop_all; what they raise is
\* suppressed.  A missing launcher.db is imported again, through the connection
\* that is still cached if there is one.
LoadAgain ==
    /\ phase \in {"finally", "atexit"}
    /\ phase' = IF phase = "finally" THEN "stopping" ELSE "ending"
    /\ IF Exists
       THEN Connect /\ UNCHANGED <<current, aside>>
       ELSE IF legacy
       THEN /\ conn' = IF conn = "none" THEN "live" ELSE conn
            /\ main' = IF conn = "none" THEN Blank ELSE main
            /\ wal' = Legacy
            /\ IF conn = "none" THEN TakeOver(Legacy) ELSE UNCHANGED <<current, aside>>
       ELSE UNCHANGED <<main, wal, conn, current, aside>>
    /\ UNCHANGED <<backups, edits>>

\* Mutants of CloseStore: nobody closes; the sidecar is removed, not copied.
LeaveOpen ==
    /\ phase \in {"stopping", "ending"}
    /\ phase' = IF phase = "stopping" THEN "atexit" ELSE "off"
    /\ conn' = "none"
    /\ UNCHANGED <<main, wal, backups, current, aside, edits>>
DropSidecar ==
    /\ phase \in {"stopping", "ending"}
    /\ phase' = IF phase = "stopping" THEN "atexit" ELSE "off"
    /\ conn' = "none"
    /\ wal' = None
    /\ UNCHANGED <<main, backups, current, aside, edits>>

\* store.close in main's finally, and the end of the process, close the connection.
CloseStore ==
    /\ phase \in {"stopping", "ending"}
    /\ phase' = IF phase = "stopping" THEN "atexit" ELSE "off"
    /\ conn' = "none"
    /\ IF conn = "live"
       THEN main' = Stored /\ wal' = None
       ELSE UNCHANGED <<main, wal>>
    /\ UNCHANGED <<backups, current, aside, edits>>

Kill ==
    /\ "kill" \in Faults
    /\ phase # "off"
    /\ phase' = "off" /\ conn' = "none"
    /\ UNCHANGED <<main, wal, backups, current, aside, edits>>

Step ==
    \/ LoadOk \/ LoadFails \/ LoadMissing \/ ImportLegacy \/ BackUp \/ BackUpFails
    \/ WizardSave \/ WizardCancel
    \/ Edit \/ Checkpoint \/ Quit \/ LoadAgain \/ CloseStore \/ Kill

FNext == Step /\ UNCHANGED legacy

FSpec == FInit /\ [][FNext]_cvars

-----------------------------------------------------------------------------
\* Wherever a run was killed, launcher.db and its sidecar give back exactly the
\* configuration committed last, as long as it was not moved aside.
CurrentIsStored == current # None => Stored = current

\* README: a configuration that cannot be read is backed up.  Whatever the launcher
\* left for another configuration is in one of the backups.
AsideIsKept == aside \subseteq backups

\* ConfigStore: config.json is migrated once.  The old file does not come back
\* after the configuration it became was edited.
MigratedOnce ==
    [][current' = Legacy /\ current # Legacy => edits = 0]_cvars

=============================================================================
