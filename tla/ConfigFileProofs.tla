-------------------------- MODULE ConfigFileProofs --------------------------
(***************************************************************************)
(* ConfigFile: the configuration in use is always what the two files give  *)
(* back, and, as long as no run is killed, a configuration moved aside is  *)
(* in its backup.                                                          *)
(***************************************************************************)
EXTENDS ConfigFile, TLAPS

Configuration == Nat \cup {None}

FTypeOK ==
    /\ main \in Nat \cup {None, Blank}
    /\ wal \in Nat \cup {None}
    /\ conn \in {"none", "live", "moved"}
    /\ phase \in {"off", "importing", "unreadable", "wizard", "open", "finally",
                  "stopping", "atexit", "ending"}
    /\ current \in Configuration
    /\ edits \in Nat

\* A connection is either on launcher.db or on a file that has been moved away.
ConnectionOK ==
    /\ conn = "live" => main # None
    /\ conn = "moved" => main = None
    /\ phase = "off" => conn = "none"
    /\ phase = "importing" => main # None

StoredInv == FTypeOK /\ ConnectionOK /\ CurrentIsStored

LEMMA SentinelsApart == None # Blank /\ None \notin Nat /\ Blank \notin Nat /\ Legacy \in Nat
BY FileAssumption DEF Legacy

\* The start: no file and no configuration.
LEMMA StoredInvInit == FInit => StoredInv
BY SentinelsApart
   DEF FInit, StoredInv, FTypeOK, ConnectionOK, CurrentIsStored, Configuration, Stored

\* Every step keeps the files and the configuration in use together.
LEMMA StoredInvNext == StoredInv /\ [FNext]_cvars => StoredInv'
<1> SUFFICES ASSUME StoredInv, [FNext]_cvars PROVE StoredInv'
    OBVIOUS
<1> USE SentinelsApart
    DEF StoredInv, FTypeOK, ConnectionOK, CurrentIsStored, Configuration, Stored, Exists
<1>1. CASE LoadOk BY <1>1 DEF LoadOk, Connect
<1>2. CASE LoadFails BY <1>2 DEF LoadFails
<1>3. CASE LoadMissing BY <1>3 DEF LoadMissing, Connect
<1>4. CASE ImportLegacy
  <2>1. main # None => Stored' = Legacy
        BY <1>4 DEF ImportLegacy
  <2>2. QED BY <1>4, <2>1 DEF ImportLegacy, TakeOver
<1>5. CASE BackUp BY <1>5 DEF BackUp, TakeOver
<1>6. CASE BackUpFails BY <1>6 DEF BackUpFails
<1>7. CASE WizardSave BY <1>7 DEF WizardSave, TakeOver
<1>8. CASE WizardCancel BY <1>8 DEF WizardCancel
<1>9. CASE Edit BY <1>9 DEF Edit
<1>10. CASE Checkpoint BY <1>10 DEF Checkpoint
<1>11. CASE Quit BY <1>11 DEF Quit
<1>12. CASE LoadAgain
  <2>1. CASE Exists BY <1>12, <2>1 DEF LoadAgain, Connect
  <2>2. CASE ~Exists /\ legacy BY <1>12, <2>2 DEF LoadAgain, TakeOver
  <2>3. CASE ~Exists /\ ~legacy BY <1>12, <2>3 DEF LoadAgain
  <2>4. QED BY <2>1, <2>2, <2>3
<1>13. CASE CloseStore BY <1>13 DEF CloseStore
<1>14. CASE Kill BY <1>14 DEF Kill
<1>15. CASE UNCHANGED cvars BY <1>15 DEF cvars
<1>16. QED BY <1>1, <1>2, <1>3, <1>4, <1>5, <1>6, <1>7, <1>8, <1>9, <1>10, <1>11,
              <1>12, <1>13, <1>14, <1>15 DEF FNext, Step

\* CurrentIsStored for any number of edits and any faults, kills included:
\* launcher.db and its sidecar always give back what was committed last.
THEOREM CrashKeepsConfiguration == FSpec => []CurrentIsStored
<1>1. StoredInv => CurrentIsStored BY DEF StoredInv
<1>2. QED BY <1>1, StoredInvInit, StoredInvNext, PTL DEF FSpec

-----------------------------------------------------------------------------
(* What a run that is not killed leaves: nothing in the sidecar. *)

NoKill == "kill" \notin Faults

\* Where the configuration in use can still be in the sidecar alone.
SidecarOK ==
    /\ phase \in {"off", "unreadable"} => wal = None \/ current = None
    /\ phase \in {"stopping", "ending"} => conn = "live" \/ current = None
    /\ phase \in {"importing", "wizard"} => current = None

BackupInv == StoredInv /\ SidecarOK /\ AsideIsKept

LEMMA BackupInvInit == FInit => BackupInv
<1> SUFFICES ASSUME FInit PROVE SidecarOK /\ AsideIsKept
    BY StoredInvInit DEF BackupInv
<1> QED BY DEF FInit, SidecarOK, AsideIsKept

\* Without kills every step keeps the sidecar empty where launcher.db may be moved.
LEMMA BackupInvNext == NoKill /\ BackupInv /\ [FNext]_cvars => BackupInv'
<1> SUFFICES ASSUME NoKill, BackupInv, [FNext]_cvars PROVE SidecarOK' /\ AsideIsKept'
    BY StoredInvNext DEF BackupInv
<1> USE SentinelsApart
    DEF BackupInv, SidecarOK, AsideIsKept, StoredInv, FTypeOK, ConnectionOK,
        CurrentIsStored, Configuration, Stored, Exists
<1>1. CASE LoadOk BY <1>1 DEF LoadOk, Connect
<1>2. CASE LoadFails BY <1>2 DEF LoadFails
<1>3. CASE LoadMissing BY <1>3 DEF LoadMissing, Connect
<1>4. CASE ImportLegacy BY <1>4 DEF ImportLegacy, TakeOver
<1>5. CASE BackUp BY <1>5 DEF BackUp, TakeOver
<1>6. CASE BackUpFails BY <1>6 DEF BackUpFails
<1>7. CASE WizardSave BY <1>7 DEF WizardSave, TakeOver
<1>8. CASE WizardCancel BY <1>8 DEF WizardCancel
<1>9. CASE Edit BY <1>9 DEF Edit
<1>10. CASE Checkpoint BY <1>10 DEF Checkpoint
<1>11. CASE Quit BY <1>11 DEF Quit
<1>12. CASE LoadAgain
  <2>1. CASE Exists BY <1>12, <2>1 DEF LoadAgain, Connect
  <2>2. CASE ~Exists /\ legacy BY <1>12, <2>2 DEF LoadAgain, TakeOver
  <2>3. CASE ~Exists /\ ~legacy BY <1>12, <2>3 DEF LoadAgain
  <2>4. QED BY <2>1, <2>2, <2>3
<1>13. CASE CloseStore BY <1>13 DEF CloseStore
<1>14. CASE Kill BY <1>14 DEF Kill, NoKill
<1>15. CASE UNCHANGED cvars BY <1>15 DEF cvars
<1>16. QED BY <1>1, <1>2, <1>3, <1>4, <1>5, <1>6, <1>7, <1>8, <1>9, <1>10, <1>11,
              <1>12, <1>13, <1>14, <1>15 DEF FNext, Step

\* AsideIsKept as long as no run is killed: every configuration the launcher moved
\* aside is in a backup, whatever load or move fails and however often it is run.
THEOREM BackupsAreComplete == NoKill => (FSpec => []AsideIsKept)
<1> SUFFICES ASSUME NoKill PROVE FSpec => []AsideIsKept
    OBVIOUS
<1>1. BackupInv => AsideIsKept BY DEF BackupInv
<1>2. BackupInv /\ [FNext]_cvars => BackupInv' BY BackupInvNext
<1>3. QED BY <1>1, <1>2, BackupInvInit, PTL DEF FSpec

=============================================================================
