----------------------------- MODULE CloseSequence -----------------------------
(***************************************************************************)
(* workspaces/close.py over what the window leaves behind: every workspace *)
(* is exported and pushed, then stopped, in order; the caller's hooks are  *)
(* asked what to do when a step fails.  The window of Board has closed by  *)
(* then and observes nothing; the stacks and the rows may not agree.       *)
(***************************************************************************)
EXTENDS Board, SequencesExt

CONSTANT Keyed  \* workspaces with an API key, the ones that can be exported

ASSUME KeyedAssumption == Keyed \subseteq Workspaces

VARIABLES
    close,    \* where CloseSequence.run is; "no" while the window is open
    todo,     \* the workspaces left, as run listed them: the current one first
    settled,  \* history: synced, or the caller chose to stop without
    skipped,  \* history: the caller chose to leave it running
    sighted   \* history: reconcile_all saw Docker's answer

closevars == <<close, todo, settled, skipped, sighted>>
cvars == <<bvars, closevars>>

CloseStep == {"no", "list", "reconcile", "relist", "next", "sync", "sync_failed", "stop",
              "down", "stop_failed", "complete", "aborted"}
Entry == [on : Workspaces, state : State]

CInit ==
    /\ BInit
    /\ close = "no" /\ todo = <<>> /\ settled = {} /\ skipped = {} /\ sighted = FALSE

Now(s) == close' = s
Current == Head(todo).on
\* Mutant of Listing: the states are those the window had last shown.
AsShown(l) == /\ ToSet(l) = {[on |-> w, state |-> cards[w]] : w \in {v \in Workspaces : Listed(v)}}
              /\ Len(l) = Cardinality({w \in Workspaces : Listed(w)})

\* Every listed workspace as it is, in the order of the table.
Listing(l) == /\ ToSet(l) = {[on |-> w, state |-> rows[w]] : w \in {v \in Workspaces : Listed(v)}}
              /\ Len(l) = Cardinality({w \in Workspaces : Listed(w)})
Lists == UNION {[1..n -> Entry] : n \in 0..Cardinality(Workspaces)}

\* run: the window is gone; nothing to close is a complete close.
Run ==
    /\ close \in {"no", "aborted"} /\ AtRest /\ modals = <<>>
    /\ Now(IF rows = NoRows THEN "complete" ELSE "reconcile")
    /\ settled' = {} /\ skipped' = {} /\ sighted' = FALSE
    /\ UNCHANGED <<bvars, todo>>

\* reconcile_all: what one docker ps says of every workspace; without it every one is
\* taken to be stopped.  Either way its commit may fail, and nothing is said.
Reconcile ==
    /\ close = "reconcile" /\ Now("relist")
    /\ \/ /\ \E partly \in SUBSET up :
               rows' = [w \in Workspaces |-> CASE ~Listed(w) -> NoRow
                                               [] w \in partly -> "starting"
                                               [] w \in up -> "running"
                                               [] OTHER -> "stopped"]
          /\ sighted' = TRUE
       \/ /\ "reconcile" \in BoardFaults /\ UNCHANGED sighted
          /\ rows' \in {rows, [w \in Workspaces |-> IF Listed(w) THEN "stopped" ELSE NoRow]}
    /\ UNCHANGED <<up, used, taskvars, queue, window, history, todo, settled, skipped>>

\* Listed again, after the reconcile.
Relist ==
    /\ close = "relist" /\ Now("next")
    /\ \E l \in Lists : Listing(l) /\ todo' = l
    /\ UNCHANGED <<bvars, settled, skipped, sighted>>

Exports(e) == e.state = "running" /\ e.on \in Keyed

\* _next.
NextWorkspace ==
    /\ close = "next"
    /\ Now(IF todo = <<>> THEN "complete" ELSE IF Exports(Head(todo)) THEN "sync" ELSE "stop")
    /\ UNCHANGED <<bvars, todo, settled, skipped, sighted>>

\* _sync: export_all and sync_git, which fails only outside of git (a push that fails is
\* a flag, and is told).
Sync ==
    /\ close = "sync"
    /\ \/ Now("stop") /\ settled' = settled \cup {Current}
       \/ "sync" \in BoardFaults /\ Now("sync_failed") /\ UNCHANGED settled
    /\ UNCHANGED <<bvars, todo, skipped, sighted>>

\* Mutant of SyncAgain: an answer that is not to abort goes on.
GoesOn == Now("stop")
SyncAgain == Now("sync")

\* _after_sync_failed: again, stop without, or abort.
AfterSyncFailed ==
    /\ close = "sync_failed"
    /\ \/ SyncAgain /\ UNCHANGED settled
       \/ Now("stop") /\ settled' = settled \cup {Current}
       \/ Now("aborted") /\ UNCHANGED settled
    /\ todo' = IF close' = "aborted" THEN <<>> ELSE todo
    /\ UNCHANGED <<bvars, skipped, sighted>>

\* manager.stop: nothing for a row that is stopped, else the row is marked first ...
Stop ==
    /\ close = "stop"
    /\ IF rows[Current] = "stopped"
       THEN Now("next") /\ todo' = Tail(todo) /\ UNCHANGED rows
       ELSE Now("down") /\ rows' = [rows EXCEPT ![Current] = "stopping"] /\ UNCHANGED todo
    /\ UNCHANGED <<up, used, taskvars, queue, window, history, settled, skipped, sighted>>

\* ... and docker compose down follows.
Down ==
    /\ close = "down"
    /\ \/ /\ Now("next") /\ todo' = Tail(todo)
          /\ up' = up \ {Current} /\ rows' = [rows EXCEPT ![Current] = "stopped"]
       \/ /\ "down" \in BoardFaults /\ Now("stop_failed")
          /\ up' \in {up, up \ {Current}} /\ UNCHANGED <<rows, todo>>
    /\ UNCHANGED <<used, taskvars, queue, window, history, settled, skipped, sighted>>

\* Mutant of AfterAbort: the rest is closed all the same.
CarryOn == Now("next") /\ todo' = Tail(todo)
AfterAbort == Now("aborted") /\ todo' = <<>>

\* _after_stop_failed: again, skip this one, or abort.
AfterStopFailed ==
    /\ close = "stop_failed"
    /\ \/ Now("stop") /\ UNCHANGED <<todo, skipped>>
       \/ Now("next") /\ todo' = Tail(todo) /\ skipped' = skipped \cup {Current}
       \/ AfterAbort /\ UNCHANGED skipped
    /\ UNCHANGED <<bvars, settled, sighted>>

CloseNext ==
    \/ Run \/ Reconcile \/ Relist \/ NextWorkspace \/ Sync \/ AfterSyncFailed
    \/ Stop \/ Down \/ AfterStopFailed
CNext == (close = "no" /\ BNext /\ UNCHANGED closevars) \/ CloseNext
CSpec == CInit /\ [][CNext]_cvars

-----------------------------------------------------------------------------
(* Properties *)

\* CardsShowRows, as long as there is a window.
OpenCardsShowRows == close = "no" => CardsShowRows

\* The copies the sequence works from: of those still to come, none is stale.
CTypeOK ==
    /\ close \in CloseStep /\ todo \in Lists /\ settled \subseteq Workspaces
    /\ skipped \subseteq Workspaces /\ sighted \in BOOLEAN
    /\ \A i \in DOMAIN todo : i > 1 => todo[i].state = rows[todo[i].on]

\* A close that reports itself complete leaves nothing up but what the caller chose to
\* skip: whatever failed or was retried on the way, and whatever the rows said before, as
\* long as Docker could be asked once (run: "marked stopped that is still up must still be
\* stopped").
CompleteMeansDown ==
    close = "complete" /\ sighted => \A w \in Workspaces : w \in up /\ Listed(w) => w \in skipped

\* No workspace with workflows to save is brought down before they are saved or the caller
\* has answered to stop without (the module's "the order is the whole point").
SavedBeforeDown ==
    [][\A w \in Keyed : close = "stop" /\ rows[w] = "running" /\ rows'[w] # "running"
                          => w \in settled]_cvars

\* The comment in _after_stop_failed: a close with a skipped workspace is not complete.
SkippedIsNotComplete == close = "complete" => skipped = {}

\* The same as CompleteMeansDown, Docker answering or not.
CompleteAlwaysMeansDown ==
    close = "complete" => \A w \in Workspaces : w \in up /\ Listed(w) => w \in skipped

=============================================================================
