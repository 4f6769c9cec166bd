--------------------------- MODULE WorkspaceBook ----------------------------
(***************************************************************************)
(* What the table of workspaces promises its readers, whatever overlaps:   *)
(* every operation takes effect on one row at one instant, a workspace     *)
(* leaves the table only by being deleted while STOPPED, a deleted id      *)
(* never returns, a port has one owner and a rename is refused if the name *)
(* is taken.  State changes may touch several rows (reconcile_all), never  *)
(* anything else of them.                                                  *)
(***************************************************************************)
EXTENDS WorkspaceTable

VARIABLES
    rows,  \* the table
    gone   \* ids that will not be listed any more

Init == rows \in Table /\ PortsDistinctIn(rows) /\ gone = {}

Create(w) ==
    /\ ~Listed(rows, w) /\ w \notin gone
    /\ \E p \in Ports \ PortsOf(rows), n \in Names :
         rows' = [rows EXCEPT ![w] = [state |-> "stopped", port |-> p, name |-> n]]
    /\ UNCHANGED gone

\* An id drawn for a creation that is then refused.
Waste(w) ==
    /\ ~Listed(rows, w)
    /\ gone' = gone \cup {w}
    /\ UNCHANGED rows

Delete(w) ==
    /\ Listed(rows, w) /\ rows[w].state = "stopped"
    /\ rows' = [rows EXCEPT ![w] = NoRow]
    /\ gone' = gone \cup {w}

Rename(w) ==
    /\ Listed(rows, w)
    /\ \E n \in Names :
         /\ \A v \in ListedIds(rows) \ {w} : rows[v].name # n
         /\ rows' = [rows EXCEPT ![w].name = n]
    /\ UNCHANGED gone

ChangeStates ==
    /\ \E s \in [ListedIds(rows) -> State] :
         rows' = [w \in Workspaces |->
                    IF Listed(rows, w) THEN [rows[w] EXCEPT !.state = s[w]] ELSE NoRow]
    /\ UNCHANGED gone

Next ==
    \/ \E w \in Workspaces : Create(w) \/ Waste(w) \/ Delete(w) \/ Rename(w)
    \/ ChangeStates

Spec == Init /\ [][Next]_<<rows, gone>>

=============================================================================
