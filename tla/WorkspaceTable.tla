--------------------------- MODULE WorkspaceTable ---------------------------
(* The workspaces table of launcher.db: what a row holds, and a few questions *)
(* asked of a whole table (an AppConfig).                                     *)
CONSTANTS
    Workspaces,  \* every workspace id uuid4 may ever produce
    Ports,       \* the range suggest_port scans
    Names,       \* display names
    NoRow        \* a workspace the table does not hold

State == {"stopped", "starting", "running", "stopping", "error"}
Row == [state : State, port : Ports, name : Names]
Table == [Workspaces -> Row \cup {NoRow}]

ASSUME NoRowAssumption == NoRow \notin Row /\ NoRow \notin Workspaces

Empty == [w \in Workspaces |-> NoRow]
Listed(table, w) == table[w] # NoRow
ListedIds(table) == {w \in Workspaces : Listed(table, w)}

\* Mutant of PortsOf: only what runs keeps its port.
PortsOfLive(table) ==
    {table[w].port : w \in {v \in ListedIds(table) : table[v].state # "stopped"}}
PortsOf(table) == {table[w].port : w \in ListedIds(table)}

\* A table whose rows have pairwise different ports.
PortsDistinctIn(table) ==
    \A v, w \in ListedIds(table) : v # w => table[v].port # table[w].port

=============================================================================
