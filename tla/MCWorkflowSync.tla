--------------------------- MODULE MCWorkflowSync ---------------------------
(* Small instances of WorkflowSync for TLC. *)
EXTENDS WorkflowSync

CONSTANTS ta, tb, i1, i2, no_id, no_name, a, b, x, y

OneTask == {ta}
TwoTasks == {ta, tb}
\* Each title has a file name of its own: a renamed workflow has another file.
OwnName == [t \in {a, b} |-> t]
MCExport(d, i, t) == [dir |-> d, name |-> t, id |-> i, title |-> t, body |-> x]
\* The user's files: notes, a workflow, and JSON whose name ends in an id, or is one.
MCHandWritten == {[MCExport("root", no_id, b) EXCEPT !.title = None.title],
                  MCExport("root", no_id, a),
                  [MCExport("root", i2, b) EXCEPT !.title = None.title],
                  [MCExport("root", i1, no_name) EXCEPT !.title = None.title]}
\* Both copies of another clone's export, whose id may also be one of here.
MCTheirs == {MCExport(d, i1, b) : d \in Dirs}

=============================================================================
