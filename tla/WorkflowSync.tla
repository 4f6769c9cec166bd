---------------------------- MODULE WorkflowSync ----------------------------
(***************************************************************************)
(* The workflows of one n8n and their exports on disk: n8n/exports.py and  *)
(* SyncRunner (n8n/workflows.py) as the manager uses them, import_all over *)
(* n8nPipelines/ and then over the root when a workspace is made ready,    *)
(* export_all with the root as mirror before a stop or a publication.      *)
(* Users edit in n8n meanwhile, and a git pull changes the folder.         *)
(***************************************************************************)
EXTENDS FiniteSets, Functions

CONSTANTS
    Tasks,
    Ids,          \* ids n8n gives to workflows
    Numbered,     \* those of digits only: what EXPORT_NAME_RE takes for an id
    NoId,         \* what a file name ends in is no id n8n could give
    NoName,       \* a file name that is an id and nothing before it: 42.json
    Titles, Bodies,
    SafeName,     \* _safe_name: several titles may have one file name
    HandWritten,  \* files of the user, of any name
    Theirs,       \* exports of other clones that a pull may bring
    Syncs,        \* operations of an instance
    SyncFaults    \* calls to n8n that may fail

SyncSet == {"export", "import", "edit", "pull"}
SyncFaultSet == {"list", "get", "create", "answer"}

Dirs == {"pipelines", "root"}
None == [title |-> "none"]   \* no workflow: in n8n, and in a file (no `nodes')
Workflow == [title : Titles, body : Bodies]
File == [dir : Dirs, name : Range(SafeName) \cup {NoName}, id : Ids \cup {NoId},
         title : Titles \cup {None.title}, body : Bodies]

SamePath(f, g) == f.dir = g.dir /\ f.name = g.name /\ f.id = g.id
\* No directory has two files of one name.
OnePerPath(fs) == \A f, g \in fs : SamePath(f, g) => f = g

ASSUME SyncAssumption ==
    /\ Numbered \subseteq Ids /\ NoId \notin Ids /\ NoName \notin Range(SafeName)
    /\ SafeName \in [Titles -> Range(SafeName)]
    /\ HandWritten \subseteq File /\ Theirs \subseteq File
    /\ \A f \in Theirs : f.id \in Ids /\ f.name # NoName
    /\ OnePerPath(HandWritten) /\ OnePerPath(Theirs)
    /\ Syncs \subseteq SyncSet /\ SyncFaults \subseteq SyncFaultSet

VARIABLES
    wf,      \* workflows in n8n; the ids of deleted ones are not given again
    spent,   \* ids given so far
    files,   \* exports on disk
    spc,     \* where each task is
    listed,  \* what list_workflows has answered it
    todo,    \* workflows it has still to read, or files to look at
    made,    \* files it has created workflows from
    clean,   \* history: nobody else created, edited or pulled since the operation began
    plan,    \* history: what plan_import would have created when it began
    fresh    \* history: since an export nobody disturbed, nobody has edited or pulled

wvars == <<wf, spent, files, spc, listed, todo, made, clean, plan, fresh>>

Steps == {"idle", "export", "pipelines", "root"}

Live == {i \in Ids : wf[i] # None}
Entry(i) == [id |-> i, title |-> wf[i].title]
FileOf(d, e) == [dir |-> d, name |-> SafeName[e.title], id |-> e.id,
                 title |-> wf[e.id].title, body |-> wf[e.id].body]
Put(new) == {f \in files : \A g \in new : ~SamePath(f, g)} \cup new

WInit ==
    /\ wf \in [Ids -> {None} \cup Workflow] /\ Cardinality(Live) <= 1
    /\ spent = Live
    /\ files = HandWritten
    /\ spc = [t \in Tasks |-> "idle"]
    /\ listed = [t \in Tasks |-> {}] /\ todo = [t \in Tasks |-> {}] /\ made = [t \in Tasks |-> {}]
    /\ plan = [t \in Tasks |-> {}]
    /\ clean = [t \in Tasks |-> FALSE] /\ fresh = FALSE

Idle(t) == spc[t] = "idle"
Go(t, s) == spc' = [spc EXCEPT ![t] = s]
\* What an operation has read is gone when it returns or raises.
Finish(t) ==
    /\ Go(t, "idle")
    /\ listed' = [listed EXCEPT ![t] = {}]
    /\ todo' = [todo EXCEPT ![t] = {}]
    /\ made' = [made EXCEPT ![t] = {}]
    /\ plan' = [plan EXCEPT ![t] = {}]
Raise(t) == Finish(t) /\ UNCHANGED <<wf, spent, files, clean, fresh>>

In(d) == {f \in files : f.dir = d}
\* iter_local_exports: a file in both directories counts once, as its copy in n8nPipelines/.
LocalExports == In("pipelines") \cup {f \in In("root") :
                    \A g \in In("pipelines") : f.name # g.name \/ f.id # g.id}
\* EXPORT_NAME_RE, parse_export_id: a name, a dash and digits.
LauncherNamed(f) == f.name # NoName /\ f.id \in Numbered
ParsedId(f) == IF LauncherNamed(f) THEN f.id ELSE NoId
\* plan_import: one pass over them.
PlanImport(remote) == {f \in LocalExports : f.title \in Titles /\
                          \A e \in remote : ParsedId(f) # e.id /\ f.title # e.title}

\* list_workflows, once per pass; nothing is read before it.
List(t, next, work) ==
    /\ Go(t, next)
    /\ listed' = [listed EXCEPT ![t] = {Entry(i) : i \in Live}]
    /\ todo' = [todo EXCEPT ![t] = work]
    /\ UNCHANGED <<wf, spent, files, made>>
\* Mutant of NextPass: the root is compared with the list of the first pass.
SameList(t) ==
    /\ Go(t, "root")
    /\ todo' = [todo EXCEPT ![t] = In("root")]
    /\ UNCHANGED <<wf, spent, files, listed, made>>
NextPass(t) == List(t, "root", In("root"))

BeginSync(t) ==
    /\ Idle(t)
    /\ \/ "export" \in Syncs /\ List(t, "export", {Entry(i) : i \in Live}) /\ UNCHANGED plan
       \/ /\ "import" \in Syncs /\ List(t, "pipelines", In("pipelines"))
          /\ plan' = [plan EXCEPT ![t] = PlanImport({Entry(i) : i \in Live})]
    /\ clean' = [clean EXCEPT ![t] = TRUE] /\ UNCHANGED fresh

\* get_workflow, of one that is still there, and both copies of its export.
Export(t) ==
    /\ spc[t] = "export"
    /\ \E e \in todo[t] :
         \/ /\ e.id \in Live
            /\ files' = Put({FileOf(d, e) : d \in Dirs})
            /\ todo' = [todo EXCEPT ![t] = @ \ {e}]
            /\ UNCHANGED <<wf, spent, spc, listed, made, clean, plan, fresh>>
         \/ (e.id \notin Live \/ "get" \in SyncFaults) /\ Raise(t)

\* Mutants of Stale: only the names of ids that left n8n, and no clean-up of the mirror.
StaleId(f, live) == f.id \in Numbered /\ \A e \in live : e.id # f.id
StaleCopy(f, live) == f.dir = "pipelines" /\ LauncherNamed(f) /\ [name |-> f.name, id |-> f.id] \notin live
\* What the clean-up takes for an old export: a launcher's name that was not written,
\* whoever wrote the file (export_all, _clean_mirror).
Stale(f, live) == LauncherNamed(f) /\ [name |-> f.name, id |-> f.id] \notin live

\* After the last workflow, both directories are cleaned.
Prune(t) ==
    LET live == {[name |-> SafeName[e.title], id |-> e.id] : e \in listed[t]} IN
    /\ spc[t] = "export" /\ todo[t] = {}
    /\ files' = {f \in files : ~Stale(f, live)}
    /\ Finish(t)
    /\ fresh' = clean[t]
    /\ UNCHANGED <<wf, spent, clean>>

\* Mutant of Known: workflows are told apart by id alone.
KnownId(t, f) == \E e \in listed[t] : f.id = e.id
\* By what the file name ends in (_export_id), be it all of the name or not of digits, and
\* by the title in the file.
Known(t, f) == \E e \in listed[t] : f.id = e.id \/ f.title = e.title
\* Mutant of Skipped: any JSON file is imported.
SkippedOrNot(t, f) == f \notin files \/ Known(t, f)
\* Unreadable by now, not a workflow, or in n8n when the pass began.
Skipped(t, f) == f \notin files \/ f.title \notin Titles \/ Known(t, f)

\* create_workflow with create_payload of the file, under an id of n8n's choice.
CreateWorkflow(f) ==
    \E i \in Ids \ spent :
      /\ wf' = [wf EXCEPT ![i] = [title |-> f.title, body |-> f.body]]
      /\ spent' = spent \cup {i}
\* One file of the directory, in any order.  The answer may be lost; whatever raises ends
\* the import.
Import(t, step) ==
    /\ spc[t] = step
    /\ \E f \in todo[t] :
         \/ /\ Skipped(t, f)
            /\ todo' = [todo EXCEPT ![t] = @ \ {f}]
            /\ UNCHANGED <<wf, spent, files, spc, listed, made, clean, plan, fresh>>
         \/ /\ ~Skipped(t, f)
            /\ CreateWorkflow(f)
            /\ \/ /\ todo' = [todo EXCEPT ![t] = @ \ {f}]
                  /\ made' = [made EXCEPT ![t] = @ \cup {f}]
                  /\ UNCHANGED <<spc, listed, plan>>
               \/ "answer" \in SyncFaults /\ Finish(t)
            /\ clean' = [u \in Tasks |-> clean[u] /\ u = t]
            /\ UNCHANGED <<files, fresh>>
         \/ "create" \in SyncFaults /\ ~Skipped(t, f) /\ Raise(t)

EndOfPass(t) ==
    /\ todo[t] = {}
    /\ \/ spc[t] = "pipelines" /\ NextPass(t) /\ UNCHANGED <<clean, plan, fresh>>
       \/ spc[t] = "pipelines" /\ "list" \in SyncFaults /\ Raise(t)
       \/ spc[t] = "root" /\ Raise(t)

Dirty == clean' = [t \in Tasks |-> FALSE] /\ fresh' = FALSE

\* In n8n: a workflow is created, renamed or edited, or deleted.
Edit ==
    /\ "edit" \in Syncs
    /\ \/ \E i \in Ids \ spent, w \in Workflow :
            /\ \A j \in Live : wf[j].title # w.title
            /\ wf' = [wf EXCEPT ![i] = w] /\ spent' = spent \cup {i}
       \/ \E i \in Live, w \in {None} \cup Workflow :
            wf' = [wf EXCEPT ![i] = w] /\ UNCHANGED spent
    /\ Dirty
    /\ UNCHANGED <<files, spc, listed, todo, made, plan>>

\* A git pull brings what another clone exported, or that it has removed it.
PullFiles ==
    /\ "pull" \in Syncs
    /\ files' = Put(Theirs) \/ files' = files \ Theirs
    /\ Dirty
    /\ UNCHANGED <<wf, spent, spc, listed, todo, made, plan>>

SyncTask(t) ==
    \/ BeginSync(t) \/ Export(t) \/ Prune(t)
    \/ Import(t, "pipelines") \/ Import(t, "root") \/ EndOfPass(t)
WNext ==
    \/ \E t \in Tasks : SyncTask(t)
    \/ Edit \/ PullFiles
WSpec == WInit /\ [][WNext]_wvars

-----------------------------------------------------------------------------
(* Properties *)

WTypeOK ==
    /\ wf \in [Ids -> {None} \cup Workflow] /\ Live \subseteq spent /\ spent \subseteq Ids
    /\ files \subseteq File /\ spc \in [Tasks -> Steps]
    /\ \A t \in Tasks : listed[t] \subseteq [id : Ids, title : Titles] /\ made[t] \subseteq File
    /\ clean \in [Tasks -> BOOLEAN] /\ fresh \in BOOLEAN /\ \A t \in Tasks : plan[t] \subseteq File

\* What an undisturbed export leaves brings nothing back: until somebody edits in n8n or
\* pulls, imports create workflows only of the user's own files, never a deleted or renamed
\* one again, although they read both directories (export_all, _clean_mirror).
DeletedStaysDeleted ==
    [][(fresh /\ fresh') =>
          \A i \in Live' \ Live : \E f \in HandWritten : f.title = wf'[i].title]_wvars

\* exports.py of the clean-up: JSON the user wrote is never touched.
HandWrittenKept == HandWritten \subseteq files

\* The second pass of an import nobody disturbs does not create a workflow from the root copy
\* of an export whose other copy the first pass has created one from (_import_workflows).
NoTwinOfMirror ==
    [][\A t \in Tasks : clean[t] =>
          \A g \in made'[t] \ made[t], f \in made[t] :
             (f.name = g.name /\ f.id = g.id /\ f.title = g.title) =>
                \A i \in Live : wf[i].title # g.title]_wvars

\* Without disturbance the two passes create what plan_import decides in one, although the
\* second pass also reads the copies that the plan leaves out (import_all, plan_import).
PlanIsMade ==
    [][\A t \in Tasks : (spc[t] = "root" /\ todo[t] = {} /\ spc'[t] = "idle" /\ clean[t]) =>
          {f.title : f \in made[t]} = {f.title : f \in plan[t]}]_wvars

\* An export nobody disturbed leaves, under names the launcher gives, exactly what n8n
\* holds, in both directories (export_all: `remove stale local exports').
Named == {f \in files : f.id # NoId /\ f.name # NoName}
ExportMatches ==
    [][\A t \in Tasks : (spc[t] = "export" /\ todo[t] = {} /\ spc'[t] = "idle" /\ clean[t]) =>
          Named' = {FileOf(d, Entry(i)) : d \in Dirs, i \in Live}]_wvars

=============================================================================
