------------------------ MODULE EnsureRunningProofs ------------------------
(***************************************************************************)
(* What ensure_running and an export promise of one workspace.             *)
(* WorkflowSync, for any workflows, files, users and pulls: an import      *)
(* nobody disturbs creates no workflow from the second copy of an export   *)
(* whose first copy it has imported, and one at a time, with the names and *)
(* ids the theorems ask for, an import makes what was planned, an export   *)
(* leaves what n8n holds, and later imports bring back nothing it removed. *)
(* Provision, for any passwords, keys, migrations and failures:    *)
(* migrations run in order and once, and with one operation at a time a    *)
(* restart that is needed is asked for, a workspace called running is      *)
(* migrated, and the key n8n accepts is the one in the store.              *)
(***************************************************************************)
EXTENDS WorkflowSync, Provision, TLAPS

-----------------------------------------------------------------------------
(* The two copies of an export *)

Passes == {"pipelines", "root"}
\* What this pass has created workflows from.
ThisPass(t) == {f \in made[t] : f.dir = spc[t]}

\* A pass looks at files of its own directory, each once; before the first nothing is made,
\* and in it nothing from the root.
PassOK ==
    /\ OnePerPath(files)
    /\ made = [t \in Tasks |-> made[t]] /\ todo = [t \in Tasks |-> todo[t]]
    /\ spc = [t \in Tasks |-> spc[t]] /\ listed = [t \in Tasks |-> listed[t]]
    /\ clean = [t \in Tasks |-> clean[t]]
    /\ \A t \in Tasks :
         /\ spc[t] \notin Passes => made[t] = {}
         /\ spc[t] = "pipelines" => \A f \in made[t] : f.dir = "pipelines"
         /\ spc[t] \in Passes =>
              /\ \A f \in todo[t] : f.dir = spc[t]
              /\ OnePerPath(todo[t] \cup ThisPass(t))

Titled(title) == \E i \in Ids : wf[i] # None /\ wf[i].title = title

\* Nobody else having changed anything, what the first pass has made is in n8n, and in the
\* list of the second.
MadeIsListed ==
    /\ wf = [i \in Ids |-> wf[i]] /\ \A i \in Ids : wf[i] # None => i \in spent
    /\ \A t \in Tasks : clean[t] =>
         /\ spc[t] = "pipelines" => \A f \in made[t] : Titled(f.title)
         /\ spc[t] = "root" => \A f \in made[t] :
              f.dir = "root" \/ \E e \in listed[t] : e.title = f.title

TwinInv == PassOK /\ MadeIsListed

LEMMA PutOnePerPath ==
    ASSUME OnePerPath(files), NEW new, OnePerPath(new)
    PROVE  OnePerPath(Put(new))
BY DEF OnePerPath, Put, SamePath

LEMMA TwinInit == WInit => TwinInv
BY SyncAssumption DEF WInit, TwinInv, PassOK, MadeIsListed, Passes, Live

\* An operation that is over has made nothing, and the others go on as they were.
LEMMA FinishKeeps ==
    ASSUME TwinInv, NEW t \in Tasks, Finish(t), OnePerPath(files'), wf' = wf, spent' = spent, clean' = clean
    PROVE  TwinInv'
<1>1. /\ spc' = [spc EXCEPT ![t] = "idle"] /\ made' = [made EXCEPT ![t] = {}]
      /\ todo' = [todo EXCEPT ![t] = {}] /\ listed' = [listed EXCEPT ![t] = {}]
  BY DEF Finish, Go
<1>2. \A u \in Tasks : u # t => spc'[u] = spc[u] /\ made'[u] = made[u] /\ todo'[u] = todo[u] /\ listed'[u] = listed[u]
  BY <1>1 DEF TwinInv, PassOK
<1>3. spc'[t] = "idle" /\ made'[t] = {} BY <1>1 DEF TwinInv, PassOK
<1>4. PassOK' BY <1>1, <1>2, <1>3 DEF TwinInv, PassOK, Passes, ThisPass
<1>5. MadeIsListed' BY <1>2, <1>3 DEF TwinInv, MadeIsListed, Titled
<1>6. QED BY <1>4, <1>5 DEF TwinInv

\* A pass begins: with the files of its directory, and a list that has all that was made.
LEMMA ListKeeps ==
    ASSUME TwinInv, NEW t \in Tasks, NEW d \in Passes, List(t, d, In(d)),
           (d = "pipelines" /\ spc[t] = "idle") \/ (d = "root" /\ spc[t] = "pipelines"),
           clean' = clean \/ (d = "pipelines" /\ clean' = [clean EXCEPT ![t] = TRUE])
    PROVE  TwinInv'
<1>1. /\ spc' = [spc EXCEPT ![t] = d] /\ todo' = [todo EXCEPT ![t] = In(d)]
      /\ listed' = [listed EXCEPT ![t] = {Entry(i) : i \in Live}]
      /\ UNCHANGED <<wf, spent, files, made>>
  BY DEF List, Go
<1>2. \A u \in Tasks : u # t => spc'[u] = spc[u] /\ todo'[u] = todo[u] /\ listed'[u] = listed[u] /\ clean'[u] = clean[u]
  BY <1>1 DEF TwinInv, PassOK
<1>3. spc'[t] = d /\ todo'[t] = In(d) /\ listed'[t] = {Entry(i) : i \in Live}
  BY <1>1 DEF TwinInv, PassOK
<1>4. d = "pipelines" => made[t] = {} BY DEF TwinInv, PassOK, Passes
<1>5. d = "root" => \A f \in made[t] : f.dir = "pipelines" BY DEF TwinInv, PassOK
<1>6. PassOK'
  <2>1. {f \in made'[t] : f.dir = spc'[t]} = {} BY <1>1, <1>3, <1>4, <1>5 DEF Passes
  <2>2. OnePerPath(In(d)) BY DEF In, OnePerPath, TwinInv, PassOK
  <2>3. OnePerPath(todo'[t] \cup {f \in made'[t] : f.dir = spc'[t]}) BY <2>1, <2>2, <1>3
  <2>4. \A f \in todo'[t] : f.dir = spc'[t] BY <1>3 DEF In
  <2>5. clean' = [u \in Tasks |-> clean'[u]] BY DEF TwinInv, PassOK
  <2>6. /\ OnePerPath(files') /\ made' = [u \in Tasks |-> made'[u]] /\ todo' = [u \in Tasks |-> todo'[u]]
        /\ spc' = [u \in Tasks |-> spc'[u]] /\ listed' = [u \in Tasks |-> listed'[u]]
    BY <1>1 DEF TwinInv, PassOK
  <2>7. ASSUME NEW u \in Tasks
        PROVE  /\ spc'[u] \notin Passes => made'[u] = {}
               /\ spc'[u] = "pipelines" => \A f \in made'[u] : f.dir = "pipelines"
               /\ spc'[u] \in Passes =>
                    /\ \A f \in todo'[u] : f.dir = spc'[u]
                    /\ OnePerPath(todo'[u] \cup {f \in made'[u] : f.dir = spc'[u]})
    <3>1. CASE u = t BY <3>1, <1>1, <1>3, <1>4, <2>3, <2>4
    <3>2. CASE u # t
      <4>1. spc'[u] = spc[u] /\ todo'[u] = todo[u] /\ made'[u] = made[u] BY <3>2, <1>1, <1>2
      <4>2. QED BY <4>1 DEF TwinInv, PassOK, ThisPass
    <3>3. QED BY <3>1, <3>2
  <2>8. QED BY <2>5, <2>6, <2>7 DEF PassOK, ThisPass
<1>7. MadeIsListed'
  <2>1. ASSUME d = "root", clean'[t], NEW f \in made[t] PROVE \E e \in listed'[t] : e.title = f.title
    <3>1. Titled(f.title) BY <2>1 DEF TwinInv, MadeIsListed
    <3>2. PICK i \in Ids : wf[i] # None /\ wf[i].title = f.title BY <3>1 DEF Titled
    <3>3. Entry(i) \in listed'[t] /\ Entry(i).title = f.title BY <1>3, <3>2 DEF Live, Entry
    <3>4. QED BY <3>3
  <2>2. QED BY <1>1, <1>2, <1>3, <1>4, <2>1 DEF TwinInv, MadeIsListed, Titled
<1>8. QED BY <1>6, <1>7 DEF TwinInv

\* One file of a pass: it is passed over, made, or the end.
LEMMA ImportKeeps ==
    ASSUME TwinInv, NEW t \in Tasks, NEW step \in Passes, Import(t, step)
    PROVE  TwinInv'
<1>1. PICK f \in todo[t] :
         \/ /\ todo' = [todo EXCEPT ![t] = @ \ {f}]
            /\ UNCHANGED <<wf, spent, files, spc, listed, made, clean, plan, fresh>>
         \/ /\ CreateWorkflow(f)
            /\ \/ /\ todo' = [todo EXCEPT ![t] = @ \ {f}]
                  /\ made' = [made EXCEPT ![t] = @ \cup {f}]
                  /\ UNCHANGED <<spc, listed, plan>>
               \/ Finish(t)
            /\ clean' = [u \in Tasks |-> clean[u] /\ u = t]
            /\ UNCHANGED <<files, fresh>>
         \/ Raise(t)
  BY DEF Import
<1>2. CASE Raise(t) BY <1>2, FinishKeeps DEF Raise, TwinInv, PassOK
<1>3. CASE todo' = [todo EXCEPT ![t] = @ \ {f}] /\ UNCHANGED <<wf, spent, files, spc, listed, made, clean, plan, fresh>>
  <2>1. \A u \in Tasks : todo'[u] \subseteq todo[u] BY <1>3 DEF TwinInv, PassOK
  <2>2. PassOK' BY <1>3, <2>1 DEF TwinInv, PassOK, ThisPass, OnePerPath
  <2>3. MadeIsListed' BY <1>3 DEF TwinInv, MadeIsListed, Titled
  <2>4. QED BY <2>2, <2>3 DEF TwinInv
<1>4. CASE /\ CreateWorkflow(f) /\ UNCHANGED files
           /\ clean' = [u \in Tasks |-> clean[u] /\ u = t]
  <2>1. PICK i \in Ids \ spent : /\ wf' = [wf EXCEPT ![i] = [title |-> f.title, body |-> f.body]]
                                 /\ spent' = spent \cup {i}
    BY <1>4 DEF CreateWorkflow
  <2>2. wf'[i] # None /\ wf'[i].title = f.title /\ \A j \in Ids : j # i => wf'[j] = wf[j]
    BY <2>1 DEF None, TwinInv, MadeIsListed
  <2>3. \A title : Titled(title) => Titled(title)'
    BY <2>1, <2>2 DEF Titled, TwinInv, MadeIsListed
  <2>4. Titled(f.title)' BY <2>2 DEF Titled
  <2>5. wf' = [j \in Ids |-> wf'[j]] /\ \A j \in Ids : wf'[j] # None => j \in spent'
    BY <2>1 DEF TwinInv, MadeIsListed
  <2>6. \A u \in Tasks : clean'[u] => u = t /\ clean[u] BY <1>4
  <2>7. clean' = [u \in Tasks |-> clean'[u]] BY <1>4
  <2>8. CASE /\ todo' = [todo EXCEPT ![t] = @ \ {f}] /\ made' = [made EXCEPT ![t] = @ \cup {f}]
             /\ UNCHANGED <<spc, listed, plan>>
    <3>1. spc[t] = step BY DEF Import
    <3>2. made'[t] = made[t] \cup {f} /\ todo'[t] = todo[t] \ {f} /\ f.dir = step
          /\ \A u \in Tasks : u # t => made'[u] = made[u] /\ todo'[u] = todo[u]
      BY <2>8, <3>1 DEF TwinInv, PassOK
    <3>3. todo'[t] \cup {g \in made'[t] : g.dir = spc'[t]} \subseteq todo[t] \cup ThisPass(t)
      BY <2>8, <3>2 DEF ThisPass
    <3>4. OnePerPath(todo'[t] \cup {g \in made'[t] : g.dir = spc'[t]})
      BY <3>1, <3>3 DEF OnePerPath, TwinInv, PassOK
    <3>5. PassOK'
      <4>1. /\ OnePerPath(files') /\ made' = [u \in Tasks |-> made'[u]] /\ todo' = [u \in Tasks |-> todo'[u]]
            /\ spc' = [u \in Tasks |-> spc'[u]] /\ listed' = [u \in Tasks |-> listed'[u]]
        BY <1>4, <2>8 DEF TwinInv, PassOK
      <4>2. ASSUME NEW u \in Tasks
            PROVE  /\ spc'[u] \notin Passes => made'[u] = {}
                   /\ spc'[u] = "pipelines" => \A h \in made'[u] : h.dir = "pipelines"
                   /\ spc'[u] \in Passes =>
                        /\ \A h \in todo'[u] : h.dir = spc'[u]
                        /\ OnePerPath(todo'[u] \cup {h \in made'[u] : h.dir = spc'[u]})
        <5>1. CASE u = t
          <6>1. spc'[t] = step /\ (step = "pipelines" => \A h \in made[t] : h.dir = "pipelines")
                /\ \A h \in todo[t] : h.dir = step
            BY <2>8, <3>1 DEF TwinInv, PassOK
          <6>2. QED BY <5>1, <6>1, <3>2, <3>4
        <5>2. CASE u # t
          <6>1. spc'[u] = spc[u] /\ todo'[u] = todo[u] /\ made'[u] = made[u] BY <5>2, <2>8, <3>2
          <6>2. QED BY <6>1 DEF TwinInv, PassOK, ThisPass
        <5>3. QED BY <5>1, <5>2
      <4>3. QED BY <2>7, <4>1, <4>2 DEF PassOK, ThisPass
    <3>6. MadeIsListed'
      BY <2>3, <2>4, <2>5, <2>6, <2>8, <3>1, <3>2 DEF TwinInv, MadeIsListed, Passes
    <3>7. QED BY <3>5, <3>6 DEF TwinInv
  <2>9. CASE Finish(t)
    <3>1. /\ spc' = [spc EXCEPT ![t] = "idle"] /\ made' = [made EXCEPT ![t] = {}]
          /\ todo' = [todo EXCEPT ![t] = {}] /\ listed' = [listed EXCEPT ![t] = {}]
      BY <2>9 DEF Finish, Go
    <3>2. spc'[t] = "idle" /\ made'[t] = {}
          /\ \A u \in Tasks : u # t => spc'[u] = spc[u] /\ made'[u] = made[u] /\ todo'[u] = todo[u]
      BY <3>1 DEF TwinInv, PassOK
    <3>3. PassOK' BY <1>4, <2>7, <3>1, <3>2 DEF TwinInv, PassOK, ThisPass, Passes
    <3>4. MadeIsListed' BY <2>5, <2>6, <3>2 DEF MadeIsListed
    <3>5. QED BY <3>3, <3>4 DEF TwinInv
  <2>10. QED BY <1>1, <1>2, <1>3, <1>4, <2>8, <2>9
<1>5. QED BY <1>1, <1>2, <1>3, <1>4

LEMMA ExportKeeps ==
    ASSUME TwinInv, NEW t \in Tasks, Export(t) \/ Prune(t)
    PROVE  TwinInv'
<1>1. CASE Raise(t) BY <1>1, FinishKeeps DEF Raise, TwinInv, PassOK
<1>2. CASE Prune(t)
  <2>1. OnePerPath(files') BY <1>2 DEF Prune, TwinInv, PassOK, OnePerPath
  <2>2. QED BY <1>2, <2>1, FinishKeeps DEF Prune
<1>3. CASE \E e \in todo[t] :
             /\ files' = Put({FileOf(d, e) : d \in Dirs}) /\ todo' = [todo EXCEPT ![t] = @ \ {e}]
             /\ UNCHANGED <<wf, spent, spc, listed, made, clean, plan, fresh>>
  <2>1. PICK e \in todo[t] :
             /\ files' = Put({FileOf(d, e) : d \in Dirs}) /\ todo' = [todo EXCEPT ![t] = @ \ {e}]
             /\ UNCHANGED <<wf, spent, spc, listed, made, clean, plan, fresh>>
    BY <1>3
  <2>2. OnePerPath({FileOf(d, e) : d \in Dirs}) BY DEF OnePerPath, SamePath, FileOf
  <2>3. OnePerPath(files') BY <2>1, <2>2, PutOnePerPath DEF TwinInv, PassOK
  <2>4. \A u \in Tasks : todo'[u] \subseteq todo[u] BY <2>1 DEF TwinInv, PassOK
  <2>5. PassOK' BY <2>1, <2>3, <2>4 DEF TwinInv, PassOK, ThisPass, OnePerPath
  <2>6. MadeIsListed' BY <2>1 DEF TwinInv, MadeIsListed, Titled
  <2>7. QED BY <2>5, <2>6 DEF TwinInv
<1>4. QED BY <1>1, <1>2, <1>3 DEF Export

\* Users and pulls: nothing is said any more of an import they disturb.
LEMMA DisturbedKeeps == TwinInv /\ (Edit \/ PullFiles) => TwinInv'
<1>1. SUFFICES ASSUME TwinInv, Edit \/ PullFiles PROVE TwinInv'
  OBVIOUS
<1>2. UNCHANGED <<spc, listed, todo, made>> /\ clean' = [t \in Tasks |-> FALSE]
  BY <1>1 DEF Edit, PullFiles, Dirty
<1>3. OnePerPath(files')
  <2>1. CASE Edit BY <1>1, <2>1 DEF Edit, TwinInv, PassOK
  <2>2. CASE PullFiles
    <3>1. OnePerPath(Put(Theirs)) BY <1>1, PutOnePerPath, SyncAssumption DEF TwinInv, PassOK
    <3>2. OnePerPath(files \ Theirs) BY <1>1 DEF TwinInv, PassOK, OnePerPath
    <3>3. QED BY <2>2, <3>1, <3>2 DEF PullFiles
  <2>3. QED BY <1>1, <2>1, <2>2
<1>4. wf' = [i \in Ids |-> wf'[i]] /\ \A i \in Ids : wf'[i] # None => i \in spent'
  BY <1>1 DEF Edit, PullFiles, Live, TwinInv, MadeIsListed
<1>5. PassOK' BY <1>1, <1>2, <1>3 DEF TwinInv, PassOK, ThisPass
<1>6. MadeIsListed' BY <1>2, <1>4 DEF MadeIsListed
<1>7. QED BY <1>5, <1>6 DEF TwinInv

LEMMA BeginKeeps == ASSUME TwinInv, NEW t \in Tasks, BeginSync(t) PROVE TwinInv'
<1>1. spc[t] = "idle" BY DEF BeginSync, Idle
<1>2. CASE List(t, "pipelines", In("pipelines"))
  BY <1>1, <1>2, ListKeeps DEF BeginSync, Passes
<1>3. CASE List(t, "export", {Entry(i) : i \in Live})
  <2>1. /\ spc' = [spc EXCEPT ![t] = "export"] /\ UNCHANGED <<wf, spent, files, made>>
        /\ todo' = [todo EXCEPT ![t] = {Entry(i) : i \in Live}]
        /\ listed' = [listed EXCEPT ![t] = {Entry(i) : i \in Live}]
        /\ clean' = [clean EXCEPT ![t] = TRUE]
    BY <1>3 DEF List, Go, BeginSync
  <2>2. spc'[t] = "export" /\ made[t] = {}
        /\ \A u \in Tasks : u # t => /\ spc'[u] = spc[u] /\ todo'[u] = todo[u]
                                     /\ listed'[u] = listed[u] /\ clean'[u] = clean[u]
    BY <1>1, <2>1 DEF TwinInv, PassOK, Passes
  <2>3. PassOK' BY <2>1, <2>2 DEF TwinInv, PassOK, ThisPass, Passes
  <2>4. MadeIsListed' BY <2>1, <2>2 DEF TwinInv, MadeIsListed, Titled
  <2>5. QED BY <2>3, <2>4 DEF TwinInv
<1>4. QED BY <1>2, <1>3 DEF BeginSync

LEMMA TwinStep == TwinInv /\ [WNext]_wvars => TwinInv'
<1>1. SUFFICES ASSUME TwinInv, [WNext]_wvars PROVE TwinInv'
  OBVIOUS
<1>2. ASSUME NEW t \in Tasks, SyncTask(t) PROVE TwinInv'
  <2>1. CASE BeginSync(t) BY <1>1, <2>1, BeginKeeps
  <2>2. CASE Export(t) \/ Prune(t) BY <1>1, <2>2, ExportKeeps
  <2>3. CASE \E step \in Passes : Import(t, step) BY <1>1, <2>3, ImportKeeps
  <2>4. CASE EndOfPass(t)
    <3>1. CASE Raise(t) BY <1>1, <3>1, FinishKeeps DEF Raise, TwinInv, PassOK
    <3>2. CASE spc[t] = "pipelines" /\ NextPass(t) /\ clean' = clean
      BY <1>1, <3>2, ListKeeps DEF NextPass, Passes
    <3>3. QED BY <2>4, <3>1, <3>2 DEF EndOfPass
  <2>5. QED BY <1>2, <2>1, <2>2, <2>3, <2>4 DEF SyncTask, Passes
<1>3. CASE UNCHANGED wvars
  BY <1>1, <1>3 DEF wvars, TwinInv, PassOK, MadeIsListed, ThisPass, Titled
<1>4. QED BY <1>1, <1>2, <1>3, DisturbedKeeps DEF WNext

\* A file that is made is met in its pass for the first time, and unknown to the pass's list:
\* so its copy, if it was made, was not made in this pass, nor in one before the list.
LEMMA NoTwinStep ==
    ASSUME TwinInv, WNext, NEW t \in Tasks, clean[t], NEW g \in made'[t] \ made[t], NEW f \in made[t],
           f.name = g.name, f.id = g.id, f.title = g.title
    PROVE  \A i \in Live : wf[i].title # g.title
<1>1. PICK step \in Passes : Import(t, step)
  <2>1. ASSUME NEW u \in Tasks, BeginSync(u) \/ Export(u) \/ Prune(u) \/ EndOfPass(u)
        PROVE  made'[t] \subseteq made[t]
    BY <2>1 DEF BeginSync, Export, Prune, EndOfPass, List, NextPass, Raise, Finish, TwinInv, PassOK
  <2>2. ASSUME NEW u \in Tasks, u # t, NEW s, Import(u, s) PROVE made'[t] = made[t]
    BY <2>2 DEF Import, Raise, Finish, TwinInv, PassOK
  <2>3. Edit \/ PullFiles => made' = made BY DEF Edit, PullFiles
  <2>4. QED BY <2>1, <2>2, <2>3 DEF WNext, SyncTask, Passes
<1>2. /\ g \in todo[t] /\ ~Known(t, g) /\ spc[t] = step
  BY <1>1 DEF Import, Skipped, Raise, Finish, TwinInv, PassOK
<1>3. g.dir = step BY <1>2 DEF TwinInv, PassOK
<1>4. f.dir # step
  <2>1. ASSUME f.dir = step PROVE FALSE
    <3>1. f \in ThisPass(t) /\ SamePath(f, g) BY <1>2, <1>3, <2>1 DEF ThisPass, SamePath
    <3>2. f = g BY <1>2, <3>1 DEF TwinInv, PassOK, OnePerPath
    <3>3. QED BY <3>2
  <2>2. QED BY <2>1
<1>5. step = "root" BY <1>2, <1>4 DEF TwinInv, PassOK, Passes
<1>6. \E e \in listed[t] : e.title = f.title BY <1>2, <1>4, <1>5 DEF TwinInv, MadeIsListed
<1>7. QED BY <1>2, <1>6 DEF Known

\* An import that nobody disturbs creates no workflow from the root copy of an export whose
\* other copy it has created one from, for any workflows, names and files: the second pass
\* asks n8n again (_import_workflows).
THEOREM CopiesMakeOne == WSpec => NoTwinOfMirror
<1>1. TwinInv /\ [WNext]_wvars =>
        [\A t \in Tasks : clean[t] =>
          \A g \in made'[t] \ made[t], f \in made[t] :
             (f.name = g.name /\ f.id = g.id /\ f.title = g.title) =>
                \A i \in Live : wf[i].title # g.title]_wvars
  BY NoTwinStep
<1>2. QED BY TwinInit, TwinStep, <1>1, PTL DEF WSpec, NoTwinOfMirror

-----------------------------------------------------------------------------
(* What an import makes, and what an export leaves *)

\* What an operation works off is what it has listed.
SyncTyped ==
    /\ WTypeOK /\ plan = [t \in Tasks |-> plan[t]]
    /\ \A t \in Tasks : spc[t] = "export" => todo[t] \subseteq listed[t]

LEMMA EntriesTyped ==
    ASSUME WTypeOK
    PROVE  {Entry(i) : i \in Live} \subseteq [id : Ids, title : Titles]
BY DEF WTypeOK, Live, Entry, Workflow

LEMMA ExportTyped ==
    ASSUME WTypeOK, NEW e \in [id : Ids, title : Titles], e.id \in Live, NEW d \in Dirs
    PROVE  FileOf(d, e) \in File
<1>1. wf[e.id] \in Workflow BY DEF WTypeOK, Live
<1>2. SafeName[e.title] \in Range(SafeName) BY SyncAssumption DEF Range
<1>3. wf[e.id].title \in Titles /\ wf[e.id].body \in Bodies BY <1>1 DEF Workflow
<1>4. QED BY <1>2, <1>3 DEF FileOf, File

LEMMA FinishTyped ==
    ASSUME SyncTyped, TwinInv, NEW t \in Tasks, Finish(t), UNCHANGED <<wf, spent, clean>>,
           files' \subseteq File, fresh' \in BOOLEAN
    PROVE  SyncTyped'
<1>1. /\ spc' = [spc EXCEPT ![t] = "idle"] /\ made' = [made EXCEPT ![t] = {}]
      /\ todo' = [todo EXCEPT ![t] = {}] /\ listed' = [listed EXCEPT ![t] = {}]
      /\ plan' = [plan EXCEPT ![t] = {}]
  BY DEF Finish, Go
<1>2. spc'[t] = "idle" /\ made'[t] = {} /\ listed'[t] = {} /\ plan'[t] = {}
      /\ \A u \in Tasks : u # t => /\ spc'[u] = spc[u] /\ made'[u] = made[u] /\ todo'[u] = todo[u]
                                   /\ listed'[u] = listed[u] /\ plan'[u] = plan[u]
  BY <1>1 DEF TwinInv, PassOK, SyncTyped
<1>3. spc' \in [Tasks -> Steps] BY <1>1 DEF SyncTyped, WTypeOK, Steps
<1>4. QED BY <1>1, <1>2, <1>3 DEF SyncTyped, WTypeOK, Live

LEMMA ListTyped ==
    ASSUME SyncTyped, NEW t \in Tasks, NEW d \in Steps, NEW work, List(t, d, work), TwinInv,
           d # "export" \/ work = {Entry(i) : i \in Live},
           clean' = clean \/ clean' = [clean EXCEPT ![t] = TRUE], fresh' = fresh,
           plan' = plan \/ plan' = [plan EXCEPT ![t] = PlanImport({Entry(i) : i \in Live})]
    PROVE  SyncTyped'
<1>1. /\ spc' = [spc EXCEPT ![t] = d] /\ todo' = [todo EXCEPT ![t] = work]
      /\ listed' = [listed EXCEPT ![t] = {Entry(i) : i \in Live}]
      /\ UNCHANGED <<wf, spent, files, made>>
  BY DEF List, Go
<1>2. /\ spc'[t] = d /\ listed'[t] = {Entry(i) : i \in Live} /\ todo'[t] = work
      /\ \A u \in Tasks : u # t => spc'[u] = spc[u] /\ todo'[u] = todo[u] /\ listed'[u] = listed[u]
  BY <1>1 DEF TwinInv, PassOK
<1>3. PlanImport({Entry(i) : i \in Live}) \subseteq File
  BY DEF PlanImport, LocalExports, In, SyncTyped, WTypeOK
<1>4. plan' = [u \in Tasks |-> plan'[u]] /\ \A u \in Tasks : plan'[u] \subseteq File
  BY <1>3 DEF SyncTyped, WTypeOK
<1>5. \A u \in Tasks : listed'[u] \subseteq [id : Ids, title : Titles]
  BY <1>2, EntriesTyped DEF SyncTyped, WTypeOK
<1>6. spc' \in [Tasks -> Steps] /\ clean' \in [Tasks -> BOOLEAN] BY <1>1 DEF SyncTyped, WTypeOK
<1>7. WTypeOK' BY <1>1, <1>4, <1>5, <1>6 DEF SyncTyped, WTypeOK, Live
<1>8. \A u \in Tasks : spc'[u] = "export" => todo'[u] \subseteq listed'[u]
  <2>1. CASE d # "export" BY <2>1, <1>2 DEF SyncTyped
  <2>2. CASE work = {Entry(i) : i \in Live} BY <2>2, <1>2 DEF SyncTyped
  <2>3. QED BY <2>1, <2>2
<1>9. QED BY <1>4, <1>7, <1>8 DEF SyncTyped

LEMMA CreateTyped ==
    ASSUME WTypeOK, NEW f \in files, f.title \in Titles, CreateWorkflow(f)
    PROVE  /\ wf' \in [Ids -> {None} \cup Workflow] /\ spent' \subseteq Ids
           /\ Live' \subseteq spent'
<1>1. PICK i \in Ids \ spent : /\ wf' = [wf EXCEPT ![i] = [title |-> f.title, body |-> f.body]]
                               /\ spent' = spent \cup {i}
  BY DEF CreateWorkflow
<1>2. [title |-> f.title, body |-> f.body] \in Workflow BY DEF WTypeOK, File, Workflow
<1>3. QED BY <1>1, <1>2 DEF WTypeOK, Live

LEMMA ImportTyped ==
    ASSUME SyncTyped, TwinInv, NEW t \in Tasks, NEW step \in Passes, Import(t, step)
    PROVE  SyncTyped'
<1>1. PICK f \in todo[t] :
         \/ /\ todo' = [todo EXCEPT ![t] = @ \ {f}]
            /\ UNCHANGED <<wf, spent, files, spc, listed, made, clean, plan, fresh>>
         \/ /\ CreateWorkflow(f) /\ ~Skipped(t, f)
            /\ \/ /\ todo' = [todo EXCEPT ![t] = @ \ {f}]
                  /\ made' = [made EXCEPT ![t] = @ \cup {f}]
                  /\ UNCHANGED <<spc, listed, plan>>
               \/ Finish(t)
            /\ clean' = [u \in Tasks |-> clean[u] /\ u = t]
            /\ UNCHANGED <<files, fresh>>
         \/ Raise(t)
  BY DEF Import
<1>2. CASE Raise(t) BY <1>2, FinishTyped DEF Raise, SyncTyped, WTypeOK
<1>3. CASE todo' = [todo EXCEPT ![t] = @ \ {f}] /\ UNCHANGED <<wf, spent, files, spc, listed, made, clean, plan, fresh>>
  <2>1. \A u \in Tasks : todo'[u] \subseteq todo[u] BY <1>3 DEF TwinInv, PassOK
  <2>2. WTypeOK' BY <1>3 DEF SyncTyped, WTypeOK, Live
  <2>3. QED BY <1>3, <2>1, <2>2 DEF SyncTyped
<1>4. CASE /\ CreateWorkflow(f) /\ ~Skipped(t, f) /\ UNCHANGED <<files, fresh>>
           /\ clean' = [u \in Tasks |-> clean[u] /\ u = t]
  <2>1. f \in files /\ f.title \in Titles /\ f \in File BY <1>4 DEF Skipped, SyncTyped, WTypeOK
  <2>2. /\ wf' \in [Ids -> {None} \cup Workflow] /\ spent' \subseteq Ids /\ Live' \subseteq spent'
    BY <1>4, <2>1, CreateTyped DEF SyncTyped
  <2>3. clean' \in [Tasks -> BOOLEAN]
    <3>1. \A u \in Tasks : (clean[u] /\ u = t) \in BOOLEAN OBVIOUS
    <3>2. QED BY <1>4, <3>1
  <2>4. CASE /\ todo' = [todo EXCEPT ![t] = @ \ {f}] /\ made' = [made EXCEPT ![t] = @ \cup {f}]
             /\ UNCHANGED <<spc, listed, plan>>
    <3>1. \A u \in Tasks : todo'[u] \subseteq todo[u] /\ made'[u] \subseteq made[u] \cup {f}
      BY <2>4 DEF TwinInv, PassOK
    <3>2. WTypeOK' BY <1>4, <2>1, <2>2, <2>3, <2>4, <3>1 DEF SyncTyped, WTypeOK
    <3>3. QED BY <2>4, <3>1, <3>2 DEF SyncTyped
  <2>5. CASE Finish(t)
    <3>1. /\ spc' = [spc EXCEPT ![t] = "idle"] /\ made' = [made EXCEPT ![t] = {}]
          /\ todo' = [todo EXCEPT ![t] = {}] /\ listed' = [listed EXCEPT ![t] = {}]
          /\ plan' = [plan EXCEPT ![t] = {}]
      BY <2>5 DEF Finish, Go
    <3>2. \A u \in Tasks : /\ made'[u] \subseteq made[u] /\ listed'[u] \subseteq listed[u] /\ plan'[u] \subseteq plan[u]
                           /\ spc'[u] = "export" => spc[u] = "export" /\ todo'[u] \subseteq todo[u] /\ listed'[u] = listed[u]
      BY <3>1 DEF TwinInv, PassOK, SyncTyped
    <3>3. spc' \in [Tasks -> Steps] /\ plan' = [u \in Tasks |-> plan'[u]]
      BY <3>1 DEF SyncTyped, WTypeOK, Steps
    <3>4. WTypeOK' BY <1>4, <2>2, <2>3, <3>2, <3>3 DEF SyncTyped, WTypeOK
    <3>5. QED BY <3>2, <3>3, <3>4 DEF SyncTyped
  <2>6. QED BY <1>1, <1>2, <1>3, <1>4, <2>4, <2>5
<1>5. QED BY <1>1, <1>2, <1>3, <1>4

LEMMA ExportPruneTyped ==
    ASSUME SyncTyped, TwinInv, NEW t \in Tasks, Export(t) \/ Prune(t)
    PROVE  SyncTyped'
<1>1. CASE Raise(t) BY <1>1, FinishTyped DEF Raise, SyncTyped, WTypeOK
<1>2. CASE Prune(t) BY <1>2, FinishTyped DEF Prune, SyncTyped, WTypeOK
<1>3. CASE spc[t] = "export" /\ \E e \in todo[t] :
             /\ e.id \in Live /\ files' = Put({FileOf(d, e) : d \in Dirs}) /\ todo' = [todo EXCEPT ![t] = @ \ {e}]
             /\ UNCHANGED <<wf, spent, spc, listed, made, clean, plan, fresh>>
  <2>1. PICK e \in todo[t] :
             /\ e.id \in Live /\ files' = Put({FileOf(d, e) : d \in Dirs}) /\ todo' = [todo EXCEPT ![t] = @ \ {e}]
             /\ UNCHANGED <<wf, spent, spc, listed, made, clean, plan, fresh>>
    BY <1>3
  <2>2. e \in [id : Ids, title : Titles] BY <1>3 DEF SyncTyped, WTypeOK
  <2>3. files' \subseteq File BY <2>1, <2>2, ExportTyped DEF Put, SyncTyped, WTypeOK
  <2>4. \A u \in Tasks : todo'[u] \subseteq todo[u] BY <2>1 DEF TwinInv, PassOK
  <2>5. WTypeOK' BY <2>1, <2>3 DEF SyncTyped, WTypeOK, Live
  <2>6. QED BY <2>1, <2>4, <2>5 DEF SyncTyped
<1>4. QED BY <1>1, <1>2, <1>3 DEF Export

LEMMA DisturbedTyped == SyncTyped /\ (Edit \/ PullFiles) => SyncTyped'
<1>1. SUFFICES ASSUME SyncTyped, Edit \/ PullFiles PROVE SyncTyped'
  OBVIOUS
<1>2. UNCHANGED <<spc, listed, todo, made, plan>> /\ clean' = [t \in Tasks |-> FALSE] /\ ~fresh' /\ fresh' \in BOOLEAN
  BY <1>1 DEF Edit, PullFiles, Dirty
<1>3. CASE Edit
  <2>1. wf' \in [Ids -> {None} \cup Workflow] /\ spent' \subseteq Ids /\ Live' \subseteq spent'
    <3>1. CASE \E i \in Ids \ spent, w \in Workflow : wf' = [wf EXCEPT ![i] = w] /\ spent' = spent \cup {i}
      BY <3>1, <1>1 DEF SyncTyped, WTypeOK, Live
    <3>2. CASE \E i \in Live, w \in {None} \cup Workflow : wf' = [wf EXCEPT ![i] = w] /\ UNCHANGED spent
      BY <3>2, <1>1 DEF SyncTyped, WTypeOK, Live
    <3>3. QED BY <1>3, <3>1, <3>2 DEF Edit
  <2>2. files' = files BY <1>3 DEF Edit
  <2>3. QED BY <1>1, <1>2, <2>1, <2>2 DEF SyncTyped, WTypeOK
<1>4. CASE PullFiles
  <2>1. files' \subseteq File BY <1>1, <1>4, SyncAssumption DEF PullFiles, Put, SyncTyped, WTypeOK
  <2>2. UNCHANGED <<wf, spent>> BY <1>4 DEF PullFiles
  <2>3. QED BY <1>1, <1>2, <2>1, <2>2 DEF SyncTyped, WTypeOK, Live
<1>5. QED BY <1>1, <1>3, <1>4

LEMMA SyncTypedInit == WInit => SyncTyped
BY SyncAssumption DEF WInit, SyncTyped, WTypeOK, Live, Steps

LEMMA SyncTypedNext == SyncTyped /\ TwinInv /\ [WNext]_wvars => SyncTyped'
<1>1. SUFFICES ASSUME SyncTyped, TwinInv, [WNext]_wvars PROVE SyncTyped'
  OBVIOUS
<1>2. ASSUME NEW t \in Tasks, SyncTask(t) PROVE SyncTyped'
  <2>1. CASE BeginSync(t)
    <3>1. CASE List(t, "export", {Entry(i) : i \in Live}) /\ plan' = plan
      BY <1>1, <2>1, <3>1, ListTyped DEF BeginSync, Steps
    <3>2. CASE List(t, "pipelines", In("pipelines")) /\ plan' = [plan EXCEPT ![t] = PlanImport({Entry(i) : i \in Live})]
      BY <1>1, <2>1, <3>2, ListTyped DEF BeginSync, Steps
    <3>3. QED BY <2>1, <3>1, <3>2 DEF BeginSync
  <2>2. CASE Export(t) \/ Prune(t) BY <1>1, <2>2, ExportPruneTyped
  <2>3. CASE \E step \in Passes : Import(t, step) BY <1>1, <2>3, ImportTyped
  <2>4. CASE EndOfPass(t)
    <3>1. CASE Raise(t) BY <1>1, <3>1, FinishTyped DEF Raise, SyncTyped, WTypeOK
    <3>2. CASE NextPass(t) /\ UNCHANGED <<clean, plan, fresh>>
      BY <1>1, <3>2, ListTyped DEF NextPass, Steps
    <3>3. QED BY <2>4, <3>1, <3>2 DEF EndOfPass
  <2>5. QED BY <1>2, <2>1, <2>2, <2>3, <2>4 DEF SyncTask, Passes
<1>3. CASE UNCHANGED wvars BY <1>1, <1>3 DEF wvars, SyncTyped, WTypeOK, Live
<1>4. QED BY <1>1, <1>2, <1>3, DisturbedTyped DEF WNext

\* Every variable of WorkflowSync keeps its type: only readable workflows are created, and
\* ids are given once, for any operations at once, users and pulls.
THEOREM WorkflowsTyped == WSpec => []WTypeOK
<1>1. SyncTyped => WTypeOK BY DEF SyncTyped
<1>2. QED BY SyncTypedInit, SyncTypedNext, TwinInit, TwinStep, <1>1, PTL DEF WSpec

\* One export or import of the workspace at a time.
OneSync == \A t, u \in Tasks : t = u

\* No name of a user's file ends in an id: none is taken for an export of that id.
UsersNames == \A f \in HandWritten : f.id = NoId

\* Both copies of an export are alike, in what other clones send and in the user's files.
CopiesAgree ==
    /\ \A f \in Theirs, d \in Dirs : [f EXCEPT !.dir = d] \in Theirs
    /\ \A f, g \in HandWritten : f.name = g.name => f.title = g.title

\* A file without an id is the user's; every other one is named, and in both directories.
Paired == \A f \in files : IF f.id = NoId THEN f \in HandWritten
            ELSE f.name # NoName /\ \A d \in Dirs : [f EXCEPT !.dir = d] \in files

LEMMA PairedPut ==
    ASSUME Paired, files \subseteq File, NEW new, new \subseteq File,
           \A g \in new : g.id # NoId /\ g.name # NoName,
           \A g \in new, d \in Dirs : [g EXCEPT !.dir = d] \in new, files' = Put(new)
    PROVE  Paired'
<1>1. SUFFICES ASSUME NEW f \in Put(new), f \notin new, f.id # NoId, NEW d \in Dirs
               PROVE  [f EXCEPT !.dir = d] \in Put(new)
  BY DEF Put, Paired
<1>2. /\ f \in files /\ f \in File /\ \A g \in new : ~SamePath(f, g)
      /\ [f EXCEPT !.dir = d] \in files
  BY <1>1 DEF Put, Paired
<1>3. ASSUME NEW g \in new, SamePath([f EXCEPT !.dir = d], g) PROVE FALSE
  <2>1. g \in File /\ [g EXCEPT !.dir = f.dir] \in new BY <1>2 DEF File
  <2>2. SamePath(f, [g EXCEPT !.dir = f.dir]) BY <1>2, <1>3, <2>1 DEF SamePath, File
  <2>3. QED BY <1>2, <2>1, <2>2
<1>4. QED BY <1>2, <1>3 DEF Put

LEMMA PairedNext ==
    ASSUME SyncTyped, Paired, CopiesAgree, [WNext]_wvars
    PROVE  Paired'
<1>0. files \subseteq File BY DEF SyncTyped, WTypeOK
<1>1. ASSUME NEW t \in Tasks, Export(t) PROVE Paired'
  <2>1. CASE Raise(t) BY <2>1 DEF Raise, Paired
  <2>2. CASE spc[t] = "export" /\ \E e \in todo[t] : e.id \in Live /\ files' = Put({FileOf(d, e) : d \in Dirs})
    <3>1. PICK e \in todo[t] : e.id \in Live /\ files' = Put({FileOf(d, e) : d \in Dirs}) BY <2>2
    <3>2. e \in [id : Ids, title : Titles] BY <2>2 DEF SyncTyped, WTypeOK
    <3> DEFINE new == {FileOf(d, e) : d \in Dirs}
    <3>3. new \subseteq File BY <3>1, <3>2, ExportTyped DEF SyncTyped
    <3>4. \A g \in new : g.id # NoId /\ g.name # NoName
      <4>1. SafeName[e.title] \in Range(SafeName) BY <3>2, SyncAssumption DEF Range
      <4>2. QED BY <3>2, <4>1, SyncAssumption DEF FileOf
    <3>5. \A g \in new, d \in Dirs : [g EXCEPT !.dir = d] \in new BY DEF FileOf
    <3> HIDE DEF new
    <3>6. QED BY <1>0, <3>1, <3>3, <3>4, <3>5, PairedPut DEF new
  <2>3. QED BY <1>1, <2>1, <2>2 DEF Export
<1>2. ASSUME NEW t \in Tasks, Prune(t) PROVE Paired'
  <2>1. PICK live : files' = {f \in files : ~Stale(f, live)} BY <1>2 DEF Prune
  <2>2. ASSUME NEW f \in files', f.id # NoId, NEW d \in Dirs PROVE [f EXCEPT !.dir = d] \in files'
    <3>1. f \in File /\ ~Stale(f, live) /\ [f EXCEPT !.dir = d] \in files BY <1>0, <2>1, <2>2 DEF Paired
    <3>2. [f EXCEPT !.dir = d].name = f.name /\ [f EXCEPT !.dir = d].id = f.id BY <3>1 DEF File
    <3>3. QED BY <2>1, <3>1, <3>2 DEF Stale, LauncherNamed
  <2>3. QED BY <2>1, <2>2 DEF Paired
<1>3. ASSUME NEW t \in Tasks,
             \/ BeginSync(t) \/ Import(t, "pipelines") \/ Import(t, "root") \/ EndOfPass(t)
      PROVE  files' = files
      BY <1>3 DEF BeginSync, List, Import, EndOfPass, NextPass, Raise
<1>4. CASE Edit BY <1>4 DEF Edit, Paired
<1>5. CASE PullFiles
  <2>1. CASE files' = Put(Theirs)
    <3>1. \A g \in Theirs : g.id # NoId /\ g.name # NoName BY SyncAssumption
    <3>2. \A g \in Theirs, d \in Dirs : [g EXCEPT !.dir = d] \in Theirs BY DEF CopiesAgree
    <3>3. Theirs \subseteq File BY SyncAssumption
    <3>4. QED BY <1>0, <2>1, <3>1, <3>2, <3>3, PairedPut
  <2>2. CASE files' = files \ Theirs
    <3>1. ASSUME NEW f \in files', f.id # NoId, NEW d \in Dirs PROVE [f EXCEPT !.dir = d] \in files'
      <4>1. f \in File /\ f \notin Theirs /\ [f EXCEPT !.dir = d] \in files BY <1>0, <2>2, <3>1 DEF Paired
      <4>2. f = [[f EXCEPT !.dir = d] EXCEPT !.dir = f.dir] /\ f.dir \in Dirs BY <4>1 DEF File
      <4>3. [f EXCEPT !.dir = d] \notin Theirs BY <4>1, <4>2 DEF CopiesAgree
      <4>4. QED BY <2>2, <4>1, <4>3
    <3>2. QED BY <2>2, <3>1 DEF Paired
  <2>3. QED BY <1>5, <2>1, <2>2 DEF PullFiles
<1>6. CASE UNCHANGED wvars BY <1>6 DEF wvars, Paired
<1>7. QED BY <1>1, <1>2, <1>3, <1>4, <1>5, <1>6 DEF WNext, SyncTask, Paired

\* An export nobody has disturbed: the list is n8n's, and what it has worked off is written.
ExportOK(t) == (spc[t] = "export" /\ clean[t]) =>
    /\ listed[t] = {Entry(i) : i \in Live}
    /\ \A e \in listed[t] \ todo[t], d \in Dirs : FileOf(d, e) \in files

ExportsOK == \A t \in Tasks : ExportOK(t)

LEMMA ExportStepOK ==
    ASSUME SyncTyped, TwinInv, ExportsOK, OneSync, NEW t \in Tasks, Export(t)
    PROVE  ExportOK(t)'
<1>1. CASE Raise(t)
  <2>1. spc'[t] = "idle" BY <1>1 DEF Raise, Finish, Go, TwinInv, PassOK
  <2>2. QED BY <2>1 DEF ExportOK
<1>2. CASE \E e \in todo[t] :
             /\ e.id \in Live /\ files' = Put({FileOf(d, e) : d \in Dirs}) /\ todo' = [todo EXCEPT ![t] = @ \ {e}]
             /\ UNCHANGED <<wf, spent, spc, listed, made, clean, plan, fresh>>
  <2>1. PICK e \in todo[t] :
             /\ e.id \in Live /\ files' = Put({FileOf(d, e) : d \in Dirs}) /\ todo' = [todo EXCEPT ![t] = @ \ {e}]
             /\ UNCHANGED <<wf, spent, spc, listed, made, clean, plan, fresh>>
    BY <1>2
  <2>2. spc[t] = "export" /\ e \in listed[t] BY DEF Export, SyncTyped
  <2>3. todo'[t] = todo[t] \ {e} BY <2>1 DEF TwinInv, PassOK
  <2>4. ASSUME clean[t], NEW g \in listed[t] \ todo'[t], NEW d \in Dirs PROVE FileOf(d, g)' \in files'
    <3>1. FileOf(d, g)' = FileOf(d, g) BY <2>1 DEF FileOf
    <3>2. CASE g = e BY <2>1, <3>1, <3>2 DEF Put
    <3>3. CASE g # e
      <4>1. FileOf(d, g) \in files BY <2>2, <2>3, <2>4, <3>3 DEF ExportsOK, ExportOK
      <4>2. g.id # e.id BY <2>2, <2>4, <3>3 DEF ExportsOK, ExportOK, Entry
      <4>3. \A h \in {FileOf(c, e) : c \in Dirs} : ~SamePath(FileOf(d, g), h)
        BY <4>2 DEF SamePath, FileOf
      <4>4. QED BY <2>1, <3>1, <4>1, <4>3 DEF Put
    <3>4. QED BY <3>2, <3>3
  <2>5. clean[t] => listed'[t] = {Entry(i) : i \in Live}'
    BY <2>1, <2>2 DEF ExportsOK, ExportOK, Entry, Live
  <2>6. QED BY <2>1, <2>4, <2>5 DEF ExportOK
<1>3. QED BY <1>1, <1>2 DEF Export

LEMMA ExportsOKNext ==
    ASSUME SyncTyped, TwinInv, ExportsOK, OneSync, [WNext]_wvars
    PROVE  ExportsOK'
<1>1. ASSUME NEW t \in Tasks, SyncTask(t) PROVE ExportsOK'
  <2>1. SUFFICES ExportOK(t)' BY DEF OneSync, ExportsOK
  <2>2. CASE BeginSync(t) /\ List(t, "export", {Entry(i) : i \in Live})
    <3>1. /\ spc'[t] = "export" /\ todo'[t] = listed'[t] /\ UNCHANGED wf
          /\ listed'[t] = {Entry(i) : i \in Live}
      BY <2>2 DEF List, Go, TwinInv, PassOK
    <3>2. listed'[t] = {Entry(i) : i \in Live}' BY <3>1 DEF Live, Entry
    <3>3. QED BY <3>1, <3>2 DEF ExportOK
  <2>3. CASE Export(t) BY <2>3, ExportStepOK
  <2>4. CASE spc'[t] # "export" BY <2>4 DEF ExportOK
  <2>5. ASSUME \/ BeginSync(t) /\ ~List(t, "export", {Entry(i) : i \in Live})
               \/ Prune(t) \/ Import(t, "pipelines") \/ Import(t, "root") \/ EndOfPass(t)
        PROVE  spc'[t] # "export"
    <3>1. CASE BeginSync(t) /\ ~List(t, "export", {Entry(i) : i \in Live})
      BY <3>1 DEF BeginSync, List, Go, TwinInv, PassOK
    <3>2. CASE Prune(t) BY <3>2 DEF Prune, Finish, Go, TwinInv, PassOK
    <3>3. CASE Import(t, "pipelines") \/ Import(t, "root")
      BY <3>3 DEF Import, Raise, Finish, Go, TwinInv, PassOK
    <3>4. CASE EndOfPass(t)
      BY <3>4 DEF EndOfPass, NextPass, List, Raise, Finish, Go, TwinInv, PassOK
    <3>5. QED BY <2>5, <3>1, <3>2, <3>3, <3>4
  <2>6. QED BY <1>1, <2>2, <2>3, <2>4, <2>5 DEF SyncTask
<1>2. CASE Edit \/ PullFiles
  <2>1. \A t \in Tasks : ~clean'[t] BY <1>2 DEF Edit, PullFiles, Dirty
  <2>2. QED BY <2>1 DEF ExportsOK, ExportOK
<1>3. CASE UNCHANGED wvars
  BY <1>3 DEF wvars, ExportsOK, ExportOK, Live, Entry, FileOf
<1>4. QED BY <1>1, <1>2, <1>3 DEF WNext

ExportInv == SyncTyped /\ TwinInv /\ ExportsOK

LEMMA ExportInvHolds == OneSync => (WSpec => []ExportInv)
<1> SUFFICES ASSUME OneSync PROVE WSpec => []ExportInv
    OBVIOUS
<1>1. WInit => ExportInv BY SyncTypedInit, TwinInit DEF WInit, ExportInv, ExportsOK, ExportOK
<1>2. ExportInv /\ [WNext]_wvars => ExportInv'
  BY SyncTypedNext, TwinStep, ExportsOKNext DEF ExportInv
<1>3. QED BY <1>1, <1>2, PTL DEF WSpec

\* A pass of an import: the files it has worked off that were workflows and not in its list,
\* and what was made of n8nPipelines/.
New(t, d) == {f \in In(d) \ todo[t] : f.title \in Titles /\ ~Known(t, f)}
FirstMade(t) == {f \in made[t] : f.dir = "pipelines"}

\* The first pass: n8n holds what was listed and what was made.
FirstPassOK(t) == (spc[t] = "pipelines" /\ clean[t]) =>
    /\ todo[t] \subseteq In("pipelines")
    /\ plan[t] = PlanImport(listed[t])
    /\ made[t] = New(t, "pipelines")
    /\ \A e \in listed[t] : e.id \in Live /\ wf[e.id].title = e.title
    /\ \A i \in Live : \/ Entry(i) \in listed[t]
                       \/ \E f \in made[t] : f.title = wf[i].title

\* The second: it makes what the plan has of the root, but for titles the first has made.
SecondPassOK(t) == (spc[t] = "root" /\ clean[t]) =>
    /\ todo[t] \subseteq In("root")
    /\ FirstMade(t) = {f \in plan[t] : f.dir = "pipelines"}
    /\ \A f \in plan[t] : f.dir = "pipelines" \/ (f \in In("root") /\ f.title \in Titles)
    /\ \A f \in plan[t] : Known(t, f) => \E g \in FirstMade(t) : g.title = f.title
    /\ \A f \in In("root") : (f.title \in Titles /\ ~Known(t, f)) => f \in plan[t]
    /\ made[t] = FirstMade(t) \cup New(t, "root")

SyncOK == \A t \in Tasks : FirstPassOK(t) /\ SecondPassOK(t)
SyncInv == SyncTyped /\ TwinInv /\ Paired /\ SyncOK

\* Under these an import and plan_import read the same ids in the names of all files.
Alike == UsersNames /\ CopiesAgree /\ Numbered = Ids

LEMMA SyncInvInit == WInit /\ UsersNames => SyncInv
<1> SUFFICES ASSUME WInit, UsersNames PROVE SyncInv
    OBVIOUS
<1>1. Paired BY DEF WInit, Paired, UsersNames
<1>2. SyncOK BY DEF WInit, SyncOK, FirstPassOK, SecondPassOK
<1>3. QED BY <1>1, <1>2, SyncTypedInit, TwinInit DEF SyncInv

\* Nothing is said of an operation that has ended, and there is no other.
LEMMA FinishOK == ASSUME SyncInv, OneSync, NEW t \in Tasks, Finish(t) PROVE SyncOK'
<1>1. spc'[t] = "idle" BY DEF Finish, Go, SyncInv, TwinInv, PassOK
<1>2. QED BY <1>1 DEF OneSync, SyncOK, FirstPassOK, SecondPassOK

LEMMA BeginOK == ASSUME SyncInv, OneSync, NEW t \in Tasks, BeginSync(t) PROVE SyncOK'
<1>1. \A u \in Tasks : u = t BY DEF OneSync
<1>2. UNCHANGED <<wf, files, made>> /\ listed'[t] = {Entry(i) : i \in Live} /\ made[t] = {}
  BY DEF BeginSync, List, Idle, SyncInv, TwinInv, PassOK, Passes
<1>3. CASE List(t, "export", {Entry(i) : i \in Live})
  <2>1. spc'[t] = "export" /\ todo'[t] = listed'[t]
    BY <1>3 DEF List, Go, SyncInv, TwinInv, PassOK
  <2>2. listed'[t] = {Entry(i) : i \in Live}' BY <1>2 DEF Live, Entry
  <2>3. QED BY <1>1, <2>1, <2>2 DEF SyncOK, FirstPassOK, SecondPassOK
<1>4. CASE List(t, "pipelines", In("pipelines")) /\ plan' = [plan EXCEPT ![t] = PlanImport({Entry(i) : i \in Live})]
  <2>1. spc'[t] = "pipelines" /\ todo'[t] = In("pipelines") /\ plan'[t] = PlanImport(listed'[t])
    BY <1>2, <1>4 DEF List, Go, SyncInv, TwinInv, PassOK, SyncTyped
  <2>2. In("pipelines")' = In("pipelines") /\ PlanImport(listed[t])' = PlanImport(listed'[t])
    BY <1>2 DEF In, PlanImport, ParsedId, LauncherNamed, LocalExports
  <2>3. New(t, "pipelines")' = {} BY <2>1, <2>2 DEF New
  <2>4. \A e \in listed'[t] : e.id \in Live' /\ wf'[e.id].title = e.title
    BY <1>2 DEF Entry, Live
  <2>5. \A i \in Live' : Entry(i)' \in listed'[t] BY <1>2 DEF Entry, Live
  <2>6. FirstPassOK(t)' BY <1>2, <2>1, <2>2, <2>3, <2>4, <2>5 DEF FirstPassOK
  <2>7. QED BY <1>1, <2>1, <2>6 DEF SyncOK, SecondPassOK
<1>5. QED BY <1>3, <1>4 DEF BeginSync

\* plan_import compares every id that import_all does.
LEMMA PlanReads ==
    ASSUME SyncInv, Numbered = Ids, NEW R
    PROVE  PlanImport(R) = {f \in LocalExports : f.title \in Titles /\
                              \A e \in R : f.id # e.id /\ f.title # e.title}
<1>1. ASSUME NEW f \in LocalExports PROVE ParsedId(f) = f.id
  <2>1. f \in files /\ f \in File BY DEF LocalExports, In, SyncInv, SyncTyped, WTypeOK
  <2>2. f.id = NoId \/ f.name # NoName BY <2>1 DEF SyncInv, Paired
  <2>3. f.id \in Ids \cup {NoId} BY <2>1 DEF File
  <2>4. QED BY <2>2, <2>3, SyncAssumption DEF ParsedId, LauncherNamed
<1>2. QED BY <1>1 DEF PlanImport

LEMMA EndOfPassOK == ASSUME SyncInv, OneSync, Alike, NEW t \in Tasks, EndOfPass(t) PROVE SyncOK'
<1>1. CASE Raise(t) BY <1>1, FinishOK DEF Raise
<1>2. CASE spc[t] = "pipelines" /\ todo[t] = {} /\ NextPass(t) /\ UNCHANGED <<clean, plan>>
  <2>1. /\ UNCHANGED <<wf, files, made, clean, plan>>
        /\ spc'[t] = "root" /\ listed'[t] = {Entry(i) : i \in Live} /\ todo'[t] = In("root")
    BY <1>2 DEF NextPass, List, Go, SyncInv, TwinInv, PassOK
  <2>2. SUFFICES ASSUME clean[t] PROVE SecondPassOK(t)'
    BY <2>1 DEF OneSync, SyncOK, FirstPassOK, SecondPassOK
  <2>3. In("root")' = In("root") BY <2>1 DEF In
  <2>4. /\ plan[t] = PlanImport(listed[t]) /\ made[t] = New(t, "pipelines")
        /\ \A e \in listed[t] : e.id \in Live /\ wf[e.id].title = e.title
        /\ \A i \in Live : Entry(i) \in listed[t] \/ \E f \in made[t] : f.title = wf[i].title
    BY <1>2, <2>2 DEF SyncInv, SyncOK, FirstPassOK
  <2>14. plan[t] = {f \in LocalExports : f.title \in Titles /\
                      \A x \in listed[t] : f.id # x.id /\ f.title # x.title}
    BY <2>4, PlanReads DEF Alike
  <2>5. made[t] = {f \in In("pipelines") : f.title \in Titles /\ ~Known(t, f)} BY <1>2, <2>4 DEF New
  <2>6. made[t] = {f \in plan[t] : f.dir = "pipelines"}
    BY <2>5, <2>14 DEF LocalExports, Known, In
  <2>7. FirstMade(t)' = made[t] BY <2>1, <2>6 DEF FirstMade
  <2>8. \A f \in plan[t] : f.dir = "pipelines" \/ (f \in In("root") /\ f.title \in Titles)
    BY <2>14 DEF LocalExports, In
  <2>9. ASSUME NEW f \in files, f.id # NoId
        PROVE  /\ [f EXCEPT !.dir = "pipelines"] \in In("pipelines")
               /\ [f EXCEPT !.dir = "pipelines"].name = f.name /\ [f EXCEPT !.dir = "pipelines"].id = f.id
               /\ [f EXCEPT !.dir = "pipelines"].title = f.title
    <3>1. f \in File /\ [f EXCEPT !.dir = "pipelines"] \in files
      BY <2>9 DEF Dirs, SyncInv, Paired, SyncTyped, WTypeOK
    <3>2. QED BY <3>1 DEF In, File
  <2>10. ASSUME NEW f \in plan[t], Known(t, f)' PROVE \E g \in made[t] : g.title = f.title
    <3>1. CASE f.dir = "pipelines" BY <2>6, <3>1
    <3>2. CASE f.dir # "pipelines"
      <4>1. f \in In("root") /\ f \in files /\ \A g \in In("pipelines") : f.name # g.name \/ f.id # g.id
        BY <2>14, <3>2 DEF LocalExports, In
      <4>2. f.id = NoId BY <2>9, <4>1
      <4>3. PICK i \in Live : f.id = i \/ f.title = wf[i].title BY <2>1, <2>10 DEF Known, Entry
      <4>4. f.title = wf[i].title BY <4>2, <4>3, SyncAssumption DEF Live
      <4>5. ~Known(t, f) BY <2>14 DEF Known
      <4>6. Entry(i) \notin listed[t] BY <4>4, <4>5 DEF Known, Entry
      <4>7. QED BY <2>4, <4>4, <4>6
    <3>3. QED BY <3>1, <3>2
  <2>11. ASSUME NEW f \in In("root"), f.title \in Titles, ~Known(t, f)' PROVE f \in plan[t]
    <3>1. ASSUME NEW i \in Live PROVE i # f.id /\ wf[i].title # f.title
      <4>1. Entry(i) \in listed'[t] BY <2>1
      <4>2. f.id # Entry(i).id /\ f.title # Entry(i).title BY <2>11, <4>1 DEF Known
      <4>3. QED BY <4>2 DEF Entry
    <3>2. ~Known(t, f) BY <2>4, <3>1 DEF Known
    <3>3. ASSUME NEW g \in In("pipelines"), g.name = f.name, g.id = f.id PROVE FALSE
      <4>1. g.title = f.title
        <5>1. CASE f.id = NoId
          BY <5>1, <3>3 DEF In, SyncInv, Paired, Alike, CopiesAgree
        <5>2. CASE f.id # NoId
          <6> DEFINE m == [f EXCEPT !.dir = "pipelines"]
          <6>1. /\ m \in files /\ m.dir = "pipelines" /\ m.name = f.name /\ m.id = f.id /\ m.title = f.title
                /\ g \in files /\ g.dir = "pipelines"
            BY <2>9, <3>3, <5>2 DEF In
          <6> HIDE DEF m
          <6>2. g = m BY <3>3, <6>1 DEF SyncInv, TwinInv, PassOK, OnePerPath, SamePath
          <6>3. QED BY <6>1, <6>2
        <5>3. QED BY <5>1, <5>2
      <4>2. g \in made[t] BY <2>5, <2>11, <3>2, <3>3, <4>1 DEF Known
      <4>3. Titled(g.title) BY <1>2, <2>2, <4>2 DEF SyncInv, TwinInv, MadeIsListed
      <4>4. QED BY <3>1, <4>1, <4>3 DEF Titled, Live
    <3>4. QED BY <2>14, <2>11, <3>2, <3>3 DEF LocalExports, Known
  <2>12. New(t, "root")' = {} BY <2>1, <2>3 DEF New
  <2>13. QED BY <2>1, <2>3, <2>6, <2>7, <2>8, <2>10, <2>11, <2>12 DEF SecondPassOK
<1>3. QED BY <1>1, <1>2 DEF EndOfPass

LEMMA ImportStepOK ==
    ASSUME SyncInv, OneSync, NEW t \in Tasks, NEW step \in Passes, Import(t, step)
    PROVE  SyncOK'
<1>1. PICK f \in todo[t] :
         \/ /\ Skipped(t, f) /\ todo' = [todo EXCEPT ![t] = @ \ {f}]
            /\ UNCHANGED <<wf, spent, files, spc, listed, made, clean, plan, fresh>>
         \/ /\ CreateWorkflow(f) /\ ~Skipped(t, f)
            /\ \/ /\ todo' = [todo EXCEPT ![t] = @ \ {f}]
                  /\ made' = [made EXCEPT ![t] = @ \cup {f}]
                  /\ UNCHANGED <<spc, listed, plan>>
               \/ Finish(t)
            /\ clean' = [u \in Tasks |-> clean[u] /\ u = t]
            /\ UNCHANGED <<files, fresh>>
         \/ Raise(t)
  BY DEF Import
<1>2. spc[t] = step /\ f.dir = step /\ \A u \in Tasks : u = t
  BY DEF Import, OneSync, SyncInv, TwinInv, PassOK
<1>3. CASE Finish(t) BY <1>3, FinishOK
<1>4. CASE Skipped(t, f) /\ todo' = [todo EXCEPT ![t] = @ \ {f}] /\ UNCHANGED <<wf, spent, files, spc, listed, made, clean, plan, fresh>>
  <2>1. todo'[t] = todo[t] \ {f} BY <1>4 DEF SyncInv, TwinInv, PassOK
  <2>2. \A d : In(d)' = In(d) BY <1>4 DEF In
  <2>3. \A g : Known(t, g)' <=> Known(t, g) BY <1>4 DEF Known
  <2>4. ASSUME NEW d \in Passes, todo[t] \subseteq In(d) PROVE New(t, d)' = New(t, d)
    <3>1. f.title \notin Titles \/ Known(t, f) BY <1>4, <2>4 DEF Skipped, In
    <3>2. QED BY <2>1, <2>2, <2>3, <3>1 DEF New
  <2>5. UNCHANGED <<Live, FirstMade(t), PlanImport(listed[t])>> /\ \A i : Entry(i)' = Entry(i)
    BY <1>4 DEF Live, FirstMade, PlanImport, ParsedId, LauncherNamed, LocalExports, In, Entry
  <2>6. FirstPassOK(t)' BY <1>4, <2>1, <2>2, <2>4, <2>5 DEF SyncInv, SyncOK, FirstPassOK, Passes
  <2>7. SecondPassOK(t)' BY <1>4, <2>1, <2>2, <2>3, <2>4, <2>5 DEF SyncInv, SyncOK, SecondPassOK, Passes
  <2>8. QED BY <1>2, <1>4, <2>6, <2>7 DEF SyncOK, Passes
<1>5. CASE /\ CreateWorkflow(f) /\ ~Skipped(t, f)
           /\ todo' = [todo EXCEPT ![t] = @ \ {f}] /\ made' = [made EXCEPT ![t] = @ \cup {f}]
           /\ UNCHANGED <<spc, listed, plan, files>>
           /\ clean' = [u \in Tasks |-> clean[u] /\ u = t]
  <2>1. todo'[t] = todo[t] \ {f} /\ made'[t] = made[t] \cup {f} /\ (clean'[t] => clean[t])
    BY <1>5 DEF SyncInv, TwinInv, PassOK
  <2>2. \A d : In(d)' = In(d) BY <1>5 DEF In
  <2>3. \A g : Known(t, g)' <=> Known(t, g) BY <1>5 DEF Known
  <2>4. f \in files /\ f.title \in Titles /\ ~Known(t, f) BY <1>5 DEF Skipped
  <2>5. New(t, step)' = New(t, step) \cup {f} BY <1>2, <2>1, <2>2, <2>3, <2>4 DEF New, In
  <2>6. PICK i \in Ids \ spent : wf' = [wf EXCEPT ![i] = [title |-> f.title, body |-> f.body]]
    BY <1>5 DEF CreateWorkflow
  <2>7. /\ wf'[i].title = f.title /\ \A j \in Ids : j # i => wf'[j] = wf[j]
        /\ Live' = Live \cup {i} /\ i \notin Live
    BY <2>6 DEF SyncInv, SyncTyped, WTypeOK, Live, None
  <2>8. CASE step = "pipelines"
    <3>1. SUFFICES ASSUME clean[t] PROVE FirstPassOK(t)'
      BY <1>2, <1>5, <2>1, <2>8 DEF SyncOK, FirstPassOK, SecondPassOK
    <3>2. FirstPassOK(t) BY DEF SyncInv, SyncOK
    <3>3. PlanImport(listed[t])' = PlanImport(listed[t]) BY <1>5 DEF PlanImport, ParsedId, LauncherNamed, LocalExports, In
    <3>4. \A e \in listed'[t] : e.id \in Live' /\ wf'[e.id].title = e.title
      BY <1>2, <1>5, <2>7, <2>8, <3>1, <3>2 DEF FirstPassOK, Live
    <3>5. ASSUME NEW j \in Live' PROVE Entry(j)' \in listed'[t] \/ \E g \in made'[t] : g.title = wf'[j].title
      <4>1. CASE j = i BY <4>1, <2>1, <2>7
      <4>2. CASE j # i
        <5>1. j \in Live /\ wf'[j] = wf[j] BY <2>7, <3>5, <4>2 DEF Live
        <5>2. Entry(j)' = Entry(j) BY <5>1 DEF Entry
        <5>3. QED BY <1>2, <1>5, <2>1, <2>8, <3>1, <3>2, <5>1, <5>2 DEF FirstPassOK
      <4>3. QED BY <4>1, <4>2
    <3>6. QED BY <1>2, <1>5, <2>1, <2>2, <2>5, <2>8, <3>1, <3>2, <3>3, <3>4, <3>5 DEF FirstPassOK
  <2>9. CASE step = "root"
    <3>1. SUFFICES ASSUME clean[t] PROVE SecondPassOK(t)'
      BY <1>2, <1>5, <2>1, <2>9 DEF SyncOK, FirstPassOK, SecondPassOK
    <3>2. SecondPassOK(t) BY DEF SyncInv, SyncOK
    <3>3. FirstMade(t)' = FirstMade(t) BY <1>2, <2>1, <2>9 DEF FirstMade
    <3>4. QED BY <1>2, <1>5, <2>1, <2>2, <2>3, <2>5, <2>9, <3>1, <3>2, <3>3 DEF SecondPassOK
  <2>10. QED BY <2>8, <2>9 DEF Passes
<1>6. QED BY <1>1, <1>3, <1>4, <1>5 DEF Raise

LEMMA SyncInvNext == OneSync /\ Alike /\ SyncInv /\ [WNext]_wvars => SyncInv'
<1>1. SUFFICES ASSUME OneSync, Alike, SyncInv, [WNext]_wvars PROVE SyncOK'
  BY SyncTypedNext, TwinStep, PairedNext DEF SyncInv, Alike
<1>2. ASSUME NEW t \in Tasks, SyncTask(t) PROVE SyncOK'
  <2>1. CASE Export(t)
    <3>1. spc[t] = "export" /\ (spc' = spc \/ spc' = [spc EXCEPT ![t] = "idle"])
      BY <2>1 DEF Export, Raise, Finish, Go
    <3>3. spc'[t] \in {"export", "idle"} BY <1>1, <3>1 DEF SyncInv, TwinInv, PassOK
    <3>2. QED BY <1>1, <3>3 DEF OneSync, SyncOK, FirstPassOK, SecondPassOK
  <2>2. QED BY <1>1, <1>2, <2>1, BeginOK, EndOfPassOK, ImportStepOK, FinishOK DEF SyncTask, Prune, Passes
<1>3. CASE Edit \/ PullFiles
  <2>1. \A t \in Tasks : ~clean'[t] BY <1>3 DEF Edit, PullFiles, Dirty
  <2>2. QED BY <2>1 DEF SyncOK, FirstPassOK, SecondPassOK
<1>4. CASE UNCHANGED wvars
  BY <1>1, <1>4 DEF wvars, SyncInv, SyncOK, FirstPassOK, SecondPassOK, FirstMade, New, Known,
     In, PlanImport, ParsedId, LauncherNamed, LocalExports, Live, Entry, FileOf
<1>5. QED BY <1>1, <1>2, <1>3, <1>4 DEF WNext

\* Only the clean-up ends an export that has no workflow left to write.
LEMMA ExportEnd ==
    ASSUME ExportInv, OneSync, Numbered = Ids, WNext, NEW t \in Tasks,
           spc[t] = "export", todo[t] = {}, spc'[t] = "idle", clean[t]
    PROVE  Named' = {FileOf(d, Entry(i)) : d \in Dirs, i \in Live}
<1>1. Prune(t)
  <2>1. ASSUME NEW u \in Tasks, SyncTask(u) PROVE Prune(t)
    <3>1. u = t BY DEF OneSync
    <3>2. QED BY <2>1, <3>1 DEF SyncTask, BeginSync, Idle, Export, Import, EndOfPass
  <2>2. ~(Edit \/ PullFiles) BY DEF Edit, PullFiles
  <2>3. QED BY <2>1, <2>2 DEF WNext
<1> DEFINE live == {[name |-> SafeName[e.title], id |-> e.id] : e \in listed[t]}
<1>2. files' = {f \in files : ~Stale(f, live)} BY <1>1 DEF Prune
<1>3. listed[t] = {Entry(i) : i \in Live} /\ \A e \in listed[t], d \in Dirs : FileOf(d, e) \in files
  BY DEF ExportInv, ExportsOK, ExportOK
<1>4. ASSUME NEW f \in files', f.id # NoId, f.name # NoName PROVE \E d \in Dirs, i \in Live : f = FileOf(d, Entry(i))
  <2>1. f \in files /\ f.dir \in Dirs /\ LauncherNamed(f)
    BY <1>2, <1>4 DEF ExportInv, SyncTyped, WTypeOK, File, LauncherNamed
  <2>2. PICK e \in listed[t] : f.name = SafeName[e.title] /\ f.id = e.id BY <1>2, <1>4, <2>1 DEF Stale
  <2>3. FileOf(f.dir, e) \in files /\ SamePath(f, FileOf(f.dir, e)) BY <1>3, <2>1, <2>2 DEF SamePath, FileOf
  <2>4. f = FileOf(f.dir, e) BY <2>1, <2>3 DEF ExportInv, TwinInv, PassOK, OnePerPath
  <2>5. QED BY <1>3, <2>1, <2>4
<1>5. ASSUME NEW d \in Dirs, NEW i \in Live PROVE FileOf(d, Entry(i)) \in files' /\ FileOf(d, Entry(i)).id # NoId /\ FileOf(d, Entry(i)).name # NoName
  <2>1. Entry(i) \in listed[t] /\ FileOf(d, Entry(i)) \in files BY <1>3
  <2>2. [name |-> FileOf(d, Entry(i)).name, id |-> FileOf(d, Entry(i)).id] \in live
    BY <2>1 DEF FileOf
  <2>3. FileOf(d, Entry(i)).id = i BY DEF FileOf, Entry
  <2>4. FileOf(d, Entry(i)).name # NoName
    <3>1. Entry(i).title \in Titles BY <1>5 DEF Entry, Live, ExportInv, SyncTyped, WTypeOK, Workflow
    <3>2. SafeName[Entry(i).title] \in Range(SafeName) BY <3>1, SyncAssumption DEF Range
    <3>3. QED BY <3>2, SyncAssumption DEF FileOf
  <2>5. QED BY <1>2, <2>1, <2>2, <2>3, <2>4, SyncAssumption DEF Stale, Live
<1>6. \A f \in Named' : f \in {FileOf(d, Entry(i)) : d \in Dirs, i \in Live}
  BY <1>4 DEF Named
<1>7. \A d \in Dirs, i \in Live : FileOf(d, Entry(i)) \in Named'
  <2>1. ASSUME NEW d \in Dirs, NEW i \in Live PROVE FileOf(d, Entry(i)) \in Named'
    <3> DEFINE f == FileOf(d, Entry(i))
    <3>1. f \in files' /\ f.id # NoId /\ f.name # NoName BY <1>5
    <3> HIDE DEF f
    <3>2. f \in Named' BY <3>1 DEF Named
    <3>3. QED BY <3>2 DEF f
  <2>2. QED BY <2>1
<1>8. QED BY <1>6, <1>7

LEMMA ImportEnd ==
    ASSUME SyncInv, OneSync, NEW t \in Tasks, spc[t] = "root", todo[t] = {}, clean[t]
    PROVE  {f.title : f \in made[t]} = {f.title : f \in plan[t]}
<1>1. /\ FirstMade(t) = {f \in plan[t] : f.dir = "pipelines"}
      /\ \A f \in plan[t] : f.dir = "pipelines" \/ (f \in In("root") /\ f.title \in Titles)
      /\ \A f \in plan[t] : Known(t, f) => \E g \in FirstMade(t) : g.title = f.title
      /\ \A f \in In("root") : (f.title \in Titles /\ ~Known(t, f)) => f \in plan[t]
      /\ made[t] = FirstMade(t) \cup {f \in In("root") : f.title \in Titles /\ ~Known(t, f)}
  BY DEF SyncInv, SyncOK, SecondPassOK, New
<1>2. \A f \in made[t] : f \in plan[t] BY <1>1
<1>3. ASSUME NEW f \in plan[t] PROVE \E g \in made[t] : g.title = f.title
  BY <1>1
<1>4. QED BY <1>2, <1>3

LEMMA SyncInvHolds == OneSync /\ Alike => (WSpec => []SyncInv)
<1> SUFFICES ASSUME OneSync, Alike PROVE WSpec => []SyncInv
    OBVIOUS
<1>1. SyncInv /\ [WNext]_wvars => SyncInv' BY SyncInvNext
<1>2. WInit => SyncInv BY SyncInvInit DEF Alike
<1>3. QED BY <1>1, <1>2, PTL DEF WSpec

\* One import at a time makes, if nobody disturbs it, what plan_import decides: for any
\* workflows with ids of digits, files whose two copies agree, and files of the user whose
\* names end in no id.  Without the first, plan_import reads no id in a name import_all reads
\* one in (parse_export_id, _export_id); without the second, a stale copy in the root is
\* imported beside the fresh one; without the third, a user's file in the root is skipped
\* for the id of a workflow the first pass has created (import_all).
THEOREM ImportsMakeThePlan == OneSync /\ Alike => (WSpec => PlanIsMade)
<1> SUFFICES ASSUME OneSync, Alike PROVE WSpec => PlanIsMade
    OBVIOUS
<1>1. WSpec => []SyncInv BY SyncInvHolds
<1>2. SyncInv /\ [WNext]_wvars =>
        [\A t \in Tasks : (spc[t] = "root" /\ todo[t] = {} /\ spc'[t] = "idle" /\ clean[t]) =>
          {f.title : f \in made[t]} = {f.title : f \in plan[t]}]_wvars
  BY ImportEnd
<1>3. QED BY <1>1, <1>2, PTL DEF WSpec, PlanIsMade

\* One export at a time leaves, if nobody disturbs it, exactly the workflows of n8n under the
\* launcher's names, in both directories, for ids of digits only, whatever files the user and
\* other clones have (export_all, _clean_mirror).
THEOREM ExportsMatch == OneSync /\ Numbered = Ids => (WSpec => ExportMatches)
<1> SUFFICES ASSUME OneSync, Numbered = Ids PROVE WSpec => ExportMatches
    OBVIOUS
<1>1. WSpec => []ExportInv BY ExportInvHolds
<1>2. ExportInv /\ [WNext]_wvars =>
        [\A t \in Tasks : (spc[t] = "export" /\ todo[t] = {} /\ spc'[t] = "idle" /\ clean[t]) =>
          Named' = {FileOf(d, Entry(i)) : d \in Dirs, i \in Live}]_wvars
  BY ExportEnd
<1>3. QED BY <1>1, <1>2, PTL DEF WSpec, ExportMatches

-----------------------------------------------------------------------------
(* What is deleted stays deleted *)

\* A readable file is the user's, or has the id of one of these workflows.
Accounted(ids) == \A f \in files : f.title \in Titles => f \in HandWritten \/ f.id \in ids
ListedIds(t) == {e.id : e \in listed[t]}

\* Files that end in no id are the user's.  While nothing has been edited or pulled since an
\* export, the others have the ids of workflows that are there, and that a pass has listed.
FreshInv ==
    /\ \A f \in files : f.id = NoId \/ f.name = NoName => f \in HandWritten
    /\ fresh => /\ Accounted(Live)
                /\ \A t \in Tasks : spc[t] \in Passes => Accounted(ListedIds(t))

LEMMA FreshTask ==
    ASSUME ExportInv, FreshInv, OneSync, Numbered = Ids, NEW t \in Tasks, SyncTask(t)
    PROVE  FreshInv'
<1>0. files \subseteq File BY DEF ExportInv, SyncTyped, WTypeOK
<1>1. CASE BeginSync(t) \/ (EndOfPass(t) /\ NextPass(t))
  <2>1. UNCHANGED <<wf, files, fresh>> /\ listed' = [listed EXCEPT ![t] = {Entry(i) : i \in Live}]
    <3>1. (\E s, w : List(t, s, w)) /\ fresh' = fresh
      <4>1. CASE BeginSync(t) BY <4>1 DEF BeginSync
      <4>2. CASE EndOfPass(t) /\ NextPass(t) BY <4>2 DEF EndOfPass, NextPass, Raise
      <4>3. QED BY <1>1, <4>1, <4>2
    <3>2. QED BY <3>1 DEF List
  <2>2. listed'[t] = {Entry(i) : i \in Live} BY <2>1 DEF ExportInv, TwinInv, PassOK
  <2>3. Live' = Live BY <2>1 DEF Live
  <2>4. ListedIds(t)' = {e.id : e \in {Entry(i) : i \in Live}} BY <2>2 DEF ListedIds
  <2>5. ListedIds(t)' = Live
    <3>1. \A i \in Live : Entry(i).id = i BY DEF Entry
    <3>2. QED BY <2>4, <3>1
  <2>6. QED BY <2>1, <2>3, <2>5 DEF FreshInv, Accounted, OneSync
<1>2. CASE Raise(t)
  <2>1. UNCHANGED <<wf, files, fresh>> /\ spc'[t] = "idle"
    BY <1>2 DEF Raise, Finish, Go, ExportInv, TwinInv, PassOK
  <2>2. QED BY <2>1 DEF FreshInv, Accounted, Live, Passes, OneSync
<1>3. CASE Export(t) /\ ~Raise(t)
  <2>1. PICK e \in todo[t] : e.id \in Live /\ files' = Put({FileOf(d, e) : d \in Dirs})
    BY <1>3 DEF Export
  <2>2. UNCHANGED <<wf, fresh, spc>> /\ spc[t] = "export" /\ e \in [id : Ids, title : Titles]
    BY <1>3, <2>1 DEF Export, ExportInv, SyncTyped, WTypeOK
  <2>3. SafeName[e.title] \in Range(SafeName) BY <2>2, SyncAssumption DEF Range
  <2>4. \A f \in files' : f \in files \/ (f.id = e.id /\ f.id # NoId /\ f.name # NoName)
    <3>1. \A d \in Dirs : FileOf(d, e).id = e.id /\ FileOf(d, e).name = SafeName[e.title]
      BY DEF FileOf
    <3>2. \A f \in files' : f \in files \/ \E d \in Dirs : f = FileOf(d, e) BY <2>1 DEF Put
    <3>3. e.id # NoId /\ SafeName[e.title] # NoName BY <2>2, <2>3, SyncAssumption
    <3>4. ASSUME NEW f \in files', f \notin files
          PROVE  f.id = e.id /\ f.id # NoId /\ f.name # NoName
      <4>1. PICK d \in Dirs : f = FileOf(d, e) BY <3>2, <3>4
      <4>2. f.id = e.id /\ f.name = SafeName[e.title] BY <3>1, <4>1
      <4>3. QED BY <3>3, <4>2
    <3>5. QED BY <3>4
  <2>5. Live' = Live BY <2>2 DEF Live
  <2>6. QED BY <2>1, <2>2, <2>4, <2>5 DEF FreshInv, Accounted, OneSync, Passes
<1>4. CASE Prune(t)
  <2> DEFINE live == {[name |-> SafeName[e.title], id |-> e.id] : e \in listed[t]}
  <2>1. /\ spc[t] = "export" /\ files' = {f \in files : ~Stale(f, live)}
        /\ fresh' = clean[t] /\ spc'[t] = "idle" /\ UNCHANGED wf
    BY <1>4 DEF Prune, Finish, Go, ExportInv, TwinInv, PassOK
  <2>2. ASSUME clean[t], NEW f \in files' PROVE f \in HandWritten \/ f.id \in Live'
    <3>1. f \in files /\ f \in File /\ ~Stale(f, live) BY <1>0, <2>1
    <3>2. CASE f.id = NoId \/ f.name = NoName BY <3>1, <3>2 DEF FreshInv
    <3>3. CASE f.id # NoId /\ f.name # NoName
      <4>1. LauncherNamed(f) BY <3>1, <3>3 DEF File, LauncherNamed
      <4>2. PICK e \in listed[t] : f.id = e.id BY <3>1, <4>1 DEF Stale
      <4>3. e.id \in Live BY <2>1, <2>2 DEF ExportInv, ExportsOK, ExportOK, Entry
      <4>4. QED BY <2>1, <4>2, <4>3 DEF Live
    <3>4. QED BY <3>2, <3>3
  <2>3. QED BY <2>1, <2>2 DEF FreshInv, Accounted, OneSync, Passes
<1>5. ASSUME NEW step \in Passes, Import(t, step), ~Raise(t) PROVE FreshInv'
  <2>1. UNCHANGED <<files, fresh>> BY <1>5 DEF Import
  <2>2. Live \subseteq Live'
    <3>1. CASE UNCHANGED wf BY <3>1 DEF Live
    <3>2. ASSUME NEW f \in todo[t], ~Skipped(t, f), CreateWorkflow(f) PROVE Live \subseteq Live'
      BY <3>2 DEF CreateWorkflow, Live, ExportInv, SyncTyped, WTypeOK
    <3>3. QED BY <1>5, <3>1, <3>2 DEF Import, Raise
  <2>3. (spc'[t] = spc[t] /\ listed' = listed) \/ spc'[t] = "idle"
    BY <1>5 DEF Import, Raise, Finish, Go, ExportInv, TwinInv, PassOK
  <2>4. spc'[t] \in Passes => spc[t] \in Passes /\ ListedIds(t)' = ListedIds(t)
    BY <2>3 DEF Passes, ListedIds
  <2>5. QED BY <2>1, <2>2, <2>4 DEF FreshInv, Accounted, OneSync
<1>6. QED BY <1>1, <1>2, <1>3, <1>4, <1>5 DEF SyncTask, EndOfPass, Passes

LEMMA FreshNext ==
    ASSUME ExportInv, FreshInv, OneSync, Numbered = Ids, [WNext]_wvars
    PROVE  FreshInv'
<1>1. CASE Edit BY <1>1 DEF Edit, Dirty, FreshInv
<1>2. CASE PullFiles
  <2>1. ~fresh' BY <1>2 DEF PullFiles, Dirty
  <2>2. \A f \in files' : f \in files \/ f \in Theirs BY <1>2 DEF PullFiles, Put
  <2>3. QED BY <2>1, <2>2, SyncAssumption DEF FreshInv
<1>3. CASE UNCHANGED wvars BY <1>3 DEF wvars, FreshInv, Accounted, ListedIds, Live
<1>4. QED BY <1>1, <1>2, <1>3, FreshTask DEF WNext

\* A workflow that is created is of a file of the user: an id the export has left is listed.
LEMMA CreatesUsersOnly ==
    ASSUME ExportInv, FreshInv, [WNext]_wvars, fresh, fresh', NEW i \in Live' \ Live
    PROVE  \E f \in HandWritten : f.title = wf'[i].title
<1>1. wf' # wf BY DEF Live
<1>2. PICK t \in Tasks : \E step \in Passes : Import(t, step)
  <2>1. ~Edit BY DEF Edit, Dirty
  <2>2. ~PullFiles BY <1>1 DEF PullFiles
  <2>3. \A t \in Tasks : ~(BeginSync(t) \/ Export(t) \/ Prune(t) \/ EndOfPass(t))
    BY <1>1 DEF BeginSync, List, Export, Raise, Prune, EndOfPass, NextPass
  <2>4. QED BY <1>1, <2>1, <2>2, <2>3 DEF WNext, SyncTask, wvars, Passes
<1>3. PICK f \in todo[t] : ~Skipped(t, f) /\ CreateWorkflow(f)
  BY <1>1, <1>2 DEF Import, Raise
<1>4. f \in files /\ f.title \in Titles /\ ~Known(t, f) BY <1>3 DEF Skipped
<1>5. spc[t] \in Passes BY <1>2 DEF Import
<1>6. f.id \notin ListedIds(t) BY <1>4 DEF Known, ListedIds
<1>7. f \in HandWritten BY <1>4, <1>5, <1>6 DEF FreshInv, Accounted
<1>8. wf'[i].title = f.title
  <2>1. PICK j \in Ids \ spent : wf' = [wf EXCEPT ![j] = [title |-> f.title, body |-> f.body]]
    BY <1>3 DEF CreateWorkflow
  <2>2. i = j BY <2>1 DEF Live, ExportInv, SyncTyped, WTypeOK
  <2>3. QED BY <2>1, <2>2 DEF ExportInv, SyncTyped, WTypeOK
<1>9. QED BY <1>7, <1>8

\* DeletedStaysDeleted, one operation at a time, for ids of digits only, any workflows, any
\* files of the user and of other clones, lost answers and failing calls: what an export has
\* removed is not imported again.  With other ids the stale exports stay, and are.
THEOREM NothingComesBack == OneSync /\ Numbered = Ids => (WSpec => DeletedStaysDeleted)
<1> SUFFICES ASSUME OneSync, Numbered = Ids PROVE WSpec => DeletedStaysDeleted
    OBVIOUS
<1>1. WInit => FreshInv BY DEF WInit, FreshInv
<1>2. ExportInv /\ FreshInv /\ [WNext]_wvars => FreshInv' BY FreshNext
<1>3. ExportInv /\ FreshInv /\ [WNext]_wvars =>
        [(fresh /\ fresh') => \A i \in Live' \ Live : \E f \in HandWritten : f.title = wf'[i].title]_wvars
  BY CreatesUsersOnly
<1>4. QED BY ExportInvHolds, <1>1, <1>2, <1>3, PTL DEF WSpec, DeletedStaysDeleted

-----------------------------------------------------------------------------
(* Provision: the types *)

\* The role is created with a password.
RoleOK == \A t \in Callers : tpc[t] = "role" => held[t].db # NoDb

\* What is known of the tasks, and of the store, n8n and Postgres.
TasksTyped ==
    /\ tpc \in [Callers -> PrSteps] /\ held \in [Callers -> Row]
    /\ pending \in [Callers -> SUBSET Migrations]
    /\ rotating \in [Callers -> BOOLEAN] /\ ended \in [Callers -> Outcomes]
    /\ \A t \in Callers : pending[t] # {} => tpc[t] = "migrate"
    /\ RoleOK
DataTyped ==
    /\ row \in Row
    /\ compose \in Homes \cup {Nothing} /\ stack \in Homes \cup {Nothing}
    /\ keys \in [Homes -> SUBSET issued] /\ issued \subseteq Keys
    /\ credential \in [Homes -> Passwords \cup {Nothing}] /\ role \in Passwords \cup {Nothing}
    /\ recorded \subseteq Migrations /\ ran \in Seq(Migrations) /\ orphans \subseteq Migrations
TypeInv == TasksTyped /\ DataTyped

LEMMA TypeInvIsType == TypeInv => PrTypeOK
BY DEF TypeInv, TasksTyped, DataTyped, PrTypeOK

\* An operation that is over holds nothing.
LEMMA EndKeepsTasks ==
    ASSUME TypeInv, NEW t \in Callers, NEW o \in Outcomes, End(t, o)
    PROVE  TasksTyped'
BY DEF TypeInv, TasksTyped, DataTyped, RoleOK, End, Goto, Hold, PrSteps

\* One that goes on, with a workspace object, outside the migrations.
LEMMA HoldKeepsTasks ==
    ASSUME TypeInv, NEW t \in Callers, NEW s \in PrSteps \ {"role"}, NEW w \in Row,
           Goto(t, s), Hold(t, w), tpc[t] # "migrate", UNCHANGED <<pending, rotating, ended>>
    PROVE  TasksTyped'
BY DEF TypeInv, TasksTyped, RoleOK, Goto, Hold

LEMMA OnKeepsTasks ==
    ASSUME TypeInv, NEW t \in Callers, NEW a, NEW s \in PrSteps, On(t, a, s), UNCHANGED task,
           a # "migrate" \/ pending[t] = {}, s = "role" => held[t].db # NoDb
    PROVE  TasksTyped'
BY DEF TypeInv, TasksTyped, RoleOK, On, Goto, task

LEMMA SameTasks == TypeInv /\ UNCHANGED <<tpc, ended, task>> => TasksTyped'
BY DEF TypeInv, TasksTyped, RoleOK, task

LEMMA SameData == TypeInv /\ UNCHANGED <<store, stack, n8n, postgres>> => DataTyped'
BY DEF TypeInv, DataTyped, store, n8n, postgres

LEMMA UpdateIsRow ==
    ASSUME row \in Row, NEW db \in Passwords \cup {NoDb}, Update(db)
    PROVE  row' \in Row
BY DEF Row, Update, Flagged

LEMMA TypeInvInit == PrInit => TypeInv
<1> SUFFICES ASSUME PrInit PROVE TypeInv
    OBVIOUS
<1>1. row \in Row BY DEF PrInit, Row
<1>2. ran \in Seq(Migrations) BY DEF PrInit
<1>3. DataTyped BY <1>1, <1>2 DEF PrInit, DataTyped
<1>4. TasksTyped BY <1>1 DEF PrInit, TasksTyped, RoleOK, PrSteps, Outcomes
<1>5. QED BY <1>3, <1>4 DEF TypeInv

LEMMA SettingsTyped ==
    ASSUME TypeInv, NEW t \in Callers, UpdateOther(t) \/ BeginConfigure(t) \/ Configure(t)
    PROVE  TypeInv'
<1>0. row \in Row /\ row.db \in Passwords \cup {NoDb} /\ held[t] \in Row
      /\ held[t].db \in Passwords \cup {NoDb}
  BY DEF TypeInv, DataTyped, TasksTyped, Row
<1>1. CASE UpdateOther(t)
  <2>1. row' \in Row BY <1>0, <1>1, UpdateIsRow DEF UpdateOther
  <2>2. DataTyped' BY <1>1, <2>1 DEF UpdateOther, TypeInv, DataTyped, n8n, postgres
  <2>3. QED BY <1>1, <2>2, SameTasks DEF UpdateOther, TypeInv
<1>2. CASE BeginConfigure(t)
  <2>1. TasksTyped' BY <1>0, <1>2, HoldKeepsTasks DEF BeginConfigure, On, PrSteps
  <2>2. QED BY <1>2, <2>1, SameData DEF BeginConfigure, TypeInv
<1>3. CASE Configure(t)
  <2>1. row' \in Row BY <1>0, <1>3, UpdateIsRow DEF Configure
  <2>2. DataTyped' BY <1>3, <2>1 DEF Configure, TypeInv, DataTyped, n8n, postgres
  <2>3. TasksTyped' BY <1>3, EndKeepsTasks DEF Configure, Outcomes
  <2>4. QED BY <2>2, <2>3 DEF TypeInv
<1>4. QED BY <1>1, <1>2, <1>3

LEMMA StartTyped ==
    ASSUME TypeInv, NEW t \in Callers,
           BeginStart(t) \/ LoadAndWrite(t) \/ SaveStarting(t) \/ Up(t) \/ Ready(t)
    PROVE  TypeInv'
<1>0. row \in Row /\ held[t] \in Row /\ stack \in Homes \cup {Nothing}
      /\ compose \in Homes \cup {Nothing}
  BY DEF TypeInv, DataTyped, TasksTyped
<1>1. CASE BeginStart(t)
  <2>1. PICK s \in {"load", "serving"} : Goto(t, s)
    BY <1>1 DEF BeginStart
  <2>2. UNCHANGED <<pending, rotating, ended>> /\ Hold(t, row) /\ tpc[t] = "idle"
    BY <1>1 DEF BeginStart
  <2>3. TasksTyped' BY <1>0, <2>1, <2>2, HoldKeepsTasks DEF PrSteps
  <2>4. QED BY <1>1, <2>3, SameData DEF BeginStart, TypeInv
<1>2. CASE LoadAndWrite(t)
  <2>1. TasksTyped' BY <1>0, <1>2, HoldKeepsTasks DEF LoadAndWrite, On, PrSteps
  <2>2. DataTyped' BY <1>2 DEF LoadAndWrite, TypeInv, DataTyped, n8n, postgres, Home, Homes
  <2>3. QED BY <2>1, <2>2 DEF TypeInv
<1>3. CASE SaveStarting(t)
  <2>1. TasksTyped' BY <1>3, OnKeepsTasks DEF SaveStarting, PrSteps
  <2>2. DataTyped' BY <1>0, <1>3 DEF SaveStarting, TypeInv, DataTyped, n8n, postgres
  <2>3. QED BY <2>1, <2>2 DEF TypeInv
<1>4. CASE Up(t)
  <2>1. stack' \in Homes \cup {Nothing} /\ orphans' \in {orphans, {}}
    BY <1>0, <1>4 DEF Up
  <2>2. UNCHANGED <<store, n8n, role, recorded, ran>>
    BY <1>4 DEF Up
  <2>3. DataTyped' BY <2>1, <2>2 DEF TypeInv, DataTyped, store, n8n
  <2>4. CASE On(t, "up", "ready") /\ UNCHANGED task
    BY <2>3, <2>4, OnKeepsTasks DEF PrSteps, TypeInv
  <2>5. CASE Raises(t, "up")
    BY <2>3, <2>5, EndKeepsTasks DEF Raises, Outcomes, TypeInv
  <2>6. QED BY <1>4, <2>4, <2>5 DEF Up
<1>5. CASE Ready(t)
  <2>1. DataTyped' BY <1>5, SameData DEF Ready
  <2>2. CASE On(t, "ready", IF held[t].db = NoDb THEN "running" ELSE "role") /\ UNCHANGED task
    BY <2>1, <2>2, OnKeepsTasks DEF PrSteps, TypeInv
  <2>3. CASE Raises(t, "ready")
    BY <2>1, <2>3, EndKeepsTasks DEF Raises, Outcomes, TypeInv
  <2>4. QED BY <1>5, <2>2, <2>3 DEF Ready
<1>6. QED BY <1>1, <1>2, <1>3, <1>4, <1>5

\* The migrations that have run are the first ones; what is pending goes on from there, or
\* from one that somebody else has run by now, and so does what was left in the container.
OrderInv ==
    /\ recorded = 1..Len(ran) /\ \A i \in 1..Len(ran) : ran[i] = i
    /\ \A t \in Callers : \E k \in 1..(Len(ran) + 1) : pending[t] = {} \/ pending[t] = k..LastMigration
    /\ \A m \in orphans : m <= Len(ran) + 1
MigInv == TypeInv /\ OrderInv

LEMMA RanIsLong == TypeInv => Len(ran) \in Nat /\ ran \in Seq(Migrations)
BY DEF TypeInv, DataTyped

\* The next migration is the first that is pending, and at most one further than the record.
LEMMA NextMigration ==
    ASSUME MigInv, NEW t \in Callers, pending[t] # {}
    PROVE  /\ Min(pending[t]) \in Migrations
           /\ Min(pending[t]) <= Len(ran) + 1
           /\ pending[t] = Min(pending[t])..LastMigration
<1>1. PICK k \in 1..(Len(ran) + 1) : pending[t] = k..LastMigration
  BY DEF MigInv, OrderInv
<1>2. k \in Nat /\ 1 <= k /\ k <= Len(ran) + 1 /\ k <= LastMigration
  BY <1>1, RanIsLong, ProvisionAssumption DEF MigInv
<1>3. k \in pending[t] /\ \A n \in pending[t] : n \in Nat /\ k <= n
  BY <1>1, <1>2, ProvisionAssumption
<1>4. Min(pending[t]) = k
  <2>1. PICK m : m = Min(pending[t])
    OBVIOUS
  <2>2. m \in pending[t] /\ \A n \in pending[t] : m <= n
    BY <1>3, <2>1 DEF Min
  <2>3. m <= k /\ k <= m
    BY <1>3, <2>2
  <2>4. QED BY <1>2, <1>3, <2>1, <2>2, <2>3
<1>5. QED BY <1>1, <1>2, <1>4 DEF Migrations

\* A commit adds the one after the last.
LEMMA CommitsNext ==
    ASSUME MigInv, NEW m \in Migrations, m <= Len(ran) + 1, CommitMigration(m)
    PROVE  /\ ran' \in Seq(Migrations) /\ Len(ran') = Len(ran) + 1 /\ m = Len(ran) + 1
           /\ recorded' = 1..Len(ran') /\ recorded' \subseteq Migrations
           /\ \A i \in 1..Len(ran') : ran'[i] = i
<1>1. Len(ran) \in Nat /\ ran \in Seq(Migrations)
  BY RanIsLong DEF MigInv
<1>2. m \notin recorded /\ ran' = Append(ran, m) /\ recorded' = recorded \cup {m}
  BY DEF CommitMigration, CommitTwice
<1>3. m = Len(ran) + 1
  BY <1>1, <1>2, ProvisionAssumption DEF MigInv, OrderInv, Migrations
<1>4. ran' \in Seq(Migrations) /\ Len(ran') = Len(ran) + 1
  BY <1>1, <1>2
<1>5. recorded' = 1..Len(ran')
  BY <1>1, <1>2, <1>3, <1>4 DEF MigInv, OrderInv
<1>6. \A i \in 1..Len(ran') : ran'[i] = i
  BY <1>1, <1>2, <1>3, <1>4 DEF MigInv, OrderInv
<1>7. recorded' \subseteq Migrations
  BY <1>2 DEF MigInv, TypeInv, DataTyped
<1>8. QED BY <1>3, <1>4, <1>5, <1>6, <1>7

LEMMA MigrationsTyped ==
    ASSUME MigInv, NEW t \in Callers,
           EnsureRole(t) \/ Applied(t) \/ Migrate(t) \/ Migrated(t)
    PROVE  TypeInv'
<1>0. TypeInv /\ held[t] \in Row /\ (tpc[t] = "role" => held[t].db \in Passwords)
  BY DEF MigInv, TypeInv, TasksTyped, RoleOK, Row
<1>1. CASE EnsureRole(t)
  <2>1. role' \in Passwords \cup {Nothing}
    BY <1>0, <1>1 DEF EnsureRole, On, Raises, TypeInv, DataTyped
  <2>2. DataTyped'
    BY <1>0, <1>1, <2>1 DEF EnsureRole, TypeInv, DataTyped, store, n8n
  <2>3. CASE On(t, "role", "applied") /\ UNCHANGED task
    BY <1>0, <2>2, <2>3, OnKeepsTasks DEF PrSteps, TypeInv
  <2>4. CASE Raises(t, "role")
    BY <1>0, <2>2, <2>4, EndKeepsTasks DEF Raises, Outcomes, TypeInv
  <2>5. QED BY <1>1, <2>3, <2>4 DEF EnsureRole
<1>2. CASE Applied(t)
  <2>1. DataTyped' BY <1>0, <1>2, SameData DEF Applied
  <2>2. CASE Raises(t, "applied")
    BY <1>0, <2>1, <2>2, EndKeepsTasks DEF Raises, Outcomes, TypeInv
  <2>3. CASE /\ On(t, "applied", "migrate") /\ UNCHANGED <<held, rotating>>
             /\ pending' = [pending EXCEPT ![t] = Migrations \ recorded]
    <3>1. TasksTyped'
      BY <1>0, <2>3 DEF On, Goto, TypeInv, TasksTyped, RoleOK, PrSteps
    <3>2. QED BY <2>1, <3>1 DEF TypeInv
  <2>4. QED BY <1>2, <2>2, <2>3 DEF Applied
<1>3. CASE Migrate(t)
  <2> DEFINE m == Min(pending[t])
  <2>1. pending[t] # {} /\ tpc[t] = "migrate" /\ m \in Migrations /\ m <= Len(ran) + 1
    BY <1>3, NextMigration DEF Migrate
  <2>2. UNCHANGED <<store, stack, n8n, role>>
    BY <1>3 DEF Migrate
  <2>3. CASE /\ CommitMigration(m) /\ pending' = [pending EXCEPT ![t] = @ \ {m}]
             /\ UNCHANGED <<tpc, ended, held, rotating, orphans>>
    <3>1. recorded' \subseteq Migrations /\ ran' \in Seq(Migrations)
      BY <2>1, <2>3, CommitsNext
    <3>2. DataTyped'
      BY <1>0, <2>2, <2>3, <3>1 DEF TypeInv, DataTyped, store, n8n
    <3>3. TasksTyped'
      BY <1>0, <2>1, <2>3 DEF TypeInv, TasksTyped, RoleOK
    <3>4. QED BY <3>2, <3>3 DEF TypeInv
  <2>4. CASE End(t, "failed") /\ orphans' \in {orphans, orphans \cup {m}} /\ UNCHANGED <<recorded, ran>>
    <3>1. DataTyped'
      BY <1>0, <2>1, <2>2, <2>4 DEF TypeInv, DataTyped, store, n8n
    <3>2. QED BY <1>0, <2>4, <3>1, EndKeepsTasks DEF Outcomes, TypeInv
  <2>5. QED BY <1>3, <2>3, <2>4 DEF Migrate, GoesOn
<1>4. CASE Migrated(t)
  <2>1. TasksTyped' BY <1>0, <1>4, OnKeepsTasks DEF Migrated, PrSteps
  <2>2. QED BY <1>0, <1>4, <2>1, SameData DEF Migrated, TypeInv
<1>5. QED BY <1>1, <1>2, <1>3, <1>4

LEMMA RunningTyped ==
    ASSUME TypeInv, NEW t \in Callers,
           MarkRunning(t) \/ StopStack(t) \/ Serving(t) \/ SetUpOwner(t) \/ ImportWorkflows(t)
    PROVE  TypeInv'
<1>0. row \in Row /\ [row EXCEPT !.restart_required = FALSE] \in Row
  BY DEF TypeInv, DataTyped, Row
<1>1. CASE MarkRunning(t)
  <2>1. row' \in Row /\ Hold(t, row') /\ On(t, "running", "serving") /\ UNCHANGED <<pending, rotating>>
    BY <1>0, <1>1 DEF MarkRunning
  <2>2. TasksTyped' BY <2>1, HoldKeepsTasks DEF On, PrSteps
  <2>3. DataTyped' BY <1>1, <2>1 DEF MarkRunning, TypeInv, DataTyped, n8n, postgres
  <2>4. QED BY <2>2, <2>3 DEF TypeInv
<1>2. CASE StopStack(t)
  <2>1. DataTyped' BY <1>2 DEF StopStack, TypeInv, DataTyped, store, n8n
  <2>2. QED BY <1>2, <2>1, SameTasks DEF StopStack, TypeInv
<1>3. CASE Serving(t)
  <2>1. DataTyped' BY <1>3, SameData DEF Serving
  <2>2. CASE tpc[t] = "serving" /\ End(t, "ok")
    BY <2>1, <2>2, EndKeepsTasks DEF Outcomes, TypeInv
  <2>3. CASE UNCHANGED task /\ On(t, "serving", IF held[t].key = Nothing THEN "setup" ELSE "credential")
    BY <2>1, <2>3, OnKeepsTasks DEF PrSteps, TypeInv
  <2>4. QED BY <1>3, <2>2, <2>3 DEF Serving
<1>4. CASE SetUpOwner(t)
  <2>1. DataTyped' BY <1>4, SameData DEF SetUpOwner
  <2>2. CASE On(t, "setup", "remove") /\ UNCHANGED task
    BY <2>1, <2>2, OnKeepsTasks DEF PrSteps, TypeInv
  <2>3. CASE Raises(t, "setup")
    BY <2>1, <2>3, EndKeepsTasks DEF Raises, Outcomes, TypeInv
  <2>4. QED BY <1>4, <2>2, <2>3 DEF SetUpOwner
<1>5. CASE ImportWorkflows(t)
  <2>1. DataTyped' BY <1>5, SameData DEF ImportWorkflows
  <2>2. \E o \in Outcomes : End(t, o) BY <1>5 DEF ImportWorkflows, Outcomes
  <2>3. QED BY <2>1, <2>2, EndKeepsTasks DEF TypeInv
<1>6. QED BY <1>1, <1>2, <1>3, <1>4, <1>5

LEMMA KeysTyped ==
    ASSUME TypeInv, NEW t \in Callers, RemoveKeys(t) \/ CreateKey(t) \/ SaveKey(t)
    PROVE  TypeInv'
<1>0. row \in Row /\ held[t] \in Row /\ stack \in Homes \cup {Nothing}
      /\ keys \in [Homes -> SUBSET issued] /\ issued \subseteq Keys
  BY DEF TypeInv, DataTyped, TasksTyped
<1>1. CASE RemoveKeys(t)
  <2>1. keys' \in [Homes -> SUBSET issued]
    BY <1>0, <1>1 DEF RemoveKeys
  <2>2. DataTyped'
    BY <1>1, <2>1 DEF RemoveKeys, TypeInv, DataTyped, store, postgres
  <2>3. CASE On(t, "remove", "create") /\ UNCHANGED task
    BY <2>2, <2>3, OnKeepsTasks DEF PrSteps, TypeInv
  <2>4. CASE Raises(t, "remove")
    BY <2>2, <2>4, EndKeepsTasks DEF Raises, Outcomes, TypeInv
  <2>5. QED BY <1>1, <2>3, <2>4 DEF RemoveKeys
<1>2. CASE CreateKey(t)
  <2>1. CASE /\ Raises(t, "create") /\ UNCHANGED <<keys, issued>>
    <3>1. DataTyped'
      BY <1>2, <2>1 DEF CreateKey, TypeInv, DataTyped, store, postgres
    <3>2. QED BY <2>1, <3>1, EndKeepsTasks DEF Raises, Outcomes, TypeInv
  <2>2. CASE \E k \in Keys \ issued :
               /\ keys' = [keys EXCEPT ![stack] = @ \cup {k}] /\ issued' = issued \cup {k}
               /\ \/ On(t, "create", "save_key") /\ Hold(t, [held[t] EXCEPT !.key = k])
                     /\ UNCHANGED <<pending, rotating>>
                  \/ Raises(t, "create")
    <3>1. PICK k \in Keys \ issued :
               /\ keys' = [keys EXCEPT ![stack] = @ \cup {k}] /\ issued' = issued \cup {k}
               /\ \/ On(t, "create", "save_key") /\ Hold(t, [held[t] EXCEPT !.key = k])
                     /\ UNCHANGED <<pending, rotating>>
                  \/ Raises(t, "create")
      BY <2>2
    <3>2. keys' \in [Homes -> SUBSET issued'] /\ issued' \subseteq Keys
      BY <1>0, <3>1
    <3>3. DataTyped'
      BY <1>2, <3>2 DEF CreateKey, TypeInv, DataTyped, store, postgres
    <3>4. [held[t] EXCEPT !.key = k] \in Row
      BY <1>0, <3>1 DEF Row
    <3>5. TasksTyped'
      BY <3>1, <3>4, HoldKeepsTasks, EndKeepsTasks DEF On, Raises, Outcomes, PrSteps
    <3>6. QED BY <3>3, <3>5 DEF TypeInv
  <2>3. QED BY <1>2, <2>1, <2>2 DEF CreateKey
<1>3. CASE SaveKey(t)
  <2>1. row' \in Row BY <1>0, <1>3 DEF SaveKey, KeyToSave, Row
  <2>2. DataTyped' BY <1>3, <2>1 DEF SaveKey, TypeInv, DataTyped, n8n, postgres
  <2>3. TasksTyped' BY <1>3, OnKeepsTasks DEF SaveKey, PrSteps
  <2>4. QED BY <2>2, <2>3 DEF TypeInv
<1>4. QED BY <1>1, <1>2, <1>3

LEMMA CredentialTyped ==
    ASSUME TypeInv, NEW t \in Callers, EnsureCredential(t)
    PROVE  TypeInv'
<1>0. held[t] \in Row /\ stack \in Homes \cup {Nothing}
      /\ credential \in [Homes -> Passwords \cup {Nothing}]
  BY DEF TypeInv, DataTyped, TasksTyped
<1>1. credential' \in [Homes -> Passwords \cup {Nothing}] /\ UNCHANGED <<keys, issued>>
  BY <1>0 DEF EnsureCredential, EnsurePostgresCredential, HasTarget, Row, n8n
<1>2. DataTyped'
  BY <1>1 DEF EnsureCredential, TypeInv, DataTyped, store, postgres
<1>3. CASE On(t, "credential", "import") /\ UNCHANGED task
  BY <1>2, <1>3, OnKeepsTasks DEF PrSteps, TypeInv
<1>4. CASE tpc[t] = "credential" /\ \E o \in Outcomes : End(t, o)
  BY <1>2, <1>4, EndKeepsTasks DEF TypeInv
<1>5. CASE /\ On(t, "credential", "setup") /\ UNCHANGED <<held, pending>>
           /\ rotating' = [rotating EXCEPT ![t] = TRUE]
  <2>1. TasksTyped' BY <1>5 DEF On, Goto, TypeInv, TasksTyped, RoleOK, PrSteps
  <2>2. QED BY <1>2, <2>1 DEF TypeInv
<1>6. QED BY <1>3, <1>4, <1>5 DEF EnsureCredential, Raises, Outcomes

\* Nobody's task: what was left in the container comes to its end, and a user takes keys away.
LEMMA OthersTyped == ASSUME MigInv, OrphanEnds \/ RevokeKeys PROVE TypeInv'
<1>1. CASE OrphanEnds
  <2>1. PICK m \in orphans : /\ orphans' = orphans \ {m}
                             /\ CommitMigration(m) \/ UNCHANGED <<recorded, ran>>
    BY <1>1 DEF OrphanEnds
  <2>2. m \in Migrations /\ m <= Len(ran) + 1
    BY <2>1 DEF MigInv, OrderInv, TypeInv, DataTyped
  <2>3. recorded' \subseteq Migrations /\ ran' \in Seq(Migrations)
    BY <2>1, <2>2, CommitsNext DEF MigInv, TypeInv, DataTyped
  <2>4. DataTyped'
    BY <1>1, <2>1, <2>3 DEF OrphanEnds, MigInv, TypeInv, DataTyped, store, n8n
  <2>5. QED BY <1>1, <2>4, SameTasks DEF OrphanEnds, MigInv, TypeInv
<1>2. CASE RevokeKeys
  <2>1. DataTyped' BY <1>2 DEF RevokeKeys, MigInv, TypeInv, DataTyped, store, postgres
  <2>2. QED BY <1>2, <2>1, SameTasks DEF RevokeKeys, MigInv, TypeInv
<1>3. QED BY <1>1, <1>2

LEMMA TypeInvNext == MigInv /\ [PrNext]_pvars => TypeInv'
<1> SUFFICES ASSUME MigInv, [PrNext]_pvars PROVE TypeInv'
    OBVIOUS
<1>1. ASSUME NEW t \in Callers, ProvisionTask(t) PROVE TypeInv'
  BY <1>1, SettingsTyped, StartTyped, MigrationsTyped, RunningTyped, KeysTyped, CredentialTyped
     DEF ProvisionTask, MigInv
<1>2. CASE UNCHANGED pvars
  BY <1>2, SameTasks, SameData DEF pvars, store, n8n, postgres, task, MigInv, TypeInv
<1>3. QED BY <1>1, <1>2, OthersTyped DEF PrNext

-----------------------------------------------------------------------------
(* Provision: the order of the migrations *)

\* What touches neither the record nor the plans, but to drop them.
LEMMA OrderKept ==
    ASSUME MigInv, UNCHANGED <<recorded, ran>>, orphans' \subseteq orphans,
           \A t \in Callers : pending'[t] \in {pending[t], {}}
    PROVE  OrderInv'
BY RanIsLong DEF MigInv, OrderInv

LEMMA EndDropsPlan ==
    ASSUME MigInv, NEW t \in Callers, NEW o, End(t, o)
    PROVE  \A u \in Callers : pending'[u] \in {pending[u], {}}
BY DEF MigInv, TypeInv, TasksTyped, End

LEMMA MigrateKeepsOrder ==
    ASSUME MigInv, NEW t \in Callers, Migrate(t)
    PROVE  OrderInv'
<1> DEFINE m == Min(pending[t])
<1>0. Len(ran) \in Nat /\ ran \in Seq(Migrations)
  BY RanIsLong DEF MigInv
<1>1. /\ m \in Migrations /\ m <= Len(ran) + 1 /\ pending[t] = m..LastMigration
      /\ m \in Nat /\ 1 <= m
  BY NextMigration, ProvisionAssumption DEF Migrate, Migrations
<1>2. CASE /\ CommitMigration(m) /\ pending' = [pending EXCEPT ![t] = @ \ {m}]
           /\ UNCHANGED orphans
  <2>1. /\ Len(ran') = Len(ran) + 1 /\ m = Len(ran) + 1
        /\ recorded' = 1..Len(ran') /\ \A i \in 1..Len(ran') : ran'[i] = i
    BY <1>1, <1>2, CommitsNext
  <2>2. pending'[t] = (m + 1)..LastMigration /\ m + 1 \in 1..(Len(ran') + 1)
    BY <1>0, <1>1, <1>2, <2>1, ProvisionAssumption DEF MigInv, TypeInv, TasksTyped
  <2>3. \A u \in Callers : u # t => pending'[u] = pending[u]
    BY <1>2 DEF MigInv, TypeInv, TasksTyped
  <2>4. \A u \in Callers : \E k \in 1..(Len(ran') + 1) : pending'[u] = {} \/ pending'[u] = k..LastMigration
    BY <1>0, <2>1, <2>2, <2>3 DEF MigInv, OrderInv
  <2>5. \A n \in orphans' : n <= Len(ran') + 1
    BY <1>0, <1>2, <2>1, ProvisionAssumption DEF MigInv, OrderInv, TypeInv, DataTyped, Migrations
  <2>6. QED BY <2>1, <2>4, <2>5 DEF OrderInv
<1>3. CASE End(t, "failed") /\ UNCHANGED <<recorded, ran>> /\ orphans' \in {orphans, orphans \cup {m}}
  <2>1. \A u \in Callers : pending'[u] \in {pending[u], {}}
    BY <1>3, EndDropsPlan
  <2>2. QED BY <1>0, <1>1, <1>3, <2>1 DEF MigInv, OrderInv
<1>4. QED BY <1>2, <1>3 DEF Migrate, GoesOn

LEMMA AppliedKeepsOrder ==
    ASSUME MigInv, NEW t \in Callers, Applied(t)
    PROVE  OrderInv'
<1>0. Len(ran) \in Nat
  BY RanIsLong DEF MigInv
<1>1. CASE Raises(t, "applied")
  BY <1>1, OrderKept, EndDropsPlan DEF Applied, Raises, postgres
<1>2. CASE pending' = [pending EXCEPT ![t] = Migrations \ recorded]
  <2>1. Migrations \ recorded = (Len(ran) + 1)..LastMigration
    BY <1>0, ProvisionAssumption DEF MigInv, OrderInv, Migrations
  <2>2. Len(ran) + 1 \in 1..(Len(ran) + 1)
    BY <1>0
  <2>3. UNCHANGED <<recorded, ran, orphans>>
    BY DEF Applied, postgres
  <2>4. QED BY <1>2, <2>1, <2>2, <2>3 DEF MigInv, OrderInv, TypeInv, TasksTyped
<1>3. QED BY <1>1, <1>2 DEF Applied

LEMMA OrphanKeepsOrder == MigInv /\ OrphanEnds => OrderInv'
<1> SUFFICES ASSUME MigInv, OrphanEnds PROVE OrderInv'
    OBVIOUS
<1>0. Len(ran) \in Nat
  BY RanIsLong DEF MigInv
<1>1. PICK m \in orphans : /\ orphans' = orphans \ {m}
                           /\ CommitMigration(m) \/ UNCHANGED <<recorded, ran>>
  BY DEF OrphanEnds
<1>2. m \in Migrations /\ m <= Len(ran) + 1 /\ UNCHANGED pending
  BY <1>1 DEF MigInv, OrderInv, TypeInv, DataTyped, OrphanEnds, task
<1>3. CASE CommitMigration(m)
  <2>1. /\ Len(ran') = Len(ran) + 1 /\ recorded' = 1..Len(ran')
        /\ \A i \in 1..Len(ran') : ran'[i] = i
    BY <1>2, <1>3, CommitsNext
  <2>2. \A u \in Callers : \E k \in 1..(Len(ran') + 1) : pending'[u] = {} \/ pending'[u] = k..LastMigration
    BY <1>0, <1>2, <2>1 DEF MigInv, OrderInv
  <2>3. \A n \in orphans' : n <= Len(ran') + 1
    BY <1>0, <1>1, <2>1, ProvisionAssumption DEF MigInv, OrderInv, TypeInv, DataTyped, Migrations
  <2>4. QED BY <2>1, <2>2, <2>3 DEF OrderInv
<1>4. CASE UNCHANGED <<recorded, ran>>
  BY <1>1, <1>2, <1>4, OrderKept
<1>5. QED BY <1>1, <1>3, <1>4

\* Every other step leaves the record alone, and the plans but to drop them.
LEMMA OthersKeepOrder ==
    ASSUME MigInv, NEW t \in Callers, ProvisionTask(t), ~Migrate(t), ~Applied(t)
    PROVE  OrderInv'
<1>0. \A u \in Callers : UNCHANGED pending => pending'[u] \in {pending[u], {}}
  OBVIOUS
<1>1. CASE UpdateOther(t) \/ BeginConfigure(t) \/ Configure(t)
  BY <1>0, <1>1, OrderKept, EndDropsPlan DEF UpdateOther, BeginConfigure, Configure, postgres, task
<1>2. CASE BeginStart(t) \/ LoadAndWrite(t) \/ SaveStarting(t) \/ Ready(t)
  BY <1>0, <1>2, OrderKept, EndDropsPlan
     DEF BeginStart, LoadAndWrite, SaveStarting, Ready, Raises, postgres, task
<1>3. CASE Up(t) \/ EnsureRole(t) \/ Migrated(t)
  BY <1>0, <1>3, OrderKept, EndDropsPlan DEF Up, EnsureRole, Migrated, Raises, postgres, task
<1>4. CASE MarkRunning(t) \/ StopStack(t) \/ Serving(t) \/ SetUpOwner(t)
  BY <1>0, <1>4, OrderKept, EndDropsPlan
     DEF MarkRunning, StopStack, Serving, SetUpOwner, Raises, postgres, task
<1>5. CASE RemoveKeys(t) \/ CreateKey(t) \/ SaveKey(t)
  BY <1>0, <1>5, OrderKept, EndDropsPlan DEF RemoveKeys, CreateKey, SaveKey, Raises, postgres, task
<1>6. CASE EnsureCredential(t) \/ ImportWorkflows(t)
  BY <1>0, <1>6, OrderKept, EndDropsPlan DEF EnsureCredential, ImportWorkflows, Raises, postgres, task
<1>7. QED BY <1>1, <1>2, <1>3, <1>4, <1>5, <1>6 DEF ProvisionTask

LEMMA MigInvInit == PrInit => MigInv
<1> SUFFICES ASSUME PrInit PROVE OrderInv
    BY TypeInvInit DEF MigInv
<1>1. Len(ran) = 0 /\ 1 \in 1..(Len(ran) + 1) BY DEF PrInit
<1>2. QED BY <1>1 DEF PrInit, OrderInv

LEMMA MigInvNext == MigInv /\ [PrNext]_pvars => MigInv'
<1> SUFFICES ASSUME MigInv, [PrNext]_pvars PROVE OrderInv'
    BY TypeInvNext DEF MigInv
<1>1. ASSUME NEW t \in Callers, ProvisionTask(t) PROVE OrderInv'
  BY <1>1, MigrateKeepsOrder, AppliedKeepsOrder, OthersKeepOrder
<1>2. CASE RevokeKeys
  BY <1>2, OrderKept DEF RevokeKeys, postgres, task
<1>3. CASE UNCHANGED pvars
  BY <1>3, OrderKept DEF pvars
<1>4. QED BY <1>1, <1>2, <1>3, OrphanKeepsOrder DEF PrNext

\* PrTypeOK for any number of tasks, passwords, keys and migrations, with any fault.
THEOREM ProvisionTyped == PrSpec => []PrTypeOK
<1>1. MigInv => PrTypeOK BY TypeInvIsType DEF MigInv
<1>2. QED BY <1>1, MigInvInit, MigInvNext, PTL DEF PrSpec

LEMMA OrderGivesMigrations == MigInv => MigrationsInOrder
<1> SUFFICES ASSUME MigInv PROVE MigrationsInOrder
    OBVIOUS
<1>1. ran \in Seq(Migrations) /\ Len(ran) \in Nat /\ DOMAIN ran = 1..Len(ran)
  BY RanIsLong DEF MigInv
<1>2. ran = [i \in 1..Len(ran) |-> ran[i]]
  BY <1>1
<1>3. ran = [i \in 1..Len(ran) |-> i]
  BY <1>1, <1>2 DEF MigInv, OrderInv
<1>4. recorded = Range(ran)
  BY <1>1, <1>3 DEF MigInv, OrderInv, Range
<1>5. QED BY <1>3, <1>4 DEF MigrationsInOrder

\* MigrationsInOrder for any number of starts at once and of migrations, whatever psql,
\* Docker or a timeout does: each runs at most once, in order, and the table says which.
THEOREM MigrationsRunInOrder == PrSpec => []MigrationsInOrder
BY MigInvInit, MigInvNext, OrderGivesMigrations, PTL DEF PrSpec

-----------------------------------------------------------------------------
(* Provision: one operation at a time on the workspace *)

\* The busy flag admits one of them.
OneCaller == \A t, u \in Callers : t = u

\* Between the save of a start and mark_running.
Starting == {"save", "up", "ready", "role", "applied", "migrate", "running"}

\* What a start that is alone knows: the row is the one it holds, the containers are those
\* of its Compose file, the role and the record are as far as it has come.
StartOK(t) ==
    /\ tpc[t] \in Starting => held[t] = row
    /\ tpc[t] \in {"load", "save", "up"} => stack = Nothing
    /\ tpc[t] \in {"save", "up"} => compose = Home(row.db)
    /\ tpc[t] \in Starting \ {"save", "up"} => stack = Home(row.db)
    /\ tpc[t] \in {"applied", "migrate", "running"} => row.db = NoDb \/ role = row.db
    /\ tpc[t] \in {"role", "applied", "migrate"} => row.db # NoDb
    /\ tpc[t] = "migrate" => Migrations \subseteq recorded \cup pending[t]
    /\ tpc[t] = "running" => row.db = NoDb \/ Migrations \subseteq recorded

\* Once n8n runs, the key in hand is the one in the store.
KeyOK(t) == tpc[t] \in {"serving", "credential", "import"} => held[t].key = row.key

\* Between two starts: what runs is what is configured, or the row says it is not.
Announced == (\A t \in Callers : tpc[t] \notin Starting)
                 => stack \in {Nothing, Home(row.db)} \/ row.restart_required

TaskOK == \A t \in Callers : StartOK(t) /\ KeyOK(t)
AloneInv == MigInv /\ TaskOK /\ Announced

LEMMA AloneInvInit == PrInit => AloneInv
BY MigInvInit DEF PrInit, AloneInv, TaskOK, StartOK, KeyOK, Announced, Starting

\* An operation that ends outside a start leaves nothing to keep.
LEMMA EndIsAlone ==
    ASSUME AloneInv, OneCaller, NEW t \in Callers, NEW o, End(t, o),
           stack' \in {Nothing, Home(row'.db)} \/ row'.restart_required
    PROVE  TaskOK' /\ Announced'
<1>1. \A u \in Callers : tpc'[u] = "idle"
  BY DEF OneCaller, End, Goto, AloneInv, MigInv, TypeInv, TasksTyped
<1>2. QED BY <1>1 DEF TaskOK, StartOK, KeyOK, Announced, Starting

\* The same of a start that raises on the way, where only the record and the role move.
LEMMA RaiseIsAlone ==
    ASSUME AloneInv, OneCaller, NEW t \in Callers, NEW o, End(t, o), UNCHANGED <<row, stack>>
    PROVE  TaskOK' /\ Announced'
<1>1. \A u \in Callers : u = t
  BY DEF OneCaller
<1>2. stack \in {Nothing, Home(row.db)} \/ row.restart_required
  BY <1>1 DEF AloneInv, TaskOK, StartOK, Announced, Starting
<1>3. QED BY <1>2, EndIsAlone

LEMMA SettingsAlone ==
    ASSUME AloneInv, OneCaller, NEW t \in Callers, UpdateOther(t) \/ BeginConfigure(t) \/ Configure(t)
    PROVE  TaskOK' /\ Announced'
<1>0. (\A u \in Callers : u = t) /\ tpc \in [Callers -> PrSteps] /\ row \in Row
  BY DEF OneCaller, AloneInv, MigInv, TypeInv, TasksTyped, DataTyped
<1>1. CASE UpdateOther(t)
  <2>1. tpc'[t] = "idle" /\ row'.restart_required
    BY <1>0, <1>1 DEF UpdateOther, Update, Flagged, Row
  <2>2. QED BY <1>0, <2>1 DEF TaskOK, StartOK, KeyOK, Announced, Starting
<1>2. CASE BeginConfigure(t)
  <2>1. tpc'[t] = "configure" /\ tpc[t] = "idle" /\ UNCHANGED <<row, stack>>
    BY <1>0, <1>2 DEF BeginConfigure, On, Goto, store
  <2>2. QED BY <1>0, <2>1 DEF AloneInv, TaskOK, StartOK, KeyOK, Announced, Starting
<1>3. CASE Configure(t)
  <2>1. row' = row \/ row'.restart_required
    BY <1>0, <1>3 DEF Configure, Update, Flagged, Row
  <2>2. CASE row' = row
    BY <1>3, <2>2, RaiseIsAlone DEF Configure
  <2>3. CASE row'.restart_required
    BY <1>3, <2>3, EndIsAlone DEF Configure
  <2>4. QED BY <2>1, <2>2, <2>3
<1>4. QED BY <1>1, <1>2, <1>3

LEMMA StartAlone ==
    ASSUME AloneInv, OneCaller, NEW t \in Callers,
           BeginStart(t) \/ LoadAndWrite(t) \/ SaveStarting(t) \/ Up(t) \/ Ready(t)
    PROVE  TaskOK' /\ Announced'
<1>0. /\ \A u \in Callers : u = t
      /\ tpc \in [Callers -> PrSteps] /\ row \in Row /\ held \in [Callers -> Row]
      /\ StartOK(t) /\ KeyOK(t)
  BY DEF OneCaller, AloneInv, TaskOK, MigInv, TypeInv, TasksTyped, DataTyped
<1>1. CASE BeginStart(t)
  <2>1. /\ tpc[t] = "idle" /\ UNCHANGED <<row, stack>> /\ held'[t] = row
        /\ tpc'[t] \in {"serving", "load"} /\ (tpc'[t] = "load" => stack = Nothing)
    BY <1>0, <1>1 DEF BeginStart, Goto, Hold, store
  <2>2. QED BY <1>0, <2>1 DEF AloneInv, TaskOK, StartOK, KeyOK, Announced, Starting
<1>2. CASE LoadAndWrite(t)
  <2>1. /\ tpc[t] = "load" /\ tpc'[t] = "save" /\ held'[t] = row /\ compose' = Home(row.db)
        /\ UNCHANGED <<row, stack>>
    BY <1>0, <1>2 DEF LoadAndWrite, On, Goto, Hold
  <2>2. QED BY <1>0, <2>1 DEF AloneInv, TaskOK, StartOK, KeyOK, Announced, Starting
<1>3. CASE SaveStarting(t)
  <2>1. /\ tpc[t] = "save" /\ tpc'[t] = "up" /\ row' = held[t]
        /\ UNCHANGED <<held, compose, stack>>
    BY <1>0, <1>3 DEF SaveStarting, On, Goto, task
  <2>2. QED BY <1>0, <2>1 DEF AloneInv, TaskOK, StartOK, KeyOK, Announced, Starting
<1>4. CASE Up(t)
  <2>1. /\ tpc[t] = "up" /\ compose = Home(row.db) /\ stack = Nothing /\ held[t] = row
        /\ UNCHANGED <<row, compose>>
    BY <1>0, <1>4 DEF Up, On, Raises, StartOK, Starting, store
  <2>2. CASE On(t, "up", "ready") /\ stack' = compose /\ UNCHANGED held
    <3>1. tpc'[t] = "ready" /\ stack' = Home(row'.db)
      BY <1>0, <2>1, <2>2 DEF On, Goto
    <3>2. QED BY <1>0, <2>1, <2>2, <3>1 DEF AloneInv, TaskOK, StartOK, KeyOK, Announced, Starting
  <2>3. CASE Raises(t, "up") /\ stack' \in {stack, compose}
    BY <2>1, <2>3, EndIsAlone DEF Raises
  <2>4. QED BY <1>4, <2>2, <2>3 DEF Up, task
<1>5. CASE Ready(t)
  <2>1. UNCHANGED <<row, stack, role, recorded>>
    BY <1>5 DEF Ready, store, postgres
  <2>2. CASE On(t, "ready", IF held[t].db = NoDb THEN "running" ELSE "role") /\ UNCHANGED task
    <3>1. /\ tpc[t] = "ready" /\ UNCHANGED <<held, pending>>
          /\ tpc'[t] = (IF held[t].db = NoDb THEN "running" ELSE "role")
      BY <1>0, <2>2 DEF On, Goto, task
    <3>2. QED BY <1>0, <2>1, <3>1 DEF AloneInv, TaskOK, StartOK, KeyOK, Announced, Starting
  <2>3. CASE Raises(t, "ready")
    BY <2>1, <2>3, RaiseIsAlone DEF Raises
  <2>4. QED BY <1>5, <2>2, <2>3 DEF Ready
<1>6. QED BY <1>1, <1>2, <1>3, <1>4, <1>5

LEMMA MigrationsAlone ==
    ASSUME AloneInv, OneCaller, NEW t \in Callers,
           EnsureRole(t) \/ Applied(t) \/ Migrate(t) \/ Migrated(t)
    PROVE  TaskOK' /\ Announced'
<1>0. /\ \A u \in Callers : u = t
      /\ tpc \in [Callers -> PrSteps] /\ pending \in [Callers -> SUBSET Migrations]
      /\ StartOK(t) /\ KeyOK(t) /\ UNCHANGED <<row, stack>>
  BY DEF OneCaller, AloneInv, TaskOK, MigInv, TypeInv, TasksTyped, DataTyped,
         EnsureRole, Applied, Migrate, Migrated, store
<1>1. CASE \E o \in Outcomes : End(t, o)
  BY <1>0, <1>1, RaiseIsAlone
<1>2. CASE On(t, "role", "applied") /\ role' = held[t].db /\ UNCHANGED task
  <2>1. tpc[t] = "role" /\ tpc'[t] = "applied" /\ UNCHANGED held /\ held[t] = row
    BY <1>0, <1>2 DEF On, Goto, task, StartOK, Starting
  <2>2. QED BY <1>0, <1>2, <2>1 DEF TaskOK, StartOK, KeyOK, Announced, Starting
<1>3. CASE /\ On(t, "applied", "migrate") /\ UNCHANGED <<held, role, recorded>>
           /\ pending' = [pending EXCEPT ![t] = Migrations \ recorded]
  <2>1. /\ tpc[t] = "applied" /\ tpc'[t] = "migrate" /\ pending'[t] = Migrations \ recorded
    BY <1>0, <1>3 DEF On, Goto
  <2>2. QED BY <1>0, <1>3, <2>1 DEF TaskOK, StartOK, KeyOK, Announced, Starting
<1>4. CASE /\ tpc[t] = "migrate" /\ UNCHANGED <<tpc, held, role>>
           /\ \E m : /\ recorded' = recorded \cup {m}
                     /\ pending' = [pending EXCEPT ![t] = @ \ {m}]
  <2>1. Migrations \subseteq recorded' \cup pending'[t]
    BY <1>0, <1>4 DEF StartOK
  <2>2. QED BY <1>0, <1>4, <2>1 DEF TaskOK, StartOK, KeyOK, Announced, Starting
<1>5. CASE /\ pending[t] = {} /\ On(t, "migrate", "running")
           /\ UNCHANGED <<held, role, recorded, pending>>
  <2>1. tpc[t] = "migrate" /\ tpc'[t] = "running"
    BY <1>0, <1>5 DEF On, Goto
  <2>2. QED BY <1>0, <1>5, <2>1 DEF TaskOK, StartOK, KeyOK, Announced, Starting
<1>6. QED
  BY <1>1, <1>2, <1>3, <1>4, <1>5
     DEF EnsureRole, Applied, Migrate, Migrated, Raises, Outcomes, GoesOn, CommitMigration,
         CommitTwice, task, postgres

\* Once the stack is up: the row changes with the task's own object, and says as much.
LEMMA RunningAlone ==
    ASSUME AloneInv, OneCaller, NEW t \in Callers,
           MarkRunning(t) \/ StopStack(t) \/ Serving(t) \/ SetUpOwner(t) \/ ImportWorkflows(t)
    PROVE  TaskOK' /\ Announced'
<1>0. /\ \A u \in Callers : u = t
      /\ tpc \in [Callers -> PrSteps] /\ held \in [Callers -> Row] /\ row \in Row
      /\ StartOK(t) /\ KeyOK(t)
  BY DEF OneCaller, AloneInv, TaskOK, MigInv, TypeInv, TasksTyped, DataTyped
<1>1. CASE MarkRunning(t)
  <2>1. /\ tpc[t] = "running" /\ tpc'[t] = "serving" /\ held'[t] = row' /\ UNCHANGED stack
        /\ row'.db = row.db
    BY <1>0, <1>1 DEF MarkRunning, On, Goto, Hold, Row
  <2>2. stack' = Home(row'.db)
    BY <1>0, <2>1 DEF StartOK, Starting
  <2>3. QED BY <1>0, <2>1, <2>2 DEF TaskOK, StartOK, KeyOK, Announced, Starting
<1>2. CASE StopStack(t)
  BY <1>0, <1>2 DEF StopStack, store, task, TaskOK, StartOK, KeyOK, Announced, Starting
<1>3. CASE \E o \in Outcomes : End(t, o) /\ UNCHANGED <<row, stack>>
  BY <1>3, RaiseIsAlone
<1>4. CASE /\ On(t, "serving", IF held[t].key = Nothing THEN "setup" ELSE "credential") \/ On(t, "setup", "remove")
           /\ UNCHANGED <<row, stack, held>>
  <2>1. /\ tpc[t] \in {"serving", "setup"} /\ tpc'[t] \in {"setup", "credential", "remove"}
        /\ tpc'[t] = "credential" => tpc[t] = "serving"
    BY <1>0, <1>4 DEF On, Goto
  <2>2. QED BY <1>0, <1>4, <2>1 DEF AloneInv, TaskOK, StartOK, KeyOK, Announced, Starting
<1>5. QED
  BY <1>1, <1>2, <1>3, <1>4
     DEF Serving, SetUpOwner, ImportWorkflows, Raises, Outcomes, task, store

LEMMA KeysAlone ==
    ASSUME AloneInv, OneCaller, NEW t \in Callers,
           RemoveKeys(t) \/ CreateKey(t) \/ SaveKey(t) \/ EnsureCredential(t)
    PROVE  TaskOK' /\ Announced'
<1>0. /\ \A u \in Callers : u = t
      /\ tpc \in [Callers -> PrSteps] /\ held \in [Callers -> Row] /\ row \in Row
      /\ StartOK(t) /\ KeyOK(t) /\ UNCHANGED stack
  BY DEF OneCaller, AloneInv, TaskOK, MigInv, TypeInv, TasksTyped, DataTyped,
         RemoveKeys, CreateKey, SaveKey, EnsureCredential
<1>1. CASE \E o \in Outcomes : End(t, o) /\ UNCHANGED row
  BY <1>0, <1>1, RaiseIsAlone
<1>2. CASE \E a \in {"remove", "create", "credential"}, b \in {"create", "save_key", "setup"} :
              On(t, a, b) /\ UNCHANGED row
  <2>1. tpc[t] \notin Starting /\ tpc'[t] \in {"create", "save_key", "setup"} /\ UNCHANGED row
    BY <1>0, <1>2 DEF On, Goto, Starting
  <2>2. QED BY <1>0, <2>1 DEF AloneInv, TaskOK, StartOK, KeyOK, Announced, Starting
<1>3. CASE SaveKey(t)
  <2>1. /\ tpc[t] = "save_key" /\ tpc'[t] = "credential" /\ UNCHANGED held
        /\ row' = [row EXCEPT !.key = held[t].key]
    BY <1>0, <1>3 DEF SaveKey, KeyToSave, On, Goto, task
  <2>2. row'.key = held[t].key /\ row'.db = row.db /\ row'.restart_required = row.restart_required
    BY <1>0, <2>1 DEF Row
  <2>3. QED BY <1>0, <2>1, <2>2 DEF AloneInv, TaskOK, StartOK, KeyOK, Announced, Starting
<1>4. CASE On(t, "credential", "import") /\ UNCHANGED <<row, held>>
  <2>1. tpc[t] = "credential" /\ tpc'[t] = "import"
    BY <1>0, <1>4 DEF On, Goto
  <2>2. QED BY <1>0, <1>4, <2>1 DEF AloneInv, TaskOK, StartOK, KeyOK, Announced, Starting
<1>5. QED
  BY <1>1, <1>2, <1>3, <1>4
     DEF RemoveKeys, CreateKey, EnsureCredential, Raises, Outcomes, store, task

LEMMA AloneInvNext == OneCaller /\ AloneInv /\ [PrNext]_pvars => AloneInv'
<1> SUFFICES ASSUME OneCaller, AloneInv, [PrNext]_pvars PROVE TaskOK' /\ Announced'
    BY MigInvNext DEF AloneInv
<1>1. ASSUME NEW t \in Callers, ProvisionTask(t) PROVE TaskOK' /\ Announced'
  BY <1>1, SettingsAlone, StartAlone, MigrationsAlone, RunningAlone, KeysAlone DEF ProvisionTask
<1>2. CASE RevokeKeys
  BY <1>2 DEF RevokeKeys, store, postgres, task, AloneInv, TaskOK, StartOK, KeyOK, Announced
<1>3. CASE OrphanEnds
  <2>1. recorded \subseteq recorded' /\ UNCHANGED <<row, compose, stack, role, tpc, held, pending>>
    BY <1>3 DEF OrphanEnds, CommitMigration, CommitTwice, store, task
  <2>2. QED BY <2>1 DEF AloneInv, TaskOK, StartOK, KeyOK, Announced
<1>4. CASE UNCHANGED pvars
  BY <1>4 DEF pvars, AloneInv, TaskOK, StartOK, KeyOK, Announced
<1>5. QED BY <1>1, <1>2, <1>3, <1>4 DEF PrNext

LEMMA AloneInvHolds == OneCaller => (PrSpec => []AloneInv)
<1> SUFFICES ASSUME OneCaller PROVE PrSpec => []AloneInv
    OBVIOUS
<1>1. AloneInv /\ [PrNext]_pvars => AloneInv' BY AloneInvNext
<1>2. QED BY <1>1, AloneInvInit, PTL DEF PrSpec

\* RestartIsAsked, with one operation at a time: whatever raises half-way, a stack that runs
\* with another database than the configured one is never passed off as up to date.
THEOREM RestartsAreAsked == OneCaller => (PrSpec => []RestartIsAsked)
<1> SUFFICES ASSUME OneCaller PROVE PrSpec => []RestartIsAsked
    OBVIOUS
<1>1. AloneInv => RestartIsAsked
  BY DEF AloneInv, Announced, RestartIsAsked, Quiet, Starting
<1>2. QED BY <1>1, AloneInvHolds, PTL

\* RunningIsMigrated: no start calls its workspace running before its last migration.
THEOREM RunningMeansMigrated == OneCaller => (PrSpec => RunningIsMigrated)
<1> SUFFICES ASSUME OneCaller PROVE PrSpec => RunningIsMigrated
    OBVIOUS
<1>1. AloneInv => \A t \in Callers : tpc[t] = "running" /\ row.db # NoDb => recorded = Migrations /\ role = row.db
  BY DEF AloneInv, TaskOK, StartOK, MigInv, TypeInv, DataTyped
<1>2. AloneInv /\ [PrNext]_pvars =>
        [\A t \in Callers : (tpc[t] = "running" /\ tpc'[t] = "serving" /\ row.db # NoDb) =>
            recorded = Migrations /\ role = row.db]_pvars
  BY <1>1
<1>3. QED BY <1>2, AloneInvHolds, PTL DEF PrSpec, RunningIsMigrated

\* What an ensure_running uses a key for: its credential, and its import.
UsesKey(t) ==
    \/ tpc[t] = "credential" /\ tpc'[t] = "import" /\ HasTarget(held[t])
    \/ tpc[t] = "import" /\ tpc'[t] = "idle" /\ ended'[t] = "ok"

LEMMA UsedKeyIsAccepted ==
    ASSUME AloneInv, OneCaller, PrNext, NEW t \in Callers, UsesKey(t)
    PROVE  held[t].key \in keys[stack]
<1>0. tpc \in [Callers -> PrSteps] /\ ended \in [Callers -> Outcomes]
  BY DEF AloneInv, MigInv, TypeInv, TasksTyped
<1>1. PICK u \in Callers : ProvisionTask(u)
  BY DEF PrNext, OrphanEnds, RevokeKeys, UsesKey
<1>2. u = t
  BY DEF OneCaller
<1>3. CASE ImportWorkflows(t)
  <2>1. tpc[t] = "import" /\ tpc'[t] = "idle" /\ ended'[t] = "ok"
    BY <1>3 DEF ImportWorkflows, UsesKey
  <2>2. QED BY <1>0, <1>3, <2>1 DEF ImportWorkflows, End, Accepted
<1>4. CASE EnsureCredential(t)
  <2>1. tpc[t] = "credential" BY <1>4 DEF EnsureCredential, On, Raises
  <2>2. tpc'[t] = "import" /\ HasTarget(held[t]) BY <2>1 DEF UsesKey
  <2>3. CASE Accepted(t) BY <2>3 DEF Accepted
  <2>4. CASE ~Accepted(t)
    <3>1. tpc'[t] \in {"setup", "idle"}
      BY <1>0, <1>4, <2>2, <2>4 DEF EnsureCredential, On, Raises, End, Goto, PrSteps
    <3>2. QED BY <2>2, <3>1
  <2>5. QED BY <2>3, <2>4
<1>5. CASE \/ UpdateOther(t) \/ BeginConfigure(t) \/ Configure(t)
           \/ BeginStart(t) \/ LoadAndWrite(t) \/ SaveStarting(t) \/ Up(t) \/ Ready(t)
           \/ EnsureRole(t) \/ Applied(t) \/ Migrate(t) \/ Migrated(t) \/ MarkRunning(t) \/ StopStack(t)
  BY <1>5 DEF UpdateOther, BeginConfigure, Configure, BeginStart, LoadAndWrite, SaveStarting, Up, Ready,
              EnsureRole, Applied, Migrate, Migrated, MarkRunning, StopStack, On, Raises, UsesKey
<1>6. CASE Serving(t) \/ SetUpOwner(t) \/ RemoveKeys(t) \/ CreateKey(t) \/ SaveKey(t)
  BY <1>6 DEF Serving, SetUpOwner, RemoveKeys, CreateKey, SaveKey, On, Raises, UsesKey
<1>7. QED BY <1>1, <1>2, <1>3, <1>4, <1>5, <1>6 DEF ProvisionTask

\* KeyIsSaved, for any keys, users who revoke them, faults and lost answers: the key an
\* ensure_running has used, also one it has just replaced, is the one of the store.
THEOREM KeysAreSaved == OneCaller => (PrSpec => KeyIsSaved)
<1> SUFFICES ASSUME OneCaller PROVE PrSpec => KeyIsSaved
    OBVIOUS
<1>1. AloneInv /\ [PrNext]_pvars => [\A t \in Callers : UsesKey(t) => row.key \in keys[stack]]_pvars
  <2> SUFFICES ASSUME AloneInv, PrNext, NEW t \in Callers, UsesKey(t)
               PROVE  row.key \in keys[stack]
      OBVIOUS
  <2>1. held[t].key = row.key
    BY DEF AloneInv, TaskOK, KeyOK, UsesKey
  <2>2. QED BY <2>1, UsedKeyIsAccepted
<1>2. AloneInv /\ [PrNext]_pvars =>
        [\A t \in Callers :
          \/ tpc[t] = "credential" /\ tpc'[t] = "import" /\ HasTarget(held[t])
          \/ tpc[t] = "import" /\ tpc'[t] = "idle" /\ ended'[t] = "ok"
          => row.key \in keys[stack]]_pvars
  BY <1>1 DEF UsesKey
<1>3. QED BY <1>2, AloneInvHolds, PTL DEF PrSpec, KeyIsSaved

=============================================================================
