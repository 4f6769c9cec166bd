----------------------------- MODULE AtomicStore -----------------------------
(***************************************************************************)
(* What ConfigStore promises its callers: load, mutate and save each take  *)
(* effect at one instant on one committed configuration; a refused call    *)
(* changes nothing; config.json is imported only into a database that      *)
(* holds no configuration yet.                                             *)
(***************************************************************************)
EXTENDS Naturals

CONSTANTS
    Callers,     \* the threads that use the store
    MaxVersion,  \* bound: edits of one half of a configuration
    Missing,     \* no launcher.db
    Blank,       \* launcher.db with its schema and nothing in it
    Refused      \* a call that raised ConfigError (or no call yet)

\* A configuration, as far as tearing and lost updates can be told: how many
\* edits its meta values and its workspace rows have seen.
Config == [meta : 0..MaxVersion, rows : 0..MaxVersion]
Half == {"meta", "rows"}
Legacy == [meta |-> 0, rows |-> 0]
NoConfig == {Missing, Blank}

ASSUME MaxVersionAssumption == MaxVersion \in Nat
ASSUME SentinelAssumption ==
    /\ Missing \notin Config /\ Blank \notin Config /\ Refused \notin Config
    /\ Missing # Blank

VARIABLES
    db,   \* the committed content of launcher.db
    told  \* the configuration each caller was given last

Edits(c) == {[c EXCEPT ![h] = @ + 1] : h \in {g \in Half : c[g] < MaxVersion}}

\* What a caller may save: what it was given, edited or not; else the wizard's own.
Savable(c) == IF told[c] \in Config THEN Edits(told[c]) \cup {told[c]} ELSE {Legacy}

Init == db \in {Missing} \cup Config /\ told = [c \in Callers |-> Refused]

Answer(c, v) == told' = [told EXCEPT ![c] = v]

Load(c) == db \in Config /\ Answer(c, db) /\ UNCHANGED db
Mutate(c) == db \in Config /\ db' \in Edits(db) /\ Answer(c, db')
Save(c) == db' \in Savable(c) /\ Answer(c, db')
Refuse(c) == Answer(c, Refused) /\ UNCHANGED db

Create == db = Missing /\ db' = Blank /\ UNCHANGED told
Import == db \in NoConfig /\ db' = Legacy /\ UNCHANGED told

\* A caller whose process died starts over.
Forget ==
    /\ \E gone \in SUBSET Callers :
         told' = [c \in Callers |-> IF c \in gone THEN Refused ELSE told[c]]
    /\ UNCHANGED db

Next ==
    \/ \E c \in Callers : Load(c) \/ Mutate(c) \/ Save(c) \/ Refuse(c)
    \/ Create \/ Import \/ Forget

Spec == Init /\ [][Next]_<<db, told>>

=============================================================================
