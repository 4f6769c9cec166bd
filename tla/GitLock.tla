------------------------------- MODULE GitLock -------------------------------
(***************************************************************************)
(* workspace_git_lock of git/manager.py: the lock every git operation on a *)
(* workspace's working tree runs under.  Each process keeps one owner per  *)
(* path: a reentrant thread lock, a depth, and a FileLock that only the    *)
(* outermost section takes.                                                *)
(***************************************************************************)
EXTENDS FileLock

CONSTANTS
    MaxNest,   \* bound: sections nested in one thread (sync_git, _commit_and_push)
    NoThread

ASSUME MaxNestAssumption == MaxNest \in Nat \ {0}
ASSUME NoThreadAssumption == NoThread \notin Threads

VARIABLES
    rlock,       \* the thread that has owner.rlock, per process
    ownerDepth,  \* owner.depth
    nest,        \* with-blocks a thread is inside
    bare,        \* threads inside a section git_is_repo let through unlocked
    gpc          \* idle (or working), acquiring, releasing

sectionvars == <<rlock, ownerDepth, nest, bare, gpc>>
gvars == <<lockvars, sectionvars>>

GInit ==
    /\ LockInit
    /\ rlock = [p \in Processes |-> NoThread]
    /\ ownerDepth = [p \in Processes |-> 0]
    /\ nest = [t \in Threads |-> 0]
    /\ bare = [t \in Threads |-> FALSE]
    /\ gpc = [t \in Threads |-> "idle"]

\* git_is_repo answers False when git itself fails (a time-out): no lock at all.
EnterBare(t) ==
    /\ "probe" \in Faults
    /\ gpc[t] = "idle" /\ nest[t] = 0 /\ ~bare[t]
    /\ bare' = [bare EXCEPT ![t] = TRUE]
    /\ UNCHANGED <<lockvars, rlock, ownerDepth, nest, gpc>>

LeaveBare(t) ==
    /\ gpc[t] = "idle" /\ nest[t] = 0 /\ bare[t]
    /\ bare' = [bare EXCEPT ![t] = FALSE]
    /\ UNCHANGED <<lockvars, rlock, ownerDepth, nest, gpc>>

\* Mutant of MayTakeRLock: threads are not kept apart.
AnyThread(t) == TRUE

MayTakeRLock(t) == rlock[ProcessOf[t]] \in {NoThread, t}

\* with owner.rlock: owner.depth += 1, and the file lock at the first level.
Enter(t) ==
    LET p == ProcessOf[t] IN
    /\ gpc[t] = "idle" /\ nest[t] < MaxNest
    /\ MayTakeRLock(t)
    /\ rlock' = [rlock EXCEPT ![p] = t]
    /\ ownerDepth' = [ownerDepth EXCEPT ![p] = @ + 1]
    /\ IF ownerDepth[p] = 0
       THEN /\ CallAcquire(t)
            /\ gpc' = [gpc EXCEPT ![t] = "acquiring"]
            /\ UNCHANGED nest
       ELSE /\ nest' = [nest EXCEPT ![t] = @ + 1]
            /\ UNCHANGED <<lockvars, gpc>>
    /\ UNCHANGED bare

\* acquire returned: the block runs.
Entered(t) ==
    /\ gpc[t] = "acquiring" /\ step[t] = "idle" /\ holds[t] > 0
    /\ nest' = [nest EXCEPT ![t] = @ + 1]
    /\ gpc' = [gpc EXCEPT ![t] = "idle"]
    /\ UNCHANGED <<lockvars, rlock, ownerDepth, bare>>

\* acquire raised, outside the try: the rlock goes, owner.depth keeps its 1.
EnterFails(t) ==
    /\ gpc[t] = "acquiring" /\ step[t] = "idle" /\ holds[t] = 0
    /\ rlock' = [rlock EXCEPT ![ProcessOf[t]] = NoThread]
    /\ gpc' = [gpc EXCEPT ![t] = "idle"]
    /\ UNCHANGED <<lockvars, ownerDepth, nest, bare>>

\* Mutants of LastLevel: every level releases the file lock; the depth is looked
\* at before it is decremented.
EveryLevel(t) == ownerDepth[ProcessOf[t]] >= 1
NoLevel(t) == ownerDepth[ProcessOf[t]] = 0

LastLevel(t) == ownerDepth[ProcessOf[t]] = 1

\* The finally of the block: the file lock goes with the last level.
Leave(t) ==
    LET p == ProcessOf[t] IN
    /\ gpc[t] = "idle" /\ nest[t] > 0
    /\ nest' = [nest EXCEPT ![t] = @ - 1]
    /\ ownerDepth' = [ownerDepth EXCEPT ![p] = @ - 1]
    /\ IF LastLevel(t)
       THEN /\ CallRelease(t)
            /\ gpc' = [gpc EXCEPT ![t] = "releasing"]
            /\ UNCHANGED rlock
       ELSE /\ rlock' = IF nest[t] = 1 THEN [rlock EXCEPT ![p] = NoThread] ELSE rlock
            /\ UNCHANGED <<lockvars, gpc>>
    /\ UNCHANGED bare

\* release returned: the with-block of the rlock ends.
Left(t) ==
    /\ gpc[t] = "releasing" /\ step[t] = "idle"
    /\ rlock' = IF nest[t] = 0 THEN [rlock EXCEPT ![ProcessOf[t]] = NoThread] ELSE rlock
    /\ gpc' = [gpc EXCEPT ![t] = "idle"]
    /\ UNCHANGED <<lockvars, ownerDepth, nest, bare>>

Kill(p) ==
    LET mine == {t \in Threads : ProcessOf[t] = p} IN
    /\ DropLock(p)
    /\ rlock' = [rlock EXCEPT ![p] = NoThread]
    /\ ownerDepth' = [ownerDepth EXCEPT ![p] = 0]
    /\ nest' = [t \in Threads |-> IF t \in mine THEN 0 ELSE nest[t]]
    /\ bare' = [t \in Threads |-> IF t \in mine THEN FALSE ELSE bare[t]]
    /\ gpc' = [t \in Threads |-> IF t \in mine THEN "idle" ELSE gpc[t]]

\* What a thread that wants in, or is in, does without being asked.
Proceed(t) ==
    \/ LockStep(t) /\ UNCHANGED sectionvars
    \/ Entered(t) \/ EnterFails(t) \/ Leave(t) \/ Left(t) \/ LeaveBare(t)

GNext ==
    \/ \E t \in Threads : Enter(t) \/ EnterBare(t) \/ Proceed(t)
    \/ \E p \in Processes : Kill(p)

GSpec == GInit /\ [][GNext]_gvars

\* Threads keep running and git commands end (each has a time-out); flock may
\* fail, but the kernel owes no failure to a thread that waits in it.
FairGSpec == GSpec /\ \A t \in Threads : WF_gvars(Proceed(t) /\ ~FlockFails(t))

-----------------------------------------------------------------------------
GTypeOK ==
    /\ LockTypeOK
    /\ rlock \in [Processes -> Threads \cup {NoThread}]
    /\ ownerDepth \in [Processes -> Nat]
    /\ nest \in [Threads -> Nat]
    /\ bare \in [Threads -> BOOLEAN]
    /\ gpc \in [Threads -> {"idle", "acquiring", "releasing"}]

In(t) == nest[t] > 0 \/ bare[t]

\* Two threads, of one process or of two, are never inside a section on the same
\* working tree: a pull and a push cannot interleave.
Exclusive == \A t, u \in Threads : In(t) /\ In(u) => t = u

\* When nobody is inside or on the way, the owner is as new: no depth, descriptor
\* or OS lock is left that would let the next section in without the lock, or
\* keep another process out.
OwnerAsNew ==
    (\A t \in Threads : nest[t] = 0 /\ gpc[t] = "idle" /\ step[t] = "idle") =>
        /\ locked = NoFd /\ opened = {}
        /\ \A p \in Processes : rlock[p] = NoThread /\ ownerDepth[p] = 0 /\ fd[p] = NoFd

\* An acquire that raised has left its level in the owner's depth for good (EnterFails).
Leaked(p) ==
    LET t == rlock[p] IN
    ownerDepth[p] # IF t = NoThread THEN 0
                    ELSE nest[t] + (IF gpc[t] = "acquiring" THEN 1 ELSE 0)

\* Exclusive with failing calls: two threads are inside the lock together only after an
\* acquire has raised in a process that still lives.
ExclusiveBarringLeaks ==
    \A t, u \in Threads : nest[t] > 0 /\ nest[u] > 0 /\ t # u => \E p \in Processes : Leaked(p)

\* OwnerAsNew with failing calls: only such a level is ever left behind.
OwnerAsNewBarringLeaks ==
    (\A t \in Threads : nest[t] = 0 /\ gpc[t] = "idle" /\ step[t] = "idle") =>
        \A p \in Processes : rlock[p] = NoThread /\ (~Leaked(p) => fd[p] = NoFd)

\* Once processes are no longer killed, whoever waits for the OS lock sees somebody
\* get in, or fails: a lock is never left with a dead or departed holder.
SomebodyGetsIn ==
    <>[][\A p \in Processes : ~Kill(p)]_gvars =>
        \A t \in Threads :
            gpc[t] = "acquiring" ~> gpc[t] # "acquiring" \/ \E u \in Threads : nest[u] > 0

=============================================================================
