------------------------------- MODULE FileLock -------------------------------
(***************************************************************************)
(* core/filelock.py: one FileLock object per process on one path, shared   *)
(* by the threads of the process.  The object keeps a descriptor and a     *)
(* depth under a guard; flock itself is called outside the guard.          *)
(*                                                                         *)
(* Every lock is exclusive and blocking, as workspace_git_lock takes it;   *)
(* launcher.lock, taken without blocking by one thread, is in Session.     *)
(***************************************************************************)
EXTENDS Naturals

CONSTANTS
    Processes,
    Threads,
    ProcessOf,  \* the process of each thread
    Fds,        \* open file descriptions the kernel hands out
    NoFd,
    MaxHolds,   \* bound: acquires a thread may have outstanding
    Faults      \* system calls that may raise OSError

ASSUME ProcessOfAssumption == ProcessOf \in [Threads -> Processes]
ASSUME NoFdAssumption == NoFd \notin Fds
ASSUME MaxHoldsAssumption == MaxHolds \in Nat \ {0}
ASSUME FaultsAssumption == Faults \subseteq {"open", "flock", "probe"}

VARIABLES
    fd,      \* self._fd of each process's object
    depth,   \* self._depth
    own,     \* the local fd of a thread inside acquire or release
    step,    \* where each thread is inside acquire or release
    holds,   \* acquires that returned, minus releases, per thread
    opened,  \* descriptors the kernel has open on the lock file
    locked   \* the descriptor that holds the exclusive flock

lockvars == <<fd, depth, own, step, holds, opened, locked>>

Move(t, s) == step' = [step EXCEPT ![t] = s]
Hold(t, n) == holds' = [holds EXCEPT ![t] = n]

LockInit ==
    /\ fd = [p \in Processes |-> NoFd]
    /\ depth = [p \in Processes |-> 0]
    /\ own = [t \in Threads |-> NoFd]
    /\ step = [t \in Threads |-> "idle"]
    /\ holds = [t \in Threads |-> 0]
    /\ opened = {}
    /\ locked = NoFd

CallAcquire(t) ==
    /\ step[t] = "idle"
    /\ Move(t, "acquire")
    /\ UNCHANGED <<fd, depth, own, holds, opened, locked>>

CallRelease(t) ==
    /\ step[t] = "idle"
    /\ Move(t, "release")
    /\ UNCHANGED <<fd, depth, own, holds, opened, locked>>

-----------------------------------------------------------------------------
(* acquire *)

\* Under the guard, with a descriptor already there: one level deeper.
Nest(t) ==
    LET p == ProcessOf[t] IN
    /\ step[t] = "acquire" /\ fd[p] # NoFd
    /\ depth' = [depth EXCEPT ![p] = @ + 1]
    /\ Hold(t, holds[t] + 1)
    /\ Move(t, "idle")
    /\ UNCHANGED <<fd, own, opened, locked>>

\* Under the guard: the file is opened and the object is marked as taken.
Open(t) ==
    LET p == ProcessOf[t] IN
    /\ step[t] = "acquire" /\ fd[p] = NoFd
    /\ \E f \in Fds \ opened :
         /\ opened' = opened \cup {f}
         /\ fd' = [fd EXCEPT ![p] = f]
         /\ own' = [own EXCEPT ![t] = f]
    /\ depth' = [depth EXCEPT ![p] = 1]
    /\ Move(t, "flock")
    /\ UNCHANGED <<holds, locked>>

OpenFails(t) ==
    /\ "open" \in Faults
    /\ step[t] = "acquire" /\ fd[ProcessOf[t]] = NoFd
    /\ Move(t, "idle")
    /\ UNCHANGED <<fd, depth, own, holds, opened, locked>>

\* Mutant of Flock: it does not wait.
FlockNoWait(t) ==
    /\ step[t] = "flock"
    /\ locked' = own[t]
    /\ own' = [own EXCEPT ![t] = NoFd]
    /\ Hold(t, holds[t] + 1)
    /\ Move(t, "idle")
    /\ UNCHANGED <<fd, depth, opened>>

\* Outside the guard: flock blocks until no other descriptor has the lock.
Flock(t) ==
    /\ step[t] = "flock" /\ locked = NoFd
    /\ locked' = own[t]
    /\ own' = [own EXCEPT ![t] = NoFd]
    /\ Hold(t, holds[t] + 1)
    /\ Move(t, "idle")
    /\ UNCHANGED <<fd, depth, opened>>

\* Mutant of FlockFails: the error path forgets to close.
FlockFailsOpen(t) ==
    /\ "flock" \in Faults
    /\ step[t] = "flock"
    /\ fd' = [fd EXCEPT ![ProcessOf[t]] = NoFd]
    /\ depth' = [depth EXCEPT ![ProcessOf[t]] = 0]
    /\ own' = [own EXCEPT ![t] = NoFd]
    /\ Move(t, "idle")
    /\ UNCHANGED <<holds, opened, locked>>

\* The error path: close, forget the descriptor and every level, raise.
FlockFails(t) ==
    /\ "flock" \in Faults
    /\ step[t] = "flock"
    /\ opened' = opened \ {own[t]}
    /\ fd' = [fd EXCEPT ![ProcessOf[t]] = NoFd]
    /\ depth' = [depth EXCEPT ![ProcessOf[t]] = 0]
    /\ own' = [own EXCEPT ![t] = NoFd]
    /\ Move(t, "idle")
    /\ UNCHANGED <<holds, locked>>

-----------------------------------------------------------------------------
(* release *)

\* Under the guard: only the last level gives the descriptor up.
Release(t) ==
    LET p == ProcessOf[t] IN
    /\ step[t] = "release"
    /\ Hold(t, IF holds[t] = 0 THEN 0 ELSE holds[t] - 1)
    /\ IF fd[p] = NoFd \/ depth[p] > 1
       THEN /\ depth' = IF fd[p] = NoFd THEN depth ELSE [depth EXCEPT ![p] = @ - 1]
            /\ Move(t, "idle")
            /\ UNCHANGED <<fd, own>>
       ELSE /\ own' = [own EXCEPT ![t] = fd[p]]
            /\ fd' = [fd EXCEPT ![p] = NoFd]
            /\ depth' = [depth EXCEPT ![p] = 0]
            /\ Move(t, "close")
    /\ UNCHANGED <<opened, locked>>

\* Mutant of Close: the descriptor goes and the lock stays.
CloseOnly(t) ==
    /\ step[t] = "close"
    /\ opened' = opened \ {own[t]}
    /\ own' = [own EXCEPT ![t] = NoFd]
    /\ Move(t, "idle")
    /\ UNCHANGED <<fd, depth, holds, locked>>

\* Outside the guard: unlock and close.
Close(t) ==
    /\ step[t] = "close"
    /\ locked' = IF locked = own[t] THEN NoFd ELSE locked
    /\ opened' = opened \ {own[t]}
    /\ own' = [own EXCEPT ![t] = NoFd]
    /\ Move(t, "idle")
    /\ UNCHANGED <<fd, depth, holds>>

LockStep(t) ==
    \/ Nest(t) \/ Open(t) \/ OpenFails(t) \/ Flock(t) \/ FlockFails(t)
    \/ Release(t) \/ Close(t)

\* The process dies: the kernel closes what its threads had open.
DropLock(p) ==
    LET mine == {t \in Threads : ProcessOf[t] = p}
        closed == ({own[t] : t \in mine} \cup {fd[p]}) \ {NoFd}
    IN
    /\ opened' = opened \ closed
    /\ locked' = IF locked \in closed THEN NoFd ELSE locked
    /\ fd' = [fd EXCEPT ![p] = NoFd]
    /\ depth' = [depth EXCEPT ![p] = 0]
    /\ own' = [t \in Threads |-> IF t \in mine THEN NoFd ELSE own[t]]
    /\ step' = [t \in Threads |-> IF t \in mine THEN "idle" ELSE step[t]]
    /\ holds' = [t \in Threads |-> IF t \in mine THEN 0 ELSE holds[t]]

\* The lock on its own: threads that acquire and release in balance.
LockNext ==
    \/ \E t \in Threads : \/ holds[t] < MaxHolds /\ CallAcquire(t)
                          \/ holds[t] > 0 /\ CallRelease(t)
                          \/ LockStep(t)
    \/ \E p \in Processes : DropLock(p)

LockSpec == LockInit /\ [][LockNext]_lockvars

-----------------------------------------------------------------------------
LockTypeOK ==
    /\ fd \in [Processes -> Fds \cup {NoFd}]
    /\ depth \in [Processes -> Nat]
    /\ own \in [Threads -> Fds \cup {NoFd}]
    /\ step \in [Threads -> {"idle", "acquire", "flock", "release", "close"}]
    /\ holds \in [Threads -> Nat]
    /\ opened \subseteq Fds
    /\ locked \in opened \cup {NoFd}

\* A thread whose acquire returned, and that has not released since, is in the
\* process that holds the OS lock: acquire never returns early, release never
\* gives the lock up under another level.
AcquiredMeansLocked ==
    \A t \in Threads :
        holds[t] > 0 =>
            fd[ProcessOf[t]] # NoFd /\ locked = fd[ProcessOf[t]]

\* With no acquire outstanding nothing is left open or locked, whatever failed.
NothingLeftOpen ==
    (\A t \in Threads : step[t] = "idle" /\ holds[t] = 0) =>
        opened = {} /\ locked = NoFd /\ \A p \in Processes : fd[p] = NoFd /\ depth[p] = 0

=============================================================================
