---------------------------- MODULE GitLockProofs ----------------------------
(***************************************************************************)
(* workspace_git_lock for any processes, threads, nesting and kills: it    *)
(* keeps threads apart while the lock file can be opened and locked and    *)
(* git answers; and what is left of that when those calls fail.            *)
(***************************************************************************)
EXTENDS GitLock, TLAPS

\* Every system call succeeds, and git_is_repo tells the truth.
NoFaults == Faults = {}

Active(t) == nest[t] > 0 \/ gpc[t] # "idle"

\* The process holds the OS lock, one level deep.
HasOsLock(p) == fd[p] # NoFd /\ locked = fd[p] /\ depth[p] = 1

\* What a thread on the way in, inside, or on the way out knows.  A thread is inside
\* without the OS lock when its process has kept the level of an acquire that raised.
Outside(t) == gpc[t] = "idle" /\ nest[t] = 0 /\ step[t] = "idle" /\ holds[t] = 0
Inside(t) ==
    /\ gpc[t] = "idle" /\ nest[t] > 0 /\ step[t] = "idle" /\ holds[t] = 1
    /\ ownerDepth[ProcessOf[t]] = nest[t]
    /\ HasOsLock(ProcessOf[t])
Unlocked(t) ==
    /\ gpc[t] = "idle" /\ nest[t] > 0 /\ step[t] = "idle" /\ holds[t] = 0
    /\ ownerDepth[ProcessOf[t]] > nest[t]
    /\ fd[ProcessOf[t]] = NoFd
Failed(t) ==
    /\ gpc[t] = "acquiring" /\ nest[t] = 0 /\ step[t] = "idle" /\ holds[t] = 0
    /\ ownerDepth[ProcessOf[t]] = 1 /\ fd[ProcessOf[t]] = NoFd
Acquiring(t) ==
    /\ gpc[t] = "acquiring" /\ nest[t] = 0 /\ ownerDepth[ProcessOf[t]] = 1
    /\ \/ step[t] = "acquire" /\ holds[t] = 0 /\ fd[ProcessOf[t]] = NoFd
       \/ /\ step[t] = "flock" /\ holds[t] = 0 /\ depth[ProcessOf[t]] = 1
          /\ own[t] # NoFd /\ own[t] = fd[ProcessOf[t]] /\ locked # own[t]
       \/ step[t] = "idle" /\ holds[t] = 1 /\ HasOsLock(ProcessOf[t])
Releasing(t) ==
    /\ gpc[t] = "releasing" /\ nest[t] = 0 /\ ownerDepth[ProcessOf[t]] = 0
    /\ \/ step[t] = "release" /\ holds[t] = 1 /\ HasOsLock(ProcessOf[t])
       \/ step[t] = "close" /\ holds[t] = 0 /\ fd[ProcessOf[t]] = NoFd /\ own[t] # NoFd
       \/ step[t] = "idle" /\ holds[t] = 0 /\ fd[ProcessOf[t]] = NoFd

ThreadOK(t) ==
    /\ Active(t) => rlock[ProcessOf[t]] = t
    /\ Outside(t) \/ Inside(t) \/ Unlocked(t) \/ Acquiring(t) \/ Failed(t) \/ Releasing(t)
    /\ own[t] # NoFd => step[t] \in {"flock", "close"} /\ own[t] \in opened
    /\ NoFaults => ~bare[t] /\ ~Unlocked(t) /\ ~Failed(t)

ProcessOK(p) ==
    /\ rlock[p] = NoThread => fd[p] = NoFd
    /\ rlock[p] # NoThread => ProcessOf[rlock[p]] = p /\ Active(rlock[p])
    /\ fd[p] # NoFd => fd[p] \in opened
    /\ fd[p] = NoFd => depth[p] = 0
    /\ NoFaults /\ rlock[p] = NoThread => ownerDepth[p] = 0

\* No descriptor is two processes' business.
FdsApart ==
    /\ \A p, q \in Processes : fd[p] = fd[q] /\ fd[p] # NoFd => p = q
    /\ \A t \in Threads, q \in Processes : own[t] = fd[q] /\ own[t] # NoFd => q = ProcessOf[t]
    /\ \A t, u \in Threads : own[t] = own[u] /\ own[t] # NoFd => t = u

\* Every open descriptor has somebody who will close it.
Accounted ==
    \A f \in opened : (\E p \in Processes : fd[p] = f) \/ (\E t \in Threads : own[t] = f)

IInv ==
    /\ GTypeOK
    /\ \A t \in Threads : ThreadOK(t)
    /\ \A p \in Processes : ProcessOK(p)
    /\ FdsApart
    /\ Accounted

\* What a step of another process leaves alone.
SameThread(u) ==
    /\ gpc'[u] = gpc[u] /\ nest'[u] = nest[u] /\ bare'[u] = bare[u]
    /\ step'[u] = step[u] /\ holds'[u] = holds[u] /\ own'[u] = own[u]
SameProcess(q) ==
    /\ rlock'[q] = rlock[q] /\ ownerDepth'[q] = ownerDepth[q]
    /\ fd'[q] = fd[q] /\ depth'[q] = depth[q]

-----------------------------------------------------------------------------
\* A thread that has its process's rlock, or finds it free, is alone there.
LEMMA OthersOutside ==
    ASSUME IInv, NEW t \in Threads, NEW u \in Threads, u # t,
           ProcessOf[u] = ProcessOf[t], rlock[ProcessOf[t]] \in {t, NoThread}
    PROVE  Outside(u) /\ own[u] = NoFd
  BY NoThreadAssumption
  DEF IInv, ThreadOK, Active, Outside, Inside, Unlocked, Acquiring, Failed, Releasing, GTypeOK

\* What every step of a thread that has the rlock, or takes it, does to the rest: at most its
\* own descriptor changes hands with the OS lock, or is closed.
OwnBusiness(t) ==
    LET p == ProcessOf[t] IN
    /\ rlock[p] \in {t, NoThread}
    /\ \A u \in Threads \ {t} : SameThread(u)
    /\ \A q \in Processes \ {p} : SameProcess(q)
    /\ locked' # locked => /\ own[t] # NoFd /\ locked' \in {own[t], NoFd}
                           /\ locked \in {own[t], NoFd}
    /\ \A f \in opened : f # own[t] => f \in opened'

LEMMA OthersSafe ==
    ASSUME IInv, NEW t \in Threads, OwnBusiness(t)
    PROVE  /\ \A u \in Threads \ {t} : ThreadOK(u)'
           /\ \A q \in Processes \ {ProcessOf[t]} : ProcessOK(q)'
  <1> DEFINE p == ProcessOf[t]
  <1>1. ASSUME NEW u \in Threads \ {t} PROVE ThreadOK(u)'
    <2>1. CASE ProcessOf[u] = p
      <3>1. Outside(u) /\ own[u] = NoFd /\ SameThread(u)
        BY <2>1, OthersOutside DEF OwnBusiness
      <3>2. QED
        BY <3>1 DEF IInv, ThreadOK, SameThread, Active, Outside, Unlocked, Failed
    <2>2. CASE ProcessOf[u] # p
      <3>1. SameThread(u) /\ SameProcess(ProcessOf[u])
        BY <2>2, ProcessOfAssumption DEF OwnBusiness
      <3>2. HasOsLock(ProcessOf[u]) => locked' = locked
        BY <2>2, ProcessOfAssumption, NoFdAssumption DEF OwnBusiness, IInv, FdsApart, HasOsLock
      <3>3. own[u] # NoFd /\ own[u] # locked => own[u] # locked'
        BY DEF OwnBusiness, IInv, FdsApart
      <3>4. own[u] # NoFd /\ own[u] \in opened => own[u] \in opened'
        BY DEF OwnBusiness, IInv, FdsApart
      <3>5. QED
        BY <3>1, <3>2, <3>3, <3>4
        DEF IInv, ThreadOK, Active, Outside, Inside, Unlocked, Acquiring, Failed, Releasing,
            HasOsLock, SameThread, SameProcess
    <2>3. QED
      BY <2>1, <2>2
  <1>2. ASSUME NEW q \in Processes \ {p} PROVE ProcessOK(q)'
    <2>1. ProcessOK(q) /\ SameProcess(q) /\ rlock[q] \in Threads \cup {NoThread}
      BY DEF IInv, OwnBusiness, GTypeOK
    <2>2. rlock[q] # NoThread => rlock[q] # t /\ (Active(rlock[q])' <=> Active(rlock[q]))
      BY <2>1, NoThreadAssumption DEF ProcessOK, OwnBusiness, SameThread, SameProcess, Active
    <2>3. fd[q] # NoFd => fd[q] # own[t]
      BY DEF IInv, FdsApart
    <2>4. QED
      BY <2>1, <2>2, <2>3 DEF ProcessOK, SameProcess, OwnBusiness
  <1>3. QED
    BY <1>1, <1>2

\* Initially nobody is anywhere.
LEMMA GInitIInv == GInit => IInv
  BY NoFdAssumption, NoThreadAssumption, ProcessOfAssumption
  DEF GInit, LockInit, IInv, GTypeOK, LockTypeOK, ThreadOK, ProcessOK, FdsApart, Accounted,
      Active, Outside, Unlocked, Failed

\* Taking the rlock: at the first level the file lock is to be acquired.
LEMMA EnterSafe ==
    ASSUME IInv, NEW t \in Threads, Enter(t)
    PROVE  IInv'
  <1> DEFINE p == ProcessOf[t]
  <1>1. /\ p \in Processes /\ rlock[p] \in {t, NoThread} /\ gpc[t] = "idle"
        /\ Outside(t) \/ Inside(t) \/ Unlocked(t)
        /\ rlock[p] = NoThread => Outside(t)
    BY ProcessOfAssumption, NoThreadAssumption
    DEF Enter, MayTakeRLock, IInv, ThreadOK, Active, Outside, Inside, Unlocked, Acquiring, Failed,
        Releasing, GTypeOK
  <1>2. GTypeOK'
    BY <1>1 DEF Enter, IInv, GTypeOK, LockTypeOK, CallAcquire, Move, lockvars
  <1>3. rlock[p] = t => Inside(t) \/ Unlocked(t)
    BY <1>1, NoThreadAssumption DEF IInv, ProcessOK, Active, Outside
  <1>4. ThreadOK(t)' /\ ProcessOK(p)'
    <2>1. CASE ownerDepth[p] = 0
      <3>1. rlock[p] = NoThread
        BY <1>1, <1>3, <2>1 DEF Inside, Unlocked, IInv, GTypeOK
      <3>2. QED
        BY <1>1, <2>1, <3>1, NoThreadAssumption
        DEF Enter, IInv, GTypeOK, LockTypeOK, CallAcquire, Move, lockvars, ThreadOK, ProcessOK,
            Active, Outside, Inside, Unlocked, Acquiring, Failed, Releasing, HasOsLock
    <2>2. CASE ownerDepth[p] # 0
      BY <1>1, <1>3, <2>2, NoThreadAssumption
      DEF Enter, IInv, GTypeOK, LockTypeOK, lockvars, ThreadOK, ProcessOK,
          Active, Outside, Inside, Unlocked, Acquiring, Failed, Releasing, HasOsLock
    <2>3. QED
      BY <2>1, <2>2
  <1>5. OwnBusiness(t)
    BY <1>1, ProcessOfAssumption
    DEF OwnBusiness, Enter, IInv, GTypeOK, LockTypeOK, CallAcquire, Move, lockvars, SameThread,
        SameProcess
  <1>6. FdsApart' /\ Accounted'
    BY DEF Enter, IInv, FdsApart, Accounted, CallAcquire, lockvars
  <1>7. QED
    BY <1>2, <1>4, <1>5, <1>6, OthersSafe DEF IInv

\* Opening the lock file: a fresh descriptor is nobody else's.
LEMMA OpenSafe ==
    ASSUME IInv, NEW t \in Threads, Open(t), UNCHANGED sectionvars
    PROVE  IInv'
  <1> DEFINE p == ProcessOf[t]
  <1>1. /\ p \in Processes /\ rlock[p] = t /\ gpc[t] = "acquiring" /\ nest[t] = 0
        /\ holds[t] = 0 /\ ownerDepth[p] = 1 /\ own[t] = NoFd
    BY ProcessOfAssumption
    DEF Open, Move, sectionvars, IInv, ThreadOK, Active, Outside, Inside, Unlocked, Acquiring,
        Failed, Releasing, HasOsLock
  <1>2. GTypeOK'
    BY <1>1 DEF Open, Move, sectionvars, IInv, GTypeOK, LockTypeOK
  <1>3. ThreadOK(t)' /\ ProcessOK(p)'
    BY <1>1, NoFdAssumption, NoThreadAssumption
    DEF Open, Move, sectionvars, IInv, GTypeOK, LockTypeOK, ThreadOK, ProcessOK,
        Active, Outside, Inside, Unlocked, Acquiring, Failed, Releasing, HasOsLock
  <1>4. OwnBusiness(t)
    BY <1>1, ProcessOfAssumption
    DEF OwnBusiness, Open, Move, sectionvars, IInv, GTypeOK, LockTypeOK, SameThread, SameProcess
  <1>5. FdsApart' /\ Accounted'
    BY <1>1, NoFdAssumption
    DEF Open, Move, sectionvars, IInv, GTypeOK, LockTypeOK, ThreadOK, ProcessOK, FdsApart,
        Accounted
  <1>6. QED
    BY <1>2, <1>3, <1>4, <1>5, OthersSafe DEF IInv

\* flock returns only when no descriptor has the lock, so no other process is inside.
LEMMA FlockSafe ==
    ASSUME IInv, NEW t \in Threads, Flock(t), UNCHANGED sectionvars
    PROVE  IInv'
  <1> DEFINE p == ProcessOf[t]
  <1>1. /\ p \in Processes /\ rlock[p] = t /\ gpc[t] = "acquiring" /\ nest[t] = 0
        /\ holds[t] = 0 /\ ownerDepth[p] = 1 /\ depth[p] = 1
        /\ own[t] # NoFd /\ own[t] = fd[p] /\ own[t] \in opened
    BY ProcessOfAssumption
    DEF Flock, Move, Hold, sectionvars, IInv, ThreadOK, Active, Outside, Inside, Unlocked,
        Acquiring, Failed, Releasing, HasOsLock
  <1>2. GTypeOK'
    BY <1>1 DEF Flock, Move, Hold, sectionvars, IInv, GTypeOK, LockTypeOK
  <1>3. ThreadOK(t)' /\ ProcessOK(p)'
    BY <1>1, NoFdAssumption, NoThreadAssumption
    DEF Flock, Move, Hold, sectionvars, IInv, GTypeOK, LockTypeOK, ThreadOK, ProcessOK,
        Active, Outside, Inside, Unlocked, Acquiring, Failed, Releasing, HasOsLock
  <1>4. OwnBusiness(t)
    BY <1>1, ProcessOfAssumption
    DEF OwnBusiness, Flock, Move, Hold, sectionvars, IInv, GTypeOK, LockTypeOK, SameThread,
        SameProcess
  <1>5. FdsApart' /\ Accounted'
    BY <1>1, NoFdAssumption
    DEF Flock, Move, Hold, sectionvars, IInv, GTypeOK, LockTypeOK, ThreadOK, ProcessOK,
        FdsApart, Accounted
  <1>6. QED
    BY <1>2, <1>3, <1>4, <1>5, OthersSafe DEF IInv

\* An open that fails leaves the object as it was.
LEMMA OpenFailsSafe ==
    ASSUME IInv, NEW t \in Threads, OpenFails(t), UNCHANGED sectionvars
    PROVE  IInv'
  <1> DEFINE p == ProcessOf[t]
  <1>1. /\ p \in Processes /\ rlock[p] = t /\ gpc[t] = "acquiring" /\ nest[t] = 0
        /\ holds[t] = 0 /\ ownerDepth[p] = 1 /\ fd[p] = NoFd /\ own[t] = NoFd /\ ~NoFaults
    BY ProcessOfAssumption
    DEF OpenFails, Move, sectionvars, IInv, ThreadOK, Active, Outside, Inside, Unlocked,
        Acquiring, Failed, Releasing, HasOsLock, NoFaults
  <1>2. GTypeOK'
    BY <1>1 DEF OpenFails, Move, sectionvars, IInv, GTypeOK, LockTypeOK
  <1>3. ThreadOK(t)' /\ ProcessOK(p)'
    BY <1>1, NoFdAssumption, NoThreadAssumption
    DEF OpenFails, Move, sectionvars, IInv, GTypeOK, LockTypeOK, ThreadOK, ProcessOK,
        Active, Failed, NoFaults
  <1>4. OwnBusiness(t)
    BY <1>1, ProcessOfAssumption
    DEF OwnBusiness, OpenFails, Move, sectionvars, IInv, GTypeOK, LockTypeOK, SameThread,
        SameProcess
  <1>5. FdsApart' /\ Accounted'
    BY DEF OpenFails, IInv, FdsApart, Accounted
  <1>6. QED
    BY <1>2, <1>3, <1>4, <1>5, OthersSafe DEF IInv

\* A flock that fails takes the descriptor back, and nobody else had it.
LEMMA FlockFailsSafe ==
    ASSUME IInv, NEW t \in Threads, FlockFails(t), UNCHANGED sectionvars
    PROVE  IInv'
  <1> DEFINE p == ProcessOf[t]
  <1>1. /\ p \in Processes /\ rlock[p] = t /\ gpc[t] = "acquiring" /\ nest[t] = 0
        /\ holds[t] = 0 /\ ownerDepth[p] = 1 /\ ~NoFaults
        /\ own[t] # NoFd /\ own[t] = fd[p] /\ own[t] \in opened /\ locked # own[t]
    BY ProcessOfAssumption
    DEF FlockFails, Move, sectionvars, IInv, ThreadOK, Active, Outside, Inside, Unlocked,
        Acquiring, Failed, Releasing, HasOsLock, NoFaults
  <1>2. GTypeOK'
    BY <1>1 DEF FlockFails, Move, sectionvars, IInv, GTypeOK, LockTypeOK
  <1>3. ThreadOK(t)' /\ ProcessOK(p)'
    BY <1>1, NoFdAssumption, NoThreadAssumption
    DEF FlockFails, Move, sectionvars, IInv, GTypeOK, LockTypeOK, ThreadOK, ProcessOK,
        Active, Failed, NoFaults
  <1>4. OwnBusiness(t)
    BY <1>1, ProcessOfAssumption
    DEF OwnBusiness, FlockFails, Move, sectionvars, IInv, GTypeOK, LockTypeOK, SameThread,
        SameProcess
  <1>5. FdsApart' /\ Accounted'
    BY <1>1, NoFdAssumption
    DEF FlockFails, Move, sectionvars, IInv, GTypeOK, LockTypeOK, FdsApart, Accounted
  <1>6. QED
    BY <1>2, <1>3, <1>4, <1>5, OthersSafe DEF IInv

\* The last level gives its descriptor up, to be unlocked and closed.
LEMMA ReleaseSafe ==
    ASSUME IInv, NEW t \in Threads, Release(t), UNCHANGED sectionvars
    PROVE  IInv'
  <1> DEFINE p == ProcessOf[t]
  <1>1. /\ p \in Processes /\ rlock[p] = t /\ gpc[t] = "releasing" /\ ownerDepth[p] = 0
        /\ nest[t] = 0 /\ holds[t] = 1 /\ fd[p] # NoFd /\ depth[p] = 1 /\ locked = fd[p]
        /\ own[t] = NoFd /\ fd[p] \in opened
    BY ProcessOfAssumption
    DEF Release, Move, Hold, sectionvars, IInv, ThreadOK, ProcessOK, Active, Outside, Inside,
        Unlocked, Acquiring, Failed, Releasing, HasOsLock
  <1>e. /\ own' = [own EXCEPT ![t] = fd[p]] /\ fd' = [fd EXCEPT ![p] = NoFd]
        /\ depth' = [depth EXCEPT ![p] = 0] /\ step' = [step EXCEPT ![t] = "close"]
        /\ holds' = [holds EXCEPT ![t] = 0]
        /\ opened' = opened /\ locked' = locked
        /\ rlock' = rlock /\ ownerDepth' = ownerDepth /\ nest' = nest /\ bare' = bare
        /\ gpc' = gpc
    BY <1>1 DEF Release, Move, Hold, sectionvars
  <1>2. GTypeOK'
    BY <1>1, <1>e DEF IInv, GTypeOK, LockTypeOK
  <1>3. ThreadOK(t)' /\ ProcessOK(p)'
    BY <1>1, <1>e, NoFdAssumption, NoThreadAssumption
    DEF IInv, GTypeOK, LockTypeOK, ThreadOK, ProcessOK, Active, Releasing, Unlocked, Failed
  <1>4. OwnBusiness(t)
    BY <1>1, <1>e, ProcessOfAssumption
    DEF OwnBusiness, IInv, GTypeOK, LockTypeOK, SameThread, SameProcess
  <1>5. FdsApart'
    <2>1. \A q \in Processes : fd'[q] # NoFd => fd'[q] = fd[q] /\ q # p
      BY <1>1, <1>e DEF IInv, GTypeOK, LockTypeOK
    <2>2. \A q \in Processes : fd[q] = fd[p] => q = p
      BY <1>1 DEF IInv, FdsApart
    <2>3. \A u \in Threads : u # t => own'[u] = own[u] /\ (own[u] = fd[p] => ProcessOf[u] = p)
      BY <1>1, <1>e DEF IInv, GTypeOK, LockTypeOK, FdsApart
    <2>4. \A u \in Threads : u # t /\ ProcessOf[u] = p => own[u] = NoFd
      BY <1>1, OthersOutside
    <2>5. own'[t] = fd[p]
      BY <1>e DEF IInv, GTypeOK, LockTypeOK
    <2>6. QED
      BY <1>1, <2>1, <2>2, <2>3, <2>4, <2>5 DEF IInv, FdsApart
  <1>6. Accounted'
    <2>1. NoFd \notin opened
      BY NoFdAssumption DEF IInv, GTypeOK, LockTypeOK
    <2>2. ASSUME NEW f \in opened
          PROVE  (\E q \in Processes : fd'[q] = f) \/ (\E u \in Threads : own'[u] = f)
      <3>1. CASE f = fd[p]
        BY <1>e, <3>1 DEF IInv, GTypeOK, LockTypeOK
      <3>2. CASE \E q \in Processes \ {p} : fd[q] = f
        BY <1>e, <3>2 DEF IInv, GTypeOK, LockTypeOK
      <3>3. CASE \E u \in Threads : own[u] = f
        BY <1>1, <1>e, <2>1, <3>3 DEF IInv, GTypeOK, LockTypeOK
      <3>4. QED
        BY <3>1, <3>2, <3>3 DEF IInv, Accounted
    <2>3. QED
      BY <1>e, <2>2 DEF Accounted
  <1>7. QED
    BY <1>2, <1>3, <1>4, <1>5, <1>6, OthersSafe DEF IInv

\* Closing touches no descriptor but the one given up.
LEMMA CloseSafe ==
    ASSUME IInv, NEW t \in Threads, Close(t), UNCHANGED sectionvars
    PROVE  IInv'
  <1> DEFINE p == ProcessOf[t]
  <1>1. /\ p \in Processes /\ rlock[p] = t /\ gpc[t] = "releasing" /\ ownerDepth[p] = 0
        /\ nest[t] = 0 /\ own[t] # NoFd /\ fd[p] = NoFd /\ holds[t] = 0
    BY ProcessOfAssumption
    DEF Close, Move, sectionvars, IInv, ThreadOK, Active, Outside, Inside, Unlocked, Acquiring,
        Failed, Releasing, HasOsLock
  <1>2. GTypeOK'
    BY <1>1 DEF Close, Move, sectionvars, IInv, GTypeOK, LockTypeOK
  <1>3. ThreadOK(t)' /\ ProcessOK(p)'
    BY <1>1, NoFdAssumption, NoThreadAssumption
    DEF Close, Move, sectionvars, IInv, GTypeOK, LockTypeOK, ThreadOK, ProcessOK,
        Active, Releasing, Unlocked, Failed
  <1>4. OwnBusiness(t)
    BY <1>1, ProcessOfAssumption
    DEF OwnBusiness, Close, Move, sectionvars, IInv, GTypeOK, LockTypeOK, SameThread, SameProcess
  <1>5. FdsApart' /\ Accounted'
    BY <1>1, NoFdAssumption
    DEF Close, Move, sectionvars, IInv, GTypeOK, LockTypeOK, FdsApart, Accounted
  <1>6. QED
    BY <1>2, <1>3, <1>4, <1>5, OthersSafe DEF IInv

\* acquire returned with the OS lock.
LEMMA EnteredSafe ==
    ASSUME IInv, NEW t \in Threads, Entered(t)
    PROVE  IInv'
  <1> DEFINE p == ProcessOf[t]
  <1>1. /\ p \in Processes /\ rlock[p] = t /\ gpc[t] = "acquiring" /\ nest[t] = 0
        /\ holds[t] = 1 /\ ownerDepth[p] = 1 /\ HasOsLock(p) /\ step[t] = "idle"
    BY ProcessOfAssumption
    DEF Entered, lockvars, IInv, ThreadOK, Active, Outside, Inside, Unlocked, Acquiring, Failed,
        Releasing, HasOsLock
  <1>2. GTypeOK'
    BY <1>1 DEF Entered, lockvars, IInv, GTypeOK, LockTypeOK
  <1>3. ThreadOK(t)' /\ ProcessOK(p)'
    BY <1>1, NoFdAssumption, NoThreadAssumption
    DEF Entered, lockvars, IInv, GTypeOK, LockTypeOK, ThreadOK, ProcessOK, Active, Inside,
        Unlocked, Failed, HasOsLock
  <1>4. OwnBusiness(t)
    BY <1>1, ProcessOfAssumption
    DEF OwnBusiness, Entered, lockvars, IInv, GTypeOK, LockTypeOK, SameThread, SameProcess
  <1>5. FdsApart' /\ Accounted'
    BY DEF Entered, lockvars, IInv, FdsApart, Accounted
  <1>6. QED
    BY <1>2, <1>3, <1>4, <1>5, OthersSafe DEF IInv

\* acquire raised: the rlock goes, with nothing open; the level stays.
LEMMA EnterFailsSafe ==
    ASSUME IInv, NEW t \in Threads, EnterFails(t)
    PROVE  IInv'
  <1> DEFINE p == ProcessOf[t]
  <1>1. /\ p \in Processes /\ rlock[p] = t /\ gpc[t] = "acquiring" /\ nest[t] = 0
        /\ holds[t] = 0 /\ step[t] = "idle" /\ fd[p] = NoFd /\ own[t] = NoFd /\ ~NoFaults
    BY ProcessOfAssumption
    DEF EnterFails, lockvars, IInv, ThreadOK, Active, Outside, Inside, Unlocked, Acquiring,
        Failed, Releasing, HasOsLock
  <1>2. GTypeOK'
    BY <1>1 DEF EnterFails, lockvars, IInv, GTypeOK, LockTypeOK
  <1>3. ThreadOK(t)' /\ ProcessOK(p)'
    BY <1>1, NoFdAssumption, NoThreadAssumption
    DEF EnterFails, lockvars, IInv, GTypeOK, LockTypeOK, ThreadOK, ProcessOK, Active, Outside,
        NoFaults
  <1>4. OwnBusiness(t)
    BY <1>1, ProcessOfAssumption
    DEF OwnBusiness, EnterFails, lockvars, IInv, GTypeOK, LockTypeOK, SameThread, SameProcess
  <1>5. FdsApart' /\ Accounted'
    BY DEF EnterFails, lockvars, IInv, FdsApart, Accounted
  <1>6. QED
    BY <1>2, <1>3, <1>4, <1>5, OthersSafe DEF IInv

\* Leaving a section: only the last level releases the file lock.
LEMMA LeaveSafe ==
    ASSUME IInv, NEW t \in Threads, Leave(t)
    PROVE  IInv'
  <1> DEFINE p == ProcessOf[t]
  <1>1. /\ p \in Processes /\ rlock[p] = t /\ gpc[t] = "idle" /\ nest[t] > 0
        /\ step[t] = "idle" /\ own[t] = NoFd
        /\ Inside(t) \/ Unlocked(t)
        /\ ownerDepth[p] >= nest[t] /\ nest[t] \in Nat /\ ownerDepth[p] \in Nat
        /\ ownerDepth[p] = 1 => Inside(t)
    <2>1. gpc[t] = "idle" /\ nest[t] > 0 /\ ThreadOK(t) /\ p \in Processes
      BY ProcessOfAssumption DEF Leave, IInv
    <2>2. Inside(t) \/ Unlocked(t)
      BY <2>1 DEF ThreadOK, Outside, Acquiring, Failed, Releasing
    <2>3. nest[t] \in Nat /\ ownerDepth[p] \in Nat
      BY <2>1 DEF IInv, GTypeOK
    <2>4. rlock[p] = t /\ step[t] = "idle" /\ own[t] = NoFd
      BY <2>1, <2>2 DEF ThreadOK, Active, Inside, Unlocked
    <2>5. ownerDepth[p] >= nest[t] /\ (ownerDepth[p] = 1 => Inside(t))
      BY <2>1, <2>2, <2>3 DEF Inside, Unlocked
    <2>6. QED
      BY <2>1, <2>2, <2>3, <2>4, <2>5
  <1>2. GTypeOK'
    BY <1>1 DEF Leave, LastLevel, CallRelease, Move, lockvars, IInv, GTypeOK, LockTypeOK
  <1>3. ThreadOK(t)' /\ ProcessOK(p)'
    <2>1. CASE ownerDepth[p] = 1
      BY <1>1, <2>1, NoThreadAssumption
      DEF Leave, LastLevel, CallRelease, Move, IInv, GTypeOK, LockTypeOK, ThreadOK,
          ProcessOK, Active, Inside, Unlocked, Failed, Releasing, HasOsLock
    <2>2. CASE ownerDepth[p] # 1 /\ Inside(t)
      <3>1. /\ nest' = [nest EXCEPT ![t] = @ - 1] /\ ownerDepth' = [ownerDepth EXCEPT ![p] = @ - 1]
            /\ rlock' = IF nest[t] = 1 THEN [rlock EXCEPT ![p] = NoThread] ELSE rlock
            /\ UNCHANGED lockvars /\ UNCHANGED <<gpc, bare>>
        BY <2>2 DEF Leave, LastLevel
      <3>2. nest[t] > 1 /\ nest'[t] = nest[t] - 1 /\ ownerDepth'[p] = nest'[t] /\ rlock' = rlock
        BY <1>1, <2>2, <3>1 DEF Inside, IInv, GTypeOK
      <3>3. Inside(t)' /\ Active(t)'
        BY <1>1, <2>2, <3>1, <3>2 DEF Inside, Active, HasOsLock, lockvars
      <3>4. ThreadOK(t)'
        BY <1>1, <3>1, <3>2, <3>3
        DEF IInv, ThreadOK, Inside, Unlocked, Failed, lockvars
      <3>5. ProcessOK(p)'
        BY <1>1, <3>1, <3>2, <3>3, NoThreadAssumption DEF IInv, ProcessOK, lockvars
      <3>6. QED
        BY <3>4, <3>5
    <2>3. CASE ownerDepth[p] # 1 /\ Unlocked(t)
      BY <1>1, <2>3, NoThreadAssumption
      DEF Leave, LastLevel, lockvars, IInv, GTypeOK, LockTypeOK, ThreadOK,
          ProcessOK, Active, Outside, Unlocked, Failed
    <2>4. QED
      BY <1>1, <2>1, <2>2, <2>3
  <1>4. OwnBusiness(t)
    BY <1>1, ProcessOfAssumption
    DEF OwnBusiness, Leave, LastLevel, CallRelease, Move, lockvars, IInv, GTypeOK, LockTypeOK,
        SameThread, SameProcess
  <1>5. FdsApart' /\ Accounted'
    BY DEF Leave, CallRelease, lockvars, IInv, FdsApart, Accounted
  <1>6. QED
    BY <1>2, <1>3, <1>4, <1>5, OthersSafe DEF IInv

\* The rlock goes after the OS lock.
LEMMA LeftSafe ==
    ASSUME IInv, NEW t \in Threads, Left(t)
    PROVE  IInv'
  <1> DEFINE p == ProcessOf[t]
  <1>1. /\ p \in Processes /\ rlock[p] = t /\ gpc[t] = "releasing" /\ holds[t] = 0
        /\ nest[t] = 0 /\ ownerDepth[p] = 0 /\ fd[p] = NoFd /\ own[t] = NoFd
    BY ProcessOfAssumption
    DEF Left, lockvars, IInv, ThreadOK, Active, Outside, Inside, Unlocked, Acquiring, Failed,
        Releasing, HasOsLock
  <1>2. GTypeOK'
    BY <1>1 DEF Left, lockvars, IInv, GTypeOK, LockTypeOK
  <1>3. ThreadOK(t)' /\ ProcessOK(p)'
    BY <1>1, NoFdAssumption, NoThreadAssumption
    DEF Left, lockvars, IInv, GTypeOK, LockTypeOK, ThreadOK, ProcessOK, Active, Outside,
        Unlocked, Failed
  <1>4. OwnBusiness(t)
    BY <1>1, ProcessOfAssumption
    DEF OwnBusiness, Left, lockvars, IInv, GTypeOK, LockTypeOK, SameThread, SameProcess
  <1>5. FdsApart' /\ Accounted'
    BY DEF Left, lockvars, IInv, FdsApart, Accounted
  <1>6. QED
    BY <1>2, <1>3, <1>4, <1>5, OthersSafe DEF IInv

\* A section let through unlocked touches nothing of the lock.
LEMMA BareSafe ==
    ASSUME IInv, NEW t \in Threads, EnterBare(t) \/ LeaveBare(t)
    PROVE  IInv'
  <1>1. UNCHANGED <<lockvars, rlock, ownerDepth, nest, gpc>>
    BY DEF EnterBare, LeaveBare
  <1>2. bare' \in [Threads -> BOOLEAN] /\ (NoFaults => \A u \in Threads : ~bare'[u])
    BY DEF EnterBare, LeaveBare, IInv, GTypeOK, NoFaults, ThreadOK
  <1>3. QED
    BY <1>1, <1>2
    DEF lockvars, IInv, GTypeOK, LockTypeOK, ThreadOK, ProcessOK, FdsApart,
        Accounted, Active, Outside, Inside, Unlocked, Acquiring, Failed, Releasing, HasOsLock

\* A process that dies takes its descriptors with it and nobody else's.
LEMMA KillSafe ==
    ASSUME IInv, NEW p \in Processes, Kill(p)
    PROVE  IInv'
  <1> DEFINE closed == ({own[t] : t \in {v \in Threads : ProcessOf[v] = p}} \cup {fd[p]}) \ {NoFd}
  <1>1. GTypeOK'
    BY DEF Kill, DropLock, IInv, GTypeOK, LockTypeOK
  <1>2. ASSUME NEW q \in Processes, q # p PROVE fd[q] \notin closed
    BY <1>2 DEF IInv, FdsApart
  <1>3. ASSUME NEW u \in Threads, ProcessOf[u] # p PROVE own[u] \notin closed
    BY <1>3 DEF IInv, FdsApart
  <1>4. ASSUME NEW u \in Threads PROVE ThreadOK(u)'
    <2>1. CASE ProcessOf[u] = p
      BY <2>1 DEF Kill, DropLock, ThreadOK, Active, Outside, Unlocked, Failed
    <2>2. CASE ProcessOf[u] # p
      <3>1. SameThread(u) /\ SameProcess(ProcessOf[u])
        BY <2>2, ProcessOfAssumption
        DEF Kill, DropLock, IInv, GTypeOK, LockTypeOK, SameThread, SameProcess
      <3>2. HasOsLock(ProcessOf[u]) => locked' = locked
        BY <1>2, <2>2, ProcessOfAssumption DEF Kill, DropLock, HasOsLock
      <3>3. own[u] # NoFd /\ own[u] \in opened => own[u] \in opened'
        BY <1>3, <2>2 DEF Kill, DropLock
      <3>4. own[u] # NoFd /\ own[u] # locked => own[u] # locked'
        BY DEF Kill, DropLock
      <3>5. QED
        BY <3>1, <3>2, <3>3, <3>4
        DEF IInv, ThreadOK, Active, Outside, Inside, Unlocked, Acquiring, Failed, Releasing,
            HasOsLock, SameThread, SameProcess
    <2>3. QED
      BY <2>1, <2>2
  <1>5. ASSUME NEW q \in Processes PROVE ProcessOK(q)'
    <2>1. CASE q = p
      BY <2>1 DEF Kill, DropLock, ProcessOK, IInv, GTypeOK, LockTypeOK
    <2>2. CASE q # p
      BY <1>2, <2>2, NoThreadAssumption
      DEF Kill, DropLock, ProcessOK, Active, IInv, GTypeOK, LockTypeOK
    <2>3. QED
      BY <2>1, <2>2
  <1>6. FdsApart'
    BY DEF Kill, DropLock, IInv, GTypeOK, LockTypeOK, FdsApart
  <1>7. Accounted'
    BY DEF Kill, DropLock, IInv, GTypeOK, LockTypeOK, Accounted
  <1>8. QED
    BY <1>1, <1>4, <1>5, <1>6, <1>7 DEF IInv

\* Every step keeps the invariant, whatever fails.
LEMMA GNextSafe ==
    ASSUME IInv, [GNext]_gvars
    PROVE  IInv'
  <1>1. ASSUME NEW t \in Threads, LockStep(t), UNCHANGED sectionvars PROVE IInv'
    <2>1. ~Nest(t)
      BY DEF IInv, ThreadOK, Nest, Outside, Inside, Unlocked, Acquiring, Failed, Releasing
    <2>2. QED
      BY <1>1, <2>1, OpenSafe, OpenFailsSafe, FlockSafe, FlockFailsSafe, ReleaseSafe, CloseSafe
      DEF LockStep
  <1>2. CASE UNCHANGED gvars
    BY <1>2
    DEF gvars, lockvars, sectionvars, IInv, GTypeOK, LockTypeOK, ThreadOK, ProcessOK, FdsApart,
        Accounted, Active, Outside, Inside, Unlocked, Acquiring, Failed, Releasing, HasOsLock
  <1>3. QED
    BY <1>1, <1>2, EnterSafe, EnteredSafe, EnterFailsSafe, LeaveSafe, LeftSafe, BareSafe, KillSafe
    DEF GNext, Proceed

\* Two threads inside the lock, in processes that leaked no level, are the same thread: of
\* one process because of the rlock, of two because only one descriptor has the flock.
LEMMA InsideIsAlone ==
    ASSUME IInv, NEW t \in Threads, NEW u \in Threads, nest[t] > 0, nest[u] > 0,
           ~Leaked(ProcessOf[t]), ~Leaked(ProcessOf[u])
    PROVE  t = u
  <1>1. ASSUME NEW v \in {t, u} PROVE Inside(v) /\ rlock[ProcessOf[v]] = v
    <2>1. /\ rlock[ProcessOf[v]] = v /\ gpc[v] = "idle" /\ (Inside(v) \/ Unlocked(v))
          /\ nest[v] \in Nat /\ ownerDepth[ProcessOf[v]] \in Nat
      BY ProcessOfAssumption
      DEF IInv, ThreadOK, Active, Outside, Inside, Unlocked, Acquiring, Failed, Releasing, GTypeOK
    <2>2. ownerDepth[ProcessOf[v]] = nest[v]
      BY <2>1, NoThreadAssumption DEF Leaked
    <2>3. QED
      BY <2>1, <2>2 DEF Unlocked
  <1>2. ProcessOf[t] = ProcessOf[u]
    BY <1>1, ProcessOfAssumption DEF IInv, FdsApart, Inside, HasOsLock
  <1>3. QED
    BY <1>1, <1>2

LEMMA NoFaultsNoLeaks ==
    ASSUME IInv, NoFaults, NEW p \in Processes
    PROVE  ~Leaked(p) /\ \A t \in Threads : ~bare[t]
  <1>1. CASE rlock[p] = NoThread
    BY <1>1 DEF IInv, ProcessOK, ThreadOK, Leaked
  <1>2. CASE rlock[p] # NoThread
    <2>1. /\ rlock[p] \in Threads /\ ProcessOf[rlock[p]] = p /\ Active(rlock[p])
          /\ ThreadOK(rlock[p]) /\ nest[rlock[p]] \in Nat
      BY <1>2 DEF IInv, ProcessOK, GTypeOK
    <2>2. QED
      BY <1>2, <2>1
      DEF IInv, ThreadOK, Active, Outside, Inside, Acquiring, Releasing, Leaked
  <1>3. QED
    BY <1>1, <1>2

\* Nothing is held by an owner nobody is using.
LEMMA UnusedHoldsNothing ==
    ASSUME IInv, \A t \in Threads : nest[t] = 0 /\ gpc[t] = "idle" /\ step[t] = "idle"
    PROVE  /\ locked = NoFd /\ opened = {}
           /\ \A p \in Processes : rlock[p] = NoThread /\ fd[p] = NoFd
  <1>1. ASSUME NEW p \in Processes PROVE rlock[p] = NoThread /\ fd[p] = NoFd
    <2>1. ProcessOK(p) /\ rlock[p] \in Threads \cup {NoThread}
      BY DEF IInv, GTypeOK
    <2>2. \A t \in Threads : ~Active(t)
      BY DEF Active
    <2>3. QED
      BY <2>1, <2>2 DEF ProcessOK
  <1>2. \A t \in Threads : own[t] = NoFd
    BY DEF IInv, ThreadOK
  <1>3. opened = {}
    BY <1>1, <1>2, NoFdAssumption DEF IInv, Accounted, GTypeOK, LockTypeOK
  <1>4. QED
    BY <1>1, <1>3 DEF IInv, GTypeOK, LockTypeOK

\* With no acquire outstanding the object has no descriptor, also where acquires raised.
LEMMA IdleHoldsNothing == IInv => NothingLeftOpen
  <1> SUFFICES ASSUME IInv, \A t \in Threads : step[t] = "idle" /\ holds[t] = 0
               PROVE  /\ opened = {} /\ locked = NoFd
                      /\ \A p \in Processes : fd[p] = NoFd /\ depth[p] = 0
    BY DEF NothingLeftOpen
  <1>1. ASSUME NEW p \in Processes PROVE fd[p] = NoFd /\ depth[p] = 0
    <2>1. rlock[p] # NoThread => rlock[p] \in Threads /\ ProcessOf[rlock[p]] = p
                                 /\ Active(rlock[p])
      BY DEF IInv, ProcessOK, GTypeOK
    <2>2. rlock[p] # NoThread => fd[p] = NoFd
      BY <2>1 DEF IInv, ThreadOK, Active, Outside, Inside, Unlocked, Acquiring, Failed, Releasing
    <2>3. QED
      BY <2>2 DEF IInv, ProcessOK
  <1>2. \A t \in Threads : own[t] = NoFd
    BY DEF IInv, ThreadOK
  <1>3. opened = {}
    BY <1>1, <1>2, NoFdAssumption DEF IInv, Accounted, GTypeOK, LockTypeOK
  <1>4. QED
    BY <1>1, <1>3 DEF IInv, GTypeOK, LockTypeOK

LEMMA GInvariance == GSpec => []IInv
  <1>1. GInit => IInv
    BY GInitIInv
  <1>2. IInv /\ [GNext]_gvars => IInv'
    BY GNextSafe
  <1>3. QED
    BY <1>1, <1>2, PTL DEF GSpec

\* Whatever processes, threads and nesting, and whoever is killed, sections on one
\* working tree exclude each other while the lock file can be opened and locked.
THEOREM MutualExclusion == NoFaults => (GSpec => []Exclusive)
  <1> SUFFICES ASSUME NoFaults PROVE GSpec => []Exclusive
    OBVIOUS
  <1>1. IInv => Exclusive
    BY InsideIsAlone, NoFaultsNoLeaks, ProcessOfAssumption DEF Exclusive, In
  <1>2. QED
    BY <1>1, GInvariance, PTL

\* And a section leaves no depth, descriptor or OS lock behind.
THEOREM OwnerAlwaysAsNew == NoFaults => (GSpec => []OwnerAsNew)
  <1> SUFFICES ASSUME NoFaults PROVE GSpec => []OwnerAsNew
    OBVIOUS
  <1>1. IInv => OwnerAsNew
    BY UnusedHoldsNothing DEF OwnerAsNew, IInv, ProcessOK
  <1>2. QED
    BY <1>1, GInvariance, PTL

\* Whatever calls fail, two threads are inside the lock together only after an acquire has
\* raised, in a process that still lives: nothing else takes the exclusion away.
THEOREM OnlyALeakLetsTwoIn == GSpec => []ExclusiveBarringLeaks
  <1>1. IInv => ExclusiveBarringLeaks
    BY InsideIsAlone, ProcessOfAssumption DEF ExclusiveBarringLeaks
  <1>2. QED
    BY <1>1, GInvariance, PTL

\* And such a level is all that an owner nobody uses is left with.
THEOREM OnlyALevelStays == GSpec => []OwnerAsNewBarringLeaks
  <1>1. IInv => OwnerAsNewBarringLeaks
    BY UnusedHoldsNothing DEF OwnerAsNewBarringLeaks
  <1>2. QED
    BY <1>1, GInvariance, PTL

\* Whatever calls fail, no acquire or release leaves a descriptor or the OS lock behind.
THEOREM NoDescriptorIsLost == GSpec => []NothingLeftOpen
  <1>1. IInv => NothingLeftOpen
    BY IdleHoldsNothing
  <1>2. QED
    BY <1>1, GInvariance, PTL

=============================================================================
