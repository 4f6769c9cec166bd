------------------------------ MODULE MCGitLock ------------------------------
(* GitLock on small instances: two threads in one process, one in another. *)
EXTENDS GitLock, TLC

CONSTANTS p1, p2, a, b, c, d

MCThreeThreads == a :> p1 @@ b :> p1 @@ c :> p2
MCFourThreads == a :> p1 @@ b :> p1 @@ c :> p2 @@ d :> p2
MCSymmetry == Permutations(Fds)

=============================================================================
