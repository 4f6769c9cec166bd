---------------------------- MODULE MCConfigStore ----------------------------
(* ConfigStore on small instances: the threads of one process, or of two. *)
EXTENDS ConfigStore, TLC

CONSTANTS p1, p2, a, b, c

MCOneProcess == a :> p1 @@ b :> p1
MCTwoProcesses == a :> p1 @@ b :> p1 @@ c :> p2
MCOneThreadEach == a :> p1 @@ c :> p2

=============================================================================
