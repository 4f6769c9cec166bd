------------------------------ MODULE MCSession ------------------------------
(* Session on a small instance: two processes with one pool thread each. *)
EXTENDS Session, TLC

CONSTANTS p1, p2, m1, m2, t1, t2

MCMainOf == p1 :> m1 @@ p2 :> m2
MCPoolOf == p1 :> {t1} @@ p2 :> {t2}

\* From a close that left nothing up.
MCClosedSpec == SInit /\ (\A w \in Workspaces : stack[w] = "down") /\ [][SNext]_svars

=============================================================================
