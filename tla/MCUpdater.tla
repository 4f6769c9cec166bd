------------------------------ MODULE MCUpdater ------------------------------
(* Updater on a small instance: two processes, one with a pool thread. *)
EXTENDS Updater, TLC

CONSTANTS p1, p2, m1, m2, t1

MCMainOf == p1 :> m1 @@ p2 :> m2
MCPoolOf == p1 :> {t1} @@ p2 :> {}

=============================================================================
