----------------------------- MODULE MCLauncher -----------------------------
(* Launcher on small instances: see the cfg files that name it in the README. *)
EXTENDS Launcher, TLC

MCSymmetry ==
    Permutations(Workspaces) \cup Permutations(Ports) \cup Permutations(Names)
        \cup Permutations(Workers)

=============================================================================
