------------------------------ MODULE MCGitSync ------------------------------
(* Small instances of GitSync for TLC. *)
EXTENDS GitSync

CONSTANTS ta, tb

MCTasks == {ta, tb}
MCSymmetry == Permutations(MCTasks)

GTypeOK ==
    /\ RepoTypeOK /\ gpc \in [Tasks -> GitSteps]
    /\ \A t \in Tasks : gpc[t] \in Locked => lock = t

=============================================================================
