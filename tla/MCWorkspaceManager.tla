------------------------- MODULE MCWorkspaceManager -------------------------
(* WorkspaceManager on a small instance: see MCWorkspaceManager*.cfg. *)
EXTENDS WorkspaceManager, TLC

MCSymmetry ==
    Permutations(Workspaces) \cup Permutations(Ports) \cup Permutations(Names)
        \cup Permutations(Tasks)

=============================================================================
