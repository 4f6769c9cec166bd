-------------------------------- MODULE MCDesk --------------------------------
(* Small instances of Board and CloseSequence for TLC. *)
EXTENDS CloseSequence, TLC

MCSymmetry == Permutations(Tasks) \cup Permutations(Workspaces)

=============================================================================
