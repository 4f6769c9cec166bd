------------------------------ MODULE MCPublish ------------------------------
(* Small instances of Publish for TLC. *)
EXTENDS Publish

CONSTANTS ta, tb

MCTasks == {ta, tb}
MCSymmetry == Permutations(MCTasks)

=============================================================================
