---------------------------- MODULE MCProvision ----------------------------
(* Small instances of Provision for TLC. *)
EXTENDS Provision, TLC

CONSTANTS ta, tb
MCSymmetry == Permutations(Passwords) \cup Permutations(Keys)
OneTask == {ta}
TwoTasks == {ta, tb}
=============================================================================
