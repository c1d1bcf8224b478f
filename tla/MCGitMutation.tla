-------------------------- MODULE MCGitMutation --------------------------
(* Instances of GitMutation for TLC. *)
EXTENDS GitMutation, TLC

Symmetry == Permutations(Call)
==========================================================================
