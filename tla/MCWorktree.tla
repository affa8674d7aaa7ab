----------------------------- MODULE MCWorktree -----------------------------
(***************************************************************************)
(* Instances of Worktree for TLC: the constants are in the configurations. *)
(***************************************************************************)
EXTENDS Worktree
=============================================================================
