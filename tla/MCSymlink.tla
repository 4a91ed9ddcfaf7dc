----------------------------- MODULE MCSymlink -----------------------------
(***************************************************************************)
(* Symlink with three instances, which are alike, and as many ports.       *)
(***************************************************************************)
EXTENDS Symlink, TLC

Alike == Permutations(Instance) \cup Permutations(Port)
=============================================================================
