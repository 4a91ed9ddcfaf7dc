----------------------------- MODULE MCRunOnce -----------------------------
(***************************************************************************)
(* RunOnce on a heap of three cells.                                       *)
(***************************************************************************)
EXTENDS RunOnce
=============================================================================
