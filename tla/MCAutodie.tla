----------------------------- MODULE MCAutodie -----------------------------
(***************************************************************************)
(* Autodie: the program has no parameters.                                 *)
(***************************************************************************)
EXTENDS Autodie
=============================================================================
