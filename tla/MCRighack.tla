----------------------------- MODULE MCRighack -----------------------------
(***************************************************************************)
(* Righack with configurations of up to two sections.                      *)
(***************************************************************************)
EXTENDS Righack
=============================================================================
