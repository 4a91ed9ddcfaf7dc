----------------------------- MODULE MCVserial -----------------------------
(***************************************************************************)
(* Vserial with two control lines and one status bit besides MSET.         *)
(***************************************************************************)
EXTENDS Vserial
=============================================================================
