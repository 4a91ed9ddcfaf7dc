----------------------------- MODULE MCHandles -----------------------------
(***************************************************************************)
(* Handles with a timer and a poll.                                        *)
(***************************************************************************)
EXTENDS Handles
=============================================================================
