-------------------------------- MODULE Heap --------------------------------
(***************************************************************************)
(* The addresses that malloc() may return for a string of the              *)
(* configuration, and the null pointer.                                    *)
(***************************************************************************)
CONSTANTS Addr, NULL

ASSUME AddrAssumption == NULL \notin Addr
=============================================================================
