----------------------------- MODULE ConfigFile -----------------------------
(***************************************************************************)
(* The string lookups of configfile.c.                                     *)
(*                                                                         *)
(* configfile_gets_section_key() returns a pointer into a buffer that it   *)
(* keeps in a static variable and frees on its next call, so a caller only *)
(* borrows the string.  When the key is missing the function returns NULL  *)
(* after it has freed the buffer, but buf still points to it: the next     *)
(* call frees that address a second time.  By then malloc() may have given *)
(* it to somebody else.                                                    *)
(*                                                                         *)
(* owner says what malloc() has handed out.  The addresses stand for those *)
(* of one size class, which freed buffers go back to.  A lookup that frees *)
(* an address that does not hold buf's own string is undefined behaviour:  *)
(* damaged is set and nothing is said of what follows.                     *)
(***************************************************************************)
EXTENDS Heap

VARIABLES
  owner,     \* who holds an address: "free", "config" or "other"
  buf,       \* the static variable
  result,    \* the pointer the last lookup returned, NULL if there is none
  damaged    \* an address was freed that was not buf's to free

vars == <<owner, buf, result, damaged>>

TypeOK ==
  /\ owner \in [Addr -> {"free", "config", "other"}]
  /\ buf \in Addr \cup {NULL}
  /\ result \in Addr \cup {NULL}
  /\ damaged \in BOOLEAN

Init ==
  /\ owner = [a \in Addr |-> "free"]
  /\ buf = NULL
  /\ result = NULL
  /\ damaged = FALSE

-----------------------------------------------------------------------------
BufIsLive == buf # NULL => owner[buf] = "config"

(* The heap after the free(buf) that every lookup begins with; the variant *)
(* leaves the free() out.                                                  *)
KeepBuf == owner
FreeBuf == IF buf = NULL THEN owner ELSE [owner EXCEPT ![buf] = "free"]

(* configfile_gets_section_key(), and configfile_rgets_section_key(), of a *)
(* key that is there: toml_rtos() allocates the new string, at an address  *)
(* that may be the one just freed.  The variant returns raw, the parser's  *)
(* text, instead.                                                          *)
GetsFoundReturnsRaw(a) ==
  /\ ~damaged
  /\ BufIsLive
  /\ FreeBuf[a] = "free"
  /\ owner' = [FreeBuf EXCEPT ![a] = "config"]
  /\ buf' = a
  /\ result' = "raw"
  /\ UNCHANGED damaged

GetsFound(a) ==
  /\ ~damaged
  /\ BufIsLive
  /\ FreeBuf[a] = "free"
  /\ owner' = [FreeBuf EXCEPT ![a] = "config"]
  /\ buf' = a
  /\ result' = a
  /\ UNCHANGED damaged

(* The same of a key that is missing; the variant returns the old pointer. *)
GetsMissingReturnsBuf ==
  /\ ~damaged
  /\ BufIsLive
  /\ owner' = FreeBuf
  /\ result' = buf
  /\ UNCHANGED <<buf, damaged>>

GetsMissing ==
  /\ ~damaged
  /\ BufIsLive
  /\ owner' = FreeBuf
  /\ result' = NULL
  /\ UNCHANGED <<buf, damaged>>

(* A lookup that begins by freeing what buf no longer owns.                *)
GetsDamages ==
  /\ ~damaged
  /\ ~BufIsLive
  /\ damaged' = TRUE
  /\ UNCHANGED <<owner, buf, result>>

(* The rest of the program allocates and frees.                            *)
OtherAlloc(a) ==
  /\ ~damaged
  /\ owner[a] = "free"
  /\ owner' = [owner EXCEPT ![a] = "other"]
  /\ UNCHANGED <<buf, result, damaged>>

OtherFree(a) ==
  /\ ~damaged
  /\ owner[a] = "other"
  /\ owner' = [owner EXCEPT ![a] = "free"]
  /\ UNCHANGED <<buf, result, damaged>>

Next ==
  \/ \E a \in Addr : GetsFound(a) \/ OtherAlloc(a) \/ OtherFree(a)
  \/ GetsMissing
  \/ GetsDamages

Spec == Init /\ [][Next]_vars
-----------------------------------------------------------------------------
(* The string that a caller was given stays live until the next lookup,    *)
(* whatever else the program allocates and frees: this is what             *)
(* start_module_handler() and the driver rely on when they use it.         *)
BorrowIsLive == result # NULL => owner[result] = "config"

(* The buffer does not leak: at most one string of the configuration is    *)
(* live, and it is the one buf points to.                                  *)
OneString == \A a \in Addr : owner[a] = "config" => a = buf
=============================================================================
