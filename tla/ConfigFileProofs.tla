------------------------- MODULE ConfigFileProofs -------------------------
(***************************************************************************)
(* Proofs about ConfigFile, for a heap of any size.                        *)
(***************************************************************************)
EXTENDS ConfigFile, TLAPS

(* What a lookup returned is the buffer.                                   *)
ResultIsBuf == result # NULL => result = buf /\ owner[buf] = "config"

(* The inductive invariant.                                                *)
IInv == TypeOK /\ OneString /\ ResultIsBuf

LEMMA InitInv == Init => IInv
BY DEF Init, IInv, TypeOK, OneString, ResultIsBuf

LEMMA StepInv == IInv /\ [Next]_vars => IInv'
<1> SUFFICES ASSUME IInv, [Next]_vars PROVE IInv'
  OBVIOUS
<1> USE AddrAssumption DEF IInv, TypeOK, OneString, ResultIsBuf
<1>1. ASSUME NEW a \in Addr, GetsFound(a) PROVE IInv'
  BY <1>1 DEF GetsFound, FreeBuf
<1>2. CASE GetsMissing
  BY <1>2 DEF GetsMissing, FreeBuf
<1>3. CASE GetsDamages
  BY <1>3 DEF GetsDamages
<1>4. ASSUME NEW a \in Addr, OtherAlloc(a) PROVE IInv'
  BY <1>4 DEF OtherAlloc
<1>5. ASSUME NEW a \in Addr, OtherFree(a) PROVE IInv'
  BY <1>5 DEF OtherFree
<1>6. CASE UNCHANGED vars
  BY <1>6 DEF vars
<1> QED
  BY <1>1, <1>2, <1>3, <1>4, <1>5, <1>6 DEF Next

(* The invariant of configfile.c's string buffer holds in every state.     *)
THEOREM Invariance == Spec => []IInv
BY InitInv, StepInv, PTL DEF Spec

(* The string that configfile_gets_section_key() returned is live until    *)
(* the next lookup.                                                        *)
THEOREM BorrowedStringIsLive == Spec => []BorrowIsLive
<1>1. IInv => BorrowIsLive
  BY DEF IInv, ResultIsBuf, BorrowIsLive
<1> QED
  BY <1>1, Invariance, PTL

(* configfile_gets_section_key() does not leak: one string is live at      *)
(* most.                                                                   *)
THEOREM NoStringLeaks == Spec => []OneString
<1>1. IInv => OneString
  BY DEF IInv
<1> QED
  BY <1>1, Invariance, PTL

(* The state of the string buffer is typed.                                *)
THEOREM TypeCorrect == Spec => []TypeOK
<1>1. IInv => TypeOK
  BY DEF IInv
<1> QED
  BY <1>1, Invariance, PTL
=============================================================================
