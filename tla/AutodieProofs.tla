--------------------------- MODULE AutodieProofs ---------------------------
(***************************************************************************)
(* Proofs about Autodie.                                                   *)
(***************************************************************************)
EXTENDS Autodie, TLAPS

(* Who may wait for a call.                                                *)
WaitingInv ==
  /\ call \in {"main", "buffer", "strndup", "fatal"} => waiting = "main"
  /\ call \in {"alloc", "die", "handler"} => waiting \in {"main", "log"}
  /\ call = "log" => waiting \in {"main", "fatal"}

(* Before the handler is registered there is no call but that of the first *)
(* message, which is not filtered out; so afterwards there is a buffer.    *)
EarlyInv ==
  /\ stage \in {"start", "hello"} => call = "main" /\ last = NULL /\ code = NULL /\ ~message_buf
  /\ stage # "start" => current_level = trace
  /\ stage = "register" =>
       /\ call \in {"main", "log", "buffer", "die"}
       /\ waiting = "main"
       /\ call = "main" => message_buf
       /\ call = "die" => last = NULL
       /\ call = "buffer" => ~message_buf
       /\ ~message_buf => last = NULL
  /\ stage \in Early => ~die_handler
  /\ stage \notin Early => die_handler /\ message_buf /\ call # "buffer"

(* What is in progress when an allocation has failed.                      *)
FailureInv ==
  /\ failed = "alloc" <=> call \in {"die", "handler"}
  /\ call = "handler" => die_handler
  /\ failed = "strndup" => stage \notin Early /\ (call = "fatal" \/ (call = "log" /\ waiting = "fatal"))
  /\ inside_autodie <=> call = "handler" \/ (call = "die" /\ code # NULL)

(* A fatal message is on its way, or was written.                          *)
FatalInv ==
  /\ call = "log" /\ waiting = "fatal" => level = fatal
  /\ call = "fatal" => last = fatal

CodeInv ==
  /\ code = exit_ok <=> stage = "end"
  /\ code = exit_ok => call = "main"
  /\ code # NULL => call \in {"main", "fatal", "die", "handler"}
  /\ code \notin {NULL, exit_ok} => call # "main"

(* The inductive invariant.                                                *)
IInv == TypeOK /\ WaitingInv /\ EarlyInv /\ FailureInv /\ FatalInv /\ CodeInv /\ ExitIsExplained

USE DEF exit_ok, exit_fatal, exit_nomem, aborted, trace, info, warn, error, fatal

LEMMA InitInv == Init => IInv
<1> SUFFICES ASSUME Init PROVE IInv
  OBVIOUS
<1> USE NullAssumption DEF Init, Level, Early
<1>1. TypeOK
  BY DEF TypeOK
<1>2. WaitingInv /\ EarlyInv /\ FatalInv
  BY DEF WaitingInv, EarlyInv, FatalInv
<1>3. NULL # 0 /\ NULL # "alloc" /\ NULL # "strndup"
  OBVIOUS
<1>4. FailureInv
  BY <1>3 DEF FailureInv
<1>5. CodeInv /\ ExitIsExplained
  BY <1>3 DEF CodeInv, ExitIsExplained
<1> QED
  BY <1>1, <1>2, <1>4, <1>5 DEF IInv

(* The first steps of main() call nothing but log_info().                  *)
LEMMA MainInv == ASSUME IInv, Main PROVE IInv'
<1> USE NullAssumption DEF IInv, TypeOK, WaitingInv, EarlyInv, FailureInv, FatalInv, CodeInv,
        ExitIsExplained, Level, Early, In, calls, log, autodie
<1>1. CASE Start
  BY <1>1 DEF Start, FirstLevel
<1>2. CASE Hello
  BY <1>2 DEF Hello, Log
<1>3. CASE Register
  BY <1>3 DEF Register, Calls
<1>4. CASE Advance
  <2>1. /\ stage \in DOMAIN NextStage
        /\ stage' \in DOMAIN Calls \cup {"end"}
        /\ stage' = "end" <=> stage = "cleanup"
        /\ stage \notin Early /\ stage # "end"
        /\ stage' \notin Early
    BY <1>4 DEF Advance, NextStage, Calls
  <2>2. code' = exit_ok \/ code' = NULL
    BY <1>4 DEF Advance
  <2> QED
    BY <1>4, <2>1, <2>2 DEF Advance
<1> HIDE DEF IInv, TypeOK, WaitingInv, EarlyInv, FailureInv, FatalInv, CodeInv, ExitIsExplained,
        Level, Early, In, calls, log, autodie
<1> QED
  BY <1>1, <1>2, <1>3, <1>4 DEF Main

(* A call of main() in a later stage finds the handler registered, a       *)
(* buffer for messages, and no failure.                                    *)
LEMMA CalledInv == ASSUME IInv, Called PROVE IInv'
<1> USE NullAssumption DEF IInv, TypeOK, WaitingInv, EarlyInv, FailureInv, FatalInv, CodeInv,
        ExitIsExplained, Level, Early, In, calls, log, autodie
<1>0. DOMAIN Calls \cap (Early \cup {"end"}) = {}
  BY DEF Calls
<1>1. CASE \E l \in OwnLevel : LogsMessage(l)
  BY <1>0, <1>1 DEF LogsMessage, OwnLevel, May, Log
<1>2. CASE \E c \in {"alloc", "strndup"} : Allocates(c)
  BY <1>0, <1>2 DEF Allocates, May
<1>3. CASE \E l \in {warn, error} : HamlibLogs(l)
  BY <1>0, <1>3 DEF HamlibLogs, May
<1>4. CASE Dies
  BY <1>0, <1>4 DEF Dies, May, Log
<1> HIDE DEF IInv, TypeOK, WaitingInv, EarlyInv, FailureInv, FatalInv, CodeInv, ExitIsExplained,
        Level, Early, In, calls, log, autodie
<1> QED
  BY <1>1, <1>2, <1>3, <1>4 DEF Called

(* A call in progress goes on.                                             *)
LEMMA GoesInv == ASSUME IInv, Goes PROVE IInv'
<1> USE NullAssumption DEF IInv, TypeOK, WaitingInv, EarlyInv, FailureInv, FatalInv, CodeInv,
        ExitIsExplained, Level, Early, In, Return, calls, log, autodie
<1>1. CASE LogAllocates
  BY <1>1 DEF LogAllocates
<1>2. CASE BufferReturns
  BY <1>2 DEF BufferReturns
<1>3. CASE LogWrites
  BY <1>3 DEF LogWrites
<1>4. CASE FatalExits
  BY <1>4 DEF FatalExits
<1>5. CASE AllocReturns
  BY <1>5 DEF AllocReturns
<1>6. CASE AllocFails
  BY <1>6 DEF AllocFails
<1>7. CASE StrndupFails
  BY <1>7 DEF StrndupFails, Log
<1>8. CASE Invoke
  BY <1>8 DEF Invoke
<1>9. CASE Handler
  BY <1>9 DEF Handler, HandlerStatus
<1> HIDE DEF IInv, TypeOK, WaitingInv, EarlyInv, FailureInv, FatalInv, CodeInv, ExitIsExplained,
        Level, Early, In, Return, calls, log, autodie
<1> QED
  BY <1>1, <1>2, <1>3, <1>4, <1>5, <1>6, <1>7, <1>8, <1>9 DEF Goes

LEMMA StepInv == IInv /\ [Next]_vars => IInv'
<1> SUFFICES ASSUME IInv, [Next]_vars PROVE IInv'
  OBVIOUS
<1>1. CASE UNCHANGED vars
  BY <1>1 DEF vars, calls, log, autodie, IInv, TypeOK, WaitingInv, EarlyInv, FailureInv, FatalInv,
     CodeInv, ExitIsExplained
<1> QED
  BY <1>1, MainInv, CalledInv, GoesInv DEF Next

THEOREM Invariance == Spec => []IInv
BY InitInv, StepInv, PTL DEF Spec

(* However the program is cut short, reporting the reason allocates        *)
(* nothing.                                                                *)
THEOREM ReportingNeedsNoMemory == Spec => []NoAllocAfterFailure
<1>1. IInv => NoAllocAfterFailure
  BY DEF IInv, TypeOK, WaitingInv, EarlyInv, FailureInv, NoAllocAfterFailure
<1> QED
  BY <1>1, Invariance, PTL

(* An exit status is never given for a reason that is not there: lack of   *)
(* memory, success or a fatal message; and the report of a failure does    *)
(* not fail, which would abort.                                            *)
THEOREM ExitsAreExplained == Spec => []ExitIsExplained
<1>1. IInv => ExitIsExplained
  BY DEF IInv
<1> QED
  BY <1>1, Invariance, PTL

(* Type correctness.                                                       *)
THEOREM TypeCorrect == Spec => []TypeOK
<1>1. IInv => TypeOK
  BY DEF IInv
<1> QED
  BY <1>1, Invariance, PTL
=============================================================================
