------------------------------ MODULE Autodie ------------------------------
(***************************************************************************)
(* How the program ends: util_fatal() and the checked allocations of       *)
(* external/autodie.c, whose handler is in main.c, and the logging that    *)
(* both use and that itself allocates: log__level_args() gets its buffer   *)
(* with the first message that is not filtered out.                        *)
(*                                                                         *)
(* main() goes through stages, in each of which it makes calls.  Any       *)
(* allocation may fail; the error is always ENOMEM, since the program      *)
(* never asks for zero bytes.                                              *)
(***************************************************************************)
EXTENDS Integers

CONSTANT NULL

ASSUME NullAssumption == NULL \notin Int /\ NULL \notin {"alloc", "strndup"}

(* enum log_level (of the levels below info one is enough), and enum       *)
(* exit_value.                                                             *)
trace == 1
info == 5
warn == 7
error == 8
fatal == 100
Level == {trace, info, warn, error, fatal}

(* No message of the program's own has another level, but for the fatal    *)
(* one of util_fatal().                                                    *)
OwnLevel == {trace, info, warn}

exit_ok == 0
exit_fatal == 1
exit_nomem == 100

(* The status of a process that abort() has ended, as a shell sees it.     *)
aborted == 134

(* What main() calls in a stage: checked allocations ("alloc": util_zalloc *)
(* and ad_strdup), util_strndup(), messages, hamlib, which logs through    *)
(* hamlib_debug_handler(), and util_fatal().                               *)
Calls ==
  [bootstrap |-> {"log", "alloc"},
   args      |-> {"log", "fatal"},
   load      |-> {"log", "fatal"},
   plugins   |-> {"log", "alloc"},
   sections  |-> {"log", "alloc"},
   loop      |-> {"log", "alloc", "strndup", "hamlib", "fatal"},
   cleanup   |-> {"log", "fatal"}]

NextStage ==
  [bootstrap |-> "args", args |-> "load", load |-> "plugins", plugins |-> "sections",
   sections |-> "loop", loop |-> "cleanup", cleanup |-> "end"]

Early == {"start", "hello", "register"}

VARIABLES
  stage,
  call, waiting,  \* the innermost call in progress, and who waits for it
  level,          \* of the message that is being logged
  current_level, message_buf,   \* log.c; message_buf: it has been allocated
  die_handler, inside_autodie,  \* autodie.c; die_handler: it is registered
  failed,         \* history: the kind of allocation that has failed
  last,           \* history: the level of the last message that was written
  code            \* exit status

calls == <<call, waiting>>
log == <<current_level, message_buf, last>>
autodie == <<die_handler, inside_autodie, failed>>
vars == <<stage, calls, level, log, autodie, code>>

TypeOK ==
  /\ stage \in Early \cup DOMAIN Calls \cup {"end"}
  /\ call \in {"main", "log", "buffer", "alloc", "strndup", "fatal", "die", "handler"}
  /\ waiting \in {"main", "log", "fatal"}
  /\ level \in Level
  /\ current_level \in Level
  /\ message_buf \in BOOLEAN
  /\ die_handler \in BOOLEAN
  /\ inside_autodie \in BOOLEAN
  /\ failed \in {NULL, "alloc", "strndup"}
  /\ last \in Level \cup {NULL}
  /\ code \in {exit_ok, exit_fatal, exit_nomem, aborted, NULL}

Init ==
  /\ stage = "start"
  /\ call = "main"
  /\ waiting = "main"
  /\ level = trace
  /\ current_level = warn
  /\ message_buf = FALSE
  /\ die_handler = FALSE
  /\ inside_autodie = FALSE
  /\ failed = NULL
  /\ last = NULL
  /\ code = NULL
-----------------------------------------------------------------------------
In(c) == code = NULL /\ call = c

Return ==
  /\ call' = waiting
  /\ waiting' = "main"

(* log__level_va() and log__level_args() of a message that caller waits    *)
(* for.                                                                    *)
Log(l, caller) ==
  /\ level' = l
  /\ IF l < current_level THEN call' = caller /\ waiting' = "main"
                          ELSE call' = "log" /\ waiting' = caller

(* main() begins with log_set_current_level(); the variant does not.       *)
DefaultLevel == current_level
FirstLevel == trace

Start ==
  /\ stage = "start" /\ In("main")
  /\ stage' = "hello"
  /\ current_level' = FirstLevel
  /\ UNCHANGED <<calls, level, message_buf, last, autodie, code>>

(* log_info("righack is starting")                                         *)
Hello ==
  /\ stage = "hello" /\ In("main")
  /\ stage' = "register"
  /\ Log(info, "main")
  /\ UNCHANGED <<log, autodie, code>>

(* bootstrap() begins with autodie_register_handler().                     *)
Register ==
  /\ stage = "register" /\ In("main")
  /\ stage' = "bootstrap"
  /\ die_handler' = TRUE
  /\ UNCHANGED <<calls, level, log, inside_autodie, failed, code>>

(* The rest of main(), from stage to stage.                                *)
Advance ==
  /\ stage \in DOMAIN Calls /\ In("main")
  /\ stage' = NextStage[stage]
  /\ code' = IF stage = "cleanup" THEN exit_ok ELSE NULL
  /\ UNCHANGED <<calls, level, log, autodie>>

May(c) == stage \in DOMAIN Calls /\ In("main") /\ c \in Calls[stage]

LogsMessage(l) ==
  /\ May("log")
  /\ Log(l, "main")
  /\ UNCHANGED <<stage, log, autodie, code>>

Allocates(c) ==
  /\ May(c)
  /\ call' = c
  /\ UNCHANGED <<stage, waiting, level, log, autodie, code>>

(* util_fatal()                                                            *)
Dies ==
  /\ May("fatal")
  /\ Log(fatal, "fatal")
  /\ UNCHANGED <<stage, log, autodie, code>>

(* hamlib_debug_handler(): hamlib's errors and warnings (RIG_DEBUG_WARN is *)
(* its level); the format is copied before it is logged.                   *)
HamlibLogs(l) ==
  /\ May("hamlib")
  /\ l >= current_level
  /\ level' = l
  /\ call' = "alloc"
  /\ waiting' = "log"
  /\ UNCHANGED <<stage, log, autodie, code>>

-----------------------------------------------------------------------------
(* log__level_args() gets its buffer, the first time.                      *)
LogAllocates ==
  /\ In("log")
  /\ ~message_buf
  /\ call' = "buffer"
  /\ UNCHANGED <<stage, waiting, level, log, autodie, code>>

BufferReturns ==
  /\ In("buffer")
  /\ message_buf' = TRUE
  /\ call' = "log"
  /\ UNCHANGED <<stage, waiting, level, current_level, last, autodie, code>>

LogWrites ==
  /\ In("log")
  /\ message_buf
  /\ last' = level
  /\ Return
  /\ UNCHANGED <<stage, level, current_level, message_buf, autodie, code>>

(* util__fatal_va(), after its message.                                    *)
FatalExits ==
  /\ In("fatal")
  /\ code' = exit_fatal
  /\ UNCHANGED <<stage, calls, level, log, autodie>>

(* ad_calloc(), ad_strdup() and util_strndup() return.                     *)
AllocReturns ==
  /\ In("alloc") \/ In("strndup")
  /\ Return
  /\ UNCHANGED <<stage, level, log, autodie, code>>

(* A failed ad_calloc() or ad_strdup() calls autodie_invoke().             *)
AllocFails ==
  /\ In("alloc") \/ In("buffer")
  /\ failed' = "alloc"
  /\ call' = "die"
  /\ UNCHANGED <<stage, waiting, level, log, die_handler, inside_autodie, code>>

(* util_strndup() fails: util_fatal(), with its message.                   *)
StrndupFails ==
  /\ In("strndup")
  /\ failed' = "strndup"
  /\ Log(fatal, "fatal")
  /\ UNCHANGED <<stage, log, die_handler, inside_autodie, code>>

(* autodie__invoke(): a second entry aborts; without a handler it exits by *)
(* itself.  It writes to stderr without the help of log.c.                 *)
Invoke ==
  /\ In("die")
  /\ inside_autodie' = TRUE
  /\ call' = IF ~inside_autodie /\ die_handler THEN "handler" ELSE "die"
  /\ code' = IF inside_autodie THEN aborted ELSE IF die_handler THEN NULL ELSE exit_fatal
  /\ UNCHANGED <<stage, waiting, level, log, die_handler, failed>>

(* autodie_handler() of ENOMEM, which is the only error it is called with, *)
(* exits, so that autodie__invoke() does not get to its abort() of a       *)
(* handler that returns.  One variant treats it as any other error, one    *)
(* exits with errno; and one allocates a copy of the message first.        *)
HandlerStatusOfAnyError == exit_fatal
HandlerStatusIsErrno == 12
HandlerStatus == exit_nomem

HandlerAllocates ==
  /\ In("handler")
  /\ call' = "alloc"
  /\ UNCHANGED <<stage, waiting, level, log, autodie, code>>

Handler ==
  /\ In("handler")
  /\ code' = HandlerStatus
  /\ UNCHANGED <<stage, calls, level, log, autodie>>

Main == Start \/ Hello \/ Register \/ Advance

Called ==
  \/ \E l \in OwnLevel : LogsMessage(l)
  \/ \E c \in {"alloc", "strndup"} : Allocates(c)
  \/ \E l \in {warn, error} : HamlibLogs(l)
  \/ Dies

Goes ==
  \/ LogAllocates \/ BufferReturns \/ LogWrites \/ FatalExits
  \/ AllocReturns \/ AllocFails \/ StrndupFails \/ Invoke \/ Handler

Next == Main \/ Called \/ Goes

Spec == Init /\ [][Next]_vars

(* A call that is in progress goes on.                                     *)
FairSpec == Spec /\ WF_vars(Goes)
-----------------------------------------------------------------------------
(* Reporting an error needs no memory that is not there: once an           *)
(* allocation has failed the program makes no other, whether it is         *)
(* reported by autodie or through log.c, which needs the buffer of an      *)
(* earlier message.                                                        *)
NoAllocAfterFailure ==
  failed # NULL /\ code = NULL =>
    /\ call \notin {"alloc", "strndup", "buffer"}
    /\ call = "log" => message_buf

(* Every exit has its reason: exit_nomem a checked allocation that has     *)
(* failed, exit_ok a run in which none has, exit_fatal a fatal message     *)
(* that was written, or a failure that autodie reports by itself before    *)
(* there is a handler.  The converse does not hold: when util_strndup()    *)
(* finds no memory, the program exits with exit_fatal.  And autodie is     *)
(* never entered a second time, which would abort.                         *)
ExitIsExplained ==
  /\ code = exit_nomem => failed = "alloc"
  /\ code = exit_ok => failed = NULL
  /\ code = exit_fatal => last = fatal \/ (failed = "alloc" /\ ~die_handler)
  /\ code # aborted

(* autodie.h: "When ever a failure happens execution of the program is     *)
(* stopped", whatever main() was going to do next, and by an exit: the     *)
(* report of a failure does not fail in turn.                              *)
FailureStops == failed # NULL ~> code \in {exit_fatal, exit_nomem}

(* The comment in autodie_handler() says that when memory allocation has   *)
(* failed the error handling is kept away from the logging.                *)
FailureIsNotLogged == failed # NULL => call \notin {"log", "fatal"}
=============================================================================
