------------------------------ MODULE Handles ------------------------------
(***************************************************************************)
(* The life of libuv's handles in runloop.c: the timers and polls that it  *)
(* offers to modules and drivers, its own prepare and signal handles, and  *)
(* runloop_cleanup(), which has to leave the loop empty.                   *)
(*                                                                         *)
(* A timer or poll is two allocations: the struct that the client holds    *)
(* and a private one, whose first member is libuv's handle.  uv_close()    *)
(* only marks the handle: the callback it was given is called later in the *)
(* same or the next run of the loop, and frees the memory.  Handles that a *)
(* client destroys are closed with their own callback; what is left when   *)
(* the program ends is closed by a walk over all handles, with a callback  *)
(* that knows nothing about the struct around them.                        *)
(*                                                                         *)
(* The client is any code that calls the functions of runloop.h, before    *)
(* the loop, in a callback, or when its module is stopped, but not for     *)
(* what it has destroyed.  uv_run() goes on as long as a handle is active  *)
(* or closing.                                                             *)
(***************************************************************************)
CONSTANTS Timer, Poll,
          Prepare, Signal,   \* run_once_prepare, int_signal
          NULL

Client == Timer \cup Poll
Handle == Client \cup {Prepare, Signal}

ASSUME HandleAssumption ==
  /\ Timer \cap Poll = {}
  /\ Prepare # Signal
  /\ Prepare \notin Client
  /\ Signal \notin Client
  /\ NULL \notin Client \cup {"own", "cleanup_handle_cb", "once", "repeating", "run", "jobs"}

VARIABLES
  uv,        \* what libuv knows of a handle
  mem,       \* what is allocated of it: "both", only the "struct", or "none"
  closer,    \* the callback uv_close() was given
  repeats,   \* timers that libuv starts again when they have fired
  armed,     \* history: what the client asked for and was not told the end of
  callback,  \* the client's callback that is running
  pc,        \* the phase of the program
  damaged    \* memory was freed twice

memory == <<mem, closer, damaged>>
timers == <<repeats, armed>>
vars == <<uv, memory, timers, callback, pc>>

TypeOK ==
  /\ uv \in [Handle -> {"none", "inactive", "active", "closing"}]
  /\ mem \in [Handle -> {"none", "struct", "both"}]
  /\ closer \in [Handle -> {"own", "cleanup_handle_cb", NULL}]
  /\ repeats \subseteq Timer
  /\ armed \in [Timer -> {"once", "repeating", NULL}]
  /\ callback \in {"run", "jobs", NULL} \cup Client
  /\ pc \in {"setup", "loop", "stop modules", "drain", "close", "closed", "busy", "fatal"}
  /\ damaged \in BOOLEAN

(* After runloop_bootstrap().                                              *)
Init ==
  /\ uv = [h \in Handle |-> IF h = Prepare THEN "inactive" ELSE "none"]
  /\ mem = [h \in Handle |-> IF h = Prepare THEN "both" ELSE "none"]
  /\ closer = [h \in Handle |-> NULL]
  /\ repeats = {}
  /\ armed = [t \in Timer |-> NULL]
  /\ callback = NULL
  /\ pc = "setup"
  /\ damaged = FALSE

-----------------------------------------------------------------------------
InLoop == pc \in {"loop", "drain", "close"} /\ callback = NULL
Becomes(h, state) == uv' = [uv EXCEPT ![h] = state]

(* The client is in control, and uses only what it has not destroyed.      *)
MayCall == pc \in {"setup", "stop modules"} \/ (pc \in {"loop", "drain"} /\ callback # NULL)
Has(h) == MayCall /\ uv[h] \in {"inactive", "active"}

Fatal ==
  /\ pc' = "fatal"
  /\ UNCHANGED <<uv, memory, timers, callback>>

Create(h) ==
  /\ MayCall
  /\ uv[h] = "none"
  /\ mem[h] = "none"
  /\ Becomes(h, "inactive")
  /\ mem' = [mem EXCEPT ![h] = "both"]
  /\ UNCHANGED <<closer, timers, callback, pc, damaged>>

(* runloop_timer_create(), runloop_poll_create()                           *)
TimerCreate(t) == Create(t)
PollCreate(p) == Create(p)

(* libuv is given the repeat time with the initial one.  The variant does  *)
(* not pass it on.                                                         *)
StartsOnce(t, repeat) == repeats' = repeats \ {t}
Starts(t, repeat) == repeats' = IF repeat THEN repeats \cup {t} ELSE repeats \ {t}

(* runloop_timer_schedule() of an active timer starts it anew.             *)
TimerSchedule(t, repeat) ==
  /\ Has(t)
  /\ Becomes(t, "active")
  /\ Starts(t, repeat)
  /\ armed' = [armed EXCEPT ![t] = IF repeat THEN "repeating" ELSE "once"]
  /\ UNCHANGED <<memory, callback, pc>>

(* runloop_timer_reset(): nothing changes but the time at which it fires,  *)
(* unless it is too late.                                                  *)
TimerReset(t) ==
  /\ Has(t)
  /\ uv[t] = "inactive"
  /\ Fatal

(* runloop_timer_cancel()                                                  *)
TimerCancel(t) ==
  /\ Has(t)
  /\ \/ /\ uv[t] = "active"
        /\ Becomes(t, "inactive")
        /\ armed' = [armed EXCEPT ![t] = NULL]
        /\ UNCHANGED <<memory, repeats, callback, pc>>
     \/ uv[t] = "inactive" /\ Fatal

(* runloop_poll_start(), which libuv takes for a stop if none of the       *)
(* events is one it knows.                                                 *)
PollStart(p, some) ==
  /\ Has(p)
  /\ Becomes(p, IF some THEN "active" ELSE "inactive")
  /\ UNCHANGED <<memory, timers, callback, pc>>

(* The callback that destroy gives to uv_close(): runloop_timer_close_cb,  *)
(* runloop_poll_close_cb.  The variant gives it the one next to it.        *)
RunCallback(h) == "run"
CloseCallback(h) == "own"

(* runloop_timer_destroy(), runloop_poll_destroy()                         *)
Destroy(h) ==
  /\ Has(h)
  /\ \/ /\ uv[h] = "inactive"
        /\ Becomes(h, "closing")
        /\ closer' = [closer EXCEPT ![h] = CloseCallback(h)]
        /\ UNCHANGED <<mem, timers, callback, pc, damaged>>
     \/ uv[h] = "active" /\ Fatal

(* runloop_run_later()                                                     *)
RunLater ==
  /\ MayCall
  /\ Becomes(Prepare, "active")
  /\ UNCHANGED <<memory, timers, callback, pc>>

-----------------------------------------------------------------------------
Calls(what) == callback' = what

(* runloop_timer_run_cb(): a timer that does not repeat is inactive by the *)
(* time the client is told, who then knows that there is nothing to cancel.*)
TimerFires(t) ==
  /\ InLoop
  /\ uv[t] = "active"
  /\ Becomes(t, IF t \in repeats THEN "active" ELSE "inactive")
  /\ armed' = [armed EXCEPT ![t] = IF @ = "once" THEN NULL ELSE @]
  /\ Calls("run")
  /\ UNCHANGED <<memory, repeats, pc>>

(* runloop_poll_run_cb()                                                   *)
PollEvents(p) ==
  /\ InLoop
  /\ uv[p] = "active"
  /\ Calls("run")
  /\ UNCHANGED <<uv, memory, timers, pc>>

PollFails(p) ==
  /\ InLoop
  /\ uv[p] = "active"
  /\ Fatal

(* run_once_prepare_cb() calls the jobs.                                   *)
RunJobs ==
  /\ InLoop
  /\ uv[Prepare] = "active"
  /\ Calls("jobs")
  /\ UNCHANGED <<uv, memory, timers, pc>>

(* runloop_timer_close_cb() and runloop_poll_close_cb() call the client.   *)
TellsClient(h) ==
  /\ InLoop
  /\ uv[h] = "closing"
  /\ closer[h] = "own"
  /\ Calls(h)
  /\ UNCHANGED <<uv, memory, timers, pc>>

(* run_once_prepare_cb() ends with uv_prepare_stop(), which the variant    *)
(* leaves out.                                                             *)
PrepareGoesOn == "active"
PrepareAfterJobs == "inactive"

(* A callback returns.                                                     *)
Returns ==
  /\ pc # "fatal"
  /\ callback \in {"run", "jobs"}
  /\ callback' = NULL
  /\ uv' = IF callback = "jobs" THEN [uv EXCEPT ![Prepare] = PrepareAfterJobs] ELSE uv
  /\ UNCHANGED <<memory, timers, pc>>

(* What is left of h when its close callback has done its part: the own    *)
(* one frees both allocations, cleanup_handle_cb the one the handle is in. *)
(* In the variant the own one forgets the struct.                          *)
FreedPrivate(h) == IF closer[h] = NULL THEN mem[h] ELSE IF h \in Client THEN "struct" ELSE "none"

Freed(h) ==
  CASE closer[h] = "own" -> "none"
    [] closer[h] = "cleanup_handle_cb" -> IF h \in Client THEN "struct" ELSE "none"
    [] closer[h] = NULL -> mem[h]

(* The close callback, if there is one, frees the memory, and libuv is     *)
(* done with the handle.                                                   *)
Closed(h) ==
  /\ pc # "fatal"
  /\ uv[h] = "closing"
  /\ callback = h \/ (InLoop /\ closer[h] # "own")
  /\ callback' = NULL
  /\ Becomes(h, "none")
  /\ mem' = [mem EXCEPT ![h] = Freed(h)]
  /\ closer' = [closer EXCEPT ![h] = NULL]
  /\ damaged' = (damaged \/ (closer[h] # NULL /\ mem[h] # "both"))
  /\ UNCHANGED <<timers, pc>>

-----------------------------------------------------------------------------
(* runloop_run()                                                           *)
EnterLoop ==
  /\ pc = "setup"
  /\ pc' = "loop"
  /\ Becomes(Signal, "active")
  /\ mem' = [mem EXCEPT ![Signal] = "both"]
  /\ UNCHANGED <<closer, timers, callback, damaged>>

(* runloop_cleanup() begins by closing int_signal, with no callback; the   *)
(* variant leaves it to the walk.                                          *)
SignalIsLeft == Becomes(Signal, "inactive")
SignalIsClosed == Becomes(Signal, "closing")

(* SIGINT: uv_run() and runloop_run() return, and runloop_cleanup() begins *)
(* with int_signal and module_stop_all().                                  *)
LeaveLoop ==
  /\ pc = "loop"
  /\ callback = NULL
  /\ pc' = "stop modules"
  /\ SignalIsClosed
  /\ UNCHANGED <<memory, timers, callback>>

(* module_stop_all() has returned: uv_run() for the first time.            *)
Drain ==
  /\ pc = "stop modules"
  /\ pc' = "drain"
  /\ UNCHANGED <<uv, memory, timers, callback>>

Alive == \E h \in Handle : uv[h] \in {"active", "closing"}

(* The handles that the walk closes: those that are not closing.  The      *)
(* variant takes the active ones.                                          *)
ActiveHandles == {h \in Handle : uv[h] = "active"}
LeftHandles == {h \in Handle : uv[h] \in {"inactive", "active"}}

(* uv_run() returns.  The variant does not wait for it.                    *)
DoesNotWait == TRUE
RunReturns == ~Alive

(* The first uv_run() returns, uv_walk() closes what is left.              *)
Walk ==
  /\ pc = "drain"
  /\ callback = NULL
  /\ RunReturns
  /\ pc' = "close"
  /\ uv' = [h \in Handle |-> IF h \in LeftHandles THEN "closing" ELSE uv[h]]
  /\ closer' = [h \in Handle |-> IF h \in LeftHandles THEN "cleanup_handle_cb" ELSE closer[h]]
  /\ UNCHANGED <<mem, timers, callback, damaged>>

(* The second uv_run() returns, uv_loop_close() succeeds if no handle is   *)
(* left, and int_signal is freed.                                          *)
CloseLoop ==
  /\ pc = "close"
  /\ ~Alive
  /\ \/ /\ \A h \in Handle : uv[h] = "none"
        /\ pc' = "closed"
        /\ mem' = [mem EXCEPT ![Signal] = "none"]
        /\ damaged' = (damaged \/ mem[Signal] # "both")
     \/ /\ \E h \in Handle : uv[h] # "none"
        /\ pc' = "busy"
        /\ UNCHANGED <<mem, damaged>>
  /\ UNCHANGED <<uv, closer, timers, callback>>

ClientStarts ==
  \/ \E t \in Timer : TimerCreate(t)
  \/ \E p \in Poll : PollCreate(p)
  \/ \E t \in Timer, repeat \in BOOLEAN : TimerSchedule(t, repeat)
  \/ \E p \in Poll, some \in BOOLEAN : PollStart(p, some)
  \/ RunLater

ClientStops ==
  \/ \E h \in Client : Destroy(h)
  \/ \E t \in Timer : TimerReset(t) \/ TimerCancel(t)

Loop ==
  \/ \E t \in Timer : TimerFires(t)
  \/ \E p \in Poll : PollEvents(p) \/ PollFails(p)
  \/ \E h \in Client : TellsClient(h)
  \/ \E h \in Handle : Closed(h)
  \/ RunJobs
  \/ Returns

Phases == EnterLoop \/ Drain \/ Walk \/ CloseLoop

Next == ClientStarts \/ ClientStops \/ Loop \/ Phases \/ LeaveLoop

Spec == Init /\ [][Next]_vars

(* libuv serves every handle, callbacks return, and cleanup goes on when   *)
(* it can.  Nothing is assumed of what clients call, of errors, or of      *)
(* SIGINT.                                                                 *)
Fairness ==
  /\ \A t \in Timer : SF_vars(TimerFires(t))
  /\ \A h \in Client : SF_vars(TellsClient(h))
  /\ \A h \in Handle : SF_vars(Closed(h))
  /\ SF_vars(RunJobs)
  /\ WF_vars(Returns)
  /\ WF_vars(Phases)

FairSpec == Spec /\ Fairness
-----------------------------------------------------------------------------
(* No handle that libuv may still touch sits in freed memory, and nothing  *)
(* is freed twice, whoever closes it: the client, the walk, or cleanup by  *)
(* hand as int_signal.                                                     *)
NoUseAfterFree ==
  /\ ~damaged
  /\ \A h \in Handle : uv[h] # "none" => mem[h] = "both"

(* After the first run in cleanup no client code is called any more: all   *)
(* that the second run does is to call cleanup_handle_cb.                  *)
ClientIsDone ==
  pc = "close" => \A h \in Handle : uv[h] = "closing" => closer[h] = "cleanup_handle_cb"

(* The loop is empty in the end, whatever clients have left behind, so     *)
(* that "could not cleanup runloop because it was not empty" is never      *)
(* reached; and all that leaks are the structs of their own handles.       *)
LoopIsEmpty ==
  /\ pc # "busy"
  /\ pc = "closed" => \A h \in Handle : mem[h] # "none" => h \in Client /\ mem[h] = "struct"

(* A client that keeps count of its timers can cancel or reset one without *)
(* the fatal "not active": a timer that was scheduled stays active until   *)
(* it is cancelled or, if it does not repeat, the client is told that it   *)
(* has fired.  Only the walk takes one away.                               *)
ArmedIsActive ==
  pc \notin {"close", "closed", "busy"} =>
    \A t \in Timer : armed[t] # NULL => uv[t] = "active"

(* The second run of the loop in cleanup comes to an end, after as many    *)
(* steps as there are handles left: none of its steps does anything but to *)
(* close one of them for good.  No timer fires, no poll has an event or    *)
(* fails, and no client is told.                                           *)
Closing == {h \in Handle : uv[h] = "closing"}

SecondRunOnlyCloses ==
  [][pc = "close" =>
       \/ pc' = "closed" /\ Closing = {}
       \/ \E h \in Closing : Closing' = Closing \ {h} /\ UNCHANGED <<pc, callback>>]_vars

(* The walk of cleanup never takes over a handle that its client has       *)
(* destroyed: the handle keeps its own callback until the client has been  *)
(* told, and then both allocations are freed at once.                      *)
DestroyIsKept ==
  [][\A h \in Client :
       closer[h] = "own" /\ closer'[h] # "own" => callback = h /\ mem'[h] = "none"]_vars

(* A handle that was destroyed is freed, after its client has been told,   *)
(* even if SIGINT comes in between.                                        *)
DestroyedIsFreed ==
  \A h \in Client : closer[h] = "own" ~> mem[h] = "none" \/ pc = "fatal"

(* Cleanup ends, or runs into a fatal error, if clients come to rest and   *)
(* leave no poll and no repeating timer active.                            *)
QuietCleanupEnds ==
  <>(pc = "stop modules") /\ <>[][~ClientStarts]_vars
    /\ <>[](\A h \in Poll \cup repeats : uv[h] # "active")
    => <>(pc \in {"closed", "fatal"})

(* The comment before the walk in runloop_cleanup() says that handles that *)
(* are not closing are closed.                                             *)
LeftIsClosed == pc = "drain" ~> pc \in {"close", "fatal"}
=============================================================================
