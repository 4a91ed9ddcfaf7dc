--------------------------- MODULE HandlesProofs ---------------------------
(***************************************************************************)
(* Proofs about Handles, for any number of timers and polls.               *)
(***************************************************************************)
EXTENDS Handles, TLAPS

AfterWalk == {"close", "closed", "busy"}

(* int_signal lives from runloop_run() to the end of runloop_cleanup(),    *)
(* which closes it before anything else and frees it by hand.              *)
SignalInv ==
  /\ closer[Signal] = NULL
  /\ pc = "setup" => uv[Signal] = "none" /\ mem[Signal] = "none"
  /\ pc \in {"loop", "stop modules", "drain", "close"} => mem[Signal] = "both"
  /\ pc \in {"stop modules", "drain", "close"} => uv[Signal] \in {"closing", "none"}
  /\ pc = "closed" => mem[Signal] = "none"

(* Who closes a handle, and what is left of it.                            *)
CloserInv ==
  \A h \in Client \cup {Prepare} :
    /\ closer[h] # NULL <=> uv[h] = "closing"
    /\ closer[h] = "own" => h \in Client
    /\ closer[h] = "cleanup_handle_cb" => pc \in AfterWalk
    /\ uv[h] = "none" => mem[h] = "none" \/ (h \in Client /\ mem[h] = "struct")

(* The second run of the loop has nothing to do but to close handles.      *)
WalkInv ==
  /\ pc \in AfterWalk => \A h \in Handle : uv[h] \in {"none", "closing"}
  /\ pc = "closed" => \A h \in Handle : uv[h] = "none"
  /\ pc \in AfterWalk => callback = NULL
  /\ pc \notin AfterWalk => uv[Prepare] \in {"inactive", "active"}

(* What libuv makes of the request of a client.                            *)
TimerInv == \A t \in Timer : armed[t] = "repeating" => t \in repeats

(* The inductive invariant.                                                *)
IInv ==
  /\ TypeOK
  /\ SignalInv
  /\ CloserInv
  /\ WalkInv
  /\ TimerInv
  /\ NoUseAfterFree
  /\ ClientIsDone
  /\ ArmedIsActive
  /\ pc # "busy"

USE HandleAssumption

LEMMA InitInv == Init => IInv
<1> SUFFICES ASSUME Init PROVE IInv
  OBVIOUS
<1> USE DEF Init, Handle, Client
<1>1. TypeOK
  BY DEF TypeOK
<1>2. SignalInv /\ CloserInv
  BY DEF SignalInv, CloserInv
<1>3. WalkInv /\ TimerInv
  BY DEF WalkInv, TimerInv, AfterWalk
<1>4. NoUseAfterFree /\ ClientIsDone /\ ArmedIsActive
  BY DEF NoUseAfterFree, ClientIsDone, ArmedIsActive
<1> QED
  BY <1>1, <1>2, <1>3, <1>4 DEF IInv

(* A new handle finds no trace of an earlier one.                          *)
LEMMA CreateInv ==
  ASSUME IInv, NEW h \in Client, Create(h)
  PROVE  IInv'
<1> USE DEF IInv, Create, MayCall, Becomes, memory, timers, vars
<1>1. TypeOK'
  BY DEF TypeOK, Handle, Client
<1>2. SignalInv'
  BY DEF TypeOK, SignalInv, AfterWalk, Handle, Client
<1>3. CloserInv'
  BY DEF TypeOK, SignalInv, CloserInv, AfterWalk, Handle, Client
<1>4. WalkInv' /\ ClientIsDone' /\ pc' # "busy"
  BY DEF TypeOK, SignalInv, CloserInv, WalkInv, ClientIsDone, AfterWalk, Handle, Client
<1>5. TimerInv' /\ ArmedIsActive'
  BY DEF TypeOK, TimerInv, ArmedIsActive, AfterWalk, Handle, Client
<1>6. NoUseAfterFree'
  BY DEF TypeOK, SignalInv, NoUseAfterFree, Handle, Client
<1> QED
  BY <1>1, <1>2, <1>3, <1>4, <1>5, <1>6

(* What the client asks for is what libuv is told.                         *)
LEMMA TimerScheduleInv ==
  ASSUME IInv, NEW t \in Timer, NEW repeat \in BOOLEAN, TimerSchedule(t, repeat)
  PROVE  IInv'
<1> USE DEF IInv, TimerSchedule, Starts, Has, MayCall, Becomes, memory, timers, vars
<1>1. TypeOK'
  BY DEF TypeOK, Handle, Client
<1>2. SignalInv'
  BY DEF TypeOK, SignalInv, AfterWalk, Handle, Client
<1>3. CloserInv'
  BY DEF TypeOK, SignalInv, CloserInv, AfterWalk, Handle, Client
<1>4. WalkInv' /\ ClientIsDone' /\ pc' # "busy"
  BY DEF TypeOK, SignalInv, CloserInv, WalkInv, ClientIsDone, AfterWalk, Handle, Client
<1>5. TimerInv' /\ ArmedIsActive'
  BY DEF TypeOK, TimerInv, ArmedIsActive, AfterWalk, Handle, Client
<1>6. NoUseAfterFree'
  BY DEF TypeOK, SignalInv, NoUseAfterFree, Handle, Client
<1> QED
  BY <1>1, <1>2, <1>3, <1>4, <1>5, <1>6

LEMMA PollStartInv ==
  ASSUME IInv, NEW p \in Poll, NEW some \in BOOLEAN, PollStart(p, some)
  PROVE  IInv'
<1> USE DEF IInv, PollStart, Has, MayCall, Becomes, memory, timers, vars
<1>1. TypeOK'
  BY DEF TypeOK, Handle, Client
<1>2. SignalInv'
  BY DEF TypeOK, SignalInv, AfterWalk, Handle, Client
<1>3. CloserInv'
  BY DEF TypeOK, SignalInv, CloserInv, AfterWalk, Handle, Client
<1>4. WalkInv' /\ ClientIsDone' /\ pc' # "busy"
  BY DEF TypeOK, SignalInv, CloserInv, WalkInv, ClientIsDone, AfterWalk, Handle, Client
<1>5. TimerInv' /\ ArmedIsActive'
  BY DEF TypeOK, TimerInv, ArmedIsActive, AfterWalk, Handle, Client
<1>6. NoUseAfterFree'
  BY DEF TypeOK, SignalInv, NoUseAfterFree, Handle, Client
<1> QED
  BY <1>1, <1>2, <1>3, <1>4, <1>5, <1>6

(* run_once_prepare is there for every job.                                *)
LEMMA RunLaterInv ==
  ASSUME IInv, RunLater
  PROVE  IInv'
<1> USE DEF IInv, RunLater, MayCall, Becomes, memory, timers, vars
<1>1. TypeOK'
  BY DEF TypeOK, Handle, Client
<1>2. SignalInv'
  BY DEF TypeOK, SignalInv, AfterWalk, Handle, Client
<1>3. CloserInv'
  BY DEF TypeOK, SignalInv, CloserInv, WalkInv, AfterWalk, Handle, Client
<1>4. WalkInv' /\ ClientIsDone' /\ pc' # "busy"
  BY DEF TypeOK, SignalInv, CloserInv, WalkInv, ClientIsDone, AfterWalk, Handle, Client
<1>5. TimerInv' /\ ArmedIsActive'
  BY DEF TypeOK, TimerInv, ArmedIsActive, AfterWalk, Handle, Client
<1>6. NoUseAfterFree'
  BY DEF TypeOK, SignalInv, WalkInv, NoUseAfterFree, AfterWalk, Handle, Client
<1> QED
  BY <1>1, <1>2, <1>3, <1>4, <1>5, <1>6

(* A fatal error leaves everything as it is.                               *)
LEMMA FatalInv ==
  ASSUME IInv, Fatal, pc \notin AfterWalk
  PROVE  IInv'
<1> USE DEF IInv, Fatal, memory, timers, vars
<1>1. TypeOK'
  BY DEF TypeOK, Handle, Client
<1>2. SignalInv'
  BY DEF TypeOK, SignalInv, AfterWalk, Handle, Client
<1>3. CloserInv'
  BY DEF TypeOK, SignalInv, CloserInv, AfterWalk, Handle, Client
<1>4. WalkInv' /\ ClientIsDone' /\ pc' # "busy"
  BY DEF TypeOK, SignalInv, CloserInv, WalkInv, ClientIsDone, AfterWalk, Handle, Client
<1>5. TimerInv' /\ ArmedIsActive'
  BY DEF TypeOK, TimerInv, ArmedIsActive, AfterWalk, Handle, Client
<1>6. NoUseAfterFree'
  BY DEF TypeOK, SignalInv, NoUseAfterFree, Handle, Client
<1> QED
  BY <1>1, <1>2, <1>3, <1>4, <1>5, <1>6

LEMMA TimerCancelInv ==
  ASSUME IInv, NEW t \in Timer, TimerCancel(t), ~Fatal
  PROVE  IInv'
<1>0. uv[t] = "active" /\ uv' = [uv EXCEPT ![t] = "inactive"] /\ armed' = [armed EXCEPT ![t] = NULL]
       /\ UNCHANGED <<mem, closer, damaged, repeats, callback, pc>> /\ pc \notin AfterWalk
  BY DEF TimerCancel, Has, MayCall, Becomes, memory, timers, AfterWalk
<1> USE <1>0
<1> USE DEF IInv, memory, timers, vars
<1>1. TypeOK'
  BY DEF TypeOK, Handle, Client
<1>2. SignalInv'
  BY DEF TypeOK, SignalInv, AfterWalk, Handle, Client
<1>3. CloserInv'
  BY DEF TypeOK, SignalInv, CloserInv, AfterWalk, Handle, Client
<1>4. WalkInv' /\ ClientIsDone' /\ pc' # "busy"
  BY DEF TypeOK, SignalInv, CloserInv, WalkInv, ClientIsDone, AfterWalk, Handle, Client
<1>5. TimerInv' /\ ArmedIsActive'
  BY DEF TypeOK, TimerInv, ArmedIsActive, AfterWalk, Handle, Client
<1>6. NoUseAfterFree'
  BY DEF TypeOK, SignalInv, NoUseAfterFree, Handle, Client
<1> QED
  BY <1>1, <1>2, <1>3, <1>4, <1>5, <1>6

LEMMA DestroyInv ==
  ASSUME IInv, NEW h \in Client, Destroy(h), ~Fatal
  PROVE  IInv'
<1>0. uv[h] = "inactive" /\ uv' = [uv EXCEPT ![h] = "closing"] /\ closer' = [closer EXCEPT ![h] = "own"]
       /\ UNCHANGED <<mem, repeats, armed, callback, pc, damaged>> /\ pc \notin AfterWalk
  BY DEF Destroy, CloseCallback, Has, MayCall, Becomes, memory, timers, AfterWalk
<1> USE <1>0
<1> USE DEF IInv, memory, timers, vars
<1>1. TypeOK'
  BY DEF TypeOK, Handle, Client
<1>2. SignalInv'
  BY DEF TypeOK, SignalInv, AfterWalk, Handle, Client
<1>3. CloserInv'
  <2>1. uv'[h] = "closing" /\ closer'[h] = "own"
    BY DEF TypeOK, Handle
  <2>2. \A g \in Client \cup {Prepare} : g # h => uv'[g] = uv[g] /\ closer'[g] = closer[g]
    BY DEF TypeOK, Handle
  <2>3. NULL # "own"
    BY DEF Client
  <2> QED
    BY <2>1, <2>2, <2>3 DEF CloserInv
<1>4. WalkInv' /\ ClientIsDone' /\ pc' # "busy"
  BY DEF TypeOK, SignalInv, CloserInv, WalkInv, ClientIsDone, AfterWalk, Handle, Client
<1>5. TimerInv' /\ ArmedIsActive'
  BY DEF TypeOK, TimerInv, ArmedIsActive, AfterWalk, Handle, Client
<1>6. NoUseAfterFree'
  BY DEF TypeOK, SignalInv, NoUseAfterFree, Handle, Client
<1> QED
  BY <1>1, <1>2, <1>3, <1>4, <1>5, <1>6

LEMMA TimerFiresInv ==
  ASSUME IInv, NEW t \in Timer, TimerFires(t)
  PROVE  IInv'
<1> USE DEF IInv, TimerFires, Calls, InLoop, Becomes, memory, timers, vars
<1>1. TypeOK'
  BY DEF TypeOK, Handle, Client
<1>2. SignalInv' /\ CloserInv'
  BY DEF TypeOK, SignalInv, CloserInv, AfterWalk, Handle, Client
<1>3. WalkInv' /\ ClientIsDone' /\ pc' # "busy"
  BY DEF TypeOK, SignalInv, CloserInv, WalkInv, ClientIsDone, AfterWalk, Handle, Client
<1>4. TimerInv' /\ ArmedIsActive'
  BY DEF TypeOK, WalkInv, TimerInv, ArmedIsActive, AfterWalk, Handle, Client
<1>5. NoUseAfterFree'
  BY DEF TypeOK, NoUseAfterFree, Handle, Client
<1> QED
  BY <1>1, <1>2, <1>3, <1>4, <1>5

LEMMA CallsInv ==
  ASSUME IInv, RunJobs \/ (\E h \in Client : TellsClient(h) \/ PollEvents(h))
  PROVE  IInv'
<1>0. UNCHANGED <<uv, mem, closer, damaged, repeats, armed, pc>>
  BY DEF TellsClient, PollEvents, RunJobs, Calls, InLoop, memory, timers
<1> USE <1>0
<1> USE DEF IInv, TellsClient, PollEvents, RunJobs, Calls, InLoop, memory, timers, vars
<1>1. TypeOK'
  BY DEF TypeOK, Handle, Client
<1>2. SignalInv'
  BY DEF TypeOK, SignalInv, AfterWalk, Handle, Client
<1>3. CloserInv'
  BY DEF TypeOK, SignalInv, CloserInv, AfterWalk, Handle, Client
<1>4. WalkInv' /\ ClientIsDone' /\ pc' # "busy"
  BY DEF TypeOK, SignalInv, CloserInv, WalkInv, ClientIsDone, AfterWalk, Handle, Client
<1>5. TimerInv' /\ ArmedIsActive'
  BY DEF TypeOK, TimerInv, ArmedIsActive, AfterWalk, Handle, Client
<1>6. NoUseAfterFree'
  BY DEF TypeOK, SignalInv, NoUseAfterFree, Handle, Client
<1> QED
  BY <1>1, <1>2, <1>3, <1>4, <1>5, <1>6

LEMMA ReturnsInv ==
  ASSUME IInv, Returns
  PROVE  IInv'
<1> USE DEF IInv, Returns, PrepareAfterJobs, memory, timers, vars
<1>1. TypeOK'
  BY DEF TypeOK, Handle, Client
<1>2. SignalInv'
  BY DEF TypeOK, SignalInv, AfterWalk, Handle, Client
<1>3. CloserInv'
  <2>1. UNCHANGED <<mem, closer, pc>>
    OBVIOUS
  <2>2. \A h \in Client : uv'[h] = uv[h]
    BY DEF TypeOK, Handle
  <2>3. uv'[Prepare] = uv[Prepare]
        \/ (uv[Prepare] \in {"inactive", "active"} /\ uv'[Prepare] = "inactive")
    BY DEF TypeOK, WalkInv, AfterWalk, Handle, Client
  <2> QED
    BY <2>1, <2>2, <2>3 DEF CloserInv
<1>4. WalkInv' /\ ClientIsDone' /\ pc' # "busy"
  BY DEF TypeOK, SignalInv, CloserInv, WalkInv, ClientIsDone, AfterWalk, Handle, Client
<1>5. TimerInv' /\ ArmedIsActive'
  BY DEF TypeOK, TimerInv, ArmedIsActive, AfterWalk, Handle, Client
<1>6. NoUseAfterFree'
  BY DEF TypeOK, SignalInv, WalkInv, NoUseAfterFree, AfterWalk, Handle, Client
<1> QED
  BY <1>1, <1>2, <1>3, <1>4, <1>5, <1>6

LEMMA ClosedInv ==
  ASSUME IInv, NEW h \in Handle, Closed(h)
  PROVE  IInv'
<1> USE DEF IInv, Closed, Freed, InLoop, Becomes, memory, timers, vars
<1>1. TypeOK'
  BY DEF TypeOK, Handle, Client
<1>2. SignalInv' /\ CloserInv'
  <2>1. /\ uv' = [uv EXCEPT ![h] = "none"] /\ mem' = [mem EXCEPT ![h] = Freed(h)]
        /\ closer' = [closer EXCEPT ![h] = NULL] /\ pc' = pc /\ uv[h] = "closing"
    OBVIOUS
  <2>2. \A g \in Handle : g # h => uv'[g] = uv[g] /\ mem'[g] = mem[g] /\ closer'[g] = closer[g]
    BY <2>1 DEF TypeOK
  <2>3. uv'[h] = "none" /\ closer'[h] = NULL /\ mem'[h] = Freed(h)
    BY <2>1 DEF TypeOK
  <2>4. Signal \in Handle /\ (\A g \in Client \cup {Prepare} : g \in Handle /\ g # Signal)
    BY DEF Handle, Client
  <2>5. SignalInv /\ CloserInv
    OBVIOUS
  <2>6. h # Signal => closer[h] \in {"own", "cleanup_handle_cb"} /\ h \in Client \cup {Prepare}
    <3>1. h # Signal => h \in Client \cup {Prepare}
      BY DEF Handle
    <3>2. closer[h] \in {NULL, "own", "cleanup_handle_cb"}
      BY DEF TypeOK
    <3> QED
      BY <2>1, <2>5, <3>1, <3>2 DEF CloserInv
  <2>7. h = Signal => mem'[h] = mem[h]
    BY <2>3, <2>5, <2>6 DEF SignalInv
  <2>8. h # Signal => mem'[h] = "none" \/ (h \in Client /\ mem'[h] = "struct")
    BY <2>3, <2>6
  <2> HIDE DEF IInv, Closed, Freed, InLoop, Becomes
  <2>9. SignalInv'
    <3>1. CASE h = Signal
      BY <2>1, <2>3, <2>5, <2>7, <3>1 DEF SignalInv
    <3>2. CASE h # Signal
      BY <2>1, <2>2, <2>4, <2>5, <3>2 DEF SignalInv
    <3> QED
      BY <3>1, <3>2
  <2>10. CloserInv'
    <3> SUFFICES ASSUME NEW g \in Client \cup {Prepare}
                 PROVE  /\ closer'[g] # NULL <=> uv'[g] = "closing"
                        /\ closer'[g] = "own" => g \in Client
                        /\ closer'[g] = "cleanup_handle_cb" => pc' \in AfterWalk
                        /\ uv'[g] = "none" => mem'[g] = "none" \/ (g \in Client /\ mem'[g] = "struct")
      BY DEF CloserInv
    <3>1. CASE g = h
      BY <2>3, <2>4, <2>8, <3>1
    <3>2. CASE g # h
      BY <2>1, <2>2, <2>4, <2>5, <3>2 DEF CloserInv
    <3> QED
      BY <3>1, <3>2
  <2> QED
    BY <2>9, <2>10
<1>3. WalkInv' /\ ClientIsDone' /\ pc' # "busy"
  BY DEF TypeOK, SignalInv, CloserInv, WalkInv, ClientIsDone, AfterWalk, Handle, Client
<1>4. TimerInv' /\ ArmedIsActive'
  BY DEF TypeOK, WalkInv, TimerInv, ArmedIsActive, AfterWalk, Handle, Client
<1>5. NoUseAfterFree'
  BY DEF TypeOK, SignalInv, CloserInv, WalkInv, NoUseAfterFree, AfterWalk, Handle, Client
<1> QED
  BY <1>1, <1>2, <1>3, <1>4, <1>5

LEMMA EnterLoopInv ==
  ASSUME IInv, EnterLoop
  PROVE  IInv'
<1> USE DEF IInv, EnterLoop, Becomes, memory, timers, vars
<1>1. TypeOK'
  BY DEF TypeOK, Handle, Client
<1>2. SignalInv'
  BY DEF TypeOK, SignalInv, AfterWalk, Handle, Client
<1>3. CloserInv'
  BY DEF TypeOK, SignalInv, CloserInv, AfterWalk, Handle, Client
<1>4. WalkInv' /\ ClientIsDone' /\ pc' # "busy"
  BY DEF TypeOK, SignalInv, CloserInv, WalkInv, ClientIsDone, AfterWalk, Handle, Client
<1>5. TimerInv' /\ ArmedIsActive'
  BY DEF TypeOK, TimerInv, ArmedIsActive, AfterWalk, Handle, Client
<1>6. NoUseAfterFree'
  BY DEF TypeOK, SignalInv, NoUseAfterFree, Handle, Client
<1> QED
  BY <1>1, <1>2, <1>3, <1>4, <1>5, <1>6

LEMMA LeaveLoopInv ==
  ASSUME IInv, LeaveLoop
  PROVE  IInv'
<1> USE DEF IInv, LeaveLoop, SignalIsClosed, Becomes, memory, timers, vars
<1>1. TypeOK'
  BY DEF TypeOK, Handle, Client
<1>2. SignalInv'
  BY DEF TypeOK, SignalInv, AfterWalk, Handle, Client
<1>3. CloserInv'
  <2>1. \A h \in Client \cup {Prepare} : uv'[h] = uv[h]
    BY DEF TypeOK, Handle
  <2> QED
    BY <2>1 DEF CloserInv, AfterWalk
<1>4. WalkInv' /\ ClientIsDone' /\ pc' # "busy"
  BY DEF TypeOK, SignalInv, CloserInv, WalkInv, ClientIsDone, AfterWalk, Handle, Client
<1>5. TimerInv' /\ ArmedIsActive'
  BY DEF TypeOK, TimerInv, ArmedIsActive, AfterWalk, Handle, Client
<1>6. NoUseAfterFree'
  BY DEF TypeOK, SignalInv, NoUseAfterFree, Handle, Client
<1> QED
  BY <1>1, <1>2, <1>3, <1>4, <1>5, <1>6

LEMMA DrainInv ==
  ASSUME IInv, Drain
  PROVE  IInv'
<1> USE DEF IInv, Drain, memory, timers, vars
<1>1. TypeOK'
  BY DEF TypeOK, Handle, Client
<1>2. SignalInv'
  BY DEF TypeOK, SignalInv, AfterWalk, Handle, Client
<1>3. CloserInv'
  BY DEF TypeOK, SignalInv, CloserInv, AfterWalk, Handle, Client
<1>4. WalkInv' /\ ClientIsDone' /\ pc' # "busy"
  BY DEF TypeOK, SignalInv, CloserInv, WalkInv, ClientIsDone, AfterWalk, Handle, Client
<1>5. TimerInv' /\ ArmedIsActive'
  BY DEF TypeOK, TimerInv, ArmedIsActive, AfterWalk, Handle, Client
<1>6. NoUseAfterFree'
  BY DEF TypeOK, SignalInv, NoUseAfterFree, Handle, Client
<1> QED
  BY <1>1, <1>2, <1>3, <1>4, <1>5, <1>6

LEMMA WalkStepInv ==
  ASSUME IInv, Walk
  PROVE  IInv'
<1> USE DEF IInv, Walk, RunReturns, Alive, LeftHandles, memory, timers, vars
<1>1. TypeOK'
  BY DEF TypeOK, Handle, Client
<1>2. SignalInv'
  BY DEF TypeOK, SignalInv, AfterWalk, Handle, Client
<1>3. CloserInv'
  BY DEF TypeOK, SignalInv, CloserInv, AfterWalk, Handle, Client
<1>4. WalkInv' /\ pc' # "busy"
  BY DEF TypeOK, WalkInv, AfterWalk
<1>5. ClientIsDone'
  BY DEF TypeOK, ClientIsDone
<1>6. TimerInv' /\ ArmedIsActive'
  BY DEF TimerInv, ArmedIsActive
<1>7. NoUseAfterFree'
  BY DEF TypeOK, NoUseAfterFree
<1> QED
  BY <1>1, <1>2, <1>3, <1>4, <1>5, <1>6, <1>7

LEMMA CloseLoopInv ==
  ASSUME IInv, CloseLoop
  PROVE  IInv'
<1>1. UNCHANGED <<uv, closer, repeats, armed, callback>> /\ pc = "close"
  BY DEF CloseLoop, timers
<1>2. \A h \in Handle : uv[h] = "none"
  <2>1. \A h \in Handle : uv[h] \in {"none", "closing"}
    BY <1>1 DEF IInv, WalkInv, AfterWalk
  <2> QED
    BY <2>1 DEF CloseLoop, Alive
<1>3. pc' = "closed" /\ mem' = [mem EXCEPT ![Signal] = "none"] /\ damaged' = damaged
  <2>1. mem[Signal] = "both" /\ ~damaged
    BY <1>1 DEF IInv, SignalInv, NoUseAfterFree
  <2> QED
    BY <1>2, <2>1 DEF CloseLoop, IInv, TypeOK
<1>4. TypeOK'
  BY <1>1, <1>3 DEF IInv, TypeOK
<1>5. \A h \in Client \cup {Prepare} : mem'[h] = mem[h]
  BY <1>3 DEF IInv, TypeOK, Handle
<1>6. SignalInv'
  BY <1>1, <1>3 DEF IInv, TypeOK, SignalInv, Handle
<1>7. CloserInv'
  BY <1>1, <1>3, <1>5 DEF IInv, CloserInv, AfterWalk
<1>8. WalkInv' /\ TimerInv'
  BY <1>1, <1>2, <1>3 DEF IInv, WalkInv, TimerInv, AfterWalk
<1>9. NoUseAfterFree' /\ ClientIsDone' /\ ArmedIsActive' /\ pc' # "busy"
  BY <1>1, <1>2, <1>3 DEF IInv, NoUseAfterFree, ClientIsDone, ArmedIsActive
<1> QED
  BY <1>4, <1>6, <1>7, <1>8, <1>9 DEF IInv

LEMMA StepInv == IInv /\ [Next]_vars => IInv'
<1> SUFFICES ASSUME IInv, [Next]_vars PROVE IInv'
  OBVIOUS
<1>1. CASE ClientStarts
  BY <1>1, CreateInv, TimerScheduleInv, PollStartInv, RunLaterInv DEF ClientStarts, TimerCreate, PollCreate, Client
<1>2. CASE ClientStops
  <2>1. MayCall => pc \notin AfterWalk
    BY DEF MayCall, AfterWalk
  <2>2. CASE \E h \in Client : Destroy(h)
    BY <2>1, <2>2, FatalInv, DestroyInv DEF Destroy, Has
  <2>3. CASE \E t \in Timer : TimerReset(t) \/ TimerCancel(t)
    BY <2>1, <2>3, FatalInv, TimerCancelInv DEF TimerCancel, TimerReset, Has
  <2> QED
    BY <1>2, <2>2, <2>3 DEF ClientStops
<1>3. CASE Loop
  <2>1. Timer \subseteq Client /\ Poll \subseteq Client /\ Client \subseteq Handle
    BY DEF Client, Handle
  <2>2. CASE \E t \in Timer : TimerFires(t)
    BY <2>2, TimerFiresInv
  <2>3. CASE \E p \in Poll : PollEvents(p)
    BY <2>1, <2>3, CallsInv
  <2>4. CASE \E p \in Poll : PollFails(p)
    BY <2>1, <2>4, FatalInv DEF PollFails, IInv, WalkInv
  <2>5. CASE \E h \in Client : TellsClient(h)
    BY <2>5, CallsInv
  <2>6. CASE \E h \in Handle : Closed(h)
    BY <2>6, ClosedInv
  <2>7. CASE RunJobs
    BY <2>7, CallsInv
  <2>8. CASE Returns
    BY <2>8, ReturnsInv
  <2> QED
    BY <1>3, <2>2, <2>3, <2>4, <2>5, <2>6, <2>7, <2>8 DEF Loop
<1>4. CASE Phases \/ LeaveLoop
  BY <1>4, EnterLoopInv, DrainInv, WalkStepInv, CloseLoopInv, LeaveLoopInv DEF Phases
<1>5. CASE UNCHANGED vars
  <2>1. UNCHANGED <<uv, mem, closer, repeats, armed, callback, pc, damaged>>
    BY <1>5 DEF vars, memory, timers
  <2>2. TypeOK' /\ SignalInv' /\ CloserInv'
    BY <2>1 DEF IInv, TypeOK, SignalInv, CloserInv
  <2>3. WalkInv' /\ TimerInv' /\ NoUseAfterFree'
    BY <2>1 DEF IInv, WalkInv, TimerInv, NoUseAfterFree
  <2>4. ClientIsDone' /\ ArmedIsActive' /\ pc' # "busy"
    BY <2>1 DEF IInv, ClientIsDone, ArmedIsActive
  <2> QED
    BY <2>2, <2>3, <2>4 DEF IInv
<1> QED
  BY <1>1, <1>2, <1>3, <1>4, <1>5 DEF Next

THEOREM Invariance == Spec => []IInv
BY InitInv, StepInv, PTL DEF Spec

(* No memory of a handle is touched after it was freed, or freed twice,    *)
(* whatever clients do and whenever SIGINT comes.                          *)
THEOREM HandlesAreSafe == Spec => []NoUseAfterFree
<1>1. IInv => NoUseAfterFree
  BY DEF IInv
<1> QED
  BY <1>1, Invariance, PTL

(* After the walk no code of a client is called any more.                  *)
THEOREM NoCallAfterWalk == Spec => []ClientIsDone
<1>1. IInv => ClientIsDone
  BY DEF IInv
<1> QED
  BY <1>1, Invariance, PTL

(* runloop_cleanup() leaves an empty loop behind.                          *)
THEOREM CleanupEmptiesLoop == Spec => []LoopIsEmpty
<1>1. IInv => LoopIsEmpty
  BY DEF IInv, TypeOK, SignalInv, CloserInv, WalkInv, AfterWalk, LoopIsEmpty, Handle
<1> QED
  BY <1>1, Invariance, PTL

(* A client that keeps count of its timers never meets the fatal errors of *)
(* cancel and reset.                                                       *)
THEOREM TimersCanBeCancelled == Spec => []ArmedIsActive
<1>1. IInv => ArmedIsActive
  BY DEF IInv
<1> QED
  BY <1>1, Invariance, PTL

(* What can happen in the second run of the loop.                          *)
LEMMA SecondRunSteps ==
  ASSUME IInv, pc = "close", Next
  PROVE  CloseLoop \/ \E h \in Handle : uv[h] = "closing" /\ Closed(h)
<1>1. callback = NULL /\ \A h \in Handle : uv[h] \in {"none", "closing"}
  BY DEF IInv, WalkInv, AfterWalk
<1>2. \A h \in Handle : uv[h] = "closing" => closer[h] # "own"
  BY DEF IInv, ClientIsDone
<1>3. Client \subseteq Handle /\ Timer \subseteq Client /\ Poll \subseteq Client /\ Prepare \in Handle
  BY DEF Handle, Client
<1>4. ~MayCall /\ callback \notin {"run", "jobs"}
  BY <1>1 DEF MayCall, Client
<1>5. ~ClientStarts
  BY <1>4 DEF ClientStarts, TimerCreate, PollCreate, Create, TimerSchedule, PollStart, RunLater, Has
<1>6. ~ClientStops
  BY <1>4 DEF ClientStops, Destroy, TimerReset, TimerCancel, Has
<1>7. ASSUME NEW h \in Client
      PROVE  ~TimerFires(h) /\ ~PollEvents(h) /\ ~PollFails(h) /\ ~TellsClient(h)
  BY <1>1, <1>2, <1>3 DEF TimerFires, PollEvents, PollFails, TellsClient
<1>8. ~RunJobs /\ ~Returns
  BY <1>1, <1>3, <1>4 DEF RunJobs, Returns
<1>9. ~EnterLoop /\ ~Drain /\ ~Walk /\ ~LeaveLoop
  BY DEF EnterLoop, Drain, Walk, LeaveLoop
<1>10. CASE Loop
  <2>1. \E h \in Handle : Closed(h)
    BY <1>3, <1>7, <1>8, <1>10 DEF Loop
  <2> QED
    BY <2>1 DEF Closed
<1> QED
  BY <1>5, <1>6, <1>9, <1>10 DEF Next, Phases

(* Every step of the second run closes one handle for good, and the last   *)
(* one ends it: the run takes no more steps than there are handles.        *)
THEOREM SecondRunEnds == Spec => SecondRunOnlyCloses
<1> DEFINE Step == pc = "close" =>
             \/ pc' = "closed" /\ Closing = {}
             \/ \E h \in Closing : Closing' = Closing \ {h} /\ UNCHANGED <<pc, callback>>
<1>1. ASSUME IInv, Next, pc = "close" PROVE Step
  <2>1. CASE CloseLoop
    <3>1. \A h \in Handle : uv[h] = "none"
      BY <1>1, <2>1 DEF CloseLoop, Alive, IInv, WalkInv, AfterWalk
    <3> QED
      BY <2>1, <3>1 DEF CloseLoop, Closing
  <2>2. ASSUME NEW h \in Handle, uv[h] = "closing", Closed(h) PROVE Step
    <3>1. uv' = [uv EXCEPT ![h] = "none"] /\ callback' = NULL /\ pc' = pc
      BY <2>2 DEF Closed, Becomes
    <3>2. callback = NULL
      BY <1>1 DEF IInv, WalkInv, AfterWalk
    <3>3. \A g \in Handle : uv'[g] = IF g = h THEN "none" ELSE uv[g]
      BY <1>1, <3>1 DEF IInv, TypeOK
    <3>4. h \in Closing /\ Closing' = Closing \ {h}
      BY <2>2, <3>3 DEF Closing
    <3> QED
      BY <3>1, <3>2, <3>4
  <2> QED
    BY <1>1, <2>1, <2>2, SecondRunSteps
<1>2. IInv /\ [Next]_vars => [Step]_vars
  BY <1>1
<1> QED
  BY <1>2, Invariance, PTL DEF Spec, SecondRunOnlyCloses

(* The steps that change who closes a handle.                              *)
LEMMA CloserSteps ==
  ASSUME Next
  PROVE  \/ UNCHANGED closer
         \/ \E h \in Client : closer' = [closer EXCEPT ![h] = "own"]
         \/ Walk
         \/ \E h \in Handle : Closed(h)
<1>1. CASE ClientStarts
  BY <1>1 DEF ClientStarts, TimerCreate, PollCreate, Create, TimerSchedule, PollStart, RunLater, memory
<1>2. CASE ClientStops
  BY <1>2 DEF ClientStops, Destroy, CloseCallback, TimerReset, TimerCancel, Fatal, memory
<1>3. CASE Loop
  <2>1. CASE \E t \in Timer : TimerFires(t)
    BY <2>1 DEF TimerFires, memory
  <2>2. CASE \E p \in Poll : PollEvents(p) \/ PollFails(p)
    BY <2>2 DEF PollEvents, PollFails, Fatal, memory
  <2>3. CASE \E h \in Client : TellsClient(h)
    BY <2>3 DEF TellsClient, memory
  <2>4. CASE RunJobs \/ Returns
    BY <2>4 DEF RunJobs, Returns, memory
  <2> QED
    BY <1>3, <2>1, <2>2, <2>3, <2>4 DEF Loop
<1>4. CASE Phases \/ LeaveLoop
  BY <1>4 DEF Phases, EnterLoop, Drain, CloseLoop, LeaveLoop, memory
<1> QED
  BY <1>1, <1>2, <1>3, <1>4 DEF Next

(* A handle that its client has destroyed is not taken over by the walk,   *)
(* and is freed as a whole when the client has been told.                  *)
THEOREM DestroyedIsKept == Spec => DestroyIsKept
<1> DEFINE Step == \A h \in Client :
             closer[h] = "own" /\ closer'[h] # "own" => callback = h /\ mem'[h] = "none"
<1>1. ASSUME IInv, Next, NEW h \in Client, closer[h] = "own", closer'[h] # "own"
      PROVE  callback = h /\ mem'[h] = "none"
  <2>1. h \in Handle /\ uv[h] = "closing"
    BY <1>1 DEF IInv, CloserInv, Handle, Client
  <2>2. ASSUME NEW g \in Client, closer' = [closer EXCEPT ![g] = "own"] PROVE FALSE
    BY <1>1, <2>1, <2>2 DEF IInv, TypeOK
  <2>3. ~Walk
    BY <1>1, <2>1 DEF Walk, LeftHandles
  <2>4. ASSUME NEW g \in Handle, Closed(g) PROVE g = h
    BY <1>1, <2>1, <2>4 DEF Closed, IInv, TypeOK
  <2>5. Closed(h)
    BY <1>1, <2>2, <2>3, <2>4, CloserSteps
  <2>6. callback = h
    BY <1>1, <2>5 DEF Closed
  <2>7. mem'[h] = "none"
    BY <1>1, <2>1, <2>5 DEF Closed, Freed, IInv, TypeOK
  <2> QED
    BY <2>6, <2>7
<1>2. IInv /\ [Next]_vars => [Step]_vars
  BY <1>1
<1> QED
  BY <1>2, Invariance, PTL DEF Spec, DestroyIsKept

(* Type correctness.                                                       *)
THEOREM TypeCorrect == Spec => []TypeOK
<1>1. IInv => TypeOK
  BY DEF IInv
<1> QED
  BY <1>1, Invariance, PTL
=============================================================================
