---------------------------- MODULE RunOnceFifo ----------------------------
(***************************************************************************)
(* What runloop_run_later() promises to the rest of righack: a job (a      *)
(* callback with its context) that was handed over runs once, jobs run one *)
(* at a time, in the order in which they were handed over, and every one   *)
(* of them does run.  A job may hand over further jobs while it runs.      *)
(*                                                                         *)
(* The linked list of runloop.c is modelled in RunOnce, which implements   *)
(* this specification; Righack is built on top of it.                      *)
(***************************************************************************)
EXTENDS Sequences

CONSTANTS Job,    \* the callbacks, with their contexts
          Idle    \* the value of running when no job is running; not in Job

VARIABLES waiting,    \* jobs handed over that have not started, oldest first
          running     \* the job that is running, or Idle

vars == <<waiting, running>>

TypeOK ==
  /\ waiting \in Seq(Job)
  /\ running \in Job \cup {Idle}

Init ==
  /\ waiting = << >>
  /\ running = Idle

Schedule(j) ==
  /\ waiting' = Append(waiting, j)
  /\ UNCHANGED running

Start ==
  /\ running = Idle
  /\ waiting # << >>
  /\ running' = Head(waiting)
  /\ waiting' = Tail(waiting)

Finish ==
  /\ running # Idle
  /\ running' = Idle
  /\ UNCHANGED waiting

Next ==
  \/ \E j \in Job : Schedule(j)
  \/ Start
  \/ Finish

Spec == Init /\ [][Next]_vars

FairSpec == Spec /\ WF_vars(Start) /\ WF_vars(Finish)
=============================================================================
