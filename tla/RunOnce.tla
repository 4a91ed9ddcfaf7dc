------------------------------ MODULE RunOnce ------------------------------
(***************************************************************************)
(* The deferred jobs of runloop.c: runloop_run_later() appends a cell to a *)
(* singly linked list and starts libuv's prepare handle, and the handle's  *)
(* callback, run_once_prepare_cb(), walks the list once per iteration of   *)
(* the event loop, calls every job and frees its cell.                     *)
(*                                                                         *)
(* What makes it delicate is that a job may itself call                    *)
(* runloop_run_later() (starting a module does, through its serial         *)
(* driver), so the list grows at its tail while the walk is freeing it     *)
(* from its head.  During the walk run_once_queue still points to the      *)
(* first cell, which has been freed and whose address malloc() may have    *)
(* handed out again.                                                       *)
(*                                                                         *)
(* heap holds the live cells: malloc() may return any address that is not  *)
(* in its domain, so that addresses are reused.  A struct run_once_list    *)
(* and its struct run_once_private are allocated and freed together and    *)
(* are one cell here.                                                      *)
(***************************************************************************)
EXTENDS Naturals, Sequences, Functions

CONSTANTS Entry,   \* addresses of cells; a failed allocation ends the program
          Job,     \* what the callers of runloop_run_later() defer
          NULL,
          Idle     \* no job, in the mapping to RunOnceFifo

ASSUME EntryAssumption == NULL \notin Entry
ASSUME JobAssumption == Idle \notin Job

VARIABLES
  heap,                      \* live cells, by address
  run_once_queue,
  run_once_last,
  prepare_active,            \* libuv runs the prepare callback in each iteration
  run_once_prepare_started,
  p,                         \* the cursor of run_once_prepare_cb
  pc,                        \* where control is: "loop", "walk" or "job"
  order,                     \* history: live cells in the order of their creation
  current_pass               \* history: cells created by a job of the current walk

pointers == <<run_once_queue, run_once_last>>
prepare == <<prepare_active, run_once_prepare_started>>
history == <<order, current_pass>>
vars == <<heap, pointers, prepare, p, pc, history>>

Cell == [run : Job, next : Entry \cup {NULL}]
Live == DOMAIN heap

TypeOK ==
  /\ heap \in [Live -> Cell]
  /\ Live \subseteq Entry
  /\ run_once_queue \in Entry \cup {NULL}
  /\ run_once_last \in Entry \cup {NULL}
  /\ p \in Entry \cup {NULL}
  /\ prepare_active \in BOOLEAN
  /\ run_once_prepare_started \in BOOLEAN
  /\ pc \in {"loop", "walk", "job"}
  /\ order \in Seq(Entry)
  /\ current_pass \subseteq Entry

Init ==
  /\ heap = [e \in {} |-> NULL]
  /\ run_once_queue = NULL
  /\ run_once_last = NULL
  /\ prepare_active = FALSE
  /\ run_once_prepare_started = FALSE
  /\ p = NULL
  /\ pc = "loop"
  /\ order = << >>
  /\ current_pass = {}

-----------------------------------------------------------------------------
(* util_zalloc() of a cell at address e, and free() of it. *)
Alloc(h, e, c) == [x \in DOMAIN h \cup {e} |-> IF x = e THEN c ELSE h[x]]
Free(h, e) == Restrict(h, DOMAIN h \ {e})

(* The new cell, filled in; a variant that forgets the callback.           *)
NewCellWithoutJob(j) == [run |-> NULL, next |-> NULL]
NewCell(j) == [run |-> j, next |-> NULL]

(* Two ways to get the linking wrong: run_once_last is only set for the    *)
(* first cell; the new cell is put in front.                               *)
LinkKeepsLast(e, c) ==
  LET allocated == Alloc(heap, e, c)
  IN \/ /\ run_once_queue = NULL
        /\ heap' = allocated
        /\ run_once_queue' = e
        /\ run_once_last' = e
     \/ /\ run_once_queue # NULL
        /\ heap' = [allocated EXCEPT ![run_once_last].next = e]
        /\ UNCHANGED pointers

LinkInFront(e, c) ==
  /\ heap' = Alloc(heap, e, [c EXCEPT !.next = run_once_queue])
  /\ run_once_queue' = e
  /\ run_once_last' = IF run_once_queue = NULL THEN e ELSE run_once_last

(* The cell c, allocated at e, becomes the last one of the list.           *)
Link(e, c) ==
  LET allocated == Alloc(heap, e, c)
  IN /\ \/ /\ run_once_queue = NULL
           /\ heap' = allocated
           /\ run_once_queue' = e
        \/ /\ run_once_queue # NULL
           /\ heap' = [allocated EXCEPT ![run_once_last].next = e]
           /\ UNCHANGED run_once_queue
     /\ run_once_last' = e

(* The prepare handle is started on every call, because nothing ever sets  *)
(* run_once_prepare_started; for libuv to start an active handle is a      *)
(* no-op.  The variant has the test the wrong way round.                   *)
StartPrepareIfStarted == prepare_active' = (prepare_active \/ run_once_prepare_started)
StartPrepare == prepare_active' = (prepare_active \/ ~run_once_prepare_started)

(* runloop_run_later(): called from code outside the walk (main, another   *)
(* callback of the loop) or from a job.                                    *)
RunLater(j, e) ==
  /\ pc \in {"loop", "job"}
  /\ e \in Entry \ Live
  /\ Link(e, NewCell(j))
  /\ StartPrepare
  /\ order' = Append(order, e)
  /\ current_pass' = IF pc = "job" THEN current_pass \cup {e} ELSE current_pass
  /\ UNCHANGED <<run_once_prepare_started, p, pc>>

(* libuv calls run_once_prepare_cb(). *)
PrepareFires ==
  /\ pc = "loop"
  /\ prepare_active
  /\ p' = run_once_queue
  /\ pc' = "walk"
  /\ UNCHANGED <<heap, pointers, prepare, history>>

(* The walk calls p->run->cb. *)
CallJob ==
  /\ pc = "walk"
  /\ p # NULL
  /\ pc' = "job"
  /\ UNCHANGED <<heap, pointers, prepare, p, history>>

(* The variant runs one job per walk and drops the others.                 *)
JobReturnsOnce ==
  /\ pc = "job"
  /\ p' = NULL
  /\ heap' = Free(heap, p)
  /\ order' = Tail(order)
  /\ current_pass' = current_pass \ {p}
  /\ pc' = "walk"
  /\ UNCHANGED <<pointers, prepare>>

(* The job has returned: the walk goes on to p->next and frees the cell.   *)
JobReturns ==
  /\ pc = "job"
  /\ p' = heap[p].next
  /\ heap' = Free(heap, p)
  /\ order' = Tail(order)
  /\ current_pass' = current_pass \ {p}
  /\ pc' = "walk"
  /\ UNCHANGED <<pointers, prepare>>

(* The variant leaves the queue as it was.                                 *)
WalkEndsWithoutReset ==
  /\ pc = "walk"
  /\ p = NULL
  /\ prepare_active' = FALSE
  /\ run_once_prepare_started' = FALSE
  /\ pc' = "loop"
  /\ current_pass' = {}
  /\ UNCHANGED <<heap, pointers, p, order>>

(* The end of the list: the queue is reset and the handle stopped.  The    *)
(* stale run_once_last stays.                                              *)
WalkEnds ==
  /\ pc = "walk"
  /\ p = NULL
  /\ run_once_queue' = NULL
  /\ prepare_active' = FALSE
  /\ run_once_prepare_started' = FALSE
  /\ pc' = "loop"
  /\ current_pass' = {}
  /\ UNCHANGED <<heap, run_once_last, p, order>>

Next ==
  \/ \E j \in Job, e \in Entry : RunLater(j, e)
  \/ PrepareFires
  \/ CallJob
  \/ JobReturns
  \/ WalkEnds

Spec == Init /\ [][Next]_vars

(* The loop iterates while the prepare handle is active, and jobs return.  *)
(* Nothing is assumed of who calls runloop_run_later(), or how often.      *)
Fairness ==
  /\ WF_vars(PrepareFires)
  /\ WF_vars(CallJob)
  /\ WF_vars(JobReturns)
  /\ WF_vars(WalkEnds)

FairSpec == Spec /\ Fairness

-----------------------------------------------------------------------------
(* No freed cell is read or written: the job that is called sits in a live *)
(* cell, and whenever runloop_run_later() is about to link a new cell      *)
(* behind run_once_last, in a job of the walk or outside it, that cell is  *)
(* live, although run_once_queue itself is stale during the walk.          *)
NoUseAfterFree ==
  /\ pc = "job" => p \in Live
  /\ pc \in {"loop", "job"} /\ run_once_queue # NULL => run_once_last \in Live

(* No job is lost and none leaks: the cells that the pointers reach, from  *)
(* the cursor during the walk and from the queue outside it, are exactly   *)
(* the live cells, in the order in which they were created.                *)
ListIsOrder ==
  LET first == IF pc = "loop" THEN run_once_queue ELSE p
      last == Len(order)
  IN /\ Live = Range(order)
     /\ IsInjective(order)
     /\ first = IF order = << >> THEN NULL ELSE order[1]
     /\ \A i \in 1..last :
          heap[order[i]].next = IF i = last THEN NULL ELSE order[i + 1]

(* A job is queued only while libuv is going to run the queue.             *)
PrepareRunsQueue == Live # {} => prepare_active

(* A deferred job does run.                                                *)
EveryJobRuns == \A e \in Entry : e \in Live ~> pc = "job" /\ p = e

(* The trace of runloop_run_later() says that the job will run "at the     *)
(* next runloop iteration": none runs in the walk that deferred it.        *)
RunsNextIteration == pc = "job" => p \notin current_pass

-----------------------------------------------------------------------------
(* RunOnce implements RunOnceFifo: the running job is the one the cursor   *)
(* is at, and the others wait in list order.                               *)
Jobs(h, s) == [i \in 1..Len(s) |-> h[s[i]].run]

Fifo == INSTANCE RunOnceFifo WITH
          waiting <- IF pc = "job" THEN Jobs(heap, Tail(order)) ELSE Jobs(heap, order),
          running <- IF pc = "job" THEN heap[p].run ELSE Idle

FifoSpec == Fifo!FairSpec
=============================================================================
