--------------------------- MODULE RunOnceProofs ---------------------------
(***************************************************************************)
(* Proofs about RunOnce, for every set of addresses and of jobs: the walk  *)
(* and runloop_run_later() touch live cells only, the list holds exactly   *)
(* the cells that were not run yet, and the list implements RunOnceFifo.   *)
(***************************************************************************)
EXTENDS RunOnce, SequenceTheorems, TLAPS

(* What relates the handle, the queue pointers and the walk.               *)
PointerInv ==
  /\ ~run_once_prepare_started
  /\ prepare_active <=> run_once_queue # NULL
  /\ pc # "loop" => prepare_active
  /\ pc = "job" => order # << >>
  /\ order # << >> => run_once_last = order[Len(order)]

(* The inductive invariant.                                                *)
IInv == TypeOK /\ ListIsOrder /\ PointerInv

(* Appending a fresh element to an injective sequence.                     *)
LEMMA AppendFresh ==
  ASSUME NEW S, NEW s \in Seq(S), NEW e \in S, e \notin Range(s), IsInjective(s)
  PROVE  LET t == Append(s, e) IN
         /\ t \in Seq(S)
         /\ Len(t) = Len(s) + 1
         /\ \A i \in 1..Len(s) : t[i] = s[i]
         /\ t[Len(s) + 1] = e
         /\ Range(t) = Range(s) \cup {e}
         /\ IsInjective(t)
<1> DEFINE t == Append(s, e)
<1>1. /\ t \in Seq(S)
      /\ Len(t) = Len(s) + 1
      /\ \A i \in 1..Len(s) : t[i] = s[i]
      /\ t[Len(s) + 1] = e
  BY AppendProperties
<1> HIDE DEF t
<1>2. /\ Len(s) \in Nat
      /\ 1..Len(t) = (1..Len(s)) \cup {Len(s) + 1}
      /\ DOMAIN s = 1..Len(s) /\ DOMAIN t = 1..Len(t)
  BY <1>1, LenProperties
<1>3. Range(t) = Range(s) \cup {e}
  BY <1>1, <1>2 DEF Range
<1>4. IsInjective(t)
  <2> SUFFICES ASSUME NEW i \in 1..Len(t), NEW k \in 1..Len(t), t[i] = t[k]
               PROVE  i = k
    BY <1>2 DEF IsInjective
  <2>1. \A x \in 1..Len(s) : s[x] # e
    BY <1>2 DEF Range
  <2> QED
    BY <2>1, <1>1, <1>2 DEF IsInjective
<1> QED
  BY <1>1, <1>3, <1>4 DEF t

(* Dropping the head of an injective sequence.                             *)
LEMMA TailInjective ==
  ASSUME NEW S, NEW s \in Seq(S), s # << >>, IsInjective(s)
  PROVE  LET t == Tail(s) IN
         /\ t \in Seq(S)
         /\ Len(t) \in Nat
         /\ Len(s) = Len(t) + 1
         /\ \A i \in 1..Len(t) : t[i] = s[i + 1]
         /\ Range(t) = Range(s) \ {s[1]}
         /\ IsInjective(t)
<1> DEFINE t == Tail(s)
<1>1. /\ t \in Seq(S)
      /\ Len(t) = Len(s) - 1
      /\ \A i \in 1..Len(t) : t[i] = s[i + 1]
  BY HeadTailProperties
<1> HIDE DEF t
<1>2. /\ Len(s) \in Nat /\ Len(s) # 0
      /\ DOMAIN s = 1..Len(s) /\ DOMAIN t = 1..Len(t)
  BY <1>1, LenProperties, EmptySeq
<1>3. Len(t) \in Nat /\ Len(s) = Len(t) + 1
  BY <1>1, <1>2
<1>4. IsInjective(t)
  <2> SUFFICES ASSUME NEW i \in 1..Len(t), NEW k \in 1..Len(t), t[i] = t[k]
               PROVE  i = k
    BY <1>2 DEF IsInjective
  <2>1. i + 1 \in DOMAIN s /\ k + 1 \in DOMAIN s /\ s[i + 1] = s[k + 1]
    BY <1>1, <1>2, <1>3
  <2>2. i + 1 = k + 1
    BY <2>1 DEF IsInjective
  <2> QED
    BY <2>2, <1>3
<1>5. ASSUME NEW x
      PROVE  x \in Range(t) <=> x \in Range(s) \ {s[1]}
  <2>1. ASSUME NEW i \in 1..Len(t), x = t[i]
        PROVE  x \in Range(s) \ {s[1]}
    <3>1. i + 1 \in DOMAIN s /\ 1 \in DOMAIN s /\ i + 1 # 1 /\ x = s[i + 1]
      BY <1>1, <1>2, <1>3, <2>1
    <3>2. s[i + 1] # s[1]
      BY <3>1 DEF IsInjective
    <3> QED
      BY <3>1, <3>2 DEF Range
  <2>2. ASSUME NEW i \in 1..Len(s), x = s[i], x # s[1]
        PROVE  x \in Range(t)
    <3>1. i - 1 \in 1..Len(t) /\ t[i - 1] = s[i]
      BY <1>1, <1>3, <2>2
    <3> QED
      BY <3>1, <1>2, <2>2 DEF Range
  <2> QED
    BY <2>1, <2>2, <1>2 DEF Range
<1> QED
  BY <1>1, <1>3, <1>4, <1>5 DEF t

(* What the invariant says of the cells of the list.                       *)
LEMMA ListFacts ==
  ASSUME IInv
  PROVE  /\ Len(order) \in Nat
         /\ order = << >> <=> Len(order) = 0
         /\ \A i \in 1..Len(order) : order[i] \in Live /\ heap[order[i]] \in Cell
         /\ \A i, k \in 1..Len(order) : order[i] = order[k] => i = k
         /\ \A i \in 1..Len(order) :
              heap[order[i]].next = IF i = Len(order) THEN NULL ELSE order[i + 1]
<1>1. /\ Len(order) \in Nat /\ DOMAIN order = 1..Len(order)
      /\ order = << >> <=> Len(order) = 0
  BY LenProperties, EmptySeq DEF IInv, TypeOK
<1> QED
  BY <1>1 DEF IInv, TypeOK, ListIsOrder, Range, IsInjective

LEMMA InitInv == Init => IInv
<1> SUFFICES ASSUME Init PROVE IInv
  OBVIOUS
<1>1. Live = {} /\ order = << >> /\ Len(order) = 0
  BY DEF Init, Live
<1>2. TypeOK
  <2>1. heap \in [Live -> Cell]
    BY <1>1 DEF Init
  <2>2. order \in Seq(Entry) /\ current_pass \subseteq Entry /\ Live \subseteq Entry
    BY <1>1, EmptySeq DEF Init
  <2> QED
    BY <2>1, <2>2 DEF Init, TypeOK
<1>3. ListIsOrder
  <2>1. DOMAIN order = {}
    BY <1>1, EmptySeq, LenProperties
  <2> QED
    BY <2>1, <1>1 DEF Init, ListIsOrder, Range, IsInjective
<1> QED
  BY <1>2, <1>3 DEF Init, IInv, PointerInv

(* What runloop_run_later() does to the list.                               *)
LEMMA RunLaterEffect ==
  ASSUME IInv, NEW j \in Job, NEW e \in Entry, RunLater(j, e)
  PROVE  /\ order' \in Seq(Entry)
         /\ Len(order') = Len(order) + 1
         /\ \A i \in 1..Len(order) : order'[i] = order[i]
         /\ order'[Len(order) + 1] = e
         /\ Range(order') = Live \cup {e}
         /\ IsInjective(order')
         /\ run_once_queue = NULL <=> order = << >>
         /\ order # << >> => run_once_last = order[Len(order)]
         /\ e \notin Live
         /\ Live' = Live \cup {e}
         /\ heap'[e] = [run |-> j, next |-> NULL]
         /\ \A x \in Live : heap'[x] = IF order # << >> /\ x = run_once_last
                                       THEN [heap[x] EXCEPT !.next = e]
                                       ELSE heap[x]
         /\ heap' \in [Live' -> Cell]
<1> USE EntryAssumption DEF IInv, Link, NewCell, StartPrepare, pointers, prepare, history
<1> DEFINE n == Len(order)
<1>1. n \in Nat /\ (order = << >> <=> n = 0)
  BY ListFacts
<1>2. /\ order' \in Seq(Entry)
      /\ Len(order') = n + 1
      /\ \A i \in 1..n : order'[i] = order[i]
      /\ order'[n + 1] = e
      /\ Range(order') = Live \cup {e}
      /\ IsInjective(order')
  <2>1. /\ order' = Append(order, e) /\ e \notin Live
        /\ order \in Seq(Entry) /\ Live = Range(order) /\ IsInjective(order)
    BY DEF RunLater, TypeOK, ListIsOrder
  <2> QED
    BY <2>1, AppendFresh
<1>3. order # << >> => run_once_last = order[n] /\ order[n] \in Live
  BY <1>1, ListFacts DEF RunLater, PointerInv
<1>4. run_once_queue = NULL <=> order = << >>
  BY <1>1, <1>3, ElementOfSeq DEF RunLater, ListIsOrder, PointerInv, TypeOK
<1>5. /\ Live' = Live \cup {e}
      /\ heap'[e] = [run |-> j, next |-> NULL]
      /\ \A x \in Live : heap'[x] = IF order # << >> /\ x = run_once_last
                                    THEN [heap[x] EXCEPT !.next = e]
                                    ELSE heap[x]
      /\ heap' \in [Live' -> Cell]
  <2>1. e \notin Live
    BY DEF RunLater
  <2>2. CASE order = << >>
    BY <2>1, <2>2, <1>4 DEF RunLater, Alloc, TypeOK, Cell, Live
  <2>3. CASE order # << >>
    <3> DEFINE a == Alloc(heap, e, [run |-> j, next |-> NULL])
    <3>1. a \in [Live \cup {e} -> Cell] /\ a[e] = [run |-> j, next |-> NULL]
          /\ \A x \in Live : a[x] = heap[x]
      BY <2>1 DEF Alloc, TypeOK, Cell, Live
    <3>2. heap' = [a EXCEPT ![run_once_last] = [a[run_once_last] EXCEPT !.next = e]]
      BY <2>3, <1>4 DEF RunLater
    <3>3. run_once_last \in Live
      BY <2>3, <1>3
    <3> HIDE DEF a
    <3>4. [a[run_once_last] EXCEPT !.next = e] \in Cell
      BY <3>1, <3>3 DEF Cell
    <3>5. heap' \in [Live \cup {e} -> Cell]
      BY <3>1, <3>2, <3>3, <3>4
    <3>6. Live' = Live \cup {e}
      BY <3>5 DEF Live
    <3> QED
      BY <2>1, <2>3, <3>1, <3>2, <3>3, <3>5, <3>6
  <2> QED
    BY <2>2, <2>3
<1> QED
  BY <1>2, <1>3, <1>4, <1>5 DEF RunLater

LEMMA RunLaterInv ==
  ASSUME IInv, NEW j \in Job, NEW e \in Entry, RunLater(j, e)
  PROVE  IInv'
<1> DEFINE n == Len(order)
<1>1. n \in Nat /\ (order = << >> <=> n = 0)
  BY ListFacts
<1>2. /\ order' \in Seq(Entry)
      /\ Len(order') = n + 1
      /\ \A i \in 1..n : order'[i] = order[i]
      /\ order'[n + 1] = e
      /\ Range(order') = Live \cup {e}
      /\ IsInjective(order')
  BY RunLaterEffect
<1>3. order # << >> => run_once_last = order[n]
  BY RunLaterEffect
<1>4. run_once_queue = NULL <=> order = << >>
  BY RunLaterEffect
<1>5. /\ e \notin Live
      /\ Live' = Live \cup {e}
      /\ heap'[e] = [run |-> j, next |-> NULL]
      /\ \A x \in Live : heap'[x] = IF order # << >> /\ x = run_once_last
                                    THEN [heap[x] EXCEPT !.next = e]
                                    ELSE heap[x]
      /\ heap' \in [Live' -> Cell]
  BY RunLaterEffect
<1> USE EntryAssumption DEF IInv, Link, NewCell, StartPrepare, pointers, prepare, history
<1>6. TypeOK'
  BY <1>2, <1>5 DEF RunLater, TypeOK
<1>7. ListIsOrder'
  <2>1. \A i \in 1..n : heap[order[i]].next = IF i = n THEN NULL ELSE order[i + 1]
    BY ListFacts
  <2>2. ASSUME NEW i \in 1..(n + 1)
        PROVE  heap'[order'[i]].next = IF i = n + 1 THEN NULL ELSE order'[i + 1]
    <3>1. CASE i = n + 1
      BY <3>1, <1>2, <1>5
    <3>2. CASE i \in 1..n
      <4>1. order[i] \in Live /\ heap[order[i]] \in Cell
        BY <3>2, ListFacts
      <4>2. CASE i = n
        <5>1. run_once_last = order[i] /\ order # << >>
          BY <3>2, <4>2, <1>1, <1>3
        <5> QED
          BY <3>2, <4>1, <4>2, <5>1, <1>1, <1>2, <1>5 DEF Cell
      <4>3. CASE i # n
        <5>1. order[i] # run_once_last /\ i + 1 \in 1..n
          BY <3>2, <4>3, <1>1, <1>3, ListFacts
        <5> QED
          BY <3>2, <4>1, <4>3, <5>1, <1>1, <1>2, <1>5, <2>1
      <4> QED
        BY <4>2, <4>3
    <3> QED
      BY <3>1, <3>2, <1>1
  <2>3. order' # << >> /\ order'[1] = IF order = << >> THEN e ELSE order[1]
    BY <1>1, <1>2, EmptySeq
  <2>4. (IF pc' = "loop" THEN run_once_queue' ELSE p') = order'[1]
    BY <2>3, <1>4 DEF RunLater, ListIsOrder, PointerInv
  <2> QED
    BY <2>2, <2>3, <2>4, <1>2, <1>5 DEF ListIsOrder
<1>8. PointerInv'
  <2>1. order' # << >>
    BY <1>1, <1>2, EmptySeq
  <2>2. run_once_queue' # NULL /\ prepare_active'
    BY <1>4 DEF RunLater, PointerInv
  <2>3. run_once_last' = order'[Len(order')]
    BY <1>2 DEF RunLater
  <2> QED
    BY <2>1, <2>2, <2>3 DEF RunLater, PointerInv
<1> QED
  BY <1>6, <1>7, <1>8

LEMMA JobReturnsInv ==
  ASSUME IInv, JobReturns
  PROVE  IInv'
<1> USE EntryAssumption DEF IInv, pointers, prepare, history
<1>1. order # << >> /\ Len(order) \in Nat /\ Len(order) # 0
  BY LenProperties, EmptySeq DEF JobReturns, PointerInv, TypeOK
<1>2. /\ order' \in Seq(Entry)
      /\ Len(order') \in Nat
      /\ Len(order) = Len(order') + 1
      /\ \A i \in 1..Len(order') : order'[i] = order[i + 1]
      /\ Range(order') = Live \ {order[1]}
      /\ IsInjective(order')
  <2>1. /\ order' = Tail(order)
        /\ order \in Seq(Entry) /\ Live = Range(order) /\ IsInjective(order)
    BY DEF JobReturns, TypeOK, ListIsOrder
  <2> QED
    BY <1>1, <2>1, TailInjective
<1>3. p = order[1] /\ p \in Live
  BY <1>1, ListFacts DEF JobReturns, ListIsOrder
<1>4. /\ Live' = Live \ {p}
      /\ \A x \in Live' : heap'[x] = heap[x]
      /\ heap' \in [Live' -> Cell]
  BY DEF JobReturns, Free, Restrict, Live, TypeOK
<1>5. order' = << >> <=> Len(order') = 0
  BY <1>2, EmptySeq
<1>6. p' = IF order' = << >> THEN NULL ELSE order'[1]
  <2>1. p' = IF Len(order) = 1 THEN NULL ELSE order[2]
    <3>1. /\ p' = heap[p].next
          /\ \A i \in 1..Len(order) : heap[order[i]].next
                = IF i = Len(order) THEN NULL ELSE order[i + 1]
      BY DEF JobReturns, ListIsOrder
    <3>2. 1 \in 1..Len(order) /\ 1 + 1 = 2
      BY <1>1
    <3> HIDE DEF IInv
    <3> QED
      BY <3>1, <3>2, <1>1, <1>3
  <2> QED
    BY <2>1, <1>1, <1>2, <1>5
<1>7. TypeOK'
  <2>1. p' \in Entry \cup {NULL}
    BY <1>2, <1>5, <1>6, ElementOfSeq
  <2> QED
    BY <2>1, <1>2, <1>4 DEF JobReturns, TypeOK
<1>8. ListIsOrder'
  <2>1. ASSUME NEW i \in 1..Len(order')
        PROVE  heap'[order'[i]].next
                 = IF i = Len(order') THEN NULL ELSE order'[i + 1]
    <3>1. order'[i] \in Live' /\ i + 1 \in 1..Len(order) /\ order'[i] = order[i + 1]
      <4>1. DOMAIN order' = 1..Len(order')
        BY <1>2, LenProperties
      <4>2. i \in DOMAIN order' /\ order'[i] = order[i + 1] /\ i + 1 \in 1..Len(order)
        BY <4>1, <1>2
      <4>3. order'[i] \in Range(order')
        BY <4>2 DEF Range
      <4> QED
        BY <4>2, <4>3, <1>2, <1>3, <1>4
    <3>2. heap[order[i + 1]].next = IF i + 1 = Len(order) THEN NULL ELSE order[i + 2]
      BY <3>1, <1>1, ListFacts
    <3>3. heap'[order'[i]].next = heap[order[i + 1]].next
      BY <3>1, <1>4
    <3>4. /\ i + 1 = Len(order) <=> i = Len(order')
          /\ i # Len(order') => order'[i + 1] = order[i + 2]
      BY <1>2
    <3> QED
      BY <3>2, <3>3, <3>4
  <2>2. pc' # "loop"
    BY DEF JobReturns
  <2> QED
    BY <2>1, <2>2, <1>2, <1>3, <1>4, <1>6 DEF ListIsOrder
<1>9. PointerInv'
  <2>1. order' # << >> => run_once_last' = order'[Len(order')]
    BY <1>1, <1>2, <1>5 DEF JobReturns, PointerInv
  <2> QED
    BY <2>1 DEF JobReturns, PointerInv
<1> QED
  BY <1>7, <1>8, <1>9

(* The steps of the walk that leave the cells alone.                       *)
LEMMA OtherStepsInv ==
  ASSUME IInv, PrepareFires \/ CallJob \/ WalkEnds \/ UNCHANGED vars
  PROVE  IInv'
<1> USE EntryAssumption DEF IInv, TypeOK, ListIsOrder, PointerInv,
                            Live, pointers, prepare, history
<1>1. CASE PrepareFires
  BY <1>1 DEF PrepareFires
<1>2. CASE CallJob
  BY <1>2 DEF CallJob
<1>3. CASE WalkEnds
  <2>1. order = << >>
    <3>1. order # << >> => order[1] \in Entry
      BY EmptySeq, LenProperties, ElementOfSeq
    <3> QED
      BY <1>3, <3>1 DEF WalkEnds
  <2>2. TypeOK'
    BY <1>3 DEF WalkEnds
  <2>3. ListIsOrder'
    BY <1>3, <2>1 DEF WalkEnds
  <2>4. PointerInv'
    BY <1>3, <2>1 DEF WalkEnds
  <2> QED
    BY <2>2, <2>3, <2>4
<1>4. CASE UNCHANGED vars
  BY <1>4 DEF vars
<1> QED
  BY <1>1, <1>2, <1>3, <1>4

(* The invariant holds in every reachable state.                           *)
THEOREM Invariance == Spec => []IInv
<1>1. IInv /\ [Next]_vars => IInv'
  BY RunLaterInv, JobReturnsInv, OtherStepsInv DEF Next
<1> QED
  BY InitInv, <1>1, PTL DEF Spec

(* Neither the walk nor runloop_run_later() touches a freed cell.          *)
THEOREM Safety == Spec => []NoUseAfterFree
<1>1. IInv => NoUseAfterFree
  <2> SUFFICES ASSUME IInv PROVE NoUseAfterFree
    OBVIOUS
  <2>1. pc = "job" => p \in Live
    BY ListFacts DEF IInv, TypeOK, ListIsOrder, PointerInv
  <2>2. ASSUME pc \in {"loop", "job"}, run_once_queue # NULL
        PROVE  run_once_last \in Live
    <3>1. order # << >>
      BY <2>2 DEF IInv, ListIsOrder, PointerInv
    <3> QED
      BY <3>1, ListFacts DEF IInv, PointerInv
  <2> QED
    BY <2>1, <2>2 DEF NoUseAfterFree
<1> QED
  BY Invariance, <1>1, PTL

(* A queued job is one that libuv is going to run.                         *)
THEOREM QueueIsScheduled == Spec => []PrepareRunsQueue
<1>1. IInv => PrepareRunsQueue
  <2> SUFFICES ASSUME IInv, Live # {} PROVE prepare_active
    BY DEF PrepareRunsQueue
  <2>1. order # << >>
    BY EmptySeq, LenProperties DEF IInv, TypeOK, ListIsOrder, Range
  <2> QED
    BY <2>1, ListFacts, ElementOfSeq, EntryAssumption
       DEF IInv, TypeOK, ListIsOrder, PointerInv
<1> QED
  BY Invariance, <1>1, PTL

-----------------------------------------------------------------------------
(* The heap g is the heap h on S with a new cell at e, for the job j.      *)
AddsJob(S, h, g, e, j) ==
  /\ h \in [S -> Cell]
  /\ g \in [S \cup {e} -> Cell]
  /\ \A x \in S : g[x].run = h[x].run
  /\ g[e].run = j

(* Appending a cell to the heap and to the list appends its job.           *)
LEMMA JobsAppend ==
  ASSUME NEW S, NEW h, NEW s \in Seq(S),
         NEW e, NEW g, NEW j \in Job, AddsJob(S, h, g, e, j)
  PROVE  Jobs(g, Append(s, e)) = Append(Jobs(h, s), j)
<1> DEFINE t == Append(s, e)
           u == Jobs(h, s)
<1>1. Len(s) \in Nat /\ \A i \in 1..Len(s) : s[i] \in S /\ h[s[i]].run \in Job
  BY LenProperties, ElementOfSeq DEF Cell, AddsJob
<1>2. /\ Len(t) = Len(s) + 1
      /\ \A i \in 1..Len(s) : t[i] = s[i]
      /\ t[Len(s) + 1] = e
  <2>1. s \in Seq(S \cup {e})
    BY SeqMonotonic
  <2> QED
    BY <2>1, AppendProperties
<1>3. u \in Seq(Job) /\ Len(u) = Len(s) /\ \A i \in 1..Len(s) : u[i] = h[s[i]].run
  BY <1>1 DEF Jobs
<1>4. /\ Append(u, j) \in Seq(Job)
      /\ Len(Append(u, j)) = Len(s) + 1
      /\ \A i \in 1..Len(s) : Append(u, j)[i] = u[i]
      /\ Append(u, j)[Len(s) + 1] = j
  BY <1>3, AppendProperties
<1> HIDE DEF t, u
<1>5. \A i \in 1..(Len(s) + 1) : g[t[i]].run = Append(u, j)[i]
  BY <1>1, <1>2, <1>3, <1>4 DEF AddsJob
<1>6. Append(u, j) = [i \in 1..(Len(s) + 1) |-> Append(u, j)[i]]
  BY <1>4, LenProperties
<1>7. Jobs(g, t) = [i \in 1..(Len(s) + 1) |-> Append(u, j)[i]]
  BY <1>2, <1>5 DEF Jobs
<1> QED
  BY <1>6, <1>7 DEF t, u

(* The first job of a list, and the others.                                *)
LEMMA JobsTail ==
  ASSUME NEW S, NEW h \in [S -> Cell], NEW s \in Seq(S), s # << >>
  PROVE  /\ Jobs(h, s) # << >>
         /\ Head(Jobs(h, s)) = h[s[1]].run
         /\ Jobs(h, Tail(s)) = Tail(Jobs(h, s))
<1> DEFINE u == Jobs(h, s)
<1>1. Len(s) \in Nat /\ Len(s) # 0
      /\ \A i \in 1..Len(s) : s[i] \in S /\ h[s[i]].run \in Job
  BY LenProperties, ElementOfSeq, EmptySeq DEF Cell
<1>2. u \in Seq(Job) /\ Len(u) = Len(s) /\ \A i \in 1..Len(s) : u[i] = h[s[i]].run
  BY <1>1 DEF Jobs
<1>3. u # << >>
  BY <1>1, <1>2, EmptySeq
<1> HIDE DEF u
<1>4. Head(u) = u[1]
  BY <1>2, <1>3
<1>5. /\ Tail(s) \in Seq(S) /\ Len(Tail(s)) = Len(s) - 1
      /\ \A i \in 1..(Len(s) - 1) : Tail(s)[i] = s[i + 1]
  BY <1>1, HeadTailProperties
<1>6. /\ Tail(u) \in Seq(Job) /\ Len(Tail(u)) = Len(s) - 1
      /\ \A i \in 1..(Len(s) - 1) : Tail(u)[i] = u[i + 1]
  BY <1>2, <1>3, HeadTailProperties
<1>7. \A i \in 1..(Len(s) - 1) : h[Tail(s)[i]].run = Tail(u)[i]
  BY <1>1, <1>2, <1>5, <1>6
<1>8. Tail(u) = [i \in 1..(Len(s) - 1) |-> Tail(u)[i]]
  BY <1>6, LenProperties
<1>9. Jobs(h, Tail(s)) = [i \in 1..(Len(s) - 1) |-> Tail(u)[i]]
  BY <1>5, <1>7 DEF Jobs
<1>10. Jobs(h, Tail(s)) = Tail(u)
  BY <1>8, <1>9
<1>11. Head(u) = h[s[1]].run
  BY <1>1, <1>2, <1>4
<1> QED
  BY <1>3, <1>10, <1>11 DEF u

(* The list implements the queue of RunOnceFifo.                           *)
THEOREM Refinement == Spec => Fifo!Spec
<1> USE DEF pointers, prepare, history
<1>1. Init => Fifo!Init
  <2>1. Len(<< >>) = 0 /\ 1..0 = {}
    OBVIOUS
  <2>2. \A f : [i \in 1..0 |-> f[i]] = << >>
    OBVIOUS
  <2> QED
    BY <2>1 DEF Init, Fifo!Init, Jobs
<1>2. ASSUME IInv, [Next]_vars
      PROVE  [Fifo!Next]_(Fifo!vars)
  <2>1. order \in Seq(Live) /\ heap \in [Live -> Cell]
    BY <1>2, SeqOfRange DEF IInv, TypeOK, ListIsOrder
  <2>2. ASSUME NEW j \in Job, NEW e \in Entry, RunLater(j, e)
        PROVE  Fifo!Schedule(j)
    <3>1. AddsJob(Live, heap, heap', e, j)
      <4>1. /\ heap' \in [Live' -> Cell]
            /\ Live' = Live \cup {e}
            /\ heap'[e] = [run |-> j, next |-> NULL]
            /\ \A x \in Live : heap'[x] = IF order # << >> /\ x = run_once_last
                                          THEN [heap[x] EXCEPT !.next = e]
                                          ELSE heap[x]
        BY <1>2, <2>2, RunLaterEffect
      <4> QED
        BY <2>1, <4>1 DEF Cell, AddsJob
    <3>2. order' = Append(order, e) /\ pc' = pc /\ p' = p
      BY <2>2 DEF RunLater
    <3>3. CASE pc = "job"
      <4>1. order # << >> /\ p \in Live
        BY <1>2, <3>3, ListFacts DEF IInv, ListIsOrder, PointerInv
      <4>2. Tail(order) \in Seq(Live) /\ Tail(order') = Append(Tail(order), e)
        <5>1. Tail(order) \in Seq(Live)
          BY <2>1, <4>1, HeadTailProperties
        <5>2. Tail(Append(order, e)) = Append(Tail(order), e)
          BY <2>1, <4>1, HeadTailAppend
        <5> QED
          BY <3>2, <5>1, <5>2
      <4>3. Jobs(heap', Tail(order')) = Append(Jobs(heap, Tail(order)), j)
        <5>1. Jobs(heap', Append(Tail(order), e)) = Append(Jobs(heap, Tail(order)), j)
          <6> DEFINE w == Tail(order)
          <6>1. w \in Seq(Live)
            BY <4>2
          <6> HIDE DEF w
          <6>2. Jobs(heap', Append(w, e)) = Append(Jobs(heap, w), j)
            BY <3>1, <6>1, JobsAppend
          <6> QED
            BY <6>2 DEF w
        <5> QED
          BY <4>2, <5>1
      <4> QED
        BY <3>1, <3>2, <3>3, <4>1, <4>3 DEF Fifo!Schedule, AddsJob
    <3>4. CASE pc # "job"
      <4>1. Jobs(heap', order') = Append(Jobs(heap, order), j)
        <5>1. Jobs(heap', Append(order, e)) = Append(Jobs(heap, order), j)
          BY <2>1, <3>1, JobsAppend
        <5> QED
          BY <3>2, <5>1
      <4> QED
        BY <3>2, <3>4, <4>1 DEF Fifo!Schedule
    <3> QED
      BY <3>3, <3>4
  <2>3. CASE PrepareFires \/ WalkEnds \/ UNCHANGED vars
    BY <2>3 DEF PrepareFires, WalkEnds, vars, Fifo!vars
  <2>4. CASE CallJob
    <3>1. order # << >> /\ p = order[1]
      BY <1>2, <2>4 DEF IInv, ListIsOrder, CallJob
    <3>2. /\ Jobs(heap, order) # << >>
          /\ Head(Jobs(heap, order)) = heap[p].run
          /\ Jobs(heap, Tail(order)) = Tail(Jobs(heap, order))
      BY <2>1, <3>1, JobsTail
    <3> QED
      BY <2>4, <3>1, <3>2 DEF CallJob, Fifo!Start, Fifo!Next
  <2>5. CASE JobReturns
    <3>1. p \in Live /\ heap[p].run # Idle
      <4>1. pc = "job" /\ order # << >> /\ p = order[1]
        BY <1>2, <2>5 DEF IInv, ListIsOrder, PointerInv, JobReturns
      <4>2. 1 \in 1..Len(order)
        BY <1>2, <4>1, ListFacts
      <4>3. p \in Live
        BY <1>2, <4>1, <4>2, ListFacts
      <4> QED
        BY <2>1, <4>3, JobAssumption DEF Cell
    <3>2. \A i \in 1..Len(order') : order'[i] \in Live \ {p}
      <4>1. IInv'
        BY <1>2, <2>5, JobReturnsInv
      <4>2. Range(order') = Live' /\ Live' = Live \ {p}
        BY <2>1, <2>5, <4>1 DEF IInv, ListIsOrder, JobReturns, Free, Restrict, Live
      <4>3. DOMAIN order' = 1..Len(order')
        BY <4>1, LenProperties DEF IInv, TypeOK
      <4> QED
        BY <4>2, <4>3 DEF Range
    <3>3. Jobs(heap', order') = Jobs(heap, Tail(order))
      BY <2>5, <3>2 DEF JobReturns, Jobs, Free, Restrict, Live
    <3> QED
      BY <2>5, <3>1, <3>3 DEF JobReturns, Fifo!Finish, Fifo!Next
  <2> QED
    BY <2>2, <2>3, <2>4, <2>5, <1>2 DEF Next, Fifo!Next
<1> QED
  BY <1>1, <1>2, Invariance, PTL DEF Spec, Fifo!Spec

(* No job of runloop_run_later() is lost and no cell leaks: the list is    *)
(* what was handed over and has not returned, in that order.               *)
THEOREM NoJobIsLost == Spec => []ListIsOrder
<1>1. IInv => ListIsOrder
  BY DEF IInv
<1> QED
  BY <1>1, Invariance, PTL

(* The list, its two ends and the cursor of the walk are typed.            *)
THEOREM TypeCorrect == Spec => []TypeOK
<1>1. IInv => TypeOK
  BY DEF IInv
<1> QED
  BY <1>1, Invariance, PTL
=============================================================================
