------------------------ MODULE RighackSectionProofs ------------------------
(***************************************************************************)
(* Proofs about the single sections of Righack, for any number of them:    *)
(* each is started once and in its turn, and its radio keeps the promise   *)
(* of PttFollower whatever the other sections do.  And the parts that      *)
(* Righack is composed of are used as their specifications say.            *)
(***************************************************************************)
EXTENDS RighackProofs

(* The sections whose modules are in the list of running modules.          *)
Listed == {running_modules[i] : i \in 1..Len(running_modules)}

Descending ==
  \A i, k \in 1..Len(running_modules) : i < k => running_modules[k] < running_modules[i]

(* What is listed has had its turn; what is in use is listed.              *)
StackInv ==
  /\ InMain => Listed = {}
  /\ active \cup opened \subseteq Listed
  /\ \A s \in Listed, k \in 1..Len(jobs) : IsStart(jobs[k]) => s < jobs[k][2]
  /\ pc \in {"module.name", "lookup"} => \A s \in Listed : s < Current
  /\ InStart /\ pc \notin {"module.name", "lookup"} => Current \in Listed
  /\ pc \in {"driver", "vserial.port", "init"} => Current \notin active

(* At most one delivery of a section waits or runs.                        *)
OneDelivery ==
  /\ \A i, k \in 1..Len(jobs) : IsDeliver(jobs[i]) /\ jobs[i] = jobs[k] => i = k
  /\ job # Idle /\ IsDeliver(job) => \A i \in 1..Len(jobs) : jobs[i] # job

SectionInv ==
  /\ Descending
  /\ ~Ended => StackInv /\ OneDelivery

-----------------------------------------------------------------------------
(* The steps, by what they do to the queue, the list and the radios. *)

(* They change control, the string buffer, or what only the loop looks at. *)
Quiet ==
  \/ Load \/ LoadPlugins \/ EnterLoop \/ JobsDone
  \/ Poll \/ SignalEvent \/ EndIteration \/ Interrupt
  \/ ReadModuleName \/ CreateDriver \/ ReadPort \/ Attach \/ ReadRigid \/ ReadSerial \/ NoSerial

(* They end the program.                                                   *)
Ending ==
  \/ NoModuleName \/ NoPort \/ NoRigid \/ BadSerial \/ LookupDamages
  \/ (\E t \in Section : ReadData(t)) \/ StopModule \/ CleanExit \/ Failure

LEMMA StepKinds ==
  ASSUME Next
  PROVE  \/ Quiet \/ Ending
         \/ ScheduleSection \/ RunJob \/ CreateModule \/ InitDriver \/ RigOpens \/ Deliver
         \/ (\E t \in Section : PortEvent(t)) \/ Client
BY DEF Next, Program, Main, Start, Loop, Quiet, Ending

(* Where control goes on: nowhere earlier in a start.                      *)
Unnamed == {"module.name", "lookup"}
Portless == {"driver", "vserial.port", "init"}

LEMMA QuietFacts ==
  ASSUME Quiet
  PROVE  /\ UNCHANGED <<jobs, job, running_modules, active, opened, rts, seen, ptt>>
         /\ ~Ended /\ ~Ended'
         /\ InMain' => InMain
         /\ pc' \in Unnamed => pc \in Unnamed
         /\ InStart' /\ pc' \notin Unnamed => InStart /\ pc \notin Unnamed
         /\ pc' \in Portless => pc \in Portless
<1> USE DEF Ended, InMain, InStart, Unnamed, Portless, queue, modules, ports, radios
<1>1. CASE Load \/ LoadPlugins \/ EnterLoop \/ JobsDone
  BY <1>1 DEF Load, LoadPlugins, EnterLoop, JobsDone
<1>2. CASE Poll \/ SignalEvent \/ EndIteration
  BY <1>2 DEF Poll, SignalEvent, AfterSignal, EndIteration
<1>3. CASE Interrupt
  BY <1>3 DEF Interrupt
<1>4. CASE ReadModuleName \/ ReadPort \/ ReadSerial
  BY <1>4 DEF ReadModuleName, ReadPort, ReadSerial, LookupFound
<1>5. CASE CreateDriver \/ Attach \/ ReadRigid \/ NoSerial
  BY <1>5 DEF CreateDriver, Attach, ReadRigid, NoSerial
<1> QED
  BY <1>1, <1>2, <1>3, <1>4, <1>5 DEF Quiet

LEMMA EndingFacts ==
  ASSUME Ending
  PROVE  UNCHANGED <<jobs, job, running_modules, active, opened, rts, seen, ptt>> /\ Ended'
<1> USE DEF Ended, Exit, queue, modules, ports, radios
<1>1. CASE \/ NoModuleName \/ NoPort \/ NoRigid \/ BadSerial
           \/ (\E t \in Section : ReadData(t)) \/ StopModule \/ Failure
  <2>1. Fatal
    BY <1>1 DEF NoModuleName, NoPort, NoRigid, BadSerial, ReadData, StopModule, Failure, LoadFails,
       PortFails, RigFails, PortEventFails
  <2> QED
    BY <2>1 DEF Fatal
<1>2. CASE LookupDamages
  BY <1>2 DEF LookupDamages
<1>3. CASE CleanExit
  BY <1>3 DEF CleanExit
<1> QED
  BY <1>1, <1>2, <1>3 DEF Ending

LEMMA ClientFacts ==
  ASSUME Client
  PROVE  UNCHANGED <<jobs, job, running_modules, active, opened, seen, ptt, pc>> /\ ~Ended /\ ~Ended'
BY DEF Client, SetRts, WriteData, IsOpen, Ended, queue, modules, radios

LEMMA PortEventFacts ==
  ASSUME NEW t \in Section, PortEvent(t)
  PROVE  UNCHANGED <<jobs, job, running_modules, active, opened, rts, pc>> /\ pc = "events" /\ t \in batch
BY DEF PortEvent, queue, modules

LEMMA DeliverFacts ==
  ASSUME Deliver
  PROVE  /\ UNCHANGED <<jobs, running_modules, active, opened, rts, seen>> /\ job' = Idle
         /\ pc = "deliver" /\ pc' = "prepare"
BY DEF Deliver, Queue!Finish, modules

LEMMA RigOpensFacts ==
  ASSUME RigOpens
  PROVE  /\ UNCHANGED <<jobs, running_modules, active, rts, seen, ptt>> /\ job' = Idle
         /\ opened' = opened \cup {Current}
         /\ pc = "rig_open" /\ pc' = "prepare"
BY DEF RigOpens, Queue!Finish, modules, ports
-----------------------------------------------------------------------------
(* The list of running modules and the deliveries. *)

(* A step that leaves the list and the queue alone, but may finish a job   *)
(* or open a radio of a listed section.                                    *)
LEMMA ListStays ==
  ASSUME StackInv, OneDelivery, Descending,
         UNCHANGED <<jobs, running_modules, active>>, opened' \subseteq Listed,
         job' = job \/ (job' = Idle /\ ~InStart'),
         InMain' => InMain,
         pc' \in Unnamed => pc \in Unnamed,
         InStart' /\ pc' \notin Unnamed => InStart /\ pc \notin Unnamed,
         pc' \in Portless => pc \in Portless
  PROVE  SectionInv'
<1>1. Listed' = Listed /\ Descending'
  BY DEF Listed, Descending
<1>2. pc' \in Unnamed \cup Portless => InStart'
  BY DEF Unnamed, Portless, InStart
<1>3. InStart' => Current' = Current
  BY DEF Current
<1>4. StackInv'
  BY <1>1, <1>2, <1>3 DEF StackInv, Unnamed, Portless
<1>5. OneDelivery'
  BY DEF OneDelivery
<1> QED
  BY <1>1, <1>4, <1>5 DEF SectionInv

(* main() schedules a start, when nothing is listed.                       *)
LEMMA ScheduleSections ==
  ASSUME IInv, ~Ended, SectionInv, ScheduleSection
  PROVE  SectionInv'
<1> DEFINE n == Len(jobs)
<1>1. pc = "main" /\ pc' = "main" /\ UNCHANGED <<running_modules, active, opened>>
  BY DEF ScheduleSection, modules, radios
<1>2. <<"start", scheduled + 1>> \in Job /\ Queue!Schedule(<<"start", scheduled + 1>>)
  BY TurnFacts, JobFacts DEF ScheduleSection, IInv
<1>3. /\ job' = job /\ n \in Nat /\ Len(jobs') = n + 1
      /\ \A i \in 1..n : jobs'[i] = jobs[i]
      /\ jobs'[n + 1] = <<"start", scheduled + 1>>
  BY <1>2, ScheduleFacts DEF IInv
<1>4. ~IsDeliver(jobs'[n + 1])
  BY <1>3 DEF IsDeliver
<1> HIDE DEF n
<1>5. Listed' = {} /\ Descending'
  BY <1>1 DEF SectionInv, StackInv, InMain, Listed, Descending
<1>6. StackInv'
  BY <1>1, <1>5 DEF SectionInv, StackInv, InMain, InStart, Listed
<1>7. OneDelivery'
  <2>1. \A i \in 1..n + 1 : IsDeliver(jobs'[i]) => i \in 1..n /\ jobs'[i] = jobs[i]
    <3> SUFFICES ASSUME NEW i \in 1..n + 1, IsDeliver(jobs'[i])
                 PROVE  i \in 1..n /\ jobs'[i] = jobs[i]
      OBVIOUS
    <3>1. i \in 1..n \/ i = n + 1
      BY <1>3
    <3> QED
      BY <3>1, <1>3, <1>4
  <2>2. \A i, k \in 1..n : IsDeliver(jobs[i]) /\ jobs[i] = jobs[k] => i = k
    BY DEF SectionInv, OneDelivery, n
  <2>3. job = Idle
    BY <1>1 DEF IInv, LiveInv, JobInv, InStart
  <2>4. \A i, k \in 1..n + 1 : IsDeliver(jobs'[i]) /\ jobs'[i] = jobs'[k] => i = k
    BY <2>1, <2>2
  <2> QED
    BY <1>3, <2>3, <2>4 DEF OneDelivery
<1> QED
  BY <1>1, <1>5, <1>6, <1>7 DEF SectionInv

(* The oldest job is taken from the queue.                                 *)
LEMMA RunJobSections ==
  ASSUME IInv, ~Ended, SectionInv, RunJob
  PROVE  SectionInv'
<1>1. /\ job = Idle /\ job' = jobs[1] /\ job' \in Job
      /\ Len(jobs) \in Nat \ {0} /\ Len(jobs') = Len(jobs) - 1
      /\ \A i \in 1..Len(jobs') : jobs'[i] = jobs[i + 1]
  BY StartFacts DEF RunJob, StartOldestJob, IInv
<1>2. /\ pc' = IF IsStart(job') THEN "module.name" ELSE "deliver"
      /\ UNCHANGED <<running_modules, active, opened>>
  BY DEF RunJob, IsStart, modules, radios
<1>3. \A i \in 1..Len(jobs') : i + 1 \in 1..Len(jobs) /\ 1 # i + 1
  BY <1>1
<1>4. 1 \in 1..Len(jobs)
  BY <1>1
<1>5. Listed' = Listed /\ Descending'
  BY <1>2 DEF SectionInv, Listed, Descending
<1>6. StackInv'
  <2>1. \A s \in Listed, k \in 1..Len(jobs') : IsStart(jobs'[k]) => s < jobs'[k][2]
    BY <1>1, <1>3 DEF SectionInv, StackInv
  <2>2. IsStart(job') => \A s \in Listed : s < Current'
    BY <1>1, <1>4 DEF SectionInv, StackInv, Current
  <2>3. active' \cup opened' \subseteq Listed
    BY <1>2 DEF SectionInv, StackInv
  <2> QED
    BY <1>2, <1>5, <2>1, <2>2, <2>3 DEF StackInv, InMain, InStart
<1>7. OneDelivery'
  <2>1. ASSUME NEW i \in 1..Len(jobs'), NEW k \in 1..Len(jobs'), IsDeliver(jobs'[i]), jobs'[i] = jobs'[k]
        PROVE  i = k
    <3>1. i + 1 = k + 1
      BY <1>1, <1>3, <2>1 DEF SectionInv, OneDelivery
    <3> QED
      BY <3>1, <1>1
  <2>2. ASSUME NEW i \in 1..Len(jobs'), IsDeliver(job'), jobs'[i] = job'
        PROVE  FALSE
    BY <1>1, <1>3, <1>4, <2>2 DEF SectionInv, OneDelivery
  <2> QED
    BY <2>1, <2>2 DEF OneDelivery
<1> QED
  BY <1>2, <1>5, <1>6, <1>7 DEF SectionInv

(* A module is put in front of those of earlier sections.                  *)
LEMMA CreateModuleSections ==
  ASSUME IInv, ~Ended, SectionInv, CreateModule
  PROVE  SectionInv'
<1> DEFINE n == Len(running_modules)
<1>1. pc = "lookup" /\ pc' = "driver" /\ UNCHANGED <<jobs, job, active, opened>>
  BY DEF CreateModule, queue, radios
<1>2. job \in Job /\ IsStart(job) /\ job # Idle /\ Current \in Section /\ Current' = Current
  BY <1>1, CurrentFacts DEF IInv, LiveInv, JobInv, InStart, Current
<1>3. /\ n \in Nat /\ Len(running_modules') = n + 1
      /\ running_modules'[1] = Current
      /\ \A i \in 2..n + 1 : running_modules'[i] = running_modules[i - 1]
  <2>1. running_modules \in Seq(Section) /\ <<Current>> \in Seq(Section) /\ Len(<<Current>>) = 1
    BY <1>2 DEF IInv, TypeOK
  <2>2. running_modules' = <<Current>> \o running_modules /\ <<Current>>[1] = Current
    BY DEF CreateModule, Linked
  <2>3. n \in Nat
    BY <2>1, LenProperties
  <2>4. /\ Len(running_modules') = 1 + n
        /\ \A i \in 1..1 + n : running_modules'[i] = IF i <= 1 THEN <<Current>>[i] ELSE running_modules[i - 1]
    BY <2>1, <2>2, ConcatProperties
  <2> HIDE DEF n
  <2> QED
    BY <2>2, <2>3, <2>4
<1>4. \A s \in Listed : s < Current
  BY <1>1 DEF SectionInv, StackInv
<1>5. \A i \in 1..n : running_modules[i] \in Listed
  BY DEF Listed
<1> HIDE DEF n
<1>6. \A i \in 1..n + 1 : i = 1 \/ (i \in 2..n + 1 /\ i - 1 \in 1..n)
  BY <1>3
<1>7. Listed' = Listed \cup {Current}
  <2>1. ASSUME NEW i \in 1..n + 1 PROVE running_modules'[i] \in Listed \cup {Current}
    BY <1>3, <1>5, <1>6
  <2>2. ASSUME NEW i \in 1..n PROVE running_modules[i] \in Listed'
    <3>1. i + 1 \in 1..n + 1 /\ running_modules'[i + 1] = running_modules[i]
      BY <1>3
    <3> QED
      BY <3>1, <1>3 DEF Listed
  <2>3. Current \in Listed'
    <3>1. 1 \in 1..n + 1
      BY <1>3
    <3> QED
      BY <3>1, <1>3 DEF Listed
  <2> QED
    BY <2>1, <2>2, <2>3, <1>3 DEF Listed, n
<1>8. Descending'
  <2> SUFFICES ASSUME NEW i \in 1..n + 1, NEW k \in 1..n + 1, i < k
               PROVE  running_modules'[k] < running_modules'[i]
    BY <1>3 DEF Descending
  <2>1. k - 1 \in 1..n /\ running_modules'[k] = running_modules[k - 1]
    BY <1>3, <1>6
  <2>2. CASE i = 1
    BY <1>3, <1>4, <1>5, <2>1, <2>2
  <2>3. CASE i # 1
    <3>1. i - 1 \in 1..n /\ running_modules'[i] = running_modules[i - 1] /\ i - 1 < k - 1
      BY <1>3, <1>6, <2>3
    <3> QED
      BY <2>1, <3>1 DEF SectionInv, Descending, n
  <2> QED
    BY <2>2, <2>3
<1>9. StackInv'
  <2>1. \A s \in Listed', k \in 1..Len(jobs) : IsStart(jobs[k]) => s < jobs[k][2]
    BY <1>2, <1>7 DEF IInv, LiveInv, OrderInv, SectionInv, StackInv
  <2>2. Current \notin active
    BY <1>2, <1>4 DEF SectionInv, StackInv, Section
  <2>3. active \cup opened \subseteq Listed
    BY DEF SectionInv, StackInv
  <2> QED
    BY <1>1, <1>2, <1>7, <2>1, <2>2, <2>3 DEF StackInv, InMain, InStart
<1>10. OneDelivery'
  BY <1>1 DEF SectionInv, OneDelivery
<1> QED
  BY <1>1, <1>8, <1>9, <1>10 DEF SectionInv

(* The port exists, and the only delivery of the section is deferred.      *)
LEMMA InitDriverSections ==
  ASSUME IInv, ~Ended, SectionInv, InitDriver
  PROVE  SectionInv'
<1> DEFINE n == Len(jobs)
<1>1. /\ pc = "init" /\ pc' = "attach" /\ active' = active \cup {Current}
      /\ UNCHANGED <<running_modules, opened>>
  BY DEF InitDriver, radios
<1>2. job \in Job /\ IsStart(job) /\ ~IsDeliver(job) /\ Current \in Section
  BY <1>1, CurrentFacts, JobFacts DEF IInv, LiveInv, JobInv, InStart
<1>3. /\ job' = job /\ n \in Nat /\ Len(jobs') = n + 1
      /\ \A i \in 1..n : jobs'[i] = jobs[i]
      /\ jobs'[n + 1] = <<"deliver", Current>>
  <2>1. <<"deliver", Current>> \in Job /\ Queue!Schedule(<<"deliver", Current>>)
    BY <1>2, JobFacts DEF InitDriver, DeferFirstDelivery
  <2> QED
    BY <2>1, ScheduleFacts DEF IInv
<1>4. Current' = Current /\ ~IsStart(jobs'[n + 1])
  BY <1>3 DEF Current, IsStart
<1>5. \A i \in 1..n : jobs[i] # <<"deliver", Current>>
  <2>1. ~Delivers(Current)
    BY <1>1, <1>2 DEF SectionInv, StackInv, IInv, LiveInv, RadioInv
  <2>2. IsDeliver(<<"deliver", Current>>) /\ <<"deliver", Current>>[2] = Current
    BY <1>2, JobFacts
  <2> QED
    BY <2>1, <2>2 DEF Delivers, n
<1> HIDE DEF n
<1>6. \A i \in 1..n + 1 : i \in 1..n \/ i = n + 1
  BY <1>3
<1>7. Listed' = Listed /\ Descending' /\ Current \in Listed
  BY <1>1 DEF SectionInv, StackInv, Listed, Descending, InStart
<1>8. StackInv'
  <2>1. \A s \in Listed, k \in 1..n + 1 : IsStart(jobs'[k]) => s < jobs'[k][2]
    BY <1>3, <1>4, <1>6 DEF SectionInv, StackInv, n
  <2>2. active' \cup opened' \subseteq Listed
    BY <1>1, <1>7 DEF SectionInv, StackInv
  <2> QED
    BY <1>1, <1>3, <1>4, <1>7, <2>1, <2>2 DEF StackInv, InMain
<1>9. OneDelivery'
  <2>1. \A i, k \in 1..n : IsDeliver(jobs[i]) /\ jobs[i] = jobs[k] => i = k
    BY DEF SectionInv, OneDelivery, n
  <2>2. \A i, k \in 1..n + 1 : IsDeliver(jobs'[i]) /\ jobs'[i] = jobs'[k] => i = k
    BY <1>3, <1>5, <1>6, <2>1
  <2> QED
    BY <1>2, <1>3, <2>2 DEF OneDelivery
<1> QED
  BY <1>1, <1>7, <1>8, <1>9 DEF SectionInv

LEMMA SectionStep ==
  ASSUME IInv, SectionInv, [Next]_vars
  PROVE  SectionInv'
<1>1. CASE UNCHANGED vars
  <2>1. UNCHANGED <<pc, jobs, job, running_modules, active, opened, code>>
    BY <1>1 DEF vars, queue, modules, radios
  <2>2. Descending' /\ (Ended' <=> Ended)
    BY <2>1 DEF SectionInv, Descending, Ended
  <2>3. StackInv => StackInv'
    <3>1. Listed' = Listed /\ Current' = Current
      BY <2>1 DEF Listed, Current
    <3>2. (InMain' <=> InMain) /\ (InStart' <=> InStart)
      BY <2>1 DEF InMain, InStart
    <3> QED
      BY <2>1, <3>1, <3>2 DEF StackInv
  <2>4. OneDelivery => OneDelivery'
    BY <2>1 DEF OneDelivery
  <2> QED
    BY <2>2, <2>3, <2>4 DEF SectionInv
<1>2. CASE Next
  <2>1. ~Ended /\ StackInv /\ OneDelivery /\ Descending
    BY <1>2, EndedStops DEF SectionInv
  <2>2. opened \subseteq Listed
    BY <2>1 DEF StackInv
  <2>3. CASE Quiet
    BY <2>1, <2>2, <2>3, QuietFacts, ListStays
  <2>4. CASE Ending
    BY <2>1, <2>4, EndingFacts DEF SectionInv, Descending
  <2>5. CASE Client \/ \E t \in Section : PortEvent(t)
    <3>1. UNCHANGED <<jobs, job, running_modules, active, opened, pc>>
      BY <2>5, ClientFacts, PortEventFacts
    <3>2. (InMain' => InMain) /\ (InStart' => InStart)
      BY <3>1 DEF InMain, InStart
    <3> QED
      BY <2>1, <2>2, <3>1, <3>2, ListStays
  <2>6. CASE Deliver
    <3>1. ~InMain' /\ ~InStart' /\ pc' \notin Unnamed \cup Portless
      BY <2>6, DeliverFacts DEF InMain, InStart, Unnamed, Portless
    <3> QED
      BY <2>1, <2>2, <2>6, <3>1, DeliverFacts, ListStays
  <2>7. CASE RigOpens
    <3>1. ~InMain' /\ ~InStart' /\ pc' \notin Unnamed \cup Portless
      BY <2>7, RigOpensFacts DEF InMain, InStart, Unnamed, Portless
    <3>2. opened' \subseteq Listed
      BY <2>1, <2>7, RigOpensFacts DEF StackInv, InStart
    <3> QED
      BY <2>1, <2>7, <3>1, <3>2, RigOpensFacts, ListStays
  <2> QED
    BY <1>2, <2>1, <2>3, <2>4, <2>5, <2>6, <2>7, StepKinds,
       ScheduleSections, RunJobSections, CreateModuleSections, InitDriverSections
<1> QED
  BY <1>1, <1>2

THEOREM SectionInvariance == Spec => []SectionInv
<1>1. Init => SectionInv
  <2> SUFFICES ASSUME Init PROVE SectionInv
    OBVIOUS
  <2>1. /\ running_modules = << >> /\ jobs = << >> /\ job = Idle /\ active = {} /\ opened = {}
        /\ pc = "load" /\ Len(<< >>) = 0
    BY DEF Init, Queue!Init
  <2>2. Listed = {} /\ Descending
    BY <2>1 DEF Listed, Descending
  <2>3. StackInv /\ OneDelivery
    BY <2>1, <2>2 DEF StackInv, OneDelivery, InStart
  <2> QED
    BY <2>1, <2>2, <2>3 DEF SectionInv
<1> QED
  BY <1>1, SectionStep, Invariance, PTL DEF Spec

(* However many sections there are, each is started once and in its turn.  *)
THEOREM EverySectionOnce == Spec => []EachStartedOnce
<1>1. ASSUME IInv, SectionInv PROVE EachStartedOnce
  <2>1. ASSUME pc = "poll", NEW s \in Configured
        PROVE  \E i \in 1..Len(running_modules) : running_modules[i] = s
    <3>1. LiveInv /\ StackInv
      BY <1>1, <2>1 DEF IInv, SectionInv, Ended
    <3>2. jobs = << >> /\ Len(jobs) = 0 /\ job = Idle /\ scheduled = Len(config)
      BY <2>1, <3>1 DEF LiveInv, JobInv, ScheduledInv, InStart, InMain
    <3>3. ~(s > scheduled) /\ ~Starts(s)
      BY <1>1, <3>2, ConfigFacts DEF IInv, Starts
    <3>4. s \in Listed
      BY <3>1, <3>3 DEF LiveInv, StartedInv, StackInv
    <3> QED
      BY <3>4 DEF Listed
  <2> QED
    BY <1>1, <2>1 DEF EachStartedOnce, SectionInv, Descending
<1> QED
  BY <1>1, Invariance, SectionInvariance, PTL
-----------------------------------------------------------------------------
(* Each section is an instance of PttFollower. *)

(* Where the promise to the operator stands.                               *)
LEMMA PhaseFacts ==
  ASSUME NEW s \in Section
  PROVE  /\ Ended => Phase(s) = "stopped"
         /\ ~Ended /\ s \notin active => Phase(s) = "starting"
         /\ ~Ended /\ s \in active /\ DeliveryWaits(s) => Phase(s) = "applying"
         /\ ~Ended /\ s \in active /\ ~DeliveryWaits(s) => Phase(s) = "following"
BY DEF Phase

LEMMA NextPhaseFacts ==
  ASSUME NEW s \in Section
  PROVE  /\ Ended' => Phase(s)' = "stopped"
         /\ ~Ended' /\ s \notin active' => Phase(s)' = "starting"
         /\ ~Ended' /\ s \in active' /\ DeliveryWaits(s)' => Phase(s)' = "applying"
         /\ ~Ended' /\ s \in active' /\ ~DeliveryWaits(s)' => Phase(s)' = "following"
BY DEF Phase

LEMMA RadioStutters ==
  ASSUME NEW s \in Section, ~Ended, ~Ended', active' = active, DeliveryWaits(s)' <=> DeliveryWaits(s)
  PROVE  /\ Phase(s)' = Phase(s)
         /\ rts'[s] = rts[s] /\ seen'[s] = seen[s] /\ ptt'[s] = ptt[s] => UNCHANGED Radio(s)!vars
<1>1. Phase(s)' = Phase(s)
  BY DEF Phase
<1> QED
  BY <1>1 DEF Radio!vars

(* The deliveries that wait, when a job is handed over and when the oldest *)
(* is taken.                                                               *)
LEMMA HandedOver ==
  ASSUME TypeOK, NEW s \in Section, NEW j \in Job, Queue!Schedule(j)
  PROVE  /\ j = <<"deliver", s>> => DeliveryWaits(s)'
         /\ j # <<"deliver", s>> => (DeliveryWaits(s)' <=> DeliveryWaits(s))
<1> DEFINE n == Len(jobs)
<1>1. /\ job' = job /\ n \in Nat /\ Len(jobs') = n + 1
      /\ \A i \in 1..n : jobs'[i] = jobs[i]
      /\ jobs'[n + 1] = j
  BY ScheduleFacts
<1> HIDE DEF n
<1>2. n + 1 \in 1..n + 1 /\ \A i \in 1..n : i \in 1..n + 1
  BY <1>1
<1>3. \A i \in 1..n + 1 : i \in 1..n \/ i = n + 1
  BY <1>1
<1>4. DeliveryWaits(s)' <=> job = <<"deliver", s>> \/ \E i \in 1..n + 1 : jobs'[i] = <<"deliver", s>>
  BY <1>1 DEF DeliveryWaits
<1>5. DeliveryWaits(s) <=> job = <<"deliver", s>> \/ \E i \in 1..n : jobs[i] = <<"deliver", s>>
  BY DEF DeliveryWaits, n
<1> QED
  BY <1>1, <1>2, <1>3, <1>4, <1>5

LEMMA OldestTaken ==
  ASSUME TypeOK, NEW s \in Section, Queue!Start
  PROVE  DeliveryWaits(s)' <=> DeliveryWaits(s)
<1> DEFINE n == Len(jobs)
<1>1. /\ job = Idle /\ job' = jobs[1]
      /\ n \in Nat \ {0} /\ Len(jobs') = n - 1
      /\ \A i \in 1..n - 1 : jobs'[i] = jobs[i + 1]
  BY StartFacts
<1> HIDE DEF n
<1>2. 1 \in 1..n /\ \A i \in 1..n - 1 : i + 1 \in 1..n
  BY <1>1
<1>3. \A i \in 1..n : i = 1 \/ (i - 1 \in 1..n - 1 /\ (i - 1) + 1 = i)
  BY <1>1
<1>4. job # <<"deliver", s>>
  BY <1>1, JobFacts, IdleAssumption
<1>5. DeliveryWaits(s)' <=> job' = <<"deliver", s>> \/ \E i \in 1..n - 1 : jobs'[i] = <<"deliver", s>>
  BY <1>1 DEF DeliveryWaits
<1>6. DeliveryWaits(s) <=> \E i \in 1..n : jobs[i] = <<"deliver", s>>
  BY <1>4 DEF DeliveryWaits, n
<1>7. ASSUME NEW i \in 1..n, jobs[i] = <<"deliver", s>> PROVE DeliveryWaits(s)'
  <2>1. CASE i = 1
    BY <1>1, <1>5, <1>7, <2>1
  <2>2. CASE i # 1
    <3>1. i - 1 \in 1..n - 1 /\ jobs'[i - 1] = jobs[i]
      BY <1>1, <1>3, <2>2
    <3> QED
      BY <3>1, <1>5, <1>7
  <2> QED
    BY <2>1, <2>2
<1> QED
  BY <1>1, <1>2, <1>5, <1>6, <1>7

(* main() and the loop hand over and take jobs; a start ends.              *)
LEMMA QueueSteps ==
  ASSUME IInv, ~Ended, NEW s \in Section, ScheduleSection \/ RunJob \/ RigOpens
  PROVE  UNCHANGED Radio(s)!vars
<1>1. UNCHANGED <<active, rts, seen, ptt>> /\ ~Ended'
  BY DEF ScheduleSection, RunJob, RigOpens, Ended, modules, ports, radios
<1>2. DeliveryWaits(s)' <=> DeliveryWaits(s)
  <2>1. CASE ScheduleSection
    <3>1. <<"start", scheduled + 1>> \in Job /\ <<"start", scheduled + 1>> # <<"deliver", s>>
      BY <2>1, TurnFacts, JobFacts DEF IInv
    <3> QED
      BY <2>1, <3>1, HandedOver DEF ScheduleSection, IInv
  <2>2. CASE RunJob
    BY <2>2, OldestTaken DEF RunJob, StartOldestJob, IInv
  <2>3. CASE RigOpens
    <3>1. jobs' = jobs /\ job' = Idle /\ IsStart(job)
      BY <2>3, RigOpensFacts DEF IInv, LiveInv, JobInv, InStart
    <3>2. job # <<"deliver", s>> /\ job' # <<"deliver", s>>
      BY <3>1, JobFacts, IdleAssumption
    <3> QED
      BY <3>1, <3>2 DEF DeliveryWaits
  <2> QED
    BY <2>1, <2>2, <2>3
<1> QED
  BY <1>1, <1>2, RadioStutters

(* vserial_lifecycle_init() samples the lines of the current section.      *)
LEMMA InitFollows ==
  ASSUME IInv, ~Ended, SectionInv, NEW s \in Section, InitDriver
  PROVE  Radio(s)!Sample \/ UNCHANGED Radio(s)!vars
<1>1. /\ pc = "init" /\ ~Ended' /\ UNCHANGED <<rts, ptt>>
      /\ active' = active \cup {Current}
      /\ seen' = [seen EXCEPT ![Current] = rts[Current]]
      /\ Queue!Schedule(<<"deliver", Current>>)
  BY DEF InitDriver, Ended, DeferFirstDelivery, radios
<1>2. Current \in Section /\ Current \notin active /\ <<"deliver", Current>> \in Job
  BY <1>1, CurrentFacts, JobFacts DEF IInv, InStart, SectionInv, StackInv
<1>3. seen \in [Section -> BOOLEAN] /\ TypeOK
  BY DEF IInv, TypeOK
<1>4. CASE s = Current
  <2>1. Phase(s) = "starting"
    BY <1>2, <1>4, PhaseFacts
  <2>2. Phase(s)' = "applying"
    BY <1>1, <1>2, <1>3, <1>4, HandedOver, NextPhaseFacts
  <2>3. seen'[s] = rts[s]
    BY <1>1, <1>2, <1>3, <1>4
  <2> QED
    BY <1>1, <2>1, <2>2, <2>3 DEF Radio!Sample
<1>5. CASE s # Current
  <2>1. <<"deliver", Current>> # <<"deliver", s>>
    BY <1>5
  <2>2. DeliveryWaits(s)' <=> DeliveryWaits(s)
    BY <1>1, <1>2, <1>3, <2>1, HandedOver
  <2>3. s \in active' <=> s \in active
    BY <1>1, <1>5
  <2>4. Phase(s)' = Phase(s)
    BY <1>1, <2>2, <2>3 DEF Phase
  <2>5. seen'[s] = seen[s]
    BY <1>1, <1>2, <1>3, <1>5
  <2> QED
    BY <1>1, <2>4, <2>5 DEF Radio!vars
<1> QED
  BY <1>4, <1>5

(* The first delivery tells the radio of the current section the sample.   *)
LEMMA DeliverFollows ==
  ASSUME IInv, ~Ended, SectionInv, NEW s \in Section, Deliver
  PROVE  Radio(s)!Apply \/ UNCHANGED Radio(s)!vars
<1>1. /\ pc = "deliver" /\ ~Ended' /\ UNCHANGED <<jobs, active, rts, seen>> /\ job' = Idle
  BY DeliverFacts DEF Ended
<1>2. /\ Current \in Section /\ job \in Job /\ IsDeliver(job) /\ job # Idle /\ TypeOK
  BY <1>1, CurrentFacts, JobFacts, IdleAssumption DEF IInv, LiveInv, JobInv
<1>3. job = <<"deliver", Current>>
  BY <1>2 DEF Job, IsDeliver, Current
<1>4. Current \in active /\ Current \in attached
  <2>1. Delivers(Current)
    BY <1>2 DEF Delivers
  <2> QED
    BY <1>1, <1>2, <2>1 DEF IInv, LiveInv, RadioInv
<1>5. ptt' = [ptt EXCEPT ![Current] = seen'[Current]]
  BY <1>4 DEF Deliver, DeliverFcChanged
<1>6. ptt \in [Section -> BOOLEAN]
  BY <1>2 DEF TypeOK
<1>7. job' # <<"deliver", s>>
  BY <1>1, JobFacts, IdleAssumption
<1>8. CASE s = Current
  <2>1. Phase(s) = "applying"
    BY <1>3, <1>4, <1>8, PhaseFacts DEF DeliveryWaits
  <2>2. ~DeliveryWaits(s)'
    BY <1>1, <1>2, <1>3, <1>7, <1>8 DEF DeliveryWaits, SectionInv, OneDelivery
  <2>3. Phase(s)' = "following"
    BY <1>1, <1>4, <1>8, <2>2, NextPhaseFacts
  <2>4. ptt'[s] = seen[s]
    BY <1>1, <1>2, <1>5, <1>6, <1>8
  <2> QED
    BY <1>1, <2>1, <2>3, <2>4 DEF Radio!Apply
<1>9. CASE s # Current
  <2>1. job # <<"deliver", s>>
    BY <1>3, <1>9
  <2>2. DeliveryWaits(s)' <=> DeliveryWaits(s)
    BY <1>1, <1>7, <2>1 DEF DeliveryWaits
  <2>3. ptt'[s] = ptt[s]
    BY <1>2, <1>5, <1>6, <1>9
  <2> QED
    BY <1>1, <2>2, <2>3, RadioStutters
<1> QED
  BY <1>8, <1>9

(* A poll event of a port samples its lines, and if they have changed      *)
(* tells the radio; other radios are left alone.                           *)
LEMMA EventFollows ==
  ASSUME IInv, ~Ended, NEW s \in Section, NEW t \in Section, PortEvent(t)
  PROVE  Radio(s)!SampleAndApply \/ UNCHANGED Radio(s)!vars
<1>1. /\ pc = "events" /\ t \in batch /\ ~Ended' /\ UNCHANGED <<jobs, job, active, rts>>
  BY PortEventFacts DEF Ended
<1>2. DeliveryWaits(s)' <=> DeliveryWaits(s)
  BY <1>1 DEF DeliveryWaits
<1>3. Phase(s)' = Phase(s)
  BY <1>1, <1>2, RadioStutters
<1>4. seen \in [Section -> BOOLEAN] /\ ptt \in [Section -> BOOLEAN]
  BY DEF IInv, TypeOK
<1>5. t \in active /\ t \in attached
  <2>1. t # INT
    BY DEF Section, INT
  <2> QED
    BY <1>1, <2>1 DEF IInv, LiveInv, BatchInv, RadioInv
<1>6. seen' = [seen EXCEPT ![t] = rts[t]]
  BY DEF PortEvent
<1>7. \/ rts[t] = seen[t] /\ ptt' = ptt
      \/ rts[t] # seen[t] /\ ptt' = [ptt EXCEPT ![t] = seen'[t]]
  BY <1>5 DEF PortEvent, DeliverFcChanged
<1>8. CASE s = t /\ rts[t] # seen[t]
  <2>1. jobs = << >> /\ job = Idle /\ Len(jobs) = 0
    BY <1>1 DEF IInv, LiveInv, JobInv, InStart
  <2>2. job # <<"deliver", s>>
    BY <2>1, JobFacts, IdleAssumption
  <2>3. ~DeliveryWaits(s)
    BY <2>1, <2>2 DEF DeliveryWaits
  <2>4. Phase(s) = "following"
    BY <1>5, <1>8, <2>3, PhaseFacts
  <2>5. seen'[s] = rts[s] /\ ptt'[s] = rts[s]
    BY <1>4, <1>6, <1>7, <1>8
  <2> QED
    BY <1>1, <1>3, <2>4, <2>5 DEF Radio!SampleAndApply
<1>9. CASE s # t \/ rts[t] = seen[t]
  <2>1. seen'[s] = seen[s] /\ ptt'[s] = ptt[s]
    BY <1>4, <1>6, <1>7, <1>9
  <2> QED
    BY <1>1, <1>2, <2>1, RadioStutters
<1> QED
  BY <1>8, <1>9

(* A client changes the line of one port, of which nobody is told yet.     *)
LEMMA ClientFollows ==
  ASSUME IInv, NEW s \in Section, Client
  PROVE  Radio(s)!Client
<1>1. /\ UNCHANGED <<jobs, job, active, seen, ptt, pc>> /\ ~Ended /\ ~Ended'
  BY ClientFacts
<1>2. rts'[s] \in BOOLEAN
  BY ClientType DEF IInv, TypeOK, Next
<1>3. DeliveryWaits(s)' <=> DeliveryWaits(s)
  BY <1>1 DEF DeliveryWaits
<1>4. Phase(s)' = Phase(s)
  BY <1>1, <1>3, RadioStutters
<1> QED
  BY <1>1, <1>2, <1>4 DEF Radio!Client

LEMMA FollowerStep ==
  ASSUME IInv, SectionInv, Next, NEW s \in Section
  PROVE  [Radio(s)!Next]_(Radio(s)!vars)
<1>1. ~Ended
  BY EndedStops
<1>2. CASE Quiet
  <2>1. UNCHANGED <<jobs, job, active, rts, seen, ptt>> /\ ~Ended'
    BY <1>2, QuietFacts
  <2>2. DeliveryWaits(s)' <=> DeliveryWaits(s)
    BY <2>1 DEF DeliveryWaits
  <2> QED
    BY <1>1, <2>1, <2>2, RadioStutters
<1>3. CASE Ending
  <2>1. UNCHANGED <<rts, seen, ptt>> /\ Ended'
    BY <1>3, EndingFacts
  <2>2. Phase(s)' = "stopped"
    BY <2>1, NextPhaseFacts
  <2> QED
    BY <2>1, <2>2 DEF Radio!Next, Radio!Stop
<1>4. CASE ScheduleSection \/ RunJob \/ RigOpens
  BY <1>1, <1>4, QueueSteps
<1>5. CASE CreateModule
  <2>1. UNCHANGED <<jobs, job, active, rts, seen, ptt>> /\ ~Ended'
    BY <1>5 DEF CreateModule, Ended, queue, ports, radios
  <2>2. DeliveryWaits(s)' <=> DeliveryWaits(s)
    BY <2>1 DEF DeliveryWaits
  <2> QED
    BY <1>1, <2>1, <2>2, RadioStutters
<1>6. CASE InitDriver
  BY <1>1, <1>6, InitFollows DEF Radio!Next
<1>7. CASE Deliver
  BY <1>1, <1>7, DeliverFollows DEF Radio!Next
<1>8. CASE \E t \in Section : PortEvent(t)
  BY <1>1, <1>8, EventFollows DEF Radio!Next
<1>9. CASE Client
  BY <1>9, ClientFollows DEF Radio!Next
<1> QED
  BY <1>2, <1>3, <1>4, <1>5, <1>6, <1>7, <1>8, <1>9, StepKinds

(* For every section of every configuration, whatever the other sections,  *)
(* their clients and their faults do, the radio is left alone until the    *)
(* first delivery and from then on told nothing but samples of its line.   *)
THEOREM EveryRadioKeepsPromise == Spec => EveryRadioIsFollower
<1>1. Init => \A s \in Section : Radio(s)!Init
  <2> SUFFICES ASSUME Init, NEW s \in Section PROVE Radio(s)!Init
    OBVIOUS
  <2>1. rts[s] = FALSE /\ seen[s] = FALSE /\ ptt[s] \in BOOLEAN
    BY DEF Init
  <2>2. ~Ended /\ s \notin active
    BY DEF Init, Ended
  <2>3. Phase(s) = "starting"
    BY <2>2, PhaseFacts
  <2> QED
    BY <2>1, <2>3 DEF Radio!Init
<1>2. ASSUME IInv, SectionInv, [Next]_vars
      PROVE  [\A s \in Section : [Radio(s)!Next]_(Radio(s)!vars)]_vars
  BY <1>2, FollowerStep
<1> QED
  BY <1>1, <1>2, Invariance, SectionInvariance, PTL DEF Spec, EveryRadioIsFollower
-----------------------------------------------------------------------------
(* Righack is composed of its parts. *)

LEMMA QueueUsed ==
  ASSUME IInv, [Next]_vars
  PROVE  [Queue!Next]_(Queue!vars)
<1> USE DEF Queue!vars
<1>1. CASE UNCHANGED vars
  BY <1>1 DEF vars, queue
<1>2. CASE Next
  <2>1. TypeOK /\ ~Ended /\ LiveInv
    BY <1>2, EndedStops DEF IInv
  <2>2. CASE Quiet \/ Ending \/ Client \/ \E t \in Section : PortEvent(t)
    BY <2>2, QuietFacts, EndingFacts, ClientFacts, PortEventFacts
  <2>3. CASE CreateModule
    BY <2>3 DEF CreateModule, queue
  <2>4. CASE ScheduleSection
    <3>1. <<"start", scheduled + 1>> \in Job
      BY <2>1, <2>4, TurnFacts, JobFacts
    <3> QED
      BY <2>4, <3>1 DEF ScheduleSection, Queue!Next
  <2>5. CASE InitDriver
    <3>1. <<"deliver", Current>> \in Job
      BY <2>1, <2>5, CurrentFacts, JobFacts DEF InitDriver, InStart
    <3> QED
      BY <2>5, <3>1 DEF InitDriver, DeferFirstDelivery, Queue!Next
  <2>6. CASE RunJob \/ RigOpens \/ Deliver
    BY <2>6 DEF RunJob, StartOldestJob, RigOpens, Deliver, Queue!Next
  <2> QED
    BY <1>2, <2>2, <2>3, <2>4, <2>5, <2>6, StepKinds
<1> QED
  BY <1>1, <1>2

(* main(), the loop and the driver use the run once queue of runloop.c as  *)
(* RunOnceFifo says, so what is shown of RunOnce holds in the whole        *)
(* program.                                                                *)
THEOREM UsesQueue == Spec => Queue!Spec
<1>1. Init => Queue!Init
  BY DEF Init
<1> QED
  BY <1>1, QueueUsed, Invariance, PTL DEF Spec, Queue!Spec

(* What the program does to the string buffer of configfile.c are its own  *)
(* lookups and nothing else: what is shown of ConfigFile, in which other   *)
(* code may also allocate and free, holds in the whole program.            *)
THEOREM UsesFile == Spec => File!Spec
<1>1. Init => File!Init
  BY DEF Init
<1>2. [Next]_vars => [File!Next]_(File!vars)
  BY FileSteps DEF File!Next, File!vars, file
<1> QED
  BY <1>1, <1>2, PTL DEF Spec, File!Spec
=============================================================================
