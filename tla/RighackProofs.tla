--------------------------- MODULE RighackProofs ---------------------------
(***************************************************************************)
(* Proofs about Righack, for any number of sections.                       *)
(***************************************************************************)
EXTENDS Righack, SequenceTheorems, TLAPS

InMain == pc \in {"load", "plugins", "main"}
InStart == pc \in {"module.name", "lookup", "driver", "vserial.port", "init", "attach",
                   "hamlib.rigid", "hamlib.serial", "rig_open"}

IsStart(j) == j[1] = "start"
IsDeliver(j) == j[1] = "deliver"

Starts(s) ==
  \/ \E i \in 1..Len(jobs) : IsStart(jobs[i]) /\ jobs[i][2] = s
  \/ job # Idle /\ IsStart(job) /\ Current = s

Delivers(s) ==
  \/ \E i \in 1..Len(jobs) : IsDeliver(jobs[i]) /\ jobs[i][2] = s
  \/ job # Idle /\ IsDeliver(job) /\ Current = s

(* Which job is running follows from where control is.                     *)
JobInv ==
  /\ InStart => job \in Job /\ IsStart(job)
  /\ pc = "deliver" => job \in Job /\ IsDeliver(job)
  /\ ~InStart /\ pc # "deliver" => job = Idle
  /\ pc \in {"poll", "events"} => jobs = << >>

(* main() schedules the sections in turn, before anything else.            *)
ScheduledInv ==
  /\ scheduled <= Len(config)
  /\ ~InMain => scheduled = Len(config)
  /\ InMain => \A i \in 1..Len(jobs) : IsStart(jobs[i]) /\ jobs[i][2] <= scheduled

(* What waits are first starts, by section, and then deliveries.           *)
OrderInv ==
  /\ \A i \in 1..Len(jobs) : jobs[i][2] <= Len(config)
  /\ job # Idle => Current <= Len(config)
  /\ \A i, k \in 1..Len(jobs) :
       i < k /\ IsStart(jobs[k]) => IsStart(jobs[i]) /\ jobs[i][2] < jobs[k][2]
  /\ job # Idle =>
       \A k \in 1..Len(jobs) : IsStart(jobs[k]) => IsStart(job) /\ Current < jobs[k][2]

(* No section is forgotten.                                                *)
StartedInv ==
  /\ \A s \in Configured : s \in opened \/ s > scheduled \/ Starts(s)
  /\ opened \subseteq Configured

(* A radio is as the driver's copy of RTS says, or will be told.           *)
RadioInv ==
  /\ \A s \in active : s \in attached \/ (pc = "attach" /\ s = Current)
  /\ \A s \in active : s \in mset \/ seen[s] = rts[s]
  /\ \A s \in active : ptt[s] = seen[s] \/ Delivers(s)
  /\ \A s \in Section : Delivers(s) => s \in active

BatchInv == batch \subseteq active \cup {INT}

(* The string buffer dangles after a section without hamlib.serial.port,   *)
(* until the next section is started.                                      *)
DanglingInv ==
  ~File!BufIsLive =>
    /\ ~InMain
    /\ \E s \in Configured :
         /\ ~config[s].serial
         /\ \A k \in 1..Len(jobs) : IsStart(jobs[k]) => s < jobs[k][2]
         /\ InStart => s < Current \/ (s = Current /\ pc = "rig_open")

(* The inductive invariant.  Once the program has ended only its history   *)
(* matters.                                                                *)
LiveInv ==
  JobInv /\ ScheduledInv /\ OrderInv /\ StartedInv /\ RadioInv /\ BatchInv /\ DanglingInv

IInv ==
  /\ TypeOK
  /\ NoRadioBeforeAllStarted
  /\ DamageNeedsMissingKey
  /\ ~Ended => LiveInv

LEMMA ConfigFacts ==
  ASSUME TypeOK
  PROVE  /\ Len(config) \in Nat
         /\ Len(config) <= MaxSection
         /\ Configured = 1..Len(config)
         /\ Configured \subseteq Section
<1>1. PICK n \in 0..MaxSection : config \in [1..n -> SectionConfig]
  BY DEF TypeOK
<1> QED
  BY <1>1, MaxSectionAssumption DEF Configured, Section

LEMMA JobFacts ==
  /\ \A j \in Job : j[1] \in {"start", "deliver"} /\ j[2] \in Section
  /\ \A s \in Section :
       /\ <<"start", s>> \in Job /\ IsStart(<<"start", s>>) /\ ~IsDeliver(<<"start", s>>)
       /\ <<"deliver", s>> \in Job /\ IsDeliver(<<"deliver", s>>) /\ ~IsStart(<<"deliver", s>>)
       /\ <<"start", s>>[2] = s /\ <<"deliver", s>>[2] = s
  /\ \A j \in Job : IsStart(j) <=> ~IsDeliver(j)
BY DEF Job, IsStart, IsDeliver

(* The job of a section that is started or that gets its first delivery.   *)
LEMMA CurrentFacts ==
  ASSUME TypeOK, LiveInv, InStart \/ pc = "deliver"
  PROVE  job \in Job /\ job # Idle /\ Current \in Section
BY JobFacts, IdleAssumption DEF LiveInv, JobInv, Current

LEMMA CurrentIsConfigured ==
  ASSUME TypeOK, LiveInv, InStart \/ pc = "deliver"
  PROVE  Current \in Configured
<1>1. job # Idle /\ Current \in Section
  BY CurrentFacts
<1>2. Current <= Len(config)
  BY <1>1 DEF LiveInv, OrderInv
<1> QED
  BY <1>1, <1>2, ConfigFacts, MaxSectionAssumption DEF Section

(* A turn of main()'s loop over the sections.                              *)
LEMMA TurnFacts ==
  ASSUME TypeOK, ScheduleSection
  PROVE  /\ scheduled \in Nat /\ scheduled < Len(config)
         /\ scheduled' = scheduled + 1 /\ scheduled' \in 0..MaxSection
         /\ scheduled + 1 \in Section
<1>1. scheduled \in 0..MaxSection
  BY DEF TypeOK
<1>2. scheduled < Len(config) /\ scheduled' = scheduled + 1
  BY DEF ScheduleSection, MoreSections
<1> QED
  BY <1>1, <1>2, ConfigFacts, MaxSectionAssumption DEF Section

(* What a scheduled job changes of the queue.                              *)
LEMMA ScheduleFacts ==
  ASSUME TypeOK, NEW j \in Job, Queue!Schedule(j)
  PROVE  /\ jobs' \in Seq(Job) /\ job' = job
         /\ Len(jobs) \in Nat /\ Len(jobs') = Len(jobs) + 1
         /\ \A i \in 1..Len(jobs) : jobs'[i] = jobs[i]
         /\ jobs'[Len(jobs) + 1] = j
<1>1. jobs \in Seq(Job) /\ jobs' = Append(jobs, j) /\ job' = job
  BY DEF TypeOK, Queue!TypeOK, Queue!Schedule
<1> QED
  BY <1>1, AppendProperties, LenProperties

(* What the start of a job changes of it.                                  *)
LEMMA StartFacts ==
  ASSUME TypeOK, Queue!Start
  PROVE  /\ job = Idle /\ job' = jobs[1] /\ job' \in Job
         /\ jobs' \in Seq(Job)
         /\ Len(jobs) \in Nat \ {0} /\ Len(jobs') = Len(jobs) - 1
         /\ \A i \in 1..Len(jobs') : jobs'[i] = jobs[i + 1]
<1>1. jobs \in Seq(Job) /\ jobs # << >> /\ job = Idle /\ job' = Head(jobs) /\ jobs' = Tail(jobs)
  BY DEF TypeOK, Queue!TypeOK, Queue!Start
<1> QED
  BY <1>1, HeadTailProperties, LenProperties, EmptySeq

(* The lookups keep the string buffer typed, and leave it live when the    *)
(* key is there.                                                           *)
LEMMA FileFacts ==
  ASSUME File!TypeOK
  PROVE  /\ \A a \in Addr : File!GetsFound(a) => File!TypeOK' /\ File!BufIsLive'
         /\ File!GetsMissing => File!TypeOK'
         /\ File!GetsDamages => File!TypeOK'
         /\ UNCHANGED file => File!TypeOK'
BY DEF File!TypeOK, File!BufIsLive, File!GetsFound, File!GetsMissing, File!GetsDamages,
   File!FreeBuf, file

(* The steps that leave all but control, the events and the string buffer  *)
(* alone keep what is known of jobs and radios.                            *)
LEMMA QuietInv ==
  ASSUME LiveInv, pc = "attach" => pc' = "attach",
         UNCHANGED <<config, scheduled, queue, active, attached, ports, radios>>,
         JobInv', ScheduledInv', BatchInv', DanglingInv'
  PROVE  LiveInv'
<1> USE DEF LiveInv, queue, ports, radios
<1>1. OrderInv'
  BY DEF OrderInv, Current
<1>2. StartedInv'
  BY DEF StartedInv, Starts, Current, Configured
<1>3. RadioInv'
  BY DEF RadioInv, Delivers, Current
<1> QED
  BY <1>1, <1>2, <1>3

(* A client of a port changes nothing but its lines and its data.          *)
LEMMA ClientType ==
  ASSUME TypeOK, Client
  PROVE  TypeOK'
<1>1. rts' \in [Section -> BOOLEAN] /\ mset' \subseteq Section /\ written' \subseteq Section
  <2>1. ASSUME NEW s \in Section, NEW b \in BOOLEAN, SetRts(s, b)
        PROVE  rts' \in [Section -> BOOLEAN] /\ mset' \subseteq Section /\ written' \subseteq Section
    BY <2>1 DEF TypeOK, SetRts
  <2>2. ASSUME NEW s \in Section, WriteData(s)
        PROVE  rts' \in [Section -> BOOLEAN] /\ mset' \subseteq Section /\ written' \subseteq Section
    BY <2>2 DEF TypeOK, WriteData
  <2> QED
    BY <2>1, <2>2 DEF Client
<1>2. UNCHANGED <<setup, queue, file, modules, seen, radios, events, pc, code>>
  BY DEF Client, SetRts, WriteData
<1>3. Queue!TypeOK' /\ File!TypeOK'
  BY <1>2 DEF TypeOK, queue, file, Queue!TypeOK, File!TypeOK
<1> QED
  BY <1>1, <1>2, <1>3 DEF TypeOK, setup, file, modules, radios, events

(* What a module of the running list, a port or a radio may be.            *)
LEMMA TypeInv ==
  ASSUME TypeOK, ~Ended => LiveInv, Next
  PROVE  TypeOK'
<1> USE ConfigFacts, FileFacts DEF TypeOK, Stages, setup, file, modules, ports, radios, events, Exit, Fatal
<1>0. Queue!TypeOK <=> jobs \in Seq(Job) /\ job \in Job \cup {Idle}
  BY DEF Queue!TypeOK
<1>1. CASE Load \/ LoadPlugins \/ EnterLoop \/ JobsDone
  BY <1>1 DEF Load, LoadPlugins, EnterLoop, JobsDone, queue, Queue!TypeOK
<1>2. CASE ScheduleSection
  <2>1. scheduled' \in 0..MaxSection /\ scheduled + 1 \in Section
    BY <1>2, TurnFacts
  <2>2. <<"start", scheduled + 1>> \in Job
    BY <2>1, JobFacts
  <2>3. Queue!TypeOK'
    BY <1>2, <2>2, ScheduleFacts DEF ScheduleSection, Queue!TypeOK
  <2> QED
    BY <1>2, <2>1, <2>3 DEF ScheduleSection
<1>3. CASE RunJob
  <2>1. Queue!TypeOK'
    BY <1>3, StartFacts DEF RunJob, StartOldestJob, Queue!TypeOK
  <2> QED
    BY <1>3, <2>1 DEF RunJob
<1>4. CASE Start
  <2>1. (InStart /\ ~Ended) \/ LookupDamages
    BY <1>4 DEF Start, InStart, Ended, ReadModuleName, NoModuleName, CreateModule, CreateDriver,
       ReadPort, NoPort, InitDriver, Attach, ReadRigid, NoRigid, ReadSerial, NoSerial, BadSerial, RigOpens
  <2>2. LookupDamages => InStart /\ ~Ended
    BY DEF LookupDamages, StringKey, InStart, Ended
  <2>3. job \in Job /\ Current \in Section
    BY <2>1, <2>2, CurrentFacts
  <2>4. CASE ReadModuleName \/ ReadPort \/ ReadSerial
    <3>1. pc \in StringKey /\ text' = <<Current, pc>>
      BY <2>4 DEF ReadModuleName, ReadPort, ReadSerial, LookupFound, StringKey
    <3>2. text' \in (Section \X StringKey) \cup {NULL}
      BY <2>3, <3>1
    <3> QED
      BY <2>4, <3>2 DEF ReadModuleName, ReadPort, ReadSerial, LookupFound, queue, Queue!TypeOK
  <2>5. CASE NoModuleName \/ NoPort \/ NoRigid \/ BadSerial
    BY <2>5 DEF NoModuleName, NoPort, NoRigid, BadSerial, LookupMissing, queue, Queue!TypeOK
  <2>6. CASE LookupDamages
    BY <2>6 DEF LookupDamages, queue, Queue!TypeOK
  <2>7. CASE CreateModule
    <3>1. running_modules' \in Seq(Section)
      <4>1. <<Current>> \in Seq(Section)
        BY <2>3
      <4> QED
        BY <2>7, <4>1, ConcatProperties DEF CreateModule, Linked
    <3> QED
      BY <2>7, <3>1 DEF CreateModule, KeepString, queue, Queue!TypeOK
  <2>8. CASE CreateDriver \/ Attach \/ ReadRigid \/ NoSerial
    BY <2>3, <2>8 DEF CreateDriver, Attach, ReadRigid, NoSerial, LookupMissing, queue, Queue!TypeOK
  <2>9. CASE InitDriver
    <3>1. Queue!TypeOK'
      <4>1. <<"deliver", Current>> \in Job /\ Queue!Schedule(<<"deliver", Current>>)
        BY <2>3, <2>9, JobFacts DEF InitDriver, DeferFirstDelivery
      <4> QED
        BY <4>1, ScheduleFacts DEF Queue!TypeOK
    <3>2. seen' \in [Section -> BOOLEAN] /\ active' \subseteq Section
      BY <2>3, <2>9 DEF InitDriver
    <3> QED
      BY <2>9, <3>1, <3>2 DEF InitDriver
  <2>10. CASE RigOpens
    BY <2>3, <2>10 DEF RigOpens, Queue!Finish, Queue!TypeOK
  <2> QED
    BY <1>4, <2>4, <2>5, <2>6, <2>7, <2>8, <2>9, <2>10 DEF Start
<1>5. CASE Deliver
  <2>1. job \in Job /\ Current \in Section
    BY <1>5, CurrentFacts DEF Deliver, Ended
  <2> QED
    BY <1>5, <2>1 DEF Deliver, DeliverFcChanged, Queue!Finish, Queue!TypeOK
<1>6. CASE Poll \/ SignalEvent \/ EndIteration
  BY <1>6 DEF Poll, Dispatched, ReadyPorts, SignalEvent, AfterSignal, EndIteration, queue, Queue!TypeOK
<1>7. ASSUME NEW s \in Section, PortEvent(s)
      PROVE  TypeOK'
  BY <1>7 DEF PortEvent, DeliverFcChanged, queue, Queue!TypeOK
<1>8. CASE StopModule \/ CleanExit \/ Failure \/ \E s \in Section : ReadData(s)
  BY <1>8 DEF StopModule, CleanExit, Failure, LoadFails, PortFails, RigFails, PortEventFails, ReadData,
     queue, Queue!TypeOK
<1>9. CASE Interrupt
  BY <1>9 DEF Interrupt, queue, Queue!TypeOK
<1> QED
  BY <1>1, <1>2, <1>3, <1>4, <1>5, <1>6, <1>7, <1>8, <1>9, ClientType DEF Next, Program, Main, Loop

(* util_fatal() and a damaged string buffer end the program: of the        *)
(* invariants only those about its history are left to show.               *)
LEMMA FatalInv ==
  ASSUME IInv, ~Ended, Fatal
  PROVE  NoRadioBeforeAllStarted' /\ DamageNeedsMissingKey' /\ Ended'
BY DEF IInv, Fatal, Exit, Ended, NoRadioBeforeAllStarted, DamageNeedsMissingKey, Configured, setup, radios

LEMMA DamageInv ==
  ASSUME IInv, ~Ended, LookupDamages
  PROVE  NoRadioBeforeAllStarted' /\ DamageNeedsMissingKey' /\ Ended'
<1>1. ~File!BufIsLive /\ InStart /\ pc # "rig_open"
  BY DEF LookupDamages, StringKey, File!GetsDamages, InStart
<1>2. PICK s \in Configured : ~config[s].serial /\ s < Current
  BY <1>1 DEF IInv, LiveInv, DanglingInv
<1> QED
  BY <1>2 DEF LookupDamages, IInv, Ended, NoRadioBeforeAllStarted, DamageNeedsMissingKey, Configured,
     Current, setup, radios, queue

(* main(), and the steps of the loop that run no callback.                 *)
LEMMA LoopStepInv ==
  ASSUME TypeOK, LiveInv,
         \/ Load \/ LoadPlugins \/ EnterLoop \/ JobsDone
         \/ Poll \/ SignalEvent \/ EndIteration \/ Interrupt
  PROVE  LiveInv'
<1> USE DEF Load, LoadPlugins, EnterLoop, JobsDone, Poll, SignalEvent, AfterSignal, EndIteration,
        Interrupt, setup, modules, file, events
<1>1. UNCHANGED <<config, scheduled, queue, active, attached, ports, radios>> /\ (pc = "attach" => pc' = "attach")
      /\ UNCHANGED file
  OBVIOUS
<1>2. JobInv'
  BY DEF LiveInv, JobInv, InStart, queue
<1>3. ScheduledInv'
  <2>1. UNCHANGED <<config, scheduled, jobs>> /\ (InMain' => InMain)
    BY DEF queue, InMain
  <2>2. InMain /\ ~InMain' => ~MoreSections
    BY DEF InMain
  <2>3. ~MoreSections /\ scheduled <= Len(config) => scheduled = Len(config)
    BY ConfigFacts, MaxSectionAssumption DEF MoreSections, TypeOK
  <2> HIDE DEF Load, LoadPlugins, EnterLoop, JobsDone, Poll, SignalEvent, EndIteration, Interrupt
  <2> QED
    BY <2>1, <2>2, <2>3 DEF LiveInv, ScheduledInv
<1>4. BatchInv'
  BY DEF LiveInv, BatchInv, Dispatched, ReadyPorts
<1>5. DanglingInv'
  BY DEF LiveInv, DanglingInv, InMain, InStart, File!BufIsLive, Configured, Current, queue
<1> QED
  BY <1>1, <1>2, <1>3, <1>4, <1>5, QuietInv

(* The steps of starting a section that concern the configuration only.    *)
LEMMA LookupInv ==
  ASSUME TypeOK, LiveInv,
         \/ ReadModuleName \/ CreateModule \/ CreateDriver
         \/ ReadPort \/ ReadRigid \/ ReadSerial \/ NoSerial
  PROVE  LiveInv'
<1> USE DEF ReadModuleName, CreateModule, KeepString, CreateDriver, ReadPort, ReadRigid, ReadSerial,
        NoSerial, LookupFound, LookupMissing, setup, modules, events
<1>1. UNCHANGED <<config, scheduled, queue, active, attached, ports, radios>> /\ pc # "attach"
      /\ UNCHANGED batch
  OBVIOUS
<1>2. InStart /\ InStart'
  BY DEF InStart
<1>3. JobInv'
  BY <1>2 DEF LiveInv, JobInv, InStart, queue
<1>4. ScheduledInv'
  BY <1>2 DEF LiveInv, ScheduledInv, InMain, InStart, queue
<1>5. BatchInv'
  BY <1>1 DEF LiveInv, BatchInv
<1>6. DanglingInv'
  <2>1. CASE ReadModuleName \/ ReadPort \/ ReadSerial
    BY <2>1, FileFacts DEF DanglingInv, TypeOK
  <2>2. CASE CreateModule \/ CreateDriver \/ ReadRigid
    BY <2>2 DEF LiveInv, DanglingInv, File!BufIsLive, file, queue, Configured, Current, InMain, InStart
  <2>3. CASE NoSerial
    <3>1. Current \in Configured /\ ~config[Current].serial
      <4>1. Current \in Configured
        BY <1>2, CurrentIsConfigured
      <4> QED
        BY <2>3, <4>1
    <3>2. \A k \in 1..Len(jobs) : IsStart(jobs[k]) => Current < jobs[k][2]
      BY <1>2, CurrentFacts DEF LiveInv, OrderInv
    <3>3. ~InMain' /\ pc' = "rig_open"
      BY <2>3 DEF InMain
    <3> QED
      BY <1>1, <3>1, <3>2, <3>3 DEF DanglingInv, queue, Configured, Current
  <2> QED
    BY <2>1, <2>2, <2>3
<1> QED
  BY <1>1, <1>3, <1>4, <1>5, <1>6, QuietInv

(* main() schedules the next section behind those before it.               *)
LEMMA ScheduleInv ==
  ASSUME TypeOK, LiveInv, ScheduleSection
  PROVE  LiveInv'
<1> DEFINE n == Len(jobs)
<1>1. /\ scheduled \in Nat /\ scheduled < Len(config) /\ scheduled' = scheduled + 1
      /\ scheduled + 1 \in Section
  BY TurnFacts
<1>2. /\ jobs' \in Seq(Job) /\ job' = job /\ n \in Nat /\ Len(jobs') = n + 1
      /\ \A i \in 1..n : jobs'[i] = jobs[i]
      /\ IsStart(jobs'[n + 1]) /\ ~IsDeliver(jobs'[n + 1]) /\ jobs'[n + 1][2] = scheduled + 1
  <2> DEFINE j == <<"start", scheduled + 1>>
  <2>1. j \in Job /\ IsStart(j) /\ ~IsDeliver(j) /\ j[2] = scheduled + 1
    BY <1>1, JobFacts
  <2>2. Queue!Schedule(j)
    BY DEF ScheduleSection
  <2> HIDE DEF j
  <2> QED
    BY <2>1, <2>2, ScheduleFacts
<1>3. /\ InMain /\ InMain' /\ pc = "main"
      /\ UNCHANGED <<config, pc, owner, buf, result, damaged, active, attached, ports, radios, batch>>
      /\ job = Idle /\ jobs \in Seq(Job)
  BY DEF ScheduleSection, InMain, InStart, LiveInv, JobInv, TypeOK, Queue!TypeOK, modules, file, events
<1> HIDE DEF n
<1>4. JobInv' /\ BatchInv' /\ DanglingInv'
  BY <1>2, <1>3 DEF LiveInv, JobInv, BatchInv, DanglingInv, InStart, InMain, File!BufIsLive
<1>5. ScheduledInv'
  <2>1. \A i \in 1..n : IsStart(jobs[i]) /\ jobs[i][2] <= scheduled /\ jobs[i][2] \in Nat
    BY <1>3, JobFacts, MaxSectionAssumption, LenProperties, ElementOfSeq
       DEF LiveInv, ScheduledInv, n, Section
  <2>2. \A i \in 1..n + 1 : IsStart(jobs'[i]) /\ jobs'[i][2] <= scheduled'
    <3> SUFFICES ASSUME NEW i \in 1..n + 1
                 PROVE  IsStart(jobs'[i]) /\ jobs'[i][2] <= scheduled'
      OBVIOUS
    <3>1. i \in 1..n \/ i = n + 1
      BY <1>2
    <3>2. CASE i \in 1..n
      <4>1. jobs'[i] = jobs[i] /\ IsStart(jobs[i]) /\ jobs[i][2] <= scheduled /\ jobs[i][2] \in Nat
        BY <1>2, <2>1, <3>2
      <4> QED
        BY <1>1, <4>1
    <3>3. CASE i = n + 1
      BY <1>1, <1>2, <3>3
    <3> QED
      BY <3>1, <3>2, <3>3
  <2>3. scheduled' <= Len(config')
    BY <1>1, <1>3, ConfigFacts
  <2> QED
    BY <1>2, <1>3, <2>2, <2>3 DEF ScheduledInv
<1>6. OrderInv'
  <2>1. \A i \in 1..n : IsStart(jobs[i]) /\ jobs[i][2] <= scheduled /\ jobs[i][2] \in Nat
    BY <1>3, JobFacts, MaxSectionAssumption, LenProperties, ElementOfSeq DEF LiveInv, ScheduledInv, n, Section
  <2>2. \A i, k \in 1..n :
          i < k /\ IsStart(jobs[k]) => IsStart(jobs[i]) /\ jobs[i][2] < jobs[k][2]
    BY DEF LiveInv, OrderInv, n
  <2>3. \A i \in 1..n + 1 : jobs'[i][2] <= Len(config')
    <3> SUFFICES ASSUME NEW i \in 1..n + 1 PROVE jobs'[i][2] <= Len(config)
      BY <1>3
    <3>1. i \in 1..n \/ (i = n + 1 /\ jobs'[i][2] = scheduled + 1)
      BY <1>2
    <3>2. Len(config) \in Nat
      BY ConfigFacts
    <3>3. CASE i \in 1..n
      <4>1. jobs'[i][2] <= scheduled /\ jobs'[i][2] \in Nat
        BY <1>2, <2>1, <3>3
      <4> QED
        BY <1>1, <3>2, <4>1
    <3>4. CASE jobs'[i][2] = scheduled + 1
      BY <1>1, <3>2, <3>4
    <3> QED
      BY <3>1, <3>3, <3>4
  <2>4. \A i, k \in 1..n + 1 :
          i < k /\ IsStart(jobs'[k]) => IsStart(jobs'[i]) /\ jobs'[i][2] < jobs'[k][2]
    <3> SUFFICES ASSUME NEW i \in 1..n + 1, NEW k \in 1..n + 1, i < k
                 PROVE  IsStart(jobs'[k]) => IsStart(jobs'[i]) /\ jobs'[i][2] < jobs'[k][2]
      OBVIOUS
    <3>1. i \in 1..n /\ (k \in 1..n \/ k = n + 1)
      BY <1>2
    <3>2. CASE k \in 1..n
      <4>1. jobs'[i] = jobs[i] /\ jobs'[k] = jobs[k]
        BY <3>1, <3>2, <1>2
      <4> QED
        BY <3>1, <3>2, <4>1, <2>2
    <3>3. CASE k = n + 1
      <4>1. jobs'[i] = jobs[i] /\ jobs'[k][2] = scheduled + 1
        BY <3>1, <3>3, <1>2
      <4> QED
        BY <3>1, <4>1, <1>1, <2>1
    <3> QED
      BY <3>1, <3>2, <3>3
  <2> QED
    BY <1>2, <1>3, <2>3, <2>4 DEF OrderInv
<1>7. StartedInv'
  <2>1. \A s : Starts(s) => Starts(s)'
    BY <1>2, <1>3 DEF Starts, n, IsStart
  <2>2. \A s : s = scheduled + 1 => Starts(s)'
    BY <1>2 DEF Starts
  <2>3. \A s \in Configured : s > scheduled => s > scheduled' \/ s = scheduled'
    BY <1>1, ConfigFacts
  <2> QED
    BY <1>1, <1>3, <2>1, <2>2, <2>3 DEF LiveInv, StartedInv, Configured, radios
<1>8. RadioInv'
  <2>1. \A i \in 1..n + 1 : IsDeliver(jobs'[i]) => i \in 1..n
    <3>1. \A i \in 1..n + 1 : i \in 1..n \/ i = n + 1
      BY <1>2
    <3> QED
      BY <1>2, <3>1 DEF IsDeliver
  <2>2. \A i \in 1..n : i \in 1..n + 1 /\ jobs'[i] = jobs[i]
    BY <1>2
  <2>3. job = Idle /\ job' = Idle
    BY <1>2, <1>3
  <2>4. \A s : Delivers(s) <=> \E i \in 1..n : IsDeliver(jobs[i]) /\ jobs[i][2] = s
    BY <2>3 DEF Delivers, n
  <2>5. \A s : Delivers(s)' <=> \E i \in 1..n + 1 : IsDeliver(jobs'[i]) /\ jobs'[i][2] = s
    BY <1>2, <2>3 DEF Delivers
  <2>6. \A s : Delivers(s) <=> Delivers(s)'
    BY <2>1, <2>2, <2>4, <2>5
  <2> QED
    BY <1>2, <1>3, <2>6 DEF LiveInv, RadioInv, ports, radios
<1> QED
  BY <1>4, <1>5, <1>6, <1>7, <1>8 DEF LiveInv

(* The oldest job is taken from the queue.                                 *)
LEMMA RunJobInv ==
  ASSUME TypeOK, LiveInv, RunJob
  PROVE  LiveInv'
<1>1. /\ job = Idle /\ job' = jobs[1] /\ job' \in Job /\ job' # Idle
      /\ Len(jobs) \in Nat \ {0} /\ Len(jobs') = Len(jobs) - 1
      /\ \A i \in 1..Len(jobs') : jobs'[i] = jobs[i + 1]
  BY StartFacts, IdleAssumption DEF RunJob, StartOldestJob
<1>2. /\ pc = "prepare" /\ ~InMain /\ ~InMain' /\ pc' # "attach"
      /\ pc' = IF IsStart(job') THEN "module.name" ELSE "deliver"
      /\ UNCHANGED <<config, scheduled, owner, buf, result, damaged, active, attached, ports, radios, batch>>
  BY DEF RunJob, IsStart, InMain, setup, modules, file, events
<1>3. \A i \in 1..Len(jobs') : i + 1 \in 1..Len(jobs) /\ 1 < i + 1
  BY <1>1
<1>4. \A i \in 1..Len(jobs) : i # 1 => i - 1 \in 1..Len(jobs') /\ jobs'[i - 1] = jobs[i]
  BY <1>1
<1>5. 1 \in 1..Len(jobs)
  BY <1>1
<1>6. JobInv'
  BY <1>1, <1>2, JobFacts DEF JobInv, InStart
<1>7. ScheduledInv' /\ BatchInv'
  BY <1>2 DEF LiveInv, ScheduledInv, BatchInv
<1>8. OrderInv'
  <2>1. \A i \in 1..Len(jobs') : jobs'[i][2] <= Len(config)
    BY <1>1, <1>3 DEF LiveInv, OrderInv
  <2>2. Current' <= Len(config)
    BY <1>1, <1>5 DEF LiveInv, OrderInv, Current
  <2>3. \A i, k \in 1..Len(jobs') :
          i < k /\ IsStart(jobs'[k]) => IsStart(jobs'[i]) /\ jobs'[i][2] < jobs'[k][2]
    <3> SUFFICES ASSUME NEW i \in 1..Len(jobs'), NEW k \in 1..Len(jobs'), i < k, IsStart(jobs'[k])
                 PROVE  IsStart(jobs'[i]) /\ jobs'[i][2] < jobs'[k][2]
      OBVIOUS
    <3>1. jobs'[i] = jobs[i + 1] /\ jobs'[k] = jobs[k + 1] /\ i + 1 < k + 1
      BY <1>1
    <3> QED
      BY <3>1, <1>3 DEF LiveInv, OrderInv
  <2>4. \A k \in 1..Len(jobs') : IsStart(jobs'[k]) => IsStart(job') /\ Current' < jobs'[k][2]
    BY <1>1, <1>3, <1>5 DEF LiveInv, OrderInv, Current
  <2> QED
    BY <1>2, <2>1, <2>2, <2>3, <2>4 DEF OrderInv
<1>9. StartedInv'
  <2>1. \A s : Starts(s) => Starts(s)'
    BY <1>1, <1>4 DEF Starts, Current
  <2> QED
    BY <1>2, <2>1 DEF LiveInv, StartedInv, Configured, radios
<1>10. RadioInv'
  <2>1. \A s : Delivers(s) => Delivers(s)'
    BY <1>1, <1>4 DEF Delivers, Current
  <2>2. \A s : Delivers(s)' => Delivers(s)
    BY <1>1, <1>3, <1>5 DEF Delivers, Current
  <2> QED
    BY <1>2, <2>1, <2>2 DEF LiveInv, RadioInv, ports, radios
<1>11. DanglingInv'
  <2>1. SUFFICES ASSUME ~File!BufIsLive PROVE DanglingInv'
    BY <1>2 DEF DanglingInv, File!BufIsLive
  <2>2. PICK s \in Configured :
          /\ ~config[s].serial
          /\ \A k \in 1..Len(jobs) : IsStart(jobs[k]) => s < jobs[k][2]
    BY <2>1 DEF LiveInv, DanglingInv
  <2>3. \A k \in 1..Len(jobs') : IsStart(jobs'[k]) => s < jobs'[k][2]
    BY <1>1, <1>3, <2>2
  <2>4. InStart' => s < Current'
    BY <1>1, <1>2, <1>5, <2>2 DEF Current, InStart
  <2> QED
    BY <1>2, <2>2, <2>3, <2>4 DEF DanglingInv, Configured
<1> QED
  BY <1>6, <1>7, <1>8, <1>9, <1>10, <1>11 DEF LiveInv

(* The port exists: its first delivery is deferred behind what waits.      *)
LEMMA InitDriverInv ==
  ASSUME TypeOK, LiveInv, InitDriver
  PROVE  LiveInv'
<1> DEFINE n == Len(jobs)
<1>1. InStart /\ InStart' /\ ~InMain /\ ~InMain' /\ pc = "init" /\ pc' = "attach"
  BY DEF InitDriver, InStart, InMain
<1>2. job \in Job /\ IsStart(job) /\ job # Idle /\ Current \in Section
  BY <1>1, CurrentFacts DEF LiveInv, JobInv
<1>3. /\ jobs' \in Seq(Job) /\ job' = job /\ n \in Nat /\ Len(jobs') = n + 1
      /\ \A i \in 1..n : jobs'[i] = jobs[i]
      /\ ~IsStart(jobs'[n + 1]) /\ IsDeliver(jobs'[n + 1]) /\ jobs'[n + 1][2] = Current
  <2> DEFINE j == <<"deliver", Current>>
  <2>1. j \in Job /\ IsDeliver(j) /\ ~IsStart(j) /\ j[2] = Current
    BY <1>2, JobFacts
  <2>2. Queue!Schedule(j)
    BY DEF InitDriver, DeferFirstDelivery
  <2> HIDE DEF j
  <2> QED
    BY <2>1, <2>2, ScheduleFacts
<1>4. /\ UNCHANGED <<config, scheduled, owner, buf, result, damaged, attached, rts, mset, radios, batch>>
      /\ active' = active \cup {Current} /\ seen' = [seen EXCEPT ![Current] = rts[Current]]
      /\ Current' = Current
  BY <1>3 DEF InitDriver, setup, file, events, Current
<1>5. \A i \in 1..n + 1 : i \in 1..n \/ i = n + 1
  BY <1>3
<1> HIDE DEF n
<1>6. JobInv' /\ ScheduledInv' /\ BatchInv'
  BY <1>1, <1>2, <1>3, <1>4 DEF LiveInv, JobInv, ScheduledInv, BatchInv
<1>7. OrderInv'
  <2>1. \A i \in 1..n + 1 : jobs'[i][2] <= Len(config)
    BY <1>2, <1>3, <1>5 DEF LiveInv, OrderInv, n
  <2>2. \A k \in 1..n + 1 : IsStart(jobs'[k]) => k \in 1..n /\ IsStart(jobs[k]) /\ jobs'[k] = jobs[k]
    BY <1>3, <1>5
  <2>3. \A i, k \in 1..n + 1 :
          i < k /\ IsStart(jobs'[k]) => IsStart(jobs'[i]) /\ jobs'[i][2] < jobs'[k][2]
    <3> SUFFICES ASSUME NEW i \in 1..n + 1, NEW k \in 1..n + 1, i < k, IsStart(jobs'[k])
                 PROVE  IsStart(jobs'[i]) /\ jobs'[i][2] < jobs'[k][2]
      OBVIOUS
    <3>1. i \in 1..n /\ k \in 1..n /\ IsStart(jobs[k])
      BY <1>3, <2>2
    <3>2. jobs'[i] = jobs[i] /\ jobs'[k] = jobs[k]
      BY <1>3, <3>1
    <3> QED
      BY <3>1, <3>2 DEF LiveInv, OrderInv, n
  <2>4. \A k \in 1..n + 1 : IsStart(jobs'[k]) => IsStart(job) /\ Current < jobs'[k][2]
    BY <1>2, <2>2 DEF LiveInv, OrderInv, n
  <2> QED
    BY <1>2, <1>3, <1>4, <2>1, <2>3, <2>4 DEF OrderInv, LiveInv
<1>8. StartedInv'
  <2>1. \A s : Starts(s) => Starts(s)'
    BY <1>3, <1>4 DEF Starts, n, IsStart
  <2> QED
    BY <1>4, <2>1 DEF LiveInv, StartedInv, Configured, radios
<1>9. RadioInv'
  <2>1. \A s : Delivers(s) => Delivers(s)'
    BY <1>3, <1>4 DEF Delivers, n, IsDeliver
  <2>2. \A s : Delivers(s)' => Delivers(s) \/ s = Current
    BY <1>3, <1>4, <1>5 DEF Delivers, n
  <2>3. \A s : s = Current => Delivers(s)'
    BY <1>3 DEF Delivers
  <2>4. \A s \in active' : s \in attached' \/ (pc' = "attach" /\ s = Current')
    BY <1>1, <1>4 DEF LiveInv, RadioInv
  <2>5. \A s \in active' : s \in mset' \/ seen'[s] = rts'[s]
    BY <1>2, <1>4 DEF LiveInv, RadioInv, TypeOK
  <2>6. \A s \in active' : ptt'[s] = seen'[s] \/ Delivers(s)'
    BY <1>2, <1>4, <2>1, <2>3 DEF LiveInv, RadioInv, TypeOK, radios
  <2>7. \A s \in Section : Delivers(s)' => s \in active'
    BY <1>4, <2>2 DEF LiveInv, RadioInv
  <2> QED
    BY <2>4, <2>5, <2>6, <2>7 DEF RadioInv
<1>10. DanglingInv'
  <2>1. SUFFICES ASSUME ~File!BufIsLive PROVE DanglingInv'
    BY <1>4 DEF DanglingInv, File!BufIsLive
  <2>2. PICK s \in Configured :
          /\ ~config[s].serial
          /\ \A k \in 1..n : IsStart(jobs[k]) => s < jobs[k][2]
          /\ s < Current
    BY <1>1, <2>1 DEF LiveInv, DanglingInv, n
  <2>3. \A k \in 1..n + 1 : IsStart(jobs'[k]) => s < jobs'[k][2]
    BY <1>3, <1>5, <2>2
  <2> QED
    BY <1>1, <1>3, <1>4, <2>2, <2>3 DEF DanglingInv, Configured
<1> QED
  BY <1>6, <1>7, <1>8, <1>9, <1>10 DEF LiveInv

(* The module sets the callback of its port.                               *)
LEMMA AttachInv ==
  ASSUME TypeOK, LiveInv, Attach
  PROVE  LiveInv'
<1>1. /\ InStart /\ InStart' /\ ~InMain /\ ~InMain' /\ pc = "attach" /\ pc' = "hamlib.rigid"
      /\ attached' = attached \cup {Current} /\ Current' = Current
      /\ UNCHANGED <<config, scheduled, jobs, job, owner, buf, result, damaged, active, ports, radios, batch>>
  BY DEF Attach, InStart, InMain, setup, queue, file, events, Current
<1>2. JobInv' /\ ScheduledInv' /\ BatchInv'
  BY <1>1 DEF LiveInv, JobInv, ScheduledInv, BatchInv
<1>3. OrderInv' /\ StartedInv'
  BY <1>1 DEF LiveInv, OrderInv, StartedInv, Starts, Configured, radios
<1>4. RadioInv'
  BY <1>1 DEF LiveInv, RadioInv, Delivers, ports, radios
<1>5. DanglingInv'
  BY <1>1 DEF LiveInv, DanglingInv, File!BufIsLive, Configured
<1> QED
  BY <1>2, <1>3, <1>4, <1>5 DEF LiveInv

(* The radio is open: the section has been started.                        *)
LEMMA RigOpensInv ==
  ASSUME TypeOK, LiveInv, RigOpens
  PROVE  LiveInv'
<1>1. /\ InStart /\ ~InStart' /\ ~InMain /\ ~InMain' /\ pc = "rig_open" /\ pc' = "prepare"
      /\ opened' = opened \cup {Current} /\ job' = Idle
      /\ UNCHANGED <<config, scheduled, jobs, owner, buf, result, damaged, active, attached, ports, ptt, batch>>
  BY DEF RigOpens, InStart, InMain, setup, modules, file, events, Queue!Finish
<1>2. job \in Job /\ IsStart(job) /\ ~IsDeliver(job) /\ job # Idle /\ Current \in Section
  BY <1>1, CurrentFacts, JobFacts DEF LiveInv, JobInv
<1>3. Current \in Configured
  BY <1>1, CurrentIsConfigured
<1>4. JobInv' /\ ScheduledInv' /\ BatchInv'
  BY <1>1 DEF LiveInv, JobInv, ScheduledInv, BatchInv
<1>5. OrderInv'
  BY <1>1 DEF LiveInv, OrderInv
<1>6. StartedInv'
  <2>1. \A s : Starts(s) => Starts(s)' \/ s = Current
    BY <1>1 DEF Starts
  <2> QED
    BY <1>1, <1>3, <2>1 DEF LiveInv, StartedInv, Configured
<1>7. RadioInv'
  <2>1. \A s : Delivers(s) <=> Delivers(s)'
    BY <1>1, <1>2 DEF Delivers
  <2> QED
    BY <1>1, <2>1 DEF LiveInv, RadioInv, ports
<1>8. DanglingInv'
  BY <1>1 DEF LiveInv, DanglingInv, File!BufIsLive, Configured
<1> QED
  BY <1>4, <1>5, <1>6, <1>7, <1>8 DEF LiveInv

(* When no start waits or runs, every section has been started.            *)
LEMMA AllStarted ==
  ASSUME TypeOK, LiveInv, ~InMain, \A s : ~Starts(s)
  PROVE  opened = Configured
<1>1. \A s \in Configured : ~(s > scheduled)
  BY ConfigFacts DEF LiveInv, ScheduledInv
<1> QED
  BY <1>1 DEF LiveInv, StartedInv

(* The deferred first delivery of a port.                                  *)
LEMMA DeliverInv ==
  ASSUME TypeOK, LiveInv, Deliver
  PROVE  LiveInv' /\ NoRadioBeforeAllStarted'
<1>1. /\ ~InStart /\ ~InStart' /\ ~InMain /\ ~InMain' /\ pc = "deliver" /\ pc' = "prepare"
      /\ job' = Idle
      /\ UNCHANGED <<config, scheduled, jobs, owner, buf, result, damaged, active, attached, ports, opened, batch>>
  BY DEF Deliver, InStart, InMain, setup, modules, file, events, Queue!Finish, ports
<1>2. job \in Job /\ IsDeliver(job) /\ ~IsStart(job) /\ job # Idle /\ Current \in Section
  BY <1>1, CurrentFacts, JobFacts DEF LiveInv, JobInv
<1>3. Current \in active /\ Current \in attached
  BY <1>1, <1>2 DEF LiveInv, RadioInv, Delivers
<1>4. ptt' = [ptt EXCEPT ![Current] = seen[Current]]
  BY <1>1, <1>3 DEF Deliver, DeliverFcChanged, ports
<1>5. \A s : ~Starts(s)
  BY <1>2 DEF LiveInv, OrderInv, Starts
<1>6. JobInv' /\ ScheduledInv' /\ BatchInv'
  BY <1>1 DEF LiveInv, JobInv, ScheduledInv, BatchInv
<1>7. OrderInv'
  BY <1>1 DEF LiveInv, OrderInv
<1>8. StartedInv'
  BY <1>1, <1>5 DEF LiveInv, StartedInv, Configured
<1>9. RadioInv'
  <2>1. \A s : Delivers(s) => Delivers(s)' \/ s = Current
    BY <1>1 DEF Delivers
  <2>2. \A s : Delivers(s)' => Delivers(s)
    BY <1>1 DEF Delivers
  <2>3. \A s \in active' : ptt'[s] = seen'[s] \/ Delivers(s)'
    BY <1>1, <1>2, <1>4, <2>1 DEF LiveInv, RadioInv, TypeOK, ports
  <2> QED
    BY <1>1, <2>2, <2>3 DEF LiveInv, RadioInv, ports
<1>10. DanglingInv'
  BY <1>1 DEF LiveInv, DanglingInv, File!BufIsLive, Configured
<1>11. NoRadioBeforeAllStarted'
  BY <1>1, <1>5, AllStarted DEF NoRadioBeforeAllStarted, Configured
<1> QED
  BY <1>6, <1>7, <1>8, <1>9, <1>10, <1>11 DEF LiveInv

(* The callback of a port.                                                 *)
LEMMA PortEventInv ==
  ASSUME TypeOK, LiveInv, NEW s \in Section, PortEvent(s)
  PROVE  LiveInv' /\ NoRadioBeforeAllStarted'
<1>1. /\ pc = "events" /\ pc' = pc /\ ~InMain /\ ~InStart
      /\ UNCHANGED <<config, scheduled, jobs, job, owner, buf, result, damaged, active, attached, rts, opened>>
      /\ batch' = batch \ {s} /\ mset' = mset \ {s} /\ seen' = [seen EXCEPT ![s] = rts[s]]
  BY DEF PortEvent, InStart, InMain, setup, modules, file, queue
<1>2. job = Idle /\ jobs = << >> /\ Len(jobs) = 0
  BY <1>1 DEF LiveInv, JobInv
<1>3. \A t : ~Starts(t) /\ ~Delivers(t) /\ ~Delivers(t)'
  BY <1>1, <1>2 DEF Starts, Delivers
<1>4. active \subseteq attached
  BY <1>1 DEF LiveInv, RadioInv
<1>5. s \in active
  BY <1>1, 0 \notin Section DEF PortEvent, LiveInv, BatchInv, INT, Section
<1>6. JobInv' /\ ScheduledInv' /\ BatchInv'
  BY <1>1 DEF LiveInv, JobInv, ScheduledInv, BatchInv, InStart, InMain
<1>7. OrderInv'
  BY <1>1 DEF LiveInv, OrderInv, Current
<1>8. StartedInv'
  BY <1>1, <1>3 DEF LiveInv, StartedInv, Configured
<1>9. RadioInv'
  <2>1. \A t \in active : ptt[t] = seen[t]
    BY <1>3 DEF LiveInv, RadioInv
  <2>2. \A t \in active : ptt'[t] = seen'[t]
    <3>1. CASE rts[s] = seen[s] /\ UNCHANGED <<ptt, commanded>>
      BY <1>1, <1>5, <2>1, <3>1 DEF TypeOK
    <3>2. CASE DeliverFcChanged(s)
      BY <1>1, <1>4, <1>5, <2>1, <3>2 DEF DeliverFcChanged, TypeOK
    <3> QED
      BY <3>1, <3>2 DEF PortEvent
  <2>3. \A t \in active : t \in mset' \/ seen'[t] = rts[t]
    BY <1>1 DEF LiveInv, RadioInv, TypeOK
  <2> QED
    BY <1>1, <1>3, <1>4, <2>2, <2>3 DEF RadioInv
<1>10. DanglingInv'
  BY <1>1 DEF LiveInv, DanglingInv, File!BufIsLive, Configured, InMain, InStart, Current
<1>11. NoRadioBeforeAllStarted'
  BY <1>1, <1>3, AllStarted DEF NoRadioBeforeAllStarted, Configured
<1> QED
  BY <1>6, <1>7, <1>8, <1>9, <1>10, <1>11 DEF LiveInv

(* A client changes RTS: its port is pending from then on.                 *)
LEMMA SetRtsInv ==
  ASSUME TypeOK, LiveInv, NEW s \in Section, NEW b \in BOOLEAN, SetRts(s, b)
  PROVE  LiveInv'
<1>1. /\ UNCHANGED <<config, scheduled, jobs, job, owner, buf, result, damaged, active, attached, seen,
                     radios, batch, pc>>
      /\ rts' = [rts EXCEPT ![s] = b] /\ mset' = mset \cup {s}
  BY DEF SetRts, setup, modules, file, queue, events
<1>2. JobInv' /\ ScheduledInv' /\ BatchInv'
  BY <1>1 DEF LiveInv, JobInv, ScheduledInv, BatchInv, InStart, InMain
<1>3. OrderInv' /\ StartedInv'
  BY <1>1 DEF LiveInv, OrderInv, StartedInv, Starts, Configured, Current, radios
<1>4. RadioInv'
  <2>1. \A t : Delivers(t) <=> Delivers(t)'
    BY <1>1 DEF Delivers, Current
  <2>2. \A t \in active : t \in mset' \/ seen[t] = rts'[t]
    BY <1>1 DEF LiveInv, RadioInv, TypeOK
  <2> QED
    BY <1>1, <2>1, <2>2 DEF LiveInv, RadioInv, radios, Current
<1>5. DanglingInv'
  BY <1>1 DEF LiveInv, DanglingInv, File!BufIsLive, Configured, InMain, InStart, Current
<1> QED
  BY <1>2, <1>3, <1>4, <1>5 DEF LiveInv

(* A client that writes data does nothing to what the invariant is about.  *)
LEMMA WriteDataInv ==
  ASSUME TypeOK, LiveInv, NEW s \in Section, WriteData(s)
  PROVE  LiveInv'
<1>1. UNCHANGED <<config, scheduled, jobs, job, owner, buf, result, damaged, active, attached, rts, mset, seen,
                  radios, batch, pc>>
  BY DEF WriteData, setup, modules, file, queue, events
<1>2. JobInv' /\ ScheduledInv' /\ BatchInv'
  BY <1>1 DEF LiveInv, JobInv, ScheduledInv, BatchInv, InStart, InMain
<1>3. OrderInv' /\ StartedInv'
  BY <1>1 DEF LiveInv, OrderInv, StartedInv, Starts, Configured, Current, radios
<1>4. RadioInv'
  BY <1>1 DEF LiveInv, RadioInv, Delivers, Current, radios
<1>5. DanglingInv'
  BY <1>1 DEF LiveInv, DanglingInv, File!BufIsLive, Configured, InMain, InStart, Current
<1> QED
  BY <1>2, <1>3, <1>4, <1>5 DEF LiveInv

LEMMA InitInv ==
  ASSUME Init
  PROVE  IInv
<1>1. jobs = << >> /\ Len(jobs) = 0 /\ job = Idle /\ scheduled = 0 /\ opened = {} /\ active = {}
  BY DEF Init, Queue!Init
<1>2. TypeOK
  <2>1. Queue!TypeOK
    <3>1. << >> \in Seq(Job)
      OBVIOUS
    <3> QED
      BY <1>1, <3>1 DEF Queue!TypeOK
  <2>2. File!TypeOK
    BY DEF Init, File!Init, File!TypeOK
  <2>3. << >> \in Seq(Section)
    OBVIOUS
  <2>4. 0 \in 0..MaxSection
    BY MaxSectionAssumption
  <2> QED
    BY <2>1, <2>2, <2>3, <2>4 DEF Init, TypeOK, Stages
<1>3. pc = "load" /\ InMain /\ ~InStart /\ ~Ended
  BY DEF Init, InMain, InStart, Ended
<1>4. JobInv /\ OrderInv
  BY <1>1, <1>3 DEF JobInv, OrderInv, Init
<1>5. ScheduledInv /\ StartedInv
  BY <1>1, <1>2, <1>3, ConfigFacts DEF ScheduledInv, StartedInv
<1>6. RadioInv
  BY <1>1 DEF RadioInv, Delivers
<1>7. BatchInv
  BY DEF Init, BatchInv
<1>8. DanglingInv
  BY DEF Init, DanglingInv, File!Init, File!BufIsLive
<1>9. NoRadioBeforeAllStarted /\ DamageNeedsMissingKey
  BY DEF Init, NoRadioBeforeAllStarted, DamageNeedsMissingKey
<1> QED
  BY <1>2, <1>4, <1>5, <1>6, <1>7, <1>8, <1>9 DEF IInv, LiveInv

(* The radios that were commanded stay, and so do the sections; a radio is *)
(* only opened for a section of the configuration.                         *)
LEMMA HistoryInv ==
  ASSUME IInv, ~Ended, LiveInv', pc' # "undefined", UNCHANGED <<config, commanded>>,
         opened \subseteq opened'
  PROVE  NoRadioBeforeAllStarted' /\ DamageNeedsMissingKey'
BY DEF IInv, LiveInv, StartedInv, NoRadioBeforeAllStarted, DamageNeedsMissingKey, Configured

(* After its end the program does nothing.                                 *)
LEMMA EndedStops ==
  ASSUME Ended, Next
  PROVE  FALSE
<1> USE DEF Ended
<1>1. ~Main
  BY DEF Main, Load, LoadPlugins, ScheduleSection, EnterLoop
<1>2. ~Start
  BY DEF Start, ReadModuleName, NoModuleName, LookupDamages, CreateModule, CreateDriver, ReadPort, NoPort,
     InitDriver, Attach, ReadRigid, NoRigid, ReadSerial, NoSerial, BadSerial, RigOpens, StringKey
<1>3. ~Loop
  BY DEF Loop, RunJob, Deliver, JobsDone, Poll, PortEvent, ReadData, SignalEvent, EndIteration
<1>4. ~StopModule /\ ~CleanExit /\ ~Failure
  BY DEF StopModule, CleanExit, Failure, LoadFails, PortFails, RigFails, PortEventFails
<1>5. ~Client /\ ~Interrupt
  BY DEF Client, SetRts, WriteData, IsOpen, Interrupt
<1> QED
  BY <1>1, <1>2, <1>3, <1>4, <1>5 DEF Next, Program

LEMMA StepInv ==
  ASSUME IInv, [Next]_vars
  PROVE  IInv'
<1> USE DEF IInv
<1>1. CASE UNCHANGED vars
  <2> USE <1>1 DEF vars, setup, queue, file, modules, ports, radios, events
  <2>1. TypeOK'
    BY DEF TypeOK, Queue!TypeOK, File!TypeOK
  <2>2. NoRadioBeforeAllStarted' /\ DamageNeedsMissingKey' /\ (Ended' <=> Ended)
    BY DEF NoRadioBeforeAllStarted, DamageNeedsMissingKey, Ended, Configured, Current
  <2>3. ASSUME LiveInv PROVE LiveInv'
    <3>1. JobInv' /\ ScheduledInv' /\ BatchInv'
      BY <2>3 DEF LiveInv, JobInv, ScheduledInv, BatchInv, InStart, InMain
    <3>2. DanglingInv'
      BY <2>3 DEF LiveInv, DanglingInv, File!BufIsLive, Configured, InMain, InStart, Current
    <3> QED
      BY <2>3, <3>1, <3>2, QuietInv
  <2> QED
    BY <2>1, <2>2, <2>3
<1>2. CASE Next
  <2>1. ~Ended /\ LiveInv
    BY <1>2, EndedStops
  <2>2. TypeOK'
    BY <1>2, TypeInv
  <2>3. ASSUME \/ Load \/ LoadPlugins \/ EnterLoop \/ JobsDone
               \/ Poll \/ SignalEvent \/ EndIteration \/ Interrupt
        PROVE  IInv'
    <3>1. LiveInv'
      BY <2>1, <2>3, LoopStepInv
    <3>2. pc' # "undefined" /\ UNCHANGED <<config, commanded>> /\ opened' = opened
      BY <2>1, <2>3 DEF Load, LoadPlugins, EnterLoop, JobsDone, Poll, SignalEvent, AfterSignal, EndIteration,
         Interrupt, setup, radios, Ended
    <3> QED
      BY <2>1, <2>2, <3>1, <3>2, HistoryInv
  <2>4. ASSUME \/ ReadModuleName \/ CreateModule \/ CreateDriver
               \/ ReadPort \/ ReadRigid \/ ReadSerial \/ NoSerial
        PROVE  IInv'
    <3>1. LiveInv'
      BY <2>1, <2>4, LookupInv
    <3>2. pc' # "undefined" /\ UNCHANGED <<config, commanded>> /\ opened' = opened
      BY <2>4 DEF ReadModuleName, CreateModule, CreateDriver, ReadPort, ReadRigid, ReadSerial, NoSerial,
         LookupFound, setup, radios
    <3> QED
      BY <2>1, <2>2, <3>1, <3>2, HistoryInv
  <2>5. ASSUME ScheduleSection \/ RunJob \/ InitDriver \/ Attach \/ RigOpens
        PROVE  IInv'
    <3>1. LiveInv'
      BY <2>1, <2>5, ScheduleInv, RunJobInv, InitDriverInv, AttachInv, RigOpensInv
    <3>2. pc' # "undefined" /\ UNCHANGED <<config, commanded>> /\ opened \subseteq opened'
      BY <2>5 DEF ScheduleSection, RunJob, InitDriver, Attach, RigOpens, setup, radios
    <3> QED
      BY <2>1, <2>2, <3>1, <3>2, HistoryInv
  <2>6. ASSUME Deliver \/ \E s \in Section : PortEvent(s)
        PROVE  IInv'
    <3>1. LiveInv' /\ NoRadioBeforeAllStarted'
      BY <2>1, <2>6, DeliverInv, PortEventInv
    <3>2. pc' # "undefined"
      BY <2>6 DEF Deliver, PortEvent
    <3> QED
      BY <2>2, <3>1, <3>2 DEF DamageNeedsMissingKey
  <2>7. ASSUME Client
        PROVE  IInv'
    <3>1. LiveInv'
      BY <2>1, <2>7, SetRtsInv, WriteDataInv DEF Client
    <3>2. pc' # "undefined" /\ UNCHANGED <<config, commanded>> /\ opened' = opened
      BY <2>7 DEF Client, SetRts, WriteData, IsOpen, setup, radios
    <3> QED
      BY <2>1, <2>2, <3>1, <3>2, HistoryInv
  <2>8. ASSUME \/ NoModuleName \/ NoPort \/ NoRigid \/ BadSerial
               \/ StopModule \/ Failure \/ \E s \in Section : ReadData(s)
        PROVE  IInv'
    <3>1. Fatal
      BY <2>8 DEF NoModuleName, NoPort, NoRigid, BadSerial, StopModule, Failure, LoadFails, PortFails,
         RigFails, PortEventFails, ReadData
    <3> QED
      BY <2>1, <2>2, <3>1, FatalInv
  <2>9. ASSUME CleanExit
        PROVE  IInv'
    <3>1. Ended' /\ pc' # "undefined" /\ UNCHANGED <<config, commanded, opened>>
      BY <2>9 DEF CleanExit, Exit, Ended, setup, radios
    <3> QED
      BY <2>2, <3>1 DEF NoRadioBeforeAllStarted, DamageNeedsMissingKey, Configured
  <2>10. LookupDamages => IInv'
    BY <2>1, <2>2, DamageInv
  <2> QED
    BY <1>2, <2>3, <2>4, <2>5, <2>6, <2>7, <2>8, <2>9, <2>10 DEF Next, Program, Main, Start, Loop
<1> QED
  BY <1>1, <1>2

(* IInv holds of every configuration, in every state that main() reaches.  *)
THEOREM Invariance == Spec => []IInv
<1> QED
  BY InitInv, StepInv, PTL DEF Spec

(* A section that cannot be started ends the program before any radio was  *)
(* keyed, however many sections there are and whatever the clients do.     *)
THEOREM RadiosWait == Spec => []NoRadioBeforeAllStarted
<1>1. IInv => NoRadioBeforeAllStarted
  BY DEF IInv
<1> QED
  BY <1>1, Invariance, PTL

(* When the loop of runloop.c goes to sleep, every radio is as the RTS     *)
(* line of its port says, or the kernel has an event for the port.         *)
THEOREM IdleIsUpToDate == Spec => []PttUpToDate
<1>1. ASSUME IInv PROVE PttUpToDate
  <2> SUFFICES ASSUME pc = "poll" PROVE \A s \in active \ mset : ptt[s] = rts[s]
    BY DEF PttUpToDate
  <2>1. jobs = << >> /\ Len(jobs) = 0 /\ job = Idle /\ RadioInv
    BY <1>1 DEF IInv, LiveInv, JobInv, Ended, InStart
  <2>2. \A s : ~Delivers(s)
    BY <2>1 DEF Delivers
  <2> QED
    BY <2>1, <2>2 DEF RadioInv
<1> QED
  BY <1>1, Invariance, PTL

(* The dangling buffer of configfile.c is freed again only by the section  *)
(* after one that has no hamlib.serial.port.                               *)
THEOREM DamageIsExplained == Spec => []DamageNeedsMissingKey
<1>1. IInv => DamageNeedsMissingKey
  BY DEF IInv
<1> QED
  BY <1>1, Invariance, PTL

(* The program's state is typed.                                           *)
THEOREM TypeCorrect == Spec => []TypeOK
<1>1. IInv => TypeOK
  BY DEF IInv
<1> QED
  BY <1>1, Invariance, PTL

(* What a lookup returned is the buffer, and it is all there is.           *)
StringInv ==
  /\ File!OneString
  /\ result # NULL => result = buf /\ owner[buf] = "config"

(* Every step leaves the string buffer alone or is one of its lookups.     *)
LEMMA FileSteps ==
  ASSUME [Next]_vars
  PROVE  \/ UNCHANGED file
         \/ \E a \in Addr : File!GetsFound(a)
         \/ File!GetsMissing \/ File!GetsDamages
<1>1. CASE UNCHANGED vars
  BY <1>1 DEF vars
<1>2. CASE Main
  BY <1>2 DEF Main, Load, LoadPlugins, ScheduleSection, EnterLoop
<1>3. CASE Start
  <2>1. CASE ReadModuleName \/ ReadPort \/ ReadSerial
    BY <2>1 DEF ReadModuleName, ReadPort, ReadSerial, LookupFound
  <2>2. CASE NoModuleName \/ NoPort \/ NoSerial \/ BadSerial \/ LookupDamages
    BY <2>2 DEF NoModuleName, NoPort, NoSerial, BadSerial, LookupMissing, LookupDamages
  <2>3. CASE CreateModule \/ CreateDriver \/ InitDriver \/ Attach \/ ReadRigid \/ NoRigid \/ RigOpens
    BY <2>3 DEF CreateModule, KeepString, CreateDriver, InitDriver, Attach, ReadRigid, NoRigid, RigOpens
  <2> QED
    BY <1>3, <2>1, <2>2, <2>3 DEF Start
<1>4. CASE Loop
  BY <1>4 DEF Loop, RunJob, Deliver, JobsDone, Poll, PortEvent, ReadData, SignalEvent, EndIteration
<1>5. CASE StopModule \/ CleanExit \/ Failure
  BY <1>5 DEF StopModule, CleanExit, Failure, LoadFails, PortFails, RigFails, PortEventFails
<1>6. CASE Client \/ Interrupt
  BY <1>6 DEF Client, SetRts, WriteData, Interrupt
<1> QED
  BY <1>1, <1>2, <1>3, <1>4, <1>5, <1>6 DEF Next, Program

LEMMA StringsInv == Spec => []StringInv
<1>1. Init => StringInv
  BY DEF Init, File!Init, StringInv, File!OneString
<1>2. ASSUME TypeOK, StringInv, [Next]_vars
      PROVE  StringInv'
  <2> USE <1>2, AddrAssumption DEF TypeOK, File!TypeOK, StringInv, File!OneString
  <2>1. CASE UNCHANGED file
    BY <2>1 DEF file
  <2>2. ASSUME NEW a \in Addr, File!GetsFound(a) PROVE StringInv'
    BY <2>2 DEF File!GetsFound, File!FreeBuf
  <2>3. CASE File!GetsMissing
    BY <2>3 DEF File!GetsMissing, File!FreeBuf
  <2>4. CASE File!GetsDamages
    BY <2>4 DEF File!GetsDamages
  <2> QED
    BY <2>1, <2>2, <2>3, <2>4, FileSteps
<1> QED
  BY <1>1, <1>2, TypeCorrect, PTL DEF Spec

(* Which string the last lookup returned, where one is used.               *)
TextInv ==
  /\ pc = "lookup" => text = <<Current, "module.name">>
  /\ pc = "init" => text = <<Current, "vserial.port">>
  /\ pc = "rig_open" => result = NULL \/ text = <<Current, "hamlib.serial">>

LEMMA TextStep ==
  ASSUME TextInv, [Next]_vars
  PROVE  TextInv'
<1> USE DEF TextInv, Current
<1>1. ASSUME pc' \notin {"lookup", "init", "rig_open"} PROVE TextInv'
  BY <1>1
<1>2. ASSUME UNCHANGED <<pc, file, job>> PROVE TextInv'
  BY <1>2 DEF file
<1>3. CASE UNCHANGED vars
  BY <1>2, <1>3 DEF vars, queue
<1>4. CASE Main
  BY <1>1, <1>2, <1>4 DEF Main, Load, LoadPlugins, ScheduleSection, EnterLoop, Queue!Schedule
<1>5. CASE Start
  <2>1. CASE ReadModuleName \/ ReadPort \/ ReadSerial
    BY <2>1 DEF ReadModuleName, ReadPort, ReadSerial, LookupFound, queue
  <2>2. CASE NoSerial
    BY <2>2 DEF NoSerial, LookupMissing, File!GetsMissing
  <2>3. CASE NoModuleName \/ NoPort \/ NoRigid \/ BadSerial \/ LookupDamages
    BY <1>1, <2>3 DEF NoModuleName, NoPort, NoRigid, BadSerial, LookupDamages, Fatal, Exit
  <2>4. CASE CreateModule \/ CreateDriver \/ InitDriver \/ Attach \/ ReadRigid \/ RigOpens
    BY <1>1, <2>4 DEF CreateModule, CreateDriver, InitDriver, Attach, ReadRigid, RigOpens
  <2> QED
    BY <1>5, <2>1, <2>2, <2>3, <2>4 DEF Start
<1>6. CASE Loop
  <2>1. CASE RunJob
    BY <1>1, <2>1 DEF RunJob
  <2>2. CASE Deliver \/ JobsDone \/ Poll \/ SignalEvent \/ EndIteration
    BY <1>1, <2>2 DEF Deliver, JobsDone, Poll, SignalEvent, AfterSignal, EndIteration
  <2>3. CASE \E s \in Section : PortEvent(s)
    BY <1>2, <2>3 DEF PortEvent, queue
  <2>4. CASE \E s \in Section : ReadData(s)
    BY <1>1, <2>4 DEF ReadData, Fatal, Exit
  <2> QED
    BY <1>6, <2>1, <2>2, <2>3, <2>4 DEF Loop
<1>7. CASE StopModule \/ CleanExit \/ Failure
  BY <1>1, <1>7 DEF StopModule, CleanExit, Failure, LoadFails, PortFails, RigFails, PortEventFails, Fatal, Exit
<1>8. CASE Client \/ Interrupt
  BY <1>2, <1>8 DEF Client, SetRts, WriteData, Interrupt, queue
<1> QED
  BY <1>3, <1>4, <1>5, <1>6, <1>7, <1>8 DEF Next, Program

(* Where start_module_handler(), the driver or the module uses a string,   *)
(* it is the one looked up for this use and has not been freed: no lookup  *)
(* comes in between, however the jobs of the sections are interleaved.     *)
THEOREM UsedStringsAreLive == Spec => []UsedStringIsLive
<1>1. Init => TextInv
  BY DEF Init, TextInv
<1>2. ASSUME StringInv, TextInv PROVE UsedStringIsLive
  <2>1. result # NULL => owner[result] = "config"
    BY <1>2 DEF StringInv
  <2>2. ASSUME NEW u \in Uses, pc = u.at, result # NULL PROVE text = <<Current, u.key>>
    BY <1>2, <2>2 DEF Uses, TextInv
  <2> QED
    BY <2>1, <2>2 DEF UsedStringIsLive
<1> QED
  BY <1>1, <1>2, TextStep, StringsInv, PTL DEF Spec

(* However many sections are started, one string is live at most.          *)
THEOREM NoStringLeaks == Spec => []OneString
<1>1. StringInv => OneString
  BY DEF StringInv, OneString
<1> QED
  BY <1>1, StringsInv, PTL
=============================================================================
