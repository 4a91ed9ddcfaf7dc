------------------------------ MODULE Righack ------------------------------
(***************************************************************************)
(* The whole program, from main() to exit(): the sections of the           *)
(* configuration, each of which starts a test module with a virtual serial *)
(* port and a radio; the event loop that runs deferred jobs and dispatches *)
(* poll events; SIGINT; and the cleanup.                                   *)
(*                                                                         *)
(* It is built from RunOnceFifo (the deferred jobs of runloop.c) and       *)
(* ConfigFile (the string buffer of configfile.c).  What Vserial says in   *)
(* detail of one port is coarser here: a poll event of a port reads its    *)
(* status and its lines in one step, because here the ports, the jobs and  *)
(* the signal are interleaved instead.                                     *)
(*                                                                         *)
(* Sections are numbered as toml_key_in() enumerates them.                 *)
(***************************************************************************)
EXTENDS Naturals, Sequences, Heap

CONSTANTS
  MaxSection,    \* bound on the number of sections of a configuration
  Idle           \* no job is running

ASSUME MaxSectionAssumption == MaxSection \in Nat

Section == 1..MaxSection

(* What can be wrong with a section, in the order in which the program     *)
(* would find out: it is not a table or has no (string) module.name, names *)
(* a module that does not exist, has no (string) vserial.port, has no      *)
(* (integer) hamlib.rigid, has a hamlib.serial.port that is not a string.  *)
(* "none": nothing.                                                        *)
Fault == {"none", "no name", "unknown module", "no port", "no rigid", "bad serial"}

(* fault, and whether the optional hamlib.serial.port is there             *)
SectionConfig ==
  {c \in [fault : Fault, serial : BOOLEAN] : c.fault = "bad serial" => c.serial}

StringKey == {"module.name", "vserial.port", "hamlib.serial"}

Job == {"start", "deliver"} \X Section

ASSUME IdleAssumption == Idle \notin Job

(* The signal among the events of a poll                                   *)
INT == 0

VARIABLES
  config,                          \* the configuration file
  pc,                              \* where control is
  drivers,                         \* loaded_drivers of driver.c
  scheduled,                       \* main()'s loop: sections scheduled so far
  jobs, job,                       \* RunOnceFifo: waiting and running
  owner, buf, result, damaged,     \* ConfigFile
  text,                            \* history: section and key of the string last returned
  running_modules,                 \* newest first
  active,                          \* sections whose poll handle is active
  attached,                        \* sections whose module has set fc_changed and user
  opened,                          \* sections whose radio is open
  rts, mset,                       \* kernel: RTS, and a pending MSET, by section
  written,                         \* kernel: sections whose client has written data
  seen,                            \* the driver's copy of RTS
  ptt,                             \* whether the radio transmits
  commanded,                       \* history: sections whose radio was commanded
  batch,                           \* events this iteration has yet to dispatch
  sigint,                          \* SIGINT was delivered to libuv's handler
  code                             \* exit status

setup == <<config, drivers, scheduled>>
queue == <<jobs, job>>
file == <<owner, buf, result, damaged, text>>
modules == <<running_modules, active, attached>>
ports == <<rts, mset, written, seen>>
radios == <<opened, ptt, commanded>>
events == <<batch, sigint>>
vars == <<setup, pc, queue, file, modules, radios, ports, events, code>>

Queue == INSTANCE RunOnceFifo WITH waiting <- jobs, running <- job
File == INSTANCE ConfigFile

Configured == DOMAIN config

Stages == {"load", "plugins", "main", "prepare",
           "module.name", "lookup", "driver", "vserial.port", "init", "attach", "hamlib.rigid",
           "hamlib.serial", "rig_open", "deliver", "poll", "events", "cleanup", "exited", "undefined"}

TypeOK ==
  /\ config \in UNION {[1..n -> SectionConfig] : n \in 0..MaxSection}
  /\ pc \in Stages
  /\ drivers \subseteq {"vserial"}
  /\ scheduled \in 0..MaxSection
  /\ Queue!TypeOK
  /\ File!TypeOK
  /\ text \in (Section \X StringKey) \cup {NULL}
  /\ running_modules \in Seq(Section)
  /\ active \subseteq Section
  /\ attached \subseteq Section
  /\ opened \subseteq Section
  /\ mset \subseteq Section
  /\ written \subseteq Section
  /\ commanded \subseteq Section
  /\ batch \subseteq Section \cup {INT}
  /\ rts \in [Section -> BOOLEAN]
  /\ seen \in [Section -> BOOLEAN]
  /\ ptt \in [Section -> BOOLEAN]
  /\ sigint \in BOOLEAN
  /\ code \in {0, 1, NULL}

Init ==
  /\ config \in UNION {[1..n -> SectionConfig] : n \in 0..MaxSection}
  /\ pc = "load"
  /\ drivers = {}
  /\ scheduled = 0
  /\ Queue!Init
  /\ File!Init
  /\ text = NULL
  /\ running_modules = << >>
  /\ active = {}
  /\ attached = {}
  /\ opened = {}
  /\ rts = [s \in Section |-> FALSE]
  /\ mset = {}
  /\ written = {}
  /\ seen = [s \in Section |-> FALSE]
  /\ ptt \in [Section -> BOOLEAN]
  /\ commanded = {}
  /\ batch = {}
  /\ sigint = FALSE
  /\ code = NULL
-----------------------------------------------------------------------------
(* The section of the job that is running.                                 *)
Current == job[2]

(* guts_exit(): util_fatal() calls it with exit_fatal, main() with exit_ok *)
Exit(value) ==
  /\ pc' = "exited"
  /\ code' = value

Fatal ==
  /\ Exit(1)
  /\ UNCHANGED <<setup, queue, modules, ports, radios, events>>

-----------------------------------------------------------------------------
(* main() *)

(* configfile_load()                                                       *)
Load ==
  /\ pc = "load"
  /\ pc' = "plugins"
  /\ UNCHANGED <<setup, queue, file, modules, ports, radios, events, code>>

(* There is not exactly one argument, or the configuration cannot be       *)
(* loaded.                                                                 *)
LoadFails ==
  /\ pc = "load"
  /\ Fatal
  /\ UNCHANGED file

(* driver_load_plugins()                                                   *)
LoadPlugins ==
  /\ pc = "plugins"
  /\ drivers' = {"vserial"}
  /\ pc' = "main"
  /\ UNCHANGED <<config, scheduled, queue, file, modules, ports, radios, events, code>>

(* One turn of the loop over the sections.  The variant is off by one.     *)
OneMoreSection == scheduled <= Len(config)
MoreSections == scheduled < Len(config)

ScheduleSection ==
  /\ pc = "main"
  /\ MoreSections
  /\ scheduled' = scheduled + 1
  /\ Queue!Schedule(<<"start", scheduled + 1>>)
  /\ UNCHANGED <<config, drivers, file, modules, ports, radios, events, pc, code>>

(* runloop_run(): the handler of SIGINT is installed, uv_run() begins.     *)
EnterLoop ==
  /\ pc = "main"
  /\ ~MoreSections
  /\ pc' = "prepare"
  /\ UNCHANGED <<setup, queue, file, modules, ports, radios, events, code>>

-----------------------------------------------------------------------------
(* The deferred jobs of an iteration: RunOnce.  They are run in the order  *)
(* in which they were deferred, those that a job defers included; the      *)
(* variant runs the newest first.                                          *)
StartNewestJob ==
  /\ job = Idle
  /\ jobs # << >>
  /\ job' = jobs[Len(jobs)]
  /\ jobs' = SubSeq(jobs, 1, Len(jobs) - 1)

StartOldestJob == Queue!Start

RunJob ==
  /\ pc = "prepare"
  /\ StartOldestJob
  /\ pc' = IF job'[1] = "start" THEN "module.name" ELSE "deliver"
  /\ UNCHANGED <<setup, file, modules, ports, radios, events, code>>

JobsDone ==
  /\ pc = "prepare"
  /\ jobs = << >>
  /\ pc' = "poll"
  /\ UNCHANGED <<setup, queue, file, modules, ports, radios, events, code>>

-----------------------------------------------------------------------------
(* start_module_handler() of the current section, step by step. *)

(* The lookup of a string that is there, and then on to next; and that of  *)
(* one that is missing, or is not a string, which returns none.            *)
LookupFound(next) ==
  /\ \E a \in Addr : File!GetsFound(a)
  /\ text' = <<Current, pc>>
  /\ pc' = next
  /\ UNCHANGED <<setup, queue, modules, ports, radios, events, code>>

LookupMissing ==
  /\ File!GetsMissing
  /\ text' = NULL

ReadModuleName ==
  /\ pc = "module.name"
  /\ config[Current].fault # "no name"
  /\ LookupFound("lookup")

NoModuleName ==
  /\ pc = "module.name"
  /\ config[Current].fault = "no name"
  /\ LookupMissing
  /\ Fatal

(* A lookup frees an address that is not the buffer's.                     *)
LookupDamages ==
  /\ pc \in StringKey
  /\ File!GetsDamages
  /\ UNCHANGED text
  /\ pc' = "undefined"
  /\ UNCHANGED <<setup, queue, modules, ports, radios, events, code>>

(* What the caller of a lookup does with the string when it is done with   *)
(* it.  The variant frees it.                                              *)
FreeString == owner' = [owner EXCEPT ![result] = "free"] /\ UNCHANGED <<buf, result, damaged, text>>
KeepString == UNCHANGED file

(* Where the program uses a string that it has looked up: for the name of  *)
(* the module, the target of the link and the port of the radio.  The      *)
(* variant logs the name of the module once the module has been started.   *)
UsesNameAtEnd ==
  {[at |-> "lookup", key |-> "module.name"], [at |-> "rig_open", key |-> "module.name"],
   [at |-> "init", key |-> "vserial.port"], [at |-> "rig_open", key |-> "hamlib.serial"]}
Uses ==
  {[at |-> "lookup", key |-> "module.name"], [at |-> "init", key |-> "vserial.port"],
   [at |-> "rig_open", key |-> "hamlib.serial"]}

(* module_create() puts the module in front of the running ones.  The      *)
(* variant puts it behind them.                                            *)
LinkedLast == Append(running_modules, Current)
Linked == <<Current>> \o running_modules

(* module_start() up to the call of the module's start function.  When the *)
(* name is not that of the first module of the list, module_get_info()     *)
(* does not return: its cursor never moves.                                *)
CreateModule ==
  /\ pc = "lookup"
  /\ config[Current].fault # "unknown module"
  /\ running_modules' = Linked
  /\ KeepString
  /\ pc' = "driver"
  /\ UNCHANGED <<setup, queue, active, attached, ports, radios, events, code>>

(* driver_create() of test_lifecycle_start() finds the driver, whose       *)
(* callbacks are zeroed, and initialises it.                               *)
CreateDriver ==
  /\ pc = "driver"
  /\ "vserial" \in drivers
  /\ pc' = "vserial.port"
  /\ UNCHANGED <<setup, queue, file, modules, ports, radios, events, code>>

(* vserial_lifecycle_init()                                                *)
ReadPort ==
  /\ pc = "vserial.port"
  /\ config[Current].fault # "no port"
  /\ LookupFound("init")

NoPort ==
  /\ pc = "vserial.port"
  /\ config[Current].fault = "no port"
  /\ LookupMissing
  /\ Fatal

(* openpty(), an ioctl() or the symbolic link fails.                       *)
PortFails ==
  /\ pc = "init"
  /\ Fatal
  /\ UNCHANGED file

(* The first delivery is deferred; the variant leaves it out.              *)
NoFirstDelivery == UNCHANGED queue
DeferFirstDelivery == Queue!Schedule(<<"deliver", Current>>)

(* The rest of vserial_lifecycle_init(): the lines are read, the first     *)
(* delivery is deferred and the poll handle started.                       *)
InitDriver ==
  /\ pc = "init"
  /\ seen' = [seen EXCEPT ![Current] = rts[Current]]
  /\ DeferFirstDelivery
  /\ active' = active \cup {Current}
  /\ pc' = "attach"
  /\ UNCHANGED <<setup, file, running_modules, attached, rts, mset, written, radios, events, code>>

(* test_lifecycle_start(), after driver_create(), sets the callback and    *)
(* the user data that the callback needs.                                  *)
Attach ==
  /\ pc = "attach"
  /\ attached' = attached \cup {Current}
  /\ pc' = "hamlib.rigid"
  /\ UNCHANGED <<setup, queue, file, running_modules, active, ports, radios, events, code>>

ReadRigid ==
  /\ pc = "hamlib.rigid"
  /\ config[Current].fault # "no rigid"
  /\ pc' = "hamlib.serial"
  /\ UNCHANGED <<setup, queue, file, modules, ports, radios, events, code>>

NoRigid ==
  /\ pc = "hamlib.rigid"
  /\ config[Current].fault = "no rigid"
  /\ Fatal
  /\ UNCHANGED file

ReadSerial ==
  /\ pc = "hamlib.serial"
  /\ config[Current].serial
  /\ config[Current].fault # "bad serial"
  /\ LookupFound("rig_open")

NoSerial ==
  /\ pc = "hamlib.serial"
  /\ ~config[Current].serial
  /\ LookupMissing
  /\ pc' = "rig_open"
  /\ UNCHANGED <<setup, queue, modules, ports, radios, events, code>>

BadSerial ==
  /\ pc = "hamlib.serial"
  /\ config[Current].fault = "bad serial"
  /\ LookupMissing
  /\ Fatal

RigOpens ==
  /\ pc = "rig_open"
  /\ opened' = opened \cup {Current}
  /\ Queue!Finish
  /\ pc' = "prepare"
  /\ UNCHANGED <<setup, file, modules, ports, ptt, commanded, events, code>>

(* rig_init(), rig_open() or rig_set_ptt() fails.                          *)
RigFails ==
  /\ pc \in {"rig_open", "deliver"}
  /\ Fatal
  /\ UNCHANGED file

-----------------------------------------------------------------------------
(* vserial_deliver_fc_changed() of port s, whose driver does not call a    *)
(* callback that is not set, and update_flow_control().                    *)
DeliverFcChanged(s) ==
  IF s \in attached
  THEN /\ ptt' = [ptt EXCEPT ![s] = seen'[s]]
       /\ commanded' = commanded \cup {s}
  ELSE UNCHANGED <<ptt, commanded>>

(* The deferred first delivery.                                            *)
Deliver ==
  /\ pc = "deliver"
  /\ UNCHANGED seen
  /\ DeliverFcChanged(Current)
  /\ Queue!Finish
  /\ pc' = "prepare"
  /\ UNCHANGED <<setup, file, modules, rts, mset, written, opened, events, code>>

(* libuv's poll returns: ports that are ready now are dispatched in this   *)
(* iteration, the others in a later one.  The variant takes one only.      *)
ReadyPorts == active \cap (mset \cup written)
FirstReadyPort == {s \in ReadyPorts : \A t \in ReadyPorts : s <= t}
Dispatched == ReadyPorts

Poll ==
  /\ pc = "poll"
  /\ ReadyPorts # {} \/ sigint
  /\ batch' = Dispatched \cup (IF sigint THEN {INT} ELSE {})
  /\ pc' = "events"
  /\ UNCHANGED <<setup, queue, file, modules, ports, radios, sigint, code>>

(* The callback of port s: the status is read (and cleared), then the      *)
(* lines, and if they have changed the radio is commanded.                 *)
PortEvent(s) ==
  /\ pc = "events"
  /\ s \in batch \cap mset
  /\ batch' = batch \ {s}
  /\ mset' = mset \ {s}
  /\ seen' = [seen EXCEPT ![s] = rts[s]]
  /\ \/ /\ rts[s] = seen[s]
        /\ UNCHANGED <<ptt, commanded>>
     \/ rts[s] # seen[s] /\ DeliverFcChanged(s)
  /\ UNCHANGED <<setup, queue, file, modules, rts, written, opened, sigint, pc, code>>

(* There is no status to read but the client's data, which is fatal.       *)
ReadData(s) ==
  /\ pc = "events"
  /\ s \in batch \ (mset \cup {INT})
  /\ Fatal
  /\ UNCHANGED file

(* The callback fails: read(), an ioctl() or rig_set_ptt() fails.          *)
PortEventFails ==
  /\ pc = "events"
  /\ batch \ {INT} # {}
  /\ Fatal
  /\ UNCHANGED file

(* libuv dispatches signals after the other events of the poll.            *)
(* int_signal_cb() stops the loop, which ends with this iteration; in the  *)
(* variant it does not.                                                    *)
AfterSignalOn == "prepare"
AfterSignal == "cleanup"

SignalEvent ==
  /\ pc = "events"
  /\ batch = {INT}
  /\ batch' = {}
  /\ pc' = AfterSignal
  /\ UNCHANGED <<setup, queue, file, modules, ports, radios, sigint, code>>

EndIteration ==
  /\ pc = "events"
  /\ batch = {}
  /\ pc' = "prepare"
  /\ UNCHANGED <<setup, queue, file, modules, ports, radios, events, code>>

-----------------------------------------------------------------------------
(* runloop_cleanup() *)

(* module_stop_all() stops the newest module: test_lifecycle_stop(),       *)
(* driver_destroy(), vserial_lifecycle_cleanup(), runloop_poll_destroy(),  *)
(* for which an active poll handle is fatal.  Nothing in the program makes *)
(* a poll handle inactive.                                                 *)
StopModule ==
  /\ pc = "cleanup"
  /\ running_modules # << >>
  /\ Head(running_modules) \in active
  /\ Fatal
  /\ UNCHANGED file

(* There is no module.  The first uv_run() of the cleanup, which runs      *)
(* until no handle is active, returns; the handles are closed and main()   *)
(* exits.                                                                  *)
CleanExit ==
  /\ pc = "cleanup"
  /\ running_modules = << >>
  /\ active = {}
  /\ Exit(0)
  /\ UNCHANGED <<setup, queue, file, modules, ports, radios, events>>

-----------------------------------------------------------------------------
(* The environment *)

(* A client has port s open.  A port can be opened as soon as it exists,   *)
(* which is while its section is being started.                            *)
IsOpen(s) ==
  /\ s \in active \/ (pc = "init" /\ s = Current)
  /\ pc \notin {"exited", "undefined"}

(* It sets or clears RTS.                                                  *)
SetRts(s, b) ==
  /\ IsOpen(s)
  /\ rts' = [rts EXCEPT ![s] = b]
  /\ mset' = mset \cup {s}
  /\ UNCHANGED <<setup, queue, file, modules, written, seen, radios, events, pc, code>>

(* It writes data, which nobody reads: a status is read first, by itself.  *)
WriteData(s) ==
  /\ IsOpen(s)
  /\ written' = written \cup {s}
  /\ UNCHANGED <<setup, queue, file, modules, rts, mset, seen, radios, events, pc, code>>

(* SIGINT while its handler is installed.  (Outside the loop it kills the  *)
(* program.)                                                               *)
Interrupt ==
  /\ pc \notin {"load", "plugins", "main", "cleanup", "exited", "undefined"}
  /\ ~sigint
  /\ sigint' = TRUE
  /\ UNCHANGED <<setup, queue, file, modules, ports, radios, batch, pc, code>>

Main == Load \/ LoadPlugins \/ ScheduleSection \/ EnterLoop

Start ==
  \/ ReadModuleName \/ NoModuleName \/ LookupDamages
  \/ CreateModule \/ CreateDriver
  \/ ReadPort \/ NoPort \/ InitDriver \/ Attach
  \/ ReadRigid \/ NoRigid
  \/ ReadSerial \/ NoSerial \/ BadSerial
  \/ RigOpens

Loop ==
  \/ RunJob \/ Deliver \/ JobsDone
  \/ Poll \/ (\E s \in Section : PortEvent(s)) \/ (\E s \in Section : ReadData(s))
  \/ SignalEvent \/ EndIteration

Program == Main \/ Start \/ Loop \/ StopModule \/ CleanExit

Failure == LoadFails \/ PortFails \/ RigFails \/ PortEventFails

Client ==
  \/ \E s \in Section, b \in BOOLEAN : SetRts(s, b)
  \/ \E s \in Section : WriteData(s)

Next == Program \/ Failure \/ Client \/ Interrupt

Spec == Init /\ [][Next]_vars

(* The program's steps are taken: calls of hamlib and of the kernel        *)
(* return.  Nothing is assumed of clients, of the radios or of SIGINT.     *)
FairSpec == Spec /\ WF_vars(Program)
-----------------------------------------------------------------------------
Ended == pc \in {"exited", "undefined"}

(* Control is in module_get_info() and will not come back.                 *)
Spinning == pc = "lookup" /\ config[Current].fault = "unknown module"

(* A configuration is taken as a whole: no radio is commanded before all   *)
(* of its sections have been started, so that a section that cannot be     *)
(* started ends the program with every radio as it was.  It relies on the  *)
(* order of the deferred jobs: the first delivery of a port is deferred    *)
(* behind the start of the sections that are left.                         *)
NoRadioBeforeAllStarted == commanded # {} => opened = Configured

(* When the loop is idle, every radio whose port has nothing pending       *)
(* transmits if and only if RTS is set, whatever it did before the         *)
(* program started.                                                        *)
PttUpToDate == pc = "poll" => \A s \in active \ mset : ptt[s] = rts[s]

(* What main() asks for is done once and in turn: the list of running      *)
(* modules has the sections in the reverse order of the file, so that      *)
(* module_stop_all() would stop them newest first, and once the jobs are   *)
(* done no section is missing.                                             *)
EachStartedOnce ==
  /\ \A i, k \in 1..Len(running_modules) : i < k => running_modules[k] < running_modules[i]
  /\ pc = "poll" =>
       \A s \in Configured : \E i \in 1..Len(running_modules) : running_modules[i] = s

(* The string buffer is only damaged once an earlier section has been      *)
(* without the optional hamlib.serial.port: one section alone is safe.     *)
DamageNeedsMissingKey ==
  pc = "undefined" => \E s \in Configured : s < Current /\ ~config[s].serial

(* A string that is used has not been freed by a later lookup, of this or  *)
(* another section, whose string may be at the same address: where a name  *)
(* is used, it is still the one that was looked up for the use.            *)
UsedStringIsLive ==
  \A u \in Uses :
    pc = u.at /\ result # NULL => owner[result] = "config" /\ text = <<Current, u.key>>

(* No lookup leaks the string of the one before.                           *)
OneString == File!OneString

(* Each section by itself keeps the promise of PttFollower, whatever the   *)
(* other sections, their clients and their faults do: its radio is left    *)
(* alone until the first delivery, which gives it the sample of            *)
(* vserial_lifecycle_init(), and from then on gets nothing but samples.    *)
DeliveryWaits(s) == job = <<"deliver", s>> \/ \E i \in 1..Len(jobs) : jobs[i] = <<"deliver", s>>

Phase(s) ==
  CASE Ended -> "stopped"
    [] ~Ended /\ s \notin active -> "starting"
    [] ~Ended /\ s \in active /\ DeliveryWaits(s) -> "applying"
    [] ~Ended /\ s \in active /\ ~DeliveryWaits(s) -> "following"

Radio(s) == INSTANCE PttFollower WITH
  rts <- rts[s], seen <- seen[s], ptt <- ptt[s], phase <- Phase(s)

EveryRadioIsFollower ==
  /\ \A s \in Section : Radio(s)!Init
  /\ [][\A s \in Section : [Radio(s)!Next]_(Radio(s)!vars)]_vars

(* SIGINT ends the program, unless a module name has trapped it.           *)
InterruptEnds == sigint ~> Ended \/ Spinning

(* Every radio follows its RTS line, however busy the other ports are.     *)
EveryRadioFollows ==
  \A s \in Section, b \in BOOLEAN :
    <>[](~Ended /\ ~Spinning /\ s \in active /\ rts[s] = b) => <>[](ptt[s] = b)

(* module_start() says that a name without an implementation is fatal.     *)
UnknownModuleIsFatal == pc = "lookup" ~> pc # "lookup"

(* runloop_cleanup() says that it stops the modules and gives them a       *)
(* chance to process their cleanup callbacks: no fatal error in cleanup.   *)
CleanupSucceeds == [][pc = "cleanup" => pc' # "exited" \/ code' = 0]_vars

(* hamlib.serial.port is optional.                                         *)
LookupsAreSafe == ~damaged
=============================================================================
