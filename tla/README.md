# A formal model of righack

`righack` (see `README.txt` of the repository) sets up virtual serial ports on
pseudoterminals of a patched Linux kernel, watches the RTS line that another
program sets on them, and switches the PTT state of a radio through hamlib.
This directory holds TLA+ modules of the program, their TLC configurations, and
proofs for the TLA+ proof system.

Paths below are those of the repository (`src/runloop.c` is the event loop).

## The system

The program is one thread. `main()` reads a TOML file, defers one job per
section, and gives control to libuv's loop. The jobs start the modules; a module
creates a driver, which opens a pseudoterminal and watches its master side; the
callback of that watch commands the radio. SIGINT stops the loop, then the
modules are stopped and the loop is taken down. The concurrency is with the
outside: clients change the lines of a port, and signals arrive, between any two
system calls; and within the loop, between callbacks.

| Component | State | Operations | What is hard |
|---|---|---|---|
| deferred jobs, `runloop.c` 34-56, 161-216 | linked list `run_once_queue`/`run_once_last`, prepare handle | `runloop_run_later()`, `run_once_prepare_cb()` | jobs defer jobs while the list is being walked and freed |
| event loop, `runloop.c` 60-159 | `thread_loop`, `int_signal` | bootstrap, run, SIGINT, cleanup | what is dispatched before the loop ends; a shutdown in two runs of the loop |
| timers and polls, `runloop.c` 218-361 | libuv handles in allocated structs | create, start, fire, cancel, destroy, close callback | operations that are fatal depending on whether the handle is active |
| vserial driver, `drivers/vserial.c` | `modem_bits`, the pseudoterminal, a symbolic link | init, poll callback, status packets, first delivery, cleanup | changes between `read()` and `TIOCMGET`; changes coalesce; the link is shared with other programs |
| test module, `modules/test.c` | `struct context`, the radio | start, `update_flow_control()`, stop | set up after the driver has already deferred its first call |
| modules, `module.c` | `loaded_modules`, `running_modules` | start, stop, stop all | a wrong name |
| drivers, `driver.c` | `loaded_drivers`, `struct driver` | load, create, destroy, status | a driver has its port before the module has set its callback; who frees what |
| configuration, `configfile.c` | the parsed file, a static string buffer | string and integer lookups | strings are borrowed until the next lookup |
| program, `main.c`, `guts.c`, `util.c` | exit status | start sections, fatal errors | one section of several fails |
| autodie, `external/autodie.c` | `die_handler`, `inside_autodie` | checked allocation, registration of the handler | an error that is reported when there is no memory; reentrance |
| logging, `log.c` | `current_level`, the message buffer | filter, format, write | it allocates, and it is what reports errors |
| TOML parser, `external/toml.c` | - | - | third-party, not modelled |
| kernel patch, `kernel/linux+pty_tiocmset.patch` | `fake_mbits`, `ctrl_status` | `pts_tiocmget()`, `pts_tiocmset()` | status bits, not a queue |

What makes each correct:

- deferred jobs: no freed cell is used, none is lost or leaks, jobs run once, in
  order, and they do run;
- vserial driver: no change of the lines is lost, and the radio ends up as RTS is;
- symbolic link: other files are not removed, a link leads to a port that is served,
  and of several instances one gets its link;
- timers and polls: no memory is freed twice or under libuv, clients are told, the
  loop ends empty, and a client that waits for its timer may cancel it;
- autodie and logging: a failed allocation is reported without another one and ends
  the program by an exit; every exit status has its reason (but not every lack of memory
  ends in `exit_nomem`: that of `util_strndup()` is logged and ends in `exit_fatal`, as
  other errors do);
- configuration: a string is live as long as its caller may use it, and is freed once;
- program: every section is started once; a configuration that cannot be started as
  a whole leaves the radios alone; each radio follows its own port whatever the other
  sections do; no port starves another; SIGINT ends the program.

`PROJECT.json` lists the hazards at their lines with the properties that cover them.

## Modules

| Module | What it is |
|---|---|
| `RunOnceFifo` | the promise of `runloop_run_later()`: a FIFO queue of jobs |
| `RunOnce` | the linked list, the walk, the prepare handle and the heap; implements `RunOnceFifo` |
| `RunOnceProofs` | proofs about `RunOnce` |
| `PttFollower` | the promise to the operator: sample the line, tell the radio what was sampled |
| `Vserial` | one port: kernel, driver, module and radio; implements `PttFollower` |
| `VserialProofs` | proofs about `Vserial` |
| `Symlink` | one path and the instances of the program that manage a link there |
| `SymlinkProofs` | proofs about `Symlink` |
| `Handles` | timers, polls and the two handles of the loop, from creation to the end of cleanup |
| `HandlesProofs` | proofs about `Handles` |
| `Heap` | the addresses of strings of the configuration |
| `ConfigFile` | ownership of the static buffer of the string lookups |
| `ConfigFileProofs` | proofs about `ConfigFile` |
| `Righack` | the whole program with several sections; composes `RunOnceFifo` and `ConfigFile`, and implements a `PttFollower` for each section |
| `RighackProofs` | proofs about `Righack`: the jobs, the radios and the string buffer |
| `RighackSectionProofs` | proofs about `Righack`: its single sections, each an instance of `PttFollower`, and the parts it is composed of |
| `Autodie` | how an error is reported and ends the program: `util_fatal()`, the checked allocations with their handler, the log they need |
| `AutodieProofs` | proofs about `Autodie` |
| `MC...` | instances for TLC |

### State and actions

`RunOnce`. `heap` maps the addresses of live cells to cells; `malloc()` may
return any other address, also one that was just freed. `run_once_queue`,
`run_once_last`, `run_once_prepare_started` and the cursor `p` are the variables
of the code. `RunLater` is `runloop_run_later()`; it may be called from a job
(`pc = "job"`) or outside the walk. `PrepareFires`, `CallJob`, `JobReturns` and
`WalkEnds` are `run_once_prepare_cb()`, cut where control leaves it. `order` and
`current_pass` are history variables.

`Vserial`. `fake_mbits`, `ctrl_status` and `written` are the kernel's;
`modem_bits` is the driver's copy. `pc` is cut at every system call that reads
or clears something the client can change: the `TIOCMGET` of
`vserial_lifecycle_init()`, the end of `rig_open()`, the first delivery, the
poll, `read()`, the test of the status, and `TIOCMGET` again. Status bits other
than `MSET` stand for all of them. Setting and clearing lines is one atomic step,
as the kernel holds its lock. `IoFails` is a `read()` or `TIOCMGET` that fails, or the
end of file, any of which is fatal.

`Symlink`. `path` is what is in the file system. The four system calls of
`vserial_manage_symlink()` are the actions `Lstat`, `Readlink`, `Unlink` and
`MakeLink`; `pc` says which one an instance makes next, `port` which slave it
has opened. A name is free for another pseudoterminal once its instance has
ended, the link to it stays. `st_mode` is the set of its bits, since the code
tests a bit of it and not the type. An epoch begins when an instance starts and
no other is up; `failed`, `stopped` and `disturbed` are history variables, the
first two of the epoch. Only instances of the program change the path: a file that
another program puts there between `readlink()` and `unlink()` is assumed away, and
would be removed. Failures for other reasons (permissions, crashes, SIGINT) are `Stop`.
The test of `st_mode` is modelled as it is: `st_mode & S_IFLNK` also holds for regular
files, devices and sockets, of which the comment at `vserial.c` 170 says that "the
desired target is already a symlink"; it is the failure of `readlink()` that keeps them
(`FilesAreKept`).

`Handles`. `uv` is what libuv knows of a handle, `mem` what is allocated of it
(the struct of the client, the private one with libuv's handle in it, or both),
`closer` the callback that `uv_close()` was given. The functions of `runloop.h`
are actions that a client may take before the loop, in a callback, and while
modules are stopped, but not on what it has destroyed. `pc` follows `main()`
through `runloop_run()` and `runloop_cleanup()`: the modules are stopped, a
first `uv_run()` drains the loop, `Walk` closes what is left, and a second
`uv_run()` calls the close callbacks. `uv_run()` returns when no handle is
active or closing. `PollStart` takes whether any event is asked for: without one libuv
stops the handle instead of starting it. `armed` is a history variable: what a client has asked of a
timer and has not been told the end of.

`ConfigFile`. `owner` says who holds an address of the heap; a lookup frees what
`buf` points to. When `buf` does not own it the behaviour is undefined and the
model stops, with `damaged` set.

`Righack`. `config` is any configuration of up to `MaxSection` sections, each
with a fault the program would find (or none) and with or without the optional
key, which may also not be a string. The steps of `start_module_handler()` are separate actions, because clients
and SIGINT may come between them. `jobs` and `job` are the queue of
`RunOnceFifo`. A poll takes the ports that are ready into `batch` and dispatches
them in any order, the signal last, as libuv does. `PortEvent` is the read, the
`TIOCMGET` and the delivery of `Vserial` in one step; `ReadData` is the read of what a
client has `written`, when there is no status before it. `Fatal` is `util_fatal()`.
`text` is a history variable: of which section and key the string is that the last lookup
returned. `Uses` says where the program uses which string.
`CleanExit` needs what its `uv_run()` needs to return, that no handle is active; since
`StopModule` is fatal, that is only so without a section.
`Radio(s)` is the `PttFollower` that section `s` implements: its phase is `starting`
until the port is active, `applying` as long as the first delivery waits or runs,
`following` after it and `stopped` when the program has ended; a poll event of a
port is its `SampleAndApply`.
`drivers` is the list of `driver.c`. `CreateDriver`, `ReadPort`, `InitDriver` and
`Attach` are `driver_create()` as `test_lifecycle_start()` calls it: the port is
active when `driver_create()` returns, and only then the module sets the
callback and the user data (`attached`); `DeliverFcChanged` does nothing of a
port that has none.

`Autodie`. `call` is the innermost call in progress and `waiting` who waits for
it: `main()`, a message (`hamlib_debug_handler()` allocates first and logs then)
or `util_fatal()`. `Calls` says what each stage of `main()` may call, in any order
and number. `message_buf` is the static buffer of `log__level_args()`, which is
allocated with the first message that `current_level` lets through. A checked
allocation that fails enters `autodie__invoke()` (`Invoke`), which aborts when it has been
entered before, calls `autodie_handler()` (`Handler`) when it is registered, and exits by
itself when it is not. Both write to `stderr` by themselves. That the abort is not
reached is a result (`ExitIsExplained`, `FailureStops`) and depends on what the handler
does: a variant of it that allocates gets there. An allocation fails with `ENOMEM`: the program asks for
zero bytes nowhere.

## Runs

All runs finish in seconds.

| Run | Shows | Bounds |
|---|---|---|
| `run_once` | `NoUseAfterFree`, `ListIsOrder`, `PrepareRunsQueue`, `EveryJobRuns`, and that the list implements the fair FIFO queue (`FifoSpec`) | three cells, two jobs |
| `vserial` | `NoLostChange`, `PttUpToDate`, `PttFollowsRts`, and that the port implements `PttFollower` (`FollowerSpec`) | RTS and one other line, MSET and one other bit |
| `symlink` | `RaceHasWinner`, `LinkIsLive`, `FilesAreKept`, `FailureNeedsRace` | three instances and three ports, interchangeable |
| `handles` | `NoUseAfterFree`, `ClientIsDone`, `LoopIsEmpty`, `ArmedIsActive`, `DestroyedIsFreed`, `QuietCleanupEnds`, `SecondRunOnlyCloses`, `DestroyIsKept` | one timer, one poll |
| `righack` | `NoRadioBeforeAllStarted`, `PttUpToDate`, `DamageNeedsMissingKey`, `UsedStringIsLive`, `OneString`, `EachStartedOnce`, `InterruptEnds`, `EveryRadioFollows`, and that each section by itself implements `PttFollower` (`EveryRadioIsFollower`) | two sections, two addresses |
| `autodie` | `NoAllocAfterFailure`, `ExitIsExplained`, `FailureStops` | three levels of the program's own messages, two of hamlib's |
| `run_once_next_iteration` | counterexample: a job deferred by a job runs in the same iteration | as `run_once` |
| `autodie_log` | counterexample: when `util_strndup()` finds no memory, the error goes through the log (`FailureIsNotLogged`), against the comment in `autodie_handler()`, and the exit status is that of other errors | as `autodie` |
| `handles_left_active` | counterexample: cleanup does not get to closing handles that clients have left active (`LeftIsClosed`) | as `handles` |
| `righack_unknown_module` | counterexample: an unknown module name hangs the program | as `righack` |
| `righack_cleanup` | counterexample: with a module running, SIGINT ends in a fatal error | as `righack` |
| `righack_lookups` | counterexample: two sections, the first without the optional key, free the buffer twice | as `righack` |

Why the bounds are enough. With three cells a walk frees a cell, a job allocates
it again, and a third is queued behind it: every combination of stale pointer
and reuse occurs; the proofs cover the rest. Two lines and two status bits give
a change that matters and one that does not, alone and together; again the
proofs cover the rest. Three instances give two that race for a link and
a third that comes in between or takes over a port's name, and the proofs cover the
rest. A timer and a poll are all kinds of handles there are; handles of
clients do not know of each other, they share only the loop, which is alive or
not. Two sections give an earlier and a later one, a busy and
a waiting port, a string of one section and a lookup of the next. Two addresses
are what one buffer needs to move. Of the levels below `warn`,
which is what `log.c` starts with, two are kept: a message is either let through
or not.

Deadlock is checked for `RunOnce` and `Symlink`. The other systems really stop: the
program exits, or its behaviour becomes undefined.

### Fairness

The program's own steps are weakly fair (`Fairness` of `RunOnce`, `WF_vars(Driver)`,
`WF_vars(Program)`): there is one thread, and it goes on as long as the calls it
makes return, which is assumed of hamlib and of the kernel. In
`Handles` client code interleaves with libuv's steps and can disable them for
a moment, so that libuv's service of each handle is strongly fair: a timer that
stays scheduled fires, a closing handle is closed. In `Autodie` what is fair is a call in progress (`Goes`); what
`main()` calls next is not. Nothing is assumed of
clients, the operator, or of what may fail. `PttFollowsRts` and
`EveryRadioFollows` are therefore conditional: on a line that stays as it is, and
a program that stays up; and `QuietCleanupEnds` on clients that come to rest.
`LeftIsClosed` fails although libuv is fair.

## Proofs

`RunOnceProofs` proves `NoUseAfterFree`, `ListIsOrder` and `PrepareRunsQueue` for every heap and
every set of jobs, and that the list implements the queue (`Refinement`, safety
part). The properties are not inductive: that the tail may be written needs to
know that the live cells are what the pointers reach. The inductive invariant
`IInv` is the type invariant, `ListIsOrder` (the cells form, from the cursor or
the queue, the sequence `order`) and `PointerInv` (where `run_once_last` and the
prepare handle stand in each phase). Assumptions: `NULL` is no address, `Idle` no job.

`VserialProofs` proves `NoLostChange` and `PttUpToDate` for every set of lines and
status bits, and that the port implements `PttFollower` (safety part). `IInv` adds
that a packet is in hand only between `read()` and its handling, and that after
the first delivery the radio is as the driver's copy says.

`SymlinkProofs` proves all four properties of `Symlink` for any number of
instances and ports. None is inductive. `IInv` adds that an instance that is up
has a port (`UpHasPort`); that the path can be a link once an instance is past
`readlink()` (`PastReadlink`), which is what keeps `unlink()` from other files;
that while an instance is running, the link leads to a running one or is being
made (`RunningHasLink`); that an instance that finds the path changed has
another one to blame (`LoserHasWinner`); and that what `lstat()` found is still
so for an instance that was not disturbed (`DisturbedOrSame`). Assumption:
`Elsewhere` and `NULL` are no ports.

`ConfigFileProofs` proves `BorrowIsLive` and `OneString` for a heap of any size, in
which the rest of the program allocates and frees as it likes; `IInv` adds that
what a lookup returned is the buffer (`ResultIsBuf`). `RighackProofs` proves more
of the whole program: each of its steps leaves the buffer
alone or is a lookup of `ConfigFile` (`FileSteps`), and where a string is used it is the
one that was looked up for the use (`TextInv`), which gives `UsedStringIsLive`.

`HandlesProofs` proves `NoUseAfterFree`, `ClientIsDone`, `LoopIsEmpty` and
`ArmedIsActive` for any number of timers and polls. `IInv` says, handle by
handle, how what libuv knows of it goes with what is allocated and with the
callback it is closed with; which of the two handles of the loop are still open in
each phase; that in the phases after the first run of the loop nothing is active
any more; and that the client runs only in the phases in which it is called.
Assumptions: the handles of clients are not those of the loop, and `NULL` is none
of them. Two action properties follow from the same invariant. `DestroyIsKept`:
only the walk and the close callbacks could take a handle from the client that has
destroyed it (`CloserSteps`), the walk passes over handles that are closing, and the
client's own callback frees the handle as a whole. `SecondRunOnlyCloses`: in the second
run no step is possible but to close a handle for good or, when none is left, to
end (`SecondRunSteps`). That the second run takes no more steps than there are handles
is the safety part of its termination; that it does take them is left to TLC.

`RighackProofs` proves the invariants of `Righack` for any number of
sections. Three of them need the order of the jobs (`OrderInv`): those that wait are
first starts, by section, and then deliveries, and a job that is running comes
before the starts that wait. With it, `StartedInv` (every section has been
started, or its start waits, or `main()` has not got to it) makes
`NoRadioBeforeAllStarted`: when a delivery runs no start waits. `RadioInv` says of a
port that the driver's copy of RTS is right unless the kernel has an event,
and that the radio is as the copy says unless a delivery waits; it makes
`PttUpToDate`, as no job waits when the loop polls. A delivery is lost on a port whose
module has not set its callback: `RadioInv` says that this is only so
between `InitDriver` and `Attach`. `DanglingInv` says which section left the buffer
dangling; it makes `DamageNeedsMissingKey`. Assumptions: `MaxSection` is a natural
number, `Idle` no job and `NULL` no address.

`RighackSectionProofs` builds on `IInv` of `RighackProofs` and looks at the single
sections. Its inductive invariant `SectionInv` says that the list of running
modules has its sections in descending order and that only sections
that had their turn are in it (with `OrderInv`: those that wait come later); that
ports and radios in use belong to listed sections; that the port of a section is not
active before its `InitDriver`; and that a section has at most one delivery, waiting or
running. From it follow `EachStartedOnce` and the
refinement: for every section `s`, each step of the program is a step of `Radio(s)` or
leaves it as it is (`FollowerStep`). The steps are first sorted by what they do to the
queue, the list and the radios (`StepKinds`); most stutter or are `Stop`. `InitDriver` is
`Sample` for the section that starts and a stutter for the others, which needs that
its port was not active before. `Deliver` is `Apply`, which needs that it was the only
delivery of its section and that the module has set its callback (`RadioInv`). A poll
event is `SampleAndApply`, which needs that no delivery waits when the loop polls
(`JobInv`).

The last two theorems make the composition exact. Every behaviour of `Righack` is, in
`jobs` and `job`, one of `RunOnceFifo` (`UsesQueue`) and, in the string buffer, one of
`ConfigFile` (`UsesFile`). The linked list implements `RunOnceFifo` (`Refinement` of
`RunOnceProofs`), so that the queue which the program is built on here is one that
`runloop.c` provides.

`AutodieProofs` proves `NoAllocAfterFailure` and `ExitIsExplained`. `IInv` adds that the
buffer of the log is there once `main()` has logged its first message, and how
the calls nest. Assumption: `NULL` is none of the values it stands in for.

Every component with proofs has its type invariant proved as well (`TypeCorrect`).

Only model-checked: all liveness (`EveryJobRuns`, `PttFollowsRts`,
`DestroyedIsFreed`, `QuietCleanupEnds`, `InterruptEnds`, `EveryRadioFollows`,
`FailureStops`) and the fair parts of the refinements, which are out of the
provers' reach.

## What is not modelled

- What follows `runloop_poll_destroy()` in `vserial_lifecycle_cleanup()`,
  `driver_destroy()` and `test_lifecycle_stop()`: nothing in the program makes the
  poll of a port inactive, so that `runloop_poll_destroy()` is fatal (run
  `righack_cleanup`) and no state of the program lies behind it. Who owns
  `driver->user` there (`vserial.c` 299) can be modelled once that is repaired.
- Lists of several modules or drivers: one of each is registered, once. A search
  for any other name does not return (run `righack_unknown_module`), and neither
  would the registration of a second module or driver, which begins with it.
- The status of a driver, which nothing sets; `module_destroy()`, `util_strdup()`,
  `util_memdup()` and `autodie_set_exit_value()`, which nothing calls; the operations
  and events of `interface.h` and of the stream interface in `driver.h`, which
  nothing implements.
- The layout of a message with `log_basename()`, the TOML parser (third-party), the build.
- libuv beyond the states of a handle; hamlib beyond "opens", "sets PTT", "fails" and
  "logs".

## Plan

1. (done) `RunOnceFifo`, `RunOnce`, `PttFollower`, `Vserial`, `ConfigFile`,
   `Righack`, with their proofs.
2. (done) `Symlink` and `Handles`, with their proofs.
3. (done) `Autodie` with its proofs; the drivers in `Righack`.
4. (done) The sections of `Righack` one by one: `RighackSectionProofs`; what the shutdown
   may do to handles: the action properties of `Handles`.
5. Should the poll of a port be stopped before it is destroyed: the rest of the
   shutdown, composed with `Handles`.
6. Should a second module or driver be registered: the searches over lists of any
   length, against a partial function from names.
