# Verification of PnP Device Recovery

TLA+ models of the program in `src/src/*.go`, model-checked with TLC, and theorems
about them proved with TLAPS for every number of devices, scans, workers,
changes, processes and lengths of lines. `PROJECT.json` maps every definition to
the lines it models, and lists the runs, the mutants that show each property can
fail, the hazards and the findings.

    tlc -workers 2 -config MCRecoveryOne.cfg MCRecovery.tla
    tlapm RecoveryManagerProofs.tla

## 1. The system

The program watches Windows PnP devices named in a configuration. When one is
unhealthy it runs a *session* for it: up to `max_retries` cycles of Disable, a
fixed gap, Enable, recheck.

    Windows ──callback──> queue ──drain──> OnPnPEvent ──> coalescer ──> timer
                                                                          │
    start-up scan ─────────────┐                                          v
    IPC check ─────────────> Scan ──> HandleDeviceProblem ──go──> runSession
                               ^                                     │
                               └── EnumerateDevices                  v
                                                        Disable / Enable

Around it are the processes of the machine: one daemon that holds a named mutex
and serves a named pipe, and commands that talk to it over that pipe, or take the
mutex and scan themselves when they find no pipe. All of them log to one file.

    check, status ──CallIPC──> pipe ──> serveOnePipe ──> HandleIPC ──> Scan
          └── no pipe ──> elevate ──> mutex ──> one-shot Scan

| Component | State it keeps | Operations | What is hard | What makes it correct |
|---|---|---|---|---|
| Recovery manager (`recovery.go`) | `sessions` with `state`, `running`, `attempts`; `stopping`; `wg`; `firstSeen` | `Scan`, `ClearExhausted`, `HandleDeviceProblem`, `runSession`, `StopNewWork`, `Wait`, `DeviceStatuses` | scans from three goroutines and one worker per session share two levels of locks; device state is a snapshot; cancel at any wait; late spawns | one session per device, none stuck, private counter, sticky Exhausted, bounded attempts, quiet after shutdown |
| Device calls (`device.go`, `device_windows.go`) | Windows' own | `EnumerateDevices`, `GetDeviceByInstanceID`, `FindDeviceByFriendlyName`, `DisableDevice`, `EnableDevice` | every call may fail; a failed status query reads as healthy; devices come, go and share names | an operation hits the device meant, in the state that was checked |
| Daemon (`daemon.go`, `main.go`, `ready_windows.go`) | `phase`, `listenerRegistered`, `pendingStartupPnP`, the coalescer's timer, the context | `OnPnPEvent`, `onDebounced`, `SetPhase`, `ClearPendingStartup`, `HandleIPC`, `Snapshot`, `Shutdown` | the phase is read and acted upon in two critical sections; a timer may fire while it is replaced | no event scan before the initial one, no notified change missed, shutdown ends |
| PnP listener (`pnp_windows.go`) | `queue` (256), `done`, `stopOnce`, `wg`, registration handles | `Start`, the callback, the drain goroutine, `Registered`, `Stop` | full queue, two callers of `Stop`, callbacks after `Stop` | see the daemon; `Stop` returns |
| IPC (`ipc*.go`) | one pipe instance, `pipeSlot` | `StartIPCServer`, `serveOnePipe`, `CallIPC` | the window between two instances; clients that die; a handle closed by two goroutines | a client that got through is answered, no command hangs, the server comes back, it reads and writes no closed handle |
| Process life cycle (`singleton*.go`, `privilege*.go`, `main.go`) | a named mutex | `AcquireSingleton`, `EnsureElevated`, `runCheck`, `runOneShotCheck`, `runDaemon` | two processes, elevation by relaunch, a check that finds no daemon, kills, the 60 s of Shutdown | one process operates on devices; a cancelled daemon ends |
| rec_delay (`config.go`, `recovery.go`) | `firstSeen`, `processStart`, uptime, the validated entry | `UnmarshalJSON`, `Validate`, `recDelayAllows`, `noteFirstSeen` | three clocks, a bypass for one of them, omitted and zero fields; nothing wakes the daemon when the delay ends | never early, a gate that opened stays open, open in the end |
| Ready wait (`ready_windows.go`, `uptime_windows.go`) | none | `WaitForSystemReady`, `systemUptime` | zero means the default, the clock may be missing | the initial scan is neither early nor put off forever |
| Status (`DeviceStatuses`, `Snapshot`) | none | reads devices, then sessions | rows join states of different moments | a row is a state the device was in |
| Logger (`logger.go`) | `file`, `size` | `NewLogger`, `writeLine`, `rotateIfNeededLocked`, `Close` | every call of a rotation may fail; loggers of two processes share a file | a lone logger keeps the cap and its lines; the file stays bounded |
| The rest of the configuration, matcher, CLI, paths, stubs | none after start-up | pure | – | covered by their unit tests |

The hazards of this code, each at its line, are in `PROJECT.json` with the
properties that cover them, or a note saying why none does.

## 2. The plan

Modules, in order of importance; all of them are written.

1. `Devices` – devices and the Windows calls, used by the recovery manager.
2. `RecoveryManager` – the manager, with its abstract specification
   `DeviceRecovery`.
3. `RecoveryManagerProofs` – inductive invariant and safety theorems – and
   `DeviceRecoveryProofs` – the manager implements `DeviceRecovery`.
4. `Daemon` – start-up, listener, coalescer, shutdown – and `DaemonProofs`.
5. `Processes` – daemons, commands, mutex and pipe, composed – with its abstract
   specification `SingleOperator`; `ProcessesProofs` (mutex and handles),
   `PipeProofs` (requests and answers) and `SingleOperatorProofs` (the refinement).
6. `RecDelay` – the configuration of delays, the ready wait and the gate, the
   detail behind `delayOver` in `RecoveryManager` – and `RecDelayProofs`.
7. `Logger` – rotation, failing calls, two loggers on one file – and
   `LoggerProofs`.

What a careful team would add next: `Daemon` composed with one device's sessions,
so that the event of `lost_event` (section 5) is followed from the callback on.

How they fit together: `MC*` modules instantiate a specification for TLC;
`RecoveryManager` extends `Devices` and instantiates `DeviceRecovery`, `Processes`
instantiates `SingleOperator`. `Daemon`
stops where a scan begins and `RecoveryManager` begins there. `Processes` stops
where a process has workers (one bit); that a worker started after the cancel
does nothing is `RecoveryManager`'s `QuietAfterWait`, a theorem. `RecoveryManager`
takes from `RecDelay` that a gate which opened stays open (`GateStaysOpen`).

## 3. What the modules say

### Devices

A device is its instance ID. `present` and `code` are what Windows knows of it;
`DN_HAS_PROBLEM` is kept together with the problem code, because `IsHealthy`
needs both to be clear and CfgMgr sets both. `DeviceInfo` is a snapshot
`[id, code]`. Reads return sets of possible results: with `ReadsMayFail` a status
query reports 0 (`device_windows.go:116` ignores the failure) and an
enumeration may return its error. `DisableDevice` and `EnableDevice` change the
node, or change nothing: if `OpsMayFail`, or if the device is gone. `Enable` of a
disabled node restarts the driver, which may come back healthy or with any
fault. The `Host` actions are what drivers, users and cables do (`HostActs` says
which of them happen to which device); they are the environment and have no
fairness.

Left out: DEVINST numbers (a device that comes back is the same device; a
DEVINST reused for another device is not modelled), devices without an instance
ID (their session key is `cfg:<index>:<name>`), and the case of instance IDs.

### RecoveryManager

Scanners are goroutines inside `Scan`: timer callbacks, the start-up scan, and
checks (`Checker`). Workers are the goroutines of `HandleDeviceProblem`. A step
is what a goroutine does between two points where another can see or change what
it works on: one critical section, one device call, one end of a wait.

| Go | TLA+ |
|---|---|
| `deviceSession.state`, `running`, `attempts` | `state`, `running`, `attempts`, by device; a session that does not exist yet is an Idle one with 0 attempts |
| the loops of `Scan` | `todo`, the unhealthy matches still to handle, entry by entry, devices of an entry in any order |
| `ClearExhausted` under `rm.mu` | `ClearExhausted(s, d)`, one session at a time while `MuFree` keeps others from `rm.mu` |
| `HandleDeviceProblem` up to `rm.mu.Unlock()` | `Accepts`, or `Skips` for the filter, the delay, or `stopping` |
| the critical section of `sess.mu` | `Claims`, or `Coalesces` |
| `wg.Add(1); go func()` | `Spawns` |
| the loop of `runSession` | `LoopHead`, `CountsAttempt`, `Exhausts`, `Looks`, `Relooks`, `Disables`, `GapEnds`, `ChecksDisabled`, `Enables`, `PostChecks`, `RetryWaitEnds`, `Settles` |
| the two deferred functions | `Releases`, then `Done` |
| `Shutdown` | `StopNewWork`, `CancelsContext`, `WaitReturns` or `WaitTimesOut`; `Cancelled` is the signal goroutine |

`refreshDevice` is `Refreshed`, the fallback to the name and to the stale
snapshot included. `sleepOrDone` chooses freely when both channels are ready.
`EnumerateDevices` is one step although it asks device after device. The name,
`maxRetries` and filter of a device come from the first entry that matches it
(`FindMatcher`), whichever entry the scan found it by. `delayOver` is the set of
devices whose rec_delay has run out: it only grows, as the code's clocks do.
The process keeps running after `Shutdown` in the model; the exit of the real
one cuts its behaviours short and adds none.

### DeviceRecovery

What the manager promises for a device: Idle, Recovering, Exhausted; at most
`MaxRetries` attempts from the first one on; given up only after all of them;
Exhausted until a check. `RecoveryManager!Promise` maps to it: `cycles` is the
attempt number of the worker that owns the session (`CyclesBegun`), and the
step that finds `attempt > maxR` maps to a stutter.

### Daemon

`Change` is any change of any device, numbered; Windows calls the listener for it
when it is registered (`notices`), the callback enqueues or drops (`Notifies`).
A scan is its `Enumerate` call, which sees every change so far (`scanned`).
`OnPnPEvent` is two steps, because the code reads the phase and acts on it in two
critical sections. `tpc` holds the timer callbacks, which run beside each other:
`Trigger` stops only a timer that has not fired. `RegisterWaitEnds` may come
before the registration (the deadline). `Start` and `Shutdown` both call `Stop`.
An `Enumerate` may fail, which ends the scan; `scanned` is the last change some
scan has looked for, whether it found the list or not. `deferredTo` and `owed` are
history variables of the properties, as is `scanned`. `OwedIsUnderWay` says where the
event of a change that is owed a scan may be: with the callback, in the queue, with
the drain goroutine (`WithDrain`) or with a timer (`WithTimer`).
Not in this module: what a scan does with its list, the wait for workers, IPC.

### Processes

A process is a slot in which a daemon, a `check` or a `status` may run, end, be
killed, and run again. `pc` is its place in `main`: `call`, `write`, `read` are
`CallIPC`; `config`, `elevate`, `acquire`, `refused` the way to the mutex;
`listen`, `serve`, `scan`, `wait`, `release`, `exit` the owner's part.

| Go, Windows | TLA+ |
|---|---|
| the named mutex | `mutex`, the processes with an open handle: a loser has one until it exits, and the name is free when nobody has |
| `CallIPC` | `Connects`, `FindsNoPipe`, `FindsBusy` (with `tries`), `IsRefused`, `WritesRequest`, `ReadsAnswer` |
| `EnsureElevated` | `IsElevated`, `Relaunches`, `IsDenied`; the relaunched process goes on in its parent's slot, from the command line on |
| `serveOnePipe` | `spc`: `create`, `take`, `connect`, `unslot`, `checkctx`, `read`, `handle`, `write`; `sleep` after an error |
| the pipe instance | `pipe` of its daemon, `conn` of its client, `req` and `answered` for what is in it |
| `pipeSlot` and the goroutine that closes it | `slot`, `CancelCloses`, `swept` |
| recovery workers | `working`, one bit for a process |

Closing a pipe and the end of a process take the connection from the other side.
What a Windows handle number means after it is closed is not modelled: that the
server never reads or writes one after its close is a property (`HandleIsOwned`).
Its own `CloseHandle` after a cancel (`ipc_windows.go:98`) may be the second one for
that number: `ChecksContext` closes the pipe whether the cancel goroutine has done so
or not, and no property says otherwise. `check` in
the gap between two instances goes on as a one-shot check, as in the code.
Two things that follow from the code and are modelled as they are: elevation comes
before the mutex (the README's table, line 692, has them the other way round),
and an unelevated client may be refused by an elevated daemon's pipe.

### SingleOperator

What the singleton promises about the processes of a machine: at most one
`operator`, which alone begins work and only until it is told to stop; it hands
over when it has no work, or before that if it has been told to stop, and takes the
part again only after its exit. `Processes!Singleton` maps to it: the operator is the
process between `Acquires` and `Releases` (`Owner`; a loser's handle counts for
nothing), `working` is `working`, and those told to stop are the daemons whose
context is cancelled. A one-shot check is never told to stop, so it waits for its
workers; that `Shutdown` waits 60 s only is `HandsOver` of a stopping one.

### RecDelay

`file` is what `config.json` says of `rec_delay` and of the numbers in `advanced`
that govern scans; `Starts` is `LoadConfig`, and `Validates`, `Normalised` and
`Resolved` what it makes of them. A word is a clock or not, and spelled exactly or
not: `Validate` accepts any spelling and writes the exact one into the entry,
which is the only one `recDelayAllows` knows. `up`, `age`, `seen`, `waited` and
`pollIn` are clocks that `Tick` moves together; they stop at `Far`, beyond every
number in a valid file. A device that goes away keeps its `firstSeen`. A check notes devices
but does not ask the gate. `started` records the clocks at a device's first
automatic recovery, and the properties compare that with the file as the README
reads it (`AskedClock`, `AskedOver`).

The README says that `ready_poll_ms` and `log_max_bytes` must be positive;
`Validate` accepts zero as well, and `WaitForSystemReady` and `SetMaxBytes` read
it as the default. That is how they are modelled.

### Logger

The file is a sequence of cells, each with its writer or a `Hole`; a line is its
length. A `writeLine` is one step for each system call in it: `StartsLine` with
the comparison, `Closes`, `Truncates` or `TruncateFails`, `WritesHeader`,
`WritesLine`; each call may fail, and a write may be short. Processes log to the
file before one of them finds the mutex taken. `NewLogger` opens with `O_APPEND`;
the rotation opens without it, so `handle` tells the two apart and `pos` is the
file pointer. Two consequences of the code that are modelled as they are: a
logger whose `Close` or reopening failed writes nothing to its file any more
(`closed`, `nil`), and a rotated logger writes over the lines of another process.


## 4. The runs

| Run | Question and instance | Result |
|---|---|---|
| `one_device` | One device behind a Code 43 filter and a rec_delay, 2 attempts, an event scan and a check at once, 2 workers, calls that fail, a device that breaks and heals by itself, shutdown at any time, with or without its timeout. Types, the session discipline, the two inductive invariants, and the refinement of `DeviceRecovery`. | holds, 305 k states |
| `two_devices` | Two devices of different names, overlapping entries (a regex for both, an exact one for one), one device unplugged and plugged, 2 workers. No two sessions operate on one device, and each device keeps the session discipline. | holds, 1.28 M states |
| `recovery_live` | One device that breaks at any time and that the user disables and enables, one attempt, one worker, event scan and check: sessions, scans and Shutdown end. | holds, 67 k states |
| `daemon` | 3 changes, a queue of 1, 2 timer callbacks, failing enumerations: no event scan before the initial one, the event of a notified change is always with somebody, notified changes are looked for, `Stop` returns. | holds, 96 k states |
| `processes` | 2 slots, each a daemon or a check, one of them a status as well, 2 tries: the refinement of `SingleOperator`, one process operates, handles are owned, requests and answers belong together, clients are answered, commands and daemons end. | holds, 48 k states |
| `rec_delay` | One device, 60 files (every form of rec_delay, with and without bypass; every combination of ready settings), with and without the uptime clock, restarts, checks, and a device that comes, goes, fails and heals. | holds, 170 k states |
| `logger` | 2 processes, a limit of 3, lines of 1 and 3 (a line as long as the limit), a header of 1. | holds, 105 k states |
| `disable_is_temporary`, `filter_before_disable`, `same_name`, `startup_pending`, `lost_event` | one statement of the docs or comments each, section 5 | violated |

Bounds, and why they are enough. Sessions of different devices share only `rm.mu`,
`stopping` and `wg`, so one device shows the session discipline and two show
their independence. Two scanners suffice for a race for a claim and for a check
against a scan; two workers for a session that begins while an older goroutine
is between `Releases` and `Done`. `maxRetries` of 2 has a first, a last and an
exceeding attempt. A queue of 1 fills with one event; three changes let one be
queued, one dropped and one be late. Two timer callbacks let a new one run
beside an old one. Two processes show every race for the mutex and for a pipe: a
client and a server, a winner and a loser, a process that ends and its successor.
(Three, without the liveness properties, gave 1.2 M states and no violation.) Two
tries have a first and a last. In `rec_delay` the delays are 0 to 3, the defaults 1 to 4, and
`Far` 5 is past all of them, so that every order of delay, bypass and ready wait
occurs. In `logger` a line takes the file below, to or beyond the limit; with three
processes the first 7 M states showed no violation. The theorems below do not
depend on any of these bounds. Symmetry is used in safety runs, on workers and on
the processes of `logger`, and with `ImplementsDeviceRecovery`, `OnlyCheckClears`
and `LoneKeepsLines` only because the abstract specification and the actions do
not tell them apart. `CHECK_DEADLOCK FALSE`:
the system may stop after shutdown, and with nothing to do; `MCLogger.cfg` does
without it.

Fairness. `FairSpec` of `RecoveryManager`: weak fairness for each worker and for
the two last steps of Shutdown – goroutines are scheduled, calls return and timers
fire; strong fairness for a scanner and for `StopNewWork`, which need `rm.mu`:
Go's mutex hands itself over to a waiter after 1 ms, so nobody starves. `Shutdown`
is owed only once the context is cancelled. Nothing makes a scan begin or a
device change. `FairSpec` of `Daemon`: weak fairness for each goroutine, timer and
callback; strong fairness for `DrainEnds`, since Go's `select` picks at random and
does not pass over a closed channel forever. Device changes and signals are not
fair. `NotifiedChangesAreScanned` says that a scan looks for the change: an
enumeration that fails is not retried by the code.

`FairSpec` of `Processes`: weak fairness for the main goroutine, the server
goroutine, the cancel goroutine and the end of recoveries (`SessionsEnd`), which
includes that the user answers the UAC prompt one way or the other; strong
fairness for `CreatesPipe`: CreateNamedPipe does not fail forever. Nobody need
start, stop or kill a process. `FairSpec` of `RecDelay`: time goes on, and the
main goroutine runs; beyond that `DelayEnds` needs `EventsKeepComing`, strong
fairness of `EventScan`, which the code does not provide: nothing in the daemon
makes a scan when a delay has passed. The assumption is on the world, and named.
`Logger` has no liveness.

Each property of a passing run has a mutant in `PROJECT.json`: a definition
named after its bug (`MayClaimTwice`, `ReleasesRunning`, `TriggersWhenIdle`, …)
that, put in place of the original, makes TLC find the property violated.

## 5. Where code and documentation disagree

* `disable_is_temporary`. "Disable / Enable temporarily interrupts the device"
  (`README.md:423`). A shutdown in the gap leaves the device disabled
  (`recovery.go:456-459`).
* `filter_before_disable`. "Recover only when the device's current ProblemCode is
  in the set" (`README.md:565`). The refresh on which Disable acts
  (`recovery.go:438`) is not filtered.
* `same_name`. "Same device never runs concurrent recoveries" (`recovery.go:41`)
  holds for session keys; through the fallback to the friendly name
  (`recovery.go:369`) two sessions can operate on one device.
* `startup_pending`. "startup PnP events were pending; covered by initial scan"
  (`daemon.go:149`). An event between that scan's enumeration and
  `SetPhase(NORMAL_RUNNING)` is covered by no scan.
* `lost_event`. "This tool listens for configured targets […] and, when a device is
  unhealthy, performs a controlled soft reset" (`README.md:416`). A device that
  fails again after its session's post-check, and whose scan finds the session
  still running (`recovery.go:336`), is skipped; the session then ends as a
  success and nobody looks at the device. The run's only scanner is the scan of
  that event, so no other one comes to the rescue; the trace ends in stuttering.

Smaller divergences, modelled as the code has them and not runs of their own: the
order of mutex and elevation and the zeros in `advanced` (section 3);
`listener_registered` is sampled once at start-up and stays false for a late
registration; a session that gives up just after a check's clearing makes that
check skip the device; and with two processes logging, the README's cap rule
(line 712) is about each logger's own count, not the size of the file.

## 6. What is proved

For any sets of devices and scanners, any finite set of workers, any entries and
any combination of failures; for any numbers of changes, timers, processes and
tries; for any files, delays and defaults; for any limit and any lengths of lines:

| Module | Theorem | Statement |
|---|---|---|
| `RecoveryManagerProofs` | `Inductive` | `Spec => []IInv` |
| `RecoveryManagerProofs` | `TypeCorrect` | `Spec => []TypeOK` |
| `RecoveryManagerProofs` | `SessionsAreSerial` | `Spec => []SerialRecovery` |
| `RecoveryManagerProofs` | `NoSessionIsStuck` | `Spec => []NoStuckSession` |
| `RecoveryManagerProofs` | `CounterStaysPrivate` | `Spec => []CounterIsPrivate` |
| `RecoveryManagerProofs` | `ShutdownIsQuiet` | `Spec => []QuietAfterWait` |
| `RecoveryManagerProofs` | `ExhaustedIsSticky` | `Spec => OnlyCheckClears` |
| `DeviceRecoveryProofs` | `CountersStartFresh` | `Spec => []RInv` |
| `DeviceRecoveryProofs` | `Implements` | `Spec => ImplementsDeviceRecovery` |
| `RecoveryManagerProofs` | `OperationsAreSerial` | `NamesAreUnique => (Spec => []NoConcurrentOperations)` |
| `DaemonProofs` | `QueueKeepsCapacity` | `Spec => []TypeOK` |
| `DaemonProofs` | `StartupComesFirst` | `Spec => []EventScansFollowStartup` |
| `DaemonProofs` | `OwedStaysUnderWay` | `Spec => []OwedIsUnderWay` |
| `ProcessesProofs` | `TypesAreKept` | `Spec => []TypeOK` |
| `ProcessesProofs` | `MutexKeepsOneOperating` | `Spec => []OneProcessOperates` |
| `ProcessesProofs` | `HandlesStayOwned` | `Spec => []HandleIsOwned` |
| `SingleOperatorProofs` | `Implements` | `Spec => ImplementsSingleOperator` |
| `PipeProofs` | `RequestsStayMatched` | `Spec => []RequestsMatch` |
| `PipeProofs` | `AcceptedAreAnswered` | `Spec => AcceptedIsAnswered` |
| `RecDelayProofs` | `TypesAreKept` | `Spec => []TypeOK` |
| `RecDelayProofs` | `DelaysAreKept` | `Spec => []NeverEarly` |
| `RecDelayProofs` | `ScansWaitForTheSystem` | `Spec => []ScansWhenReady` |
| `RecDelayProofs` | `TheWaitIsBounded` | `Spec => []ReadyWaitIsBounded` |
| `RecDelayProofs` | `OpenGatesStayOpen` | `Spec => GateStaysOpen` |
| `LoggerProofs` | `LoneLoggerObeysCap` | `Spec => []LoneObeysCap` |
| `LoggerProofs` | `LoneLoggerCounts` | `Spec => []LoneCountIsTrue` |
| `LoggerProofs` | `LoneLoggerKeepsLines` | `Spec => LoneKeepsLines` |
| `LoggerProofs` | `FileOutgrowsNoBound` | `Spec => []FileStaysBounded` |
| `LoggerProofs` | `LogTypesAreKept` | `Spec => []TypeOK` |

Assumptions: `FaultAssumption` (0 and 22 are not faults, as in CfgMgr),
`WorkerAssumption` (finitely many goroutines at a time) and, in `DeviceRecoveryProofs`,
`EntryAssumption` (`max_retries` is positive, which `Validate` sees to) and
`ScannerAssumption`; and `BoundAssumption`, `ProcessAssumption`, `RecDelayAssumption`
and `LoggerAssumption` in `Daemon`, `Processes`, `RecDelay` and `Logger`, which say
that sizes are natural numbers, that the defaults are positive, that a file is of
the shape its decoding gives, and that placeholders are not members. The bound on the
log file and its types need `BoundsAssumption`: finitely many processes, and a
longest line. `LoadedAssumption` says that the placeholder of a file that is not
loaded is not a configuration. TLC evaluates all of them in the runs.

The argument. None of the properties is inductive alone. `SerialRecovery` needs
that a claim sees `running` whenever somebody owns the session, so `IInv` says
`running[d] <=> Owned(d)`; the release of a session needs that its owner is the
only one. `CounterIsPrivate` needs that a check's clearing step, which resets
Exhausted sessions only, cannot meet a session that is under way, so `IInv` says
that the owner, from claim to outcome, sees the state Recovering. That `wg` never
goes below 0 needs `wg = Cardinality(Live)`: the finite-set theorems carry the
count through `Spawns` and `Done`. `QuietAfterWait` needs the same count – Wait
returns when no worker exists – and that the context was cancelled before, so
that a worker spawned late by a scan leaves at its first look at it. Each part has
a lemma for its preservation, one step per action; steps that move no owner are
covered once by `OwnershipFrame`. TLC checks `IInv` as an invariant of
`one_device`.

The refinement. `IInv` does not say where a session's count starts, so `RInv`
adds: while the context is alive the counter of a device without a session is 0,
and a worker counts on from its own last attempt; an attempt that goes on to
Disable is at most `max_retries`, the one that gives up is one more. A cancelled
session may leave its counter behind; no later session uses it, because a
worker that starts after the cancel leaves before it counts. `RInv` is inductive
together with `IInv`. A step then changes what `DeviceRecovery` sees of at most
one device, by one of five ways (`Seen`), each an action there: `Claims` begins,
`CountsAttempt` attempts, `Exhausts` gives up, `Settles` and a `Releases` from
Recovering finish, `ClearExhausted` clears; `OneDeviceAllowed` turns that into a
step of the abstract specification. What begins or ends a check's clearing is
`CheckAllowed`, and the rest, `Spawns` and the count beyond `max_retries` among
it, are stutters (`StutterAllowed`). A device that matches no entry is not seen at
all.

`OperationsAreSerial` adds `KeepsItsDevice`: when no two devices share a name, the
fallback of `refreshDevice` finds the session's own device or none, so a worker
operates on the device its session is for, and `SerialRecovery` does the rest. The
assumption is needed: `same_name` is the run without it.

`StartupComesFirst` needs that the phase, and the phase the drain goroutine has
read, are not NORMAL_RUNNING before the last step of start-up
(`NormalComesLast`): an event judged by an older phase may set the flag late but
can never arm the timer early.

`OwedStaysUnderWay` needs the other end of the same sequence (`Helpers`): a change is
owed from NORMAL_RUNNING on only, and the phase never goes back (`OwedInNormal`), so
an event that is judged from then on is judged by that phase; the drain goroutine
exists before anything is registered (`DrainComesFirst`); and nothing is taken down
before the cancel (`StopsWhenCancelled`). A full queue then is an event under way
for the change whose event is dropped, and a `Trigger` that replaces a timer leaves
another one armed.

`MutexKeepsOneOperating`. `MutexInv` says that a process beyond `acquire` has the
mutex (`OwnerHolds`), that it is the only such process (`OneOwner`: a loser has a
handle too, so holding one is not owning), that workers belong to the owner or to
a daemon that has timed out (`WorkersOfOwner`), and that only a daemon that
serves handles requests (`DaemonServes`), since `Handles` is what gives a process
workers besides its own scans.

`HandlesStayOwned` needs two facts about the steps between ConnectNamedPipe's return
and the first read: until the cancel the instance is still connected
(`ConnectedUntilCancel`), and when the server looks at the context the slot is
empty already (`SlotIsEmpty`). So a server that finds the context alive has a handle
that nobody has closed, and a cancel that comes later finds nothing to close.

`RequestsStayMatched` rests on `PipeInv`, which is about both ends of the pipe: a
client with a connection is in one of `CallIPC`'s two blocking calls and its
instance is connected (`PeerIsConnected`), an instance has one client (`OnePeer`),
a server between two instances has no pipe and no request (`NothingIsLeft`), and
one that listens has not got beyond ConnectNamedPipe (`ListensAfresh`). The
invariant of the mutex is part of it, since a server without a serving daemon
would be cut off by its exit. `AcceptedAreAnswered` follows step by step: only
`WritesAnswer` closes a pipe under a client that waits for a server with a live
context, and it answers first; the failing calls close a pipe that has no client.

`SingleOperatorProofs!Implements`. `OperatorInv` adds to `MutexInv` that only a
process from `serve` to `exit` is cancelled (`CancelledServed`), so nobody who takes
the mutex has been told to stop. Exits map to `IsGone`, `Acquires` to `TakesOver`, `Releases` to `HandsOver`,
`Cancelled` to `IsToldToStop`, `FindsWork`, `Scans` and a check that `Handles` takes
through the pipe to `BeginsWork`: the last is where `DaemonServes` is needed, since
a server outlives its daemon's part as the operator and may handle a check when
the mutex is gone; by then the context is cancelled, and no work begins. All else is
a stutter (`QuietIsAllowed`).

`DelaysAreKept`, `ScansWaitForTheSystem` and `TheWaitIsBounded` rest on
`DelayInv`: a daemon that runs has exactly what `Resolved` makes of a file that
`Validate` accepts (`CfgInUse`), and the next poll is due before the longest wait
and a poll are over (`PollInTime`, which is what makes the bound inductive).
`EntryInUse` and `ReadySettings` turn that configuration into what the README says
of the file, case by case of its shape; `OpenMeansOver` then compares the gate with
`AskedOver` clock by clock. `OpenGatesStayOpen` needs in addition that every clock
only goes on while the daemon lives (`ClocksGoOn`). `TypesAreKept` adds that a
process which is off has no configuration and that the clocks noted at a first
recovery are within their range (`TypeInv`).

`LoneLoggerObeysCap` and `LoneLoggerCounts` hold together: the count decides about
the rotation, so the cap rests on the count, and the count of a rotated logger
rests on its file pointer being at the end (`PlainAtEnd`), which rests on nobody
else having the file open (`AloneIsAlone`). `WrittenAtEnd` is the lemma about what a
write at the end makes of the file. `LoneLoggerKeepsLines` uses the same facts: an
append, or a plain write at the end, keeps what is there (`LoneWriteIsLonger`).

`FileOutgrowsNoBound` is a counting argument. A rotated logger writes where its own
pointer is, into or beyond what others have written, and a truncation by one leaves
the counts of the others as they are, so no bound on the length is
inductive. `Spare` is the set of cells that the running loggers may
still write before they rotate, for each what its count leaves of a full file.
The length of the file and the number of these cells together never exceed
one full file for each process (`RoomIsLeft`). A step keeps that in one of two ways
(`RoomStep`). An append lengthens the file by what it takes from `Spare`. After a
truncation, a write beyond the end and an open, the file and what this logger may still
write make up one full file at most, and the others have a full file each at most
(`OthersAreBounded`).

Only model-checked: liveness, which is out of the prover's reach (`SessionsEnd`,
`ScansEnd`, `ShutdownCompletes`, `NotifiedChangesAreScanned`, `ShutdownEnds`,
`CommandsEnd`, `ServerComesBack`, `DaemonEnds`, `DelayEnds`). `OwedStaysUnderWay`
is the safety half of `NotifiedChangesAreScanned`. Every invariant and every action
property that a passing run checks is a theorem.

## 7. Not modelled

* The status report: `DeviceStatuses` and `Snapshot` read the devices and then the
  sessions and print the join. They change nothing, and no doc says how the rows
  of a moment fit together. The listener flag is a label in it.
* The rest of the configuration's decoding, regular expressions, printing and
  paths: sequential code without state, covered by the unit tests; what `Validate`
  guarantees of an entry is the assumption on `Entry`. `help` and unknown words
  print and exit.
* Failures that cannot happen: `BuildMatchers` after `Validate` has compiled the
  same patterns, and `NewPnPListener` on Windows.
* Seconds so large that `time.Duration` overflows; changes of `config.json`
  between two starts; somebody deleting the log file; a log that is disabled.
* JSON and the 64 KiB limit of a message; a client that is not this program.
* DEVINST numbers and devices without an instance ID (section 3).
* The non-Windows stubs, which return constants.
