------------------------------- MODULE Daemon -------------------------------
(***************************************************************************)
(* daemon.go, the start-up and shutdown of runDaemon, and the PnP listener *)
(* of pnp_windows.go: how a change of some device becomes a scan.          *)
(*                                                                         *)
(*   callback -> queue -> drain goroutine -> OnPnPEvent -> coalescer       *)
(*            -> timer callback -> onDebounced -> Scan                     *)
(*                                                                         *)
(* A device change is its number: the n-th one since the process started.  *)
(* A scan is reduced to its Enumerate call, the moment at which it sees    *)
(* every change made so far; what it does with the list is the subject of  *)
(* RecoveryManager.                                                        *)
(***************************************************************************)
EXTENDS Naturals, Sequences

CONSTANTS
    MaxChange,          \* bound: device changes in a behaviour
    QueueCap,           \* capacity of the listener's event queue
    Timer               \* timer callbacks that may run at the same time

ASSUME BoundAssumption == /\ MaxChange \in Nat
                          /\ QueueCap \in Nat \ {0}

VARIABLES
    changes,            \* number of device changes so far
    notices,            \* changes Windows has still to call the listener for
    registered,         \* Windows calls the listener for new changes
    queue,              \* l.queue
    lpc,                \* where the listener's Start is
    stop,               \* l.stopOnce: "no", "running", "done"
    done,               \* l.done is closed
    dpc,                \* where the drain goroutine is
    ev,                 \* the event the drain goroutine has taken
    sawPhase,           \* the phase OnPnPEvent read for it
    phase,              \* d.phase
    listenerRegistered, \* d.listenerRegistered
    pending,            \* d.pendingStartupPnP
    armed,              \* the coalescer's timer is running
    tpc,                \* [Timer -> where a timer callback is]
    mpc,                \* where main is in runDaemon
    ctxDone,            \* d.ctx is cancelled
    scanned,            \* history: the last change some scan has looked for
    deferredTo,         \* history: the last change left to the initial scan
    owed                \* history: the last change made and notified in NORMAL_RUNNING

listenerVars == <<registered, lpc, stop, done>>
drainVars    == <<dpc, ev, sawPhase>>
phaseVars    == <<phase, listenerRegistered, pending>>
timerVars    == <<armed, tpc>>
historyVars  == <<scanned, deferredTo, owed>>
vars == <<changes, notices, queue, listenerVars, drainVars, phaseVars, timerVars, mpc, ctxDone,
          historyVars>>

PhaseStarting           == "STARTING"
PhaseWaitForSystemReady == "WAIT_FOR_SYSTEM_READY"
PhaseNormalRunning      == "NORMAL_RUNNING"

Later(a, b) == IF a > b THEN a ELSE b

(***************************************************************************)
(* Devices and Windows                                                     *)
(***************************************************************************)

\* A device arrives, leaves or changes its state.
Change ==
    /\ changes < MaxChange
    /\ changes' = changes + 1
    /\ notices' = IF registered THEN Append(notices, changes + 1) ELSE notices
    /\ owed' = IF registered /\ phase = PhaseNormalRunning THEN changes + 1 ELSE owed
    /\ UNCHANGED <<queue, listenerVars, drainVars, phaseVars, timerVars, mpc, ctxDone, scanned,
                   deferredTo>>

\* Mutant: the callback blocks nowhere and the queue has no capacity.
NotifiesUnbounded ==
    /\ notices # <<>>
    /\ notices' = Tail(notices)
    /\ queue' = Append(queue, Head(notices))
    /\ UNCHANGED <<changes, listenerVars, drainVars, phaseVars, timerVars, mpc, ctxDone,
                   historyVars>>

\* The callback enqueues, or drops the event when the queue is full.
Notifies ==
    /\ notices # <<>>
    /\ notices' = Tail(notices)
    /\ queue' = IF Len(queue) < QueueCap THEN Append(queue, Head(notices)) ELSE queue
    /\ UNCHANGED <<changes, listenerVars, drainVars, phaseVars, timerVars, mpc, ctxDone,
                   historyVars>>

(***************************************************************************)
(* The listener                                                            *)
(***************************************************************************)

\* Start: the drain goroutine exists before anything is registered.
ListenerStarts ==
    /\ lpc = "start"
    /\ lpc' = "register"
    /\ dpc' = "select"
    /\ UNCHANGED <<changes, notices, queue, registered, stop, done, ev, sawPhase, phaseVars,
                   timerVars, mpc, ctxDone, historyVars>>

\* CM_Register_Notification, or else the hidden window, is in place.
ListenerRegisters ==
    /\ lpc = "register"
    /\ lpc' = "listen"
    /\ registered' = TRUE
    /\ UNCHANGED <<changes, notices, queue, stop, done, drainVars, phaseVars, timerVars, mpc,
                   ctxDone, historyVars>>

\* Neither works: Start returns an error and the signal goroutine cancels.
ListenerFails ==
    /\ lpc = "register"
    /\ lpc' = "returned"
    /\ ctxDone' = TRUE
    /\ UNCHANGED <<changes, notices, queue, registered, stop, done, drainVars, phaseVars,
                   timerVars, mpc, historyVars>>

\* Start sees the cancelled context and calls Stop; main calls Stop as well.
WantsStop == \/ lpc = "listen" /\ ctxDone
             \/ mpc = "stoplistener"

\* Mutant: Stop unregisters and leaves l.done open.
StopsUnclosed ==
    /\ WantsStop
    /\ stop = "no"
    /\ stop' = "running"
    /\ registered' = FALSE
    /\ UNCHANGED <<changes, notices, queue, lpc, done, drainVars, phaseVars, timerVars, mpc,
                   ctxDone, historyVars>>

\* The first caller closes l.done and unregisters; callbacks already under way
\* are let finish by Windows.
StopBegins ==
    /\ WantsStop
    /\ stop = "no"
    /\ stop' = "running"
    /\ done' = TRUE
    /\ registered' = FALSE
    /\ UNCHANGED <<changes, notices, queue, lpc, drainVars, phaseVars, timerVars, mpc, ctxDone,
                   historyVars>>

\* l.wg.Wait() has returned: the drain goroutine ended, or never began.
StopEnds ==
    /\ stop = "running"
    /\ dpc \in {"none", "ended"}
    /\ stop' = "done"
    /\ UNCHANGED <<changes, notices, queue, registered, lpc, done, drainVars, phaseVars, timerVars,
                   mpc, ctxDone, historyVars>>

ListenerReturns ==
    /\ lpc = "listen"
    /\ ctxDone
    /\ stop = "done"
    /\ lpc' = "returned"
    /\ UNCHANGED <<changes, notices, queue, registered, stop, done, drainVars, phaseVars,
                   timerVars, mpc, ctxDone, historyVars>>

(***************************************************************************)
(* The drain goroutine and OnPnPEvent                                      *)
(***************************************************************************)

\* The select may take an event although l.done is closed as well.
TakesEvent ==
    /\ dpc = "select"
    /\ queue # <<>>
    /\ dpc' = "readphase"
    /\ ev' = Head(queue)
    /\ queue' = Tail(queue)
    /\ UNCHANGED <<changes, notices, listenerVars, sawPhase, phaseVars, timerVars, mpc, ctxDone,
                   historyVars>>

DrainEnds ==
    /\ dpc = "select"
    /\ done
    /\ dpc' = "ended"
    /\ UNCHANGED <<changes, notices, queue, listenerVars, ev, sawPhase, phaseVars, timerVars, mpc,
                   ctxDone, historyVars>>

ReadsPhase ==
    /\ dpc = "readphase"
    /\ sawPhase' = phase
    /\ dpc' = "act"
    /\ UNCHANGED <<changes, notices, queue, listenerVars, ev, phaseVars, timerVars, mpc, ctxDone,
                   historyVars>>

\* A critical section of its own: the phase may have moved on since it was read.
SetsPending ==
    /\ dpc = "act"
    /\ sawPhase # PhaseNormalRunning
    /\ pending' = TRUE
    /\ deferredTo' = Later(deferredTo, ev)
    /\ dpc' = "select"
    /\ ev' = 0
    /\ sawPhase' = PhaseStarting
    /\ UNCHANGED <<changes, notices, queue, listenerVars, phase, listenerRegistered, timerVars,
                   mpc, ctxDone, scanned, owed>>

\* Mutant: while a callback scans, a new event does not arm the timer again.
TriggersWhenIdle ==
    /\ dpc = "act"
    /\ sawPhase = PhaseNormalRunning
    /\ armed' = \A t \in Timer : tpc[t] = "free"
    /\ dpc' = "select"
    /\ ev' = 0
    /\ sawPhase' = PhaseStarting
    /\ UNCHANGED <<changes, notices, queue, listenerVars, phaseVars, tpc, mpc, ctxDone,
                   historyVars>>

\* eventCoalescer.Trigger: the old timer is stopped, if it has not fired yet,
\* and a new one armed.
Triggers ==
    /\ dpc = "act"
    /\ sawPhase = PhaseNormalRunning
    /\ armed' = TRUE
    /\ dpc' = "select"
    /\ ev' = 0
    /\ sawPhase' = PhaseStarting
    /\ UNCHANGED <<changes, notices, queue, listenerVars, phaseVars, tpc, mpc, ctxDone,
                   historyVars>>

(***************************************************************************)
(* The coalescer's timer and onDebounced                                   *)
(***************************************************************************)

\* The callback runs on a goroutine of its own, beside older ones that scan.
TimerFires(t) ==
    /\ armed
    /\ tpc[t] = "free"
    /\ armed' = FALSE
    /\ tpc' = [tpc EXCEPT ![t] = "fired"]
    /\ UNCHANGED <<changes, notices, queue, listenerVars, drainVars, phaseVars, mpc, ctxDone,
                   historyVars>>

\* onDebounced gives up when the context is cancelled or the phase is wrong.
Debounced(t) ==
    /\ tpc[t] = "fired"
    /\ tpc' = [tpc EXCEPT ![t] = IF ctxDone \/ phase # PhaseNormalRunning THEN "free" ELSE "scan"]
    /\ UNCHANGED <<changes, notices, queue, listenerVars, drainVars, phaseVars, armed, mpc,
                   ctxDone, historyVars>>

\* Scan's Enumerate looks for every change so far.  When it fails Scan returns
\* at once and is not repeated.
EventScan(t) ==
    /\ tpc[t] = "scan"
    /\ scanned' = changes
    /\ \/ tpc' = [tpc EXCEPT ![t] = "handle"]
       \/ tpc' = [tpc EXCEPT ![t] = "free"]
    /\ UNCHANGED <<changes, notices, queue, listenerVars, drainVars, phaseVars, armed, mpc,
                   ctxDone, deferredTo, owed>>

\* The rest of Scan works on the list it has read; then the callback returns.
EventScanReturns(t) ==
    /\ tpc[t] = "handle"
    /\ tpc' = [tpc EXCEPT ![t] = "free"]
    /\ UNCHANGED <<changes, notices, queue, listenerVars, drainVars, phaseVars, armed, mpc,
                   ctxDone, historyVars>>

(***************************************************************************)
(* main                                                                    *)
(***************************************************************************)

\* The wait for the listener ends: registered, or the deadline has passed.
RegisterWaitEnds ==
    /\ mpc = "register"
    /\ \/ registered
       \/ ~ctxDone
    /\ listenerRegistered' = registered
    /\ phase' = PhaseWaitForSystemReady
    /\ mpc' = "ready"
    /\ UNCHANGED <<changes, notices, queue, listenerVars, drainVars, pending, timerVars, ctxDone,
                   historyVars>>

\* Mutant: the phase is NORMAL_RUNNING before the initial scan is made.
ReadyMeansNormal ==
    /\ mpc = "ready"
    /\ mpc' = "scan"
    /\ phase' = PhaseNormalRunning
    /\ UNCHANGED <<changes, notices, queue, listenerVars, drainVars, listenerRegistered, pending,
                   timerVars, ctxDone, historyVars>>

\* WaitForSystemReady: the uptime is reached, or ready_max_wait has passed.
SystemIsReady ==
    /\ mpc = "ready"
    /\ mpc' = "scan"
    /\ UNCHANGED <<changes, notices, queue, listenerVars, drainVars, phaseVars, timerVars, ctxDone,
                   historyVars>>

\* Either wait is left early when the context is cancelled.
StartupCancelled ==
    /\ mpc \in {"register", "ready"}
    /\ ctxDone
    /\ mpc' = "stopcoalescer"
    /\ UNCHANGED <<changes, notices, queue, listenerVars, drainVars, phaseVars, timerVars, ctxDone,
                   historyVars>>

StartupScan ==
    /\ mpc = "scan"
    /\ scanned' = changes
    /\ mpc' = "clear"
    /\ UNCHANGED <<changes, notices, queue, listenerVars, drainVars, phaseVars, timerVars, ctxDone,
                   deferredTo, owed>>

ClearPendingStartup ==
    /\ mpc = "clear"
    /\ pending' = FALSE
    /\ mpc' = "normal"
    /\ UNCHANGED <<changes, notices, queue, listenerVars, drainVars, phase, listenerRegistered,
                   timerVars, ctxDone, historyVars>>

SetPhaseNormalRunning ==
    /\ mpc = "normal"
    /\ phase' = PhaseNormalRunning
    /\ mpc' = "serve"
    /\ UNCHANGED <<changes, notices, queue, listenerVars, drainVars, listenerRegistered, pending,
                   timerVars, ctxDone, historyVars>>

\* A signal cancels the context.
Signalled ==
    /\ ~ctxDone
    /\ ctxDone' = TRUE
    /\ UNCHANGED <<changes, notices, queue, listenerVars, drainVars, phaseVars, timerVars, mpc,
                   historyVars>>

ServingEnds ==
    /\ mpc = "serve"
    /\ ctxDone
    /\ mpc' = "stopcoalescer"
    /\ UNCHANGED <<changes, notices, queue, listenerVars, drainVars, phaseVars, timerVars, ctxDone,
                   historyVars>>

\* Shutdown: eventCoalescer.Stop, then StopNewWork and cancel.
StopsCoalescer ==
    /\ mpc = "stopcoalescer"
    /\ armed' = FALSE
    /\ mpc' = "stoplistener"
    /\ UNCHANGED <<changes, notices, queue, listenerVars, drainVars, phaseVars, tpc, ctxDone,
                   historyVars>>

\* listener.Stop returns; the wait for the workers is RecoveryManager's.
ShutdownReturns ==
    /\ mpc = "stoplistener"
    /\ stop = "done"
    /\ mpc' = "returned"
    /\ UNCHANGED <<changes, notices, queue, listenerVars, drainVars, phaseVars, timerVars, ctxDone,
                   historyVars>>

(***************************************************************************)
(* Specification                                                           *)
(***************************************************************************)

Init ==
    /\ changes = 0
    /\ notices = <<>>
    /\ registered = FALSE
    /\ queue = <<>>
    /\ lpc = "start"
    /\ stop = "no"
    /\ done = FALSE
    /\ dpc = "none"
    /\ ev = 0
    /\ sawPhase = PhaseStarting
    /\ phase = PhaseStarting
    /\ listenerRegistered = FALSE
    /\ pending = FALSE
    /\ armed = FALSE
    /\ tpc = [t \in Timer |-> "free"]
    /\ mpc = "register"
    /\ ctxDone = FALSE
    /\ scanned = 0
    /\ deferredTo = 0
    /\ owed = 0

ListenerStep == ListenerStarts \/ ListenerRegisters \/ ListenerFails \/ ListenerReturns
StopStep     == StopBegins \/ StopEnds
DrainStep    == TakesEvent \/ DrainEnds \/ ReadsPhase \/ SetsPending \/ Triggers
TimerStep(t) == TimerFires(t) \/ Debounced(t) \/ EventScan(t) \/ EventScanReturns(t)
MainStep     == \/ RegisterWaitEnds
                \/ SystemIsReady
                \/ StartupCancelled
                \/ StartupScan
                \/ ClearPendingStartup
                \/ SetPhaseNormalRunning
                \/ ServingEnds
                \/ StopsCoalescer
                \/ ShutdownReturns

Next == \/ Change
        \/ Notifies
        \/ ListenerStep
        \/ StopStep
        \/ DrainStep
        \/ \E t \in Timer : TimerStep(t)
        \/ MainStep
        \/ Signalled

Spec == Init /\ [][Next]_vars

\* Goroutines run, waits end, timers fire and Windows calls back; devices need
\* not change and nobody need stop the daemon.  DrainEnds has its own clause:
\* Go's select does not ignore one of two ready channels forever.
Fairness ==
    /\ WF_vars(Notifies)
    /\ WF_vars(ListenerStep)
    /\ WF_vars(StopStep)
    /\ WF_vars(DrainStep)
    /\ SF_vars(DrainEnds)
    /\ \A t \in Timer : WF_vars(TimerStep(t))
    /\ WF_vars(MainStep)

FairSpec == Spec /\ Fairness

-----------------------------------------------------------------------------
(***************************************************************************)
(* Properties                                                              *)
(***************************************************************************)
Event == 1..MaxChange
Phases == {PhaseStarting, PhaseWaitForSystemReady, PhaseNormalRunning}

\* The queue never outgrows its capacity, and every variable keeps its type.
TypeOK ==
    /\ changes \in 0..MaxChange
    /\ notices \in Seq(Event)
    /\ registered \in BOOLEAN
    /\ queue \in Seq(Event)
    /\ Len(queue) <= QueueCap
    /\ lpc \in {"start", "register", "listen", "returned"}
    /\ stop \in {"no", "running", "done"}
    /\ done \in BOOLEAN
    /\ dpc \in {"none", "select", "readphase", "act", "ended"}
    /\ ev \in 0..MaxChange
    /\ sawPhase \in Phases
    /\ phase \in Phases
    /\ listenerRegistered \in BOOLEAN
    /\ pending \in BOOLEAN
    /\ armed \in BOOLEAN
    /\ tpc \in [Timer -> {"free", "fired", "scan", "handle"}]
    /\ mpc \in {"register", "ready", "scan", "clear", "normal", "serve", "stopcoalescer",
                "stoplistener", "returned"}
    /\ ctxDone \in BOOLEAN
    /\ scanned \in 0..MaxChange
    /\ deferredTo \in 0..MaxChange
    /\ owed \in 0..MaxChange

\* Events seen before NORMAL_RUNNING start nothing: no event scan, and no timer
\* for one, before the initial scan has been made.
EventScansFollowStartup ==
    mpc \in {"register", "ready", "scan"} => ~armed /\ \A t \in Timer : tpc[t] = "free"

\* A change made and notified in NORMAL_RUNNING and not yet looked for is never
\* lost between two goroutines: unless the daemon is being stopped, an event that
\* leads to a scan after it is with the callback, in the queue, with the drain
\* goroutine or with a timer, the event of an earlier change included.
WithDrain == \/ notices # <<>>
             \/ queue # <<>>
             \/ dpc = "readphase"
             \/ dpc = "act" /\ sawPhase = PhaseNormalRunning

WithTimer == armed \/ \E t \in Timer : tpc[t] \in {"fired", "scan"}

OwedIsUnderWay ==
    owed > scanned /\ ~ctxDone => (WithDrain /\ dpc \notin {"none", "ended"}) \/ WithTimer

\* A change made and notified in NORMAL_RUNNING is looked for by a scan made after it,
\* though its event may be dropped by a full queue, reset a timer, or meet a
\* callback that has just read the list; only a shutdown excuses it.
NotifiedChangesAreScanned ==
    \A n \in Event : owed = n ~> (scanned >= n \/ ctxDone)

\* A cancelled daemon gets through listener.Stop: neither of its two callers
\* nor the drain goroutine waits for the other forever.
ShutdownEnds == ctxDone ~> mpc = "returned"

(***************************************************************************)
(* Statements of the docs that the code does not keep.                     *)
(***************************************************************************)

\* daemon.go: "startup PnP events were pending; covered by initial scan": when
\* the daemon runs normally, no event was left to a scan that did not see it.
PendingIsCovered == mpc = "serve" => deferredTo <= scanned
=============================================================================
