---------------------------- MODULE DaemonProofs ----------------------------
(***************************************************************************)
(* Proofs about Daemon: its variables keep their types, the queue within   *)
(* its capacity, no event starts a scan before the initial scan, and every *)
(* change notified in NORMAL_RUNNING has an event on its way to a scan.    *)
(***************************************************************************)
EXTENDS Daemon, TLAPS

\* Every step keeps the types and the capacity of the queue.
LEMMA TypeOKStep == TypeOK /\ [Next]_vars => TypeOK'
  <1> SUFFICES ASSUME TypeOK, [Next]_vars PROVE TypeOK'
    OBVIOUS
  <1> USE BoundAssumption DEF TypeOK, Event, Phases
  <1>1. CASE Change
    <2>1. changes + 1 \in Event
      BY <1>1 DEF Change
    <2>2. notices' \in Seq(Event)
      <3>1. CASE registered
        BY <1>1, <2>1, <3>1 DEF Change
      <3>2. CASE ~registered
        BY <1>1, <3>2 DEF Change
      <3> QED
        BY <3>1, <3>2
    <2>3. changes' \in 0..MaxChange /\ owed' \in 0..MaxChange
      BY <1>1, <2>1 DEF Change
    <2> QED
      BY <1>1, <2>2, <2>3 DEF Change, listenerVars, drainVars, phaseVars, timerVars
  <1>2. CASE Notifies
    <2>1. Head(notices) \in Event /\ notices' \in Seq(Event)
      BY <1>2 DEF Notifies
    <2>2. queue' \in Seq(Event) /\ Len(queue') <= QueueCap
      <3>1. CASE Len(queue) < QueueCap
        BY <1>2, <2>1, <3>1 DEF Notifies
      <3>2. CASE ~(Len(queue) < QueueCap)
        BY <1>2, <3>2 DEF Notifies
      <3> QED
        BY <3>1, <3>2
    <2> QED
      BY <1>2, <2>1, <2>2 DEF Notifies, listenerVars, drainVars, phaseVars, timerVars, historyVars
  <1>3. CASE ListenerStarts
    BY <1>3 DEF ListenerStarts, phaseVars, timerVars, historyVars
  <1>4. CASE ListenerRegisters
    BY <1>4 DEF ListenerRegisters, drainVars, phaseVars, timerVars,
       historyVars
  <1>5. CASE ListenerFails
    BY <1>5 DEF ListenerFails, drainVars, phaseVars, timerVars, historyVars
  <1>6. CASE ListenerReturns
    BY <1>6 DEF ListenerReturns, drainVars, phaseVars, timerVars, historyVars
  <1>7. CASE StopBegins
    <2>1. done' \in BOOLEAN /\ registered' \in BOOLEAN
      BY <1>7, Zenon DEF StopBegins
    <2>2. stop' = "running"
      BY <1>7 DEF StopBegins
    <2>3. UNCHANGED <<changes, notices, queue, lpc, dpc, ev, sawPhase, phase,
                      listenerRegistered, pending, armed, tpc, mpc, ctxDone, scanned,
                      deferredTo, owed>>
      BY <1>7 DEF StopBegins, WantsStop, drainVars, phaseVars, timerVars, historyVars
    <2> QED
      BY <2>1, <2>2, <2>3
  <1>8. CASE StopEnds
    BY <1>8 DEF StopEnds, drainVars, phaseVars, timerVars, historyVars
  <1>9. CASE TakesEvent
    BY <1>9 DEF TakesEvent, listenerVars, phaseVars, timerVars, historyVars
  <1>10. CASE DrainEnds
    BY <1>10 DEF DrainEnds, listenerVars, phaseVars, timerVars, historyVars
  <1>11. CASE ReadsPhase
    BY <1>11 DEF ReadsPhase, listenerVars, phaseVars, timerVars, historyVars
  <1>12. CASE SetsPending
    BY <1>12 DEF SetsPending, Later, listenerVars, timerVars, PhaseStarting,
       PhaseNormalRunning
  <1>13. CASE Triggers
    BY <1>13 DEF Triggers, listenerVars, phaseVars, historyVars,
       PhaseStarting, PhaseNormalRunning
  <1>14. ASSUME NEW t \in Timer, TimerFires(t) PROVE TypeOK'
    <2>1. armed' \in BOOLEAN
      BY <1>14, Zenon DEF TimerFires
    <2>2. tpc' = [tpc EXCEPT ![t] = "fired"]
      BY <1>14 DEF TimerFires
    <2>3. UNCHANGED <<changes, notices, registered, queue, lpc, stop, done, dpc, ev,
                      sawPhase, phase, listenerRegistered, pending, mpc, ctxDone, scanned,
                      deferredTo, owed>>
      BY <1>14 DEF TimerFires, listenerVars, drainVars, phaseVars, historyVars
    <2> QED
      BY <2>1, <2>2, <2>3
  <1>15. ASSUME NEW t \in Timer, Debounced(t) PROVE TypeOK'
    BY <1>15 DEF Debounced, listenerVars, drainVars, phaseVars, historyVars,
       PhaseNormalRunning
  <1>16. ASSUME NEW t \in Timer, EventScan(t) PROVE TypeOK'
    BY <1>16 DEF EventScan, listenerVars, drainVars, phaseVars
  <1>17. ASSUME NEW t \in Timer, EventScanReturns(t) PROVE TypeOK'
    BY <1>17 DEF EventScanReturns, listenerVars, drainVars, phaseVars,
       historyVars
  <1>18. CASE RegisterWaitEnds
    BY <1>18 DEF RegisterWaitEnds, listenerVars, drainVars, timerVars,
       historyVars, PhaseWaitForSystemReady
  <1>19. CASE SystemIsReady
    BY <1>19 DEF SystemIsReady, listenerVars, drainVars, phaseVars, timerVars,
       historyVars
  <1>20. CASE StartupCancelled
    BY <1>20 DEF StartupCancelled, listenerVars, drainVars, phaseVars,
       timerVars, historyVars
  <1>21. CASE StartupScan
    BY <1>21 DEF StartupScan, listenerVars, drainVars, phaseVars, timerVars
  <1>22. CASE ClearPendingStartup
    <2>1. pending' \in BOOLEAN
      BY <1>22, Zenon DEF ClearPendingStartup
    <2>2. mpc' = "normal"
      BY <1>22 DEF ClearPendingStartup
    <2>3. UNCHANGED <<changes, notices, registered, queue, lpc, stop, done, dpc, ev,
                      sawPhase, phase, listenerRegistered, armed, tpc, ctxDone, scanned,
                      deferredTo, owed>>
      BY <1>22 DEF ClearPendingStartup, listenerVars, drainVars, timerVars, historyVars
    <2> QED
      BY <2>1, <2>2, <2>3
  <1>23. CASE SetPhaseNormalRunning
    BY <1>23 DEF SetPhaseNormalRunning, listenerVars, drainVars, timerVars,
       historyVars, PhaseNormalRunning
  <1>24. CASE Signalled
    BY <1>24 DEF Signalled, listenerVars, drainVars, phaseVars, timerVars,
       historyVars
  <1>25. CASE ServingEnds
    BY <1>25 DEF ServingEnds, listenerVars, drainVars, phaseVars, timerVars,
       historyVars
  <1>26. CASE StopsCoalescer
    <2>1. armed' \in BOOLEAN
      BY <1>26, Zenon DEF StopsCoalescer
    <2>2. mpc' = "stoplistener"
      BY <1>26 DEF StopsCoalescer
    <2>3. UNCHANGED <<changes, notices, registered, queue, lpc, stop, done, dpc, ev,
                      sawPhase, phase, listenerRegistered, pending, tpc, ctxDone, scanned,
                      deferredTo, owed>>
      BY <1>26 DEF StopsCoalescer, listenerVars, drainVars, phaseVars, historyVars
    <2> QED
      BY <2>1, <2>2, <2>3
  <1>27. CASE ShutdownReturns
    BY <1>27 DEF ShutdownReturns, listenerVars, drainVars, phaseVars,
       timerVars, historyVars
  <1>28. CASE UNCHANGED vars
    BY <1>28 DEF vars, listenerVars, drainVars, phaseVars, timerVars, historyVars
  <1> QED
    BY <1>1, <1>2, <1>3, <1>4, <1>5, <1>6, <1>7, <1>8, <1>9, <1>10, <1>11,
       <1>12, <1>13, <1>14, <1>15, <1>16, <1>17, <1>18, <1>19, <1>20, <1>21,
       <1>22, <1>23, <1>24, <1>25, <1>26, <1>27, <1>28
       DEF Next, ListenerStep, StopStep, DrainStep, TimerStep, MainStep

\* The variables keep their types, and the listener's queue its capacity.
THEOREM QueueKeepsCapacity == Spec => []TypeOK
  <1>1. Init => TypeOK
    <2> SUFFICES ASSUME Init PROVE TypeOK
      OBVIOUS
    <2>1. /\ registered \in BOOLEAN /\ done \in BOOLEAN /\ listenerRegistered \in BOOLEAN
          /\ pending \in BOOLEAN /\ armed \in BOOLEAN /\ ctxDone \in BOOLEAN
      BY Zenon DEF Init
    <2>2. /\ notices = <<>> /\ queue = <<>> /\ Len(queue) <= QueueCap
          /\ changes = 0 /\ ev = 0 /\ scanned = 0 /\ deferredTo = 0 /\ owed = 0
      BY BoundAssumption DEF Init
    <2>3. /\ lpc = "start" /\ stop = "no" /\ dpc = "none" /\ mpc = "register"
          /\ sawPhase \in Phases /\ phase \in Phases /\ tpc = [t \in Timer |-> "free"]
      BY DEF Init, Phases
    <2> QED
      BY <2>1, <2>2, <2>3, BoundAssumption DEF TypeOK, Event
  <1>2. TypeOK /\ [Next]_vars => TypeOK'
    BY TypeOKStep
  <1> QED
    BY <1>1, <1>2, PTL DEF Spec

-----------------------------------------------------------------------------
(***************************************************************************)
(* The strengthening of EventScansFollowStartup                            *)
(***************************************************************************)

\* Until main sets it, nobody has seen the phase NORMAL_RUNNING: neither the
\* phase nor the copy that OnPnPEvent has read says so.
NormalComesLast ==
    mpc \in {"register", "ready", "scan", "clear", "normal"}
      => phase # PhaseNormalRunning /\ sawPhase # PhaseNormalRunning

StartupInv == NormalComesLast /\ EventScansFollowStartup

LEMMA StartupInvStep == TypeOK /\ StartupInv /\ [Next]_vars => StartupInv'
  <1> SUFFICES ASSUME TypeOK, StartupInv, [Next]_vars PROVE StartupInv'
    OBVIOUS
  <1> USE DEF StartupInv, NormalComesLast, EventScansFollowStartup, PhaseNormalRunning
  <1>1. CASE Change
    BY <1>1 DEF Change, listenerVars, drainVars, phaseVars, timerVars
  <1>2. CASE Notifies
    BY <1>2 DEF Notifies, listenerVars, drainVars, phaseVars, timerVars,
       historyVars
  <1>3. CASE ListenerStarts
    BY <1>3 DEF ListenerStarts, phaseVars, timerVars, historyVars
  <1>4. CASE ListenerRegisters
    BY <1>4 DEF ListenerRegisters, drainVars, phaseVars, timerVars,
       historyVars
  <1>5. CASE ListenerFails
    BY <1>5 DEF ListenerFails, drainVars, phaseVars, timerVars, historyVars
  <1>6. CASE ListenerReturns
    BY <1>6 DEF ListenerReturns, drainVars, phaseVars, timerVars, historyVars
  <1>7. CASE StopBegins
    BY <1>7 DEF StopBegins, WantsStop, drainVars, phaseVars, timerVars,
       historyVars
  <1>8. CASE StopEnds
    BY <1>8 DEF StopEnds, drainVars, phaseVars, timerVars, historyVars
  <1>9. CASE TakesEvent
    BY <1>9 DEF TakesEvent, listenerVars, phaseVars, timerVars, historyVars
  <1>10. CASE DrainEnds
    BY <1>10 DEF DrainEnds, listenerVars, phaseVars, timerVars, historyVars
  <1>11. CASE ReadsPhase
    BY <1>11 DEF ReadsPhase, listenerVars, phaseVars, timerVars, historyVars
  <1>12. CASE SetsPending
    BY <1>12 DEF SetsPending, listenerVars, timerVars, PhaseStarting
  <1>13. CASE Triggers
    BY <1>13 DEF Triggers, listenerVars, phaseVars, historyVars, PhaseStarting
  <1>14. ASSUME NEW t \in Timer, TimerFires(t) PROVE StartupInv'
    BY <1>14 DEF TimerFires, listenerVars, drainVars, phaseVars, historyVars,
       TypeOK
  <1>15. ASSUME NEW t \in Timer, Debounced(t) PROVE StartupInv'
    BY <1>15 DEF Debounced, listenerVars, drainVars, phaseVars, historyVars,
       TypeOK
  <1>16. ASSUME NEW t \in Timer, EventScan(t) PROVE StartupInv'
    BY <1>16 DEF EventScan, listenerVars, drainVars, phaseVars, TypeOK
  <1>17. ASSUME NEW t \in Timer, EventScanReturns(t) PROVE StartupInv'
    BY <1>17 DEF EventScanReturns, listenerVars, drainVars, phaseVars,
       historyVars, TypeOK
  <1>18. CASE RegisterWaitEnds
    BY <1>18 DEF RegisterWaitEnds, listenerVars, drainVars, timerVars,
       historyVars, PhaseWaitForSystemReady
  <1>19. CASE SystemIsReady
    BY <1>19 DEF SystemIsReady, listenerVars, drainVars, phaseVars, timerVars,
       historyVars
  <1>20. CASE StartupCancelled
    BY <1>20 DEF StartupCancelled, listenerVars, drainVars, phaseVars,
       timerVars, historyVars
  <1>21. CASE StartupScan
    BY <1>21 DEF StartupScan, listenerVars, drainVars, phaseVars, timerVars
  <1>22. CASE ClearPendingStartup
    BY <1>22 DEF ClearPendingStartup, listenerVars, drainVars, timerVars,
       historyVars
  <1>23. CASE SetPhaseNormalRunning
    BY <1>23 DEF SetPhaseNormalRunning, listenerVars, drainVars, timerVars,
       historyVars
  <1>24. CASE Signalled
    BY <1>24 DEF Signalled, listenerVars, drainVars, phaseVars, timerVars,
       historyVars
  <1>25. CASE ServingEnds
    BY <1>25 DEF ServingEnds, listenerVars, drainVars, phaseVars, timerVars,
       historyVars
  <1>26. CASE StopsCoalescer
    BY <1>26 DEF StopsCoalescer, listenerVars, drainVars, phaseVars,
       historyVars
  <1>27. CASE ShutdownReturns
    BY <1>27 DEF ShutdownReturns, listenerVars, drainVars, phaseVars,
       timerVars, historyVars
  <1>28. CASE UNCHANGED vars
    BY <1>28 DEF vars, listenerVars, drainVars, phaseVars, timerVars, historyVars
  <1> QED
    BY <1>1, <1>2, <1>3, <1>4, <1>5, <1>6, <1>7, <1>8, <1>9, <1>10, <1>11,
       <1>12, <1>13, <1>14, <1>15, <1>16, <1>17, <1>18, <1>19, <1>20, <1>21,
       <1>22, <1>23, <1>24, <1>25, <1>26, <1>27, <1>28
       DEF Next, ListenerStep, StopStep, DrainStep, TimerStep, MainStep

\* Whatever is notified during the start-up, no event scan is made and no timer
\* for one runs before the initial scan.
THEOREM StartupComesFirst == Spec => []EventScansFollowStartup
  <1>1. Init => StartupInv
    BY DEF Init, StartupInv, NormalComesLast, EventScansFollowStartup, PhaseStarting,
           PhaseNormalRunning
  <1>2. TypeOK /\ StartupInv /\ [Next]_vars => StartupInv'
    BY StartupInvStep
  <1>3. StartupInv => EventScansFollowStartup
    BY DEF StartupInv
  <1> QED
    BY <1>1, <1>2, <1>3, QueueKeepsCapacity, PTL DEF Spec

-----------------------------------------------------------------------------
(***************************************************************************)
(* The strengthening of OwedIsUnderWay                                     *)
(***************************************************************************)

\* A change is owed from NORMAL_RUNNING on, and the phase never goes back.
OwedInNormal == /\ owed # 0 => phase = PhaseNormalRunning
                /\ owed <= changes
                /\ scanned <= changes

\* The drain goroutine exists before anything is registered.
DrainComesFirst == IF lpc = "start" THEN ~registered /\ owed = 0 ELSE dpc # "none"

\* Nothing is taken down while the context lives.
StopsWhenCancelled ==
    (done \/ dpc = "ended" \/ mpc \in {"stopcoalescer", "stoplistener", "returned"}) => ctxDone

Helpers == OwedInNormal /\ DrainComesFirst /\ StopsWhenCancelled

OwedInv == Helpers /\ OwedIsUnderWay

\* Every step keeps these three.
LEMMA HelpersStep ==
    ASSUME TypeOK, StartupInv, OwedInv, [Next]_vars
    PROVE  Helpers'
  <1> USE DEF OwedInv, Helpers, OwedInNormal, DrainComesFirst, StopsWhenCancelled, StartupInv,
              NormalComesLast, TypeOK, PhaseNormalRunning, listenerVars, drainVars, phaseVars,
              timerVars, historyVars
  <1>1. CASE Change
    BY <1>1 DEF Change
  <1>2. CASE Notifies
    BY <1>2 DEF Notifies
  <1>3. CASE ListenerStarts
    BY <1>3 DEF ListenerStarts
  <1>4. CASE ListenerRegisters
    BY <1>4 DEF ListenerRegisters
  <1>5. CASE ListenerFails
    BY <1>5 DEF ListenerFails
  <1>6. CASE ListenerReturns
    BY <1>6 DEF ListenerReturns
  <1>7. CASE StopBegins
    BY <1>7 DEF StopBegins, WantsStop
  <1>8. CASE StopEnds
    BY <1>8 DEF StopEnds
  <1>9. CASE TakesEvent
    BY <1>9 DEF TakesEvent
  <1>10. CASE DrainEnds
    BY <1>10 DEF DrainEnds
  <1>11. CASE ReadsPhase
    BY <1>11 DEF ReadsPhase
  <1>12. CASE SetsPending
    BY <1>12 DEF SetsPending
  <1>13. CASE Triggers
    BY <1>13 DEF Triggers
  <1>14. ASSUME NEW t \in Timer, TimerFires(t) PROVE Helpers'
    BY <1>14 DEF TimerFires
  <1>15. ASSUME NEW t \in Timer, Debounced(t) PROVE Helpers'
    BY <1>15 DEF Debounced
  <1>16. ASSUME NEW t \in Timer, EventScan(t) PROVE Helpers'
    BY <1>16 DEF EventScan
  <1>17. ASSUME NEW t \in Timer, EventScanReturns(t) PROVE Helpers'
    BY <1>17 DEF EventScanReturns
  <1>18. CASE RegisterWaitEnds
    BY <1>18 DEF RegisterWaitEnds, PhaseWaitForSystemReady
  <1>19. CASE SystemIsReady
    BY <1>19 DEF SystemIsReady
  <1>20. CASE StartupCancelled
    BY <1>20 DEF StartupCancelled
  <1>21. CASE StartupScan
    BY <1>21 DEF StartupScan
  <1>22. CASE ClearPendingStartup
    BY <1>22 DEF ClearPendingStartup
  <1>23. CASE SetPhaseNormalRunning
    BY <1>23 DEF SetPhaseNormalRunning
  <1>24. CASE Signalled
    BY <1>24 DEF Signalled
  <1>25. CASE ServingEnds
    BY <1>25 DEF ServingEnds
  <1>26. CASE StopsCoalescer
    BY <1>26 DEF StopsCoalescer
  <1>27. CASE ShutdownReturns
    BY <1>27 DEF ShutdownReturns
  <1>28. CASE UNCHANGED vars
    BY <1>28 DEF vars
  <1> QED
    BY <1>1, <1>2, <1>3, <1>4, <1>5, <1>6, <1>7, <1>8, <1>9, <1>10, <1>11,
       <1>12, <1>13, <1>14, <1>15, <1>16, <1>17, <1>18, <1>19, <1>20, <1>21,
       <1>22, <1>23, <1>24, <1>25, <1>26, <1>27, <1>28
       DEF Next, ListenerStep, StopStep, DrainStep, TimerStep, MainStep

\* What is owed moves on from the callback to a scan, and no step loses it.
LEMMA UnderWayStep ==
    ASSUME TypeOK, StartupInv, OwedInv, [Next]_vars
    PROVE  OwedIsUnderWay'
  <1> USE DEF OwedInv, Helpers, OwedInNormal, DrainComesFirst, StopsWhenCancelled, StartupInv,
              NormalComesLast, OwedIsUnderWay, WithDrain, WithTimer, TypeOK, PhaseNormalRunning,
              listenerVars, drainVars, phaseVars, timerVars, historyVars
  <1>1. CASE Change
    BY <1>1 DEF Change
  <1>2. CASE Notifies
    <2>1. queue' # <<>>
      <3>1. Head(notices) \in Event
        BY <1>2 DEF Notifies
      <3>2. CASE Len(queue) < QueueCap
        BY <1>2, <3>1, <3>2 DEF Notifies
      <3>3. CASE ~(Len(queue) < QueueCap)
        BY <1>2, <3>3, BoundAssumption DEF Notifies
      <3> QED
        BY <3>2, <3>3
    <2> QED
      BY <1>2, <2>1 DEF Notifies
  <1>3. CASE ListenerStarts
    BY <1>3 DEF ListenerStarts
  <1>4. CASE ListenerRegisters
    BY <1>4 DEF ListenerRegisters
  <1>5. CASE ListenerFails
    BY <1>5 DEF ListenerFails
  <1>6. CASE ListenerReturns
    BY <1>6 DEF ListenerReturns
  <1>7. CASE StopBegins
    BY <1>7 DEF StopBegins, WantsStop
  <1>8. CASE StopEnds
    BY <1>8 DEF StopEnds
  <1>9. CASE TakesEvent
    BY <1>9 DEF TakesEvent
  <1>10. CASE DrainEnds
    BY <1>10 DEF DrainEnds
  <1>11. CASE ReadsPhase
    BY <1>11 DEF ReadsPhase
  <1>12. CASE SetsPending
    BY <1>12 DEF SetsPending
  <1>13. CASE Triggers
    BY <1>13 DEF Triggers
  <1>14. ASSUME NEW t \in Timer, TimerFires(t) PROVE OwedIsUnderWay'
    BY <1>14 DEF TimerFires
  <1>15. ASSUME NEW t \in Timer, Debounced(t) PROVE OwedIsUnderWay'
    BY <1>15 DEF Debounced
  <1>16. ASSUME NEW t \in Timer, EventScan(t) PROVE OwedIsUnderWay'
    BY <1>16 DEF EventScan
  <1>17. ASSUME NEW t \in Timer, EventScanReturns(t) PROVE OwedIsUnderWay'
    BY <1>17 DEF EventScanReturns
  <1>18. CASE RegisterWaitEnds
    BY <1>18 DEF RegisterWaitEnds, PhaseWaitForSystemReady
  <1>19. CASE SystemIsReady
    BY <1>19 DEF SystemIsReady
  <1>20. CASE StartupCancelled
    BY <1>20 DEF StartupCancelled
  <1>21. CASE StartupScan
    BY <1>21 DEF StartupScan
  <1>22. CASE ClearPendingStartup
    BY <1>22 DEF ClearPendingStartup
  <1>23. CASE SetPhaseNormalRunning
    BY <1>23 DEF SetPhaseNormalRunning
  <1>24. CASE Signalled
    BY <1>24 DEF Signalled
  <1>25. CASE ServingEnds
    BY <1>25 DEF ServingEnds
  <1>26. CASE StopsCoalescer
    BY <1>26 DEF StopsCoalescer
  <1>27. CASE ShutdownReturns
    BY <1>27 DEF ShutdownReturns
  <1>28. CASE UNCHANGED vars
    BY <1>28 DEF vars
  <1> QED
    BY <1>1, <1>2, <1>3, <1>4, <1>5, <1>6, <1>7, <1>8, <1>9, <1>10, <1>11,
       <1>12, <1>13, <1>14, <1>15, <1>16, <1>17, <1>18, <1>19, <1>20, <1>21,
       <1>22, <1>23, <1>24, <1>25, <1>26, <1>27, <1>28
       DEF Next, ListenerStep, StopStep, DrainStep, TimerStep, MainStep

\* A change made and notified in NORMAL_RUNNING always has an event on its way to a
\* scan, whatever the queue drops and the coalescer resets.
THEOREM OwedStaysUnderWay == Spec => []OwedIsUnderWay
  <1>1. Init => StartupInv /\ OwedInv
    BY DEF Init, StartupInv, NormalComesLast, EventScansFollowStartup, OwedInv, Helpers,
           OwedInNormal, DrainComesFirst, StopsWhenCancelled, OwedIsUnderWay, PhaseStarting,
           PhaseNormalRunning
  <1>2. TypeOK /\ StartupInv /\ OwedInv /\ [Next]_vars => OwedInv'
    BY HelpersStep, UnderWayStep DEF OwedInv
  <1>3. OwedInv => OwedIsUnderWay
    BY DEF OwedInv
  <1> QED
    BY <1>1, <1>2, <1>3, StartupInvStep, QueueKeepsCapacity, PTL DEF Spec
=============================================================================
