-------------------------- MODULE ProcessesProofs --------------------------
(***************************************************************************)
(* Proofs about Processes: its variables keep their types and, for every   *)
(* set of processes, only one of them has recoveries under way, and no     *)
(* server uses a handle that is not its own.                               *)
(***************************************************************************)
EXTENDS Processes, TLAPS

\* Exit is a step of many actions: what it leaves behind.
LEMMA ExitKeepsTypes ==
    ASSUME TypeOK, NEW p \in Proc, Exit(p)
    PROVE  TypeOK'
  BY ProcessAssumption
     DEF TypeOK, Exit, Goto, MainPc, ServerPc, Command, Daemon, Check, Status

\* Every step keeps the types.
LEMMA TypeOKStep == TypeOK /\ [Next]_vars => TypeOK'
  <1> SUFFICES ASSUME TypeOK, [Next]_vars PROVE TypeOK'
    OBVIOUS
  <1>1. ASSUME NEW p \in Proc, Connects(p) PROVE TypeOK'
    BY <1>1
       DEF Connects, Goto, TypeOK, MainPc, ServerPc, clientVars, serverVars,
           Command, Daemon, Check, Status
  <1>2. ASSUME NEW p \in Proc, FindsNoPipe(p) PROVE TypeOK'
    BY <1>2, ExitKeepsTypes, ProcessAssumption
       DEF FindsNoPipe, Goto, TypeOK, MainPc, ServerPc, clientVars,
           serverVars, Command, Daemon, Check, Status
  <1>3. ASSUME NEW p \in Proc, FindsBusy(p) PROVE TypeOK'
    BY <1>3, ExitKeepsTypes, ProcessAssumption
       DEF FindsBusy, IsBusy, TypeOK, MainPc, ServerPc, clientVars,
           serverVars, Command, Daemon, Check, Status
  <1>4. ASSUME NEW p \in Proc, IsRefused(p) PROVE TypeOK'
    BY <1>4, ExitKeepsTypes
       DEF IsRefused, TypeOK, MainPc, ServerPc, clientVars, serverVars,
           Command, Daemon, Check, Status
  <1>5. ASSUME NEW p \in Proc, WritesRequest(p) PROVE TypeOK'
    BY <1>5, ExitKeepsTypes, ProcessAssumption
       DEF WritesRequest, Goto, TypeOK, MainPc, ServerPc, clientVars,
           serverVars, Command, Daemon, Check, Status
  <1>6. ASSUME NEW p \in Proc, ReadsAnswer(p) PROVE TypeOK'
    BY <1>6, ExitKeepsTypes
       DEF ReadsAnswer, TypeOK, MainPc, ServerPc, clientVars, serverVars,
           Command, Daemon, Check, Status
  <1>7. ASSUME NEW p \in Proc, LoadsConfig(p) PROVE TypeOK'
    BY <1>7, ExitKeepsTypes
       DEF LoadsConfig, Goto, TypeOK, MainPc, ServerPc, clientVars,
           serverVars, Command, Daemon, Check, Status
  <1>8. ASSUME NEW p \in Proc, IsElevated(p) PROVE TypeOK'
    BY <1>8
       DEF IsElevated, Goto, TypeOK, MainPc, ServerPc, clientVars, serverVars,
           Command, Daemon, Check, Status
  <1>9. ASSUME NEW p \in Proc, Relaunches(p) PROVE TypeOK'
    BY <1>9, ProcessAssumption
       DEF Relaunches, Goto, Entrance, TypeOK, MainPc, ServerPc, clientVars,
           serverVars, Command, Daemon, Check, Status
  <1>10. ASSUME NEW p \in Proc, IsDenied(p) PROVE TypeOK'
    BY <1>10, ExitKeepsTypes
       DEF IsDenied, TypeOK, MainPc, ServerPc, clientVars, serverVars,
           Command, Daemon, Check, Status
  <1>11. ASSUME NEW p \in Proc, Acquires(p) PROVE TypeOK'
    BY <1>11
       DEF Acquires, Goto, TypeOK, MainPc, ServerPc, clientVars, serverVars,
           Command, Daemon, Check, Status
  <1>12. ASSUME NEW p \in Proc, FindsMutex(p) PROVE TypeOK'
    BY <1>12
       DEF FindsMutex, Goto, TypeOK, MainPc, ServerPc, clientVars, serverVars,
           Command, Daemon, Check, Status
  <1>13. ASSUME NEW p \in Proc, GivesUp(p) PROVE TypeOK'
    BY <1>13, ExitKeepsTypes
       DEF GivesUp, TypeOK, MainPc, ServerPc, clientVars, serverVars, Command,
           Daemon, Check, Status
  <1>14. ASSUME NEW p \in Proc, StartsServer(p) PROVE TypeOK'
    BY <1>14
       DEF StartsServer, Goto, TypeOK, MainPc, ServerPc, clientVars,
           serverVars, Command, Daemon, Check, Status
  <1>15. ASSUME NEW p \in Proc, ShutsDown(p) PROVE TypeOK'
    BY <1>15
       DEF ShutsDown, Goto, TypeOK, MainPc, ServerPc, clientVars, serverVars,
           Command, Daemon, Check, Status
  <1>16. ASSUME NEW p \in Proc, Scans(p) PROVE TypeOK'
    BY <1>16
       DEF Scans, Goto, TypeOK, MainPc, ServerPc, clientVars, serverVars,
           Command, Daemon, Check, Status
  <1>17. ASSUME NEW p \in Proc, WaitReturns(p) PROVE TypeOK'
    BY <1>17
       DEF WaitReturns, Goto, TypeOK, MainPc, ServerPc, clientVars,
           serverVars, Command, Daemon, Check, Status
  <1>18. ASSUME NEW p \in Proc, WaitTimesOut(p) PROVE TypeOK'
    BY <1>18
       DEF WaitTimesOut, Goto, TypeOK, MainPc, ServerPc, clientVars,
           serverVars, Command, Daemon, Check, Status
  <1>19. ASSUME NEW p \in Proc, Releases(p) PROVE TypeOK'
    BY <1>19
       DEF Releases, Goto, TypeOK, MainPc, ServerPc, clientVars, serverVars,
           Command, Daemon, Check, Status
  <1>20. ASSUME NEW p \in Proc, Exits(p) PROVE TypeOK'
    BY <1>20, ExitKeepsTypes
       DEF Exits, TypeOK, MainPc, ServerPc, clientVars, serverVars, Command,
           Daemon, Check, Status
  <1>21. ASSUME NEW p \in Proc, LeavesLoop(p) PROVE TypeOK'
    BY <1>21
       DEF LeavesLoop, ServerGoto, TypeOK, MainPc, ServerPc, clientVars,
           serverVars, Command, Daemon, Check, Status
  <1>22. ASSUME NEW p \in Proc, EntersLoop(p) PROVE TypeOK'
    BY <1>22
       DEF EntersLoop, ServerGoto, TypeOK, MainPc, ServerPc, clientVars,
           serverVars, Command, Daemon, Check, Status
  <1>23. ASSUME NEW p \in Proc, CreatesPipe(p) PROVE TypeOK'
    BY <1>23
       DEF CreatesPipe, ServerGoto, TypeOK, MainPc, ServerPc, clientVars,
           serverVars, Command, Daemon, Check, Status
  <1>24. ASSUME NEW p \in Proc, CreateFails(p) PROVE TypeOK'
    BY <1>24
       DEF CreateFails, ServerFails, ServerGoto, TypeOK, MainPc, ServerPc,
           clientVars, serverVars, Command, Daemon, Check, Status
  <1>25. ASSUME NEW p \in Proc, TakesSlot(p) PROVE TypeOK'
    BY <1>25
       DEF TakesSlot, ServerGoto, TypeOK, MainPc, ServerPc, clientVars,
           serverVars, Command, Daemon, Check, Status
  <1>26. ASSUME NEW p \in Proc, ConnectReturns(p) PROVE TypeOK'
    BY <1>26
       DEF ConnectReturns, ServerGoto, TypeOK, MainPc, ServerPc, clientVars,
           serverVars, Command, Daemon, Check, Status
  <1>27. ASSUME NEW p \in Proc, ConnectFails(p) PROVE TypeOK'
    BY <1>27
       DEF ConnectFails, ServerFails, ClosePipe, Peer, ServerGoto, TypeOK,
           MainPc, ServerPc, clientVars, serverVars, Command, Daemon, Check,
           Status
  <1>28. ASSUME NEW p \in Proc, ReleasesSlot(p) PROVE TypeOK'
    BY <1>28
       DEF ReleasesSlot, ServerGoto, TypeOK, MainPc, ServerPc, clientVars,
           serverVars, Command, Daemon, Check, Status
  <1>29. ASSUME NEW p \in Proc, ChecksContext(p) PROVE TypeOK'
    BY <1>29
       DEF ChecksContext, ServerGoto, ClosePipe, TypeOK, MainPc, ServerPc,
           clientVars, serverVars, Command, Daemon, Check, Status
  <1>30. ASSUME NEW p \in Proc, ReadsRequest(p) PROVE TypeOK'
    BY <1>30
       DEF ReadsRequest, ServerGoto, TypeOK, MainPc, ServerPc, clientVars,
           serverVars, Command, Daemon, Check, Status
  <1>31. ASSUME NEW p \in Proc, ReadFails(p) PROVE TypeOK'
    BY <1>31
       DEF ReadFails, ServerFails, ClosePipe, Peer, ServerGoto, TypeOK,
           MainPc, ServerPc, clientVars, serverVars, Command, Daemon, Check,
           Status
  <1>32. ASSUME NEW p \in Proc, Handles(p) PROVE TypeOK'
    BY <1>32
       DEF Handles, ServerGoto, TypeOK, MainPc, ServerPc, clientVars,
           serverVars, Command, Daemon, Check, Status
  <1>33. ASSUME NEW p \in Proc, WritesAnswer(p) PROVE TypeOK'
    BY <1>33
       DEF WritesAnswer, ServerGoto, ServerFails, ClosePipe, Peer, TypeOK,
           MainPc, ServerPc, clientVars, serverVars, Command, Daemon, Check,
           Status
  <1>34. ASSUME NEW p \in Proc, SleepEnds(p) PROVE TypeOK'
    BY <1>34
       DEF SleepEnds, ServerGoto, TypeOK, MainPc, ServerPc, clientVars,
           serverVars, Command, Daemon, Check, Status
  <1>35. ASSUME NEW p \in Proc, CancelCloses(p) PROVE TypeOK'
    BY <1>35
       DEF CancelCloses, ClosePipe, TypeOK, MainPc, ServerPc, clientVars,
           serverVars, Command, Daemon, Check, Status
  <1>36. ASSUME NEW p \in Proc, WorkersEnd(p) PROVE TypeOK'
    BY <1>36
       DEF WorkersEnd, TypeOK, MainPc, ServerPc, clientVars, serverVars,
           Command, Daemon, Check, Status
  <1>37. ASSUME NEW p \in Proc, Starts(p) PROVE TypeOK'
    <2>1. PICK k \in MayRun[p], e \in BOOLEAN :
            /\ cmd' = [cmd EXCEPT ![p] = k]
            /\ Goto(p, Entrance(k))
            /\ elevated' = IF e THEN elevated \union {p} ELSE elevated
      BY <1>37 DEF Starts
    <2>2. k \in Command
      BY ProcessAssumption
    <2>3. Entrance(k) \in MainPc
      BY DEF Entrance, MainPc
    <2> QED
      BY <1>37, <2>1, <2>2, <2>3 DEF Starts, Goto, TypeOK, clientVars, serverVars
  <1>38. ASSUME NEW p \in Proc, Killed(p) PROVE TypeOK'
    BY <1>38, ExitKeepsTypes
       DEF Killed, TypeOK, MainPc, ServerPc, clientVars, serverVars, Command,
           Daemon, Check, Status
  <1>39. ASSUME NEW p \in Proc, Cancelled(p) PROVE TypeOK'
    BY <1>39
       DEF Cancelled, TypeOK, MainPc, ServerPc, clientVars, serverVars,
           Command, Daemon, Check, Status
  <1>40. ASSUME NEW p \in Proc, FindsWork(p) PROVE TypeOK'
    BY <1>40
       DEF FindsWork, TypeOK, MainPc, ServerPc, clientVars, serverVars,
           Command, Daemon, Check, Status
  <1>41. CASE UNCHANGED vars
    BY <1>41 DEF vars, TypeOK, clientVars, serverVars
  <1> QED
    BY <1>1, <1>2, <1>3, <1>4, <1>5, <1>6, <1>7, <1>8, <1>9, <1>10, <1>11,
       <1>12, <1>13, <1>14, <1>15, <1>16, <1>17, <1>18, <1>19, <1>20, <1>21,
       <1>22, <1>23, <1>24, <1>25, <1>26, <1>27, <1>28, <1>29, <1>30, <1>31,
       <1>32, <1>33, <1>34, <1>35, <1>36, <1>37, <1>38, <1>39, <1>40, <1>41
       DEF Next, MainStep, ClientStep, EntryStep, OwnerStep, ServerStep, HostStep

\* The variables keep their types, and CallIPC makes no more than ipcClientRetries
\* attempts.
THEOREM TypesAreKept == Spec => []TypeOK
  <1>1. Init => TypeOK
    BY ProcessAssumption DEF Init, TypeOK, MainPc, ServerPc, Command
  <1>2. TypeOK /\ [Next]_vars => TypeOK'
    BY TypeOKStep
  <1> QED
    BY <1>1, <1>2, PTL DEF Spec

-----------------------------------------------------------------------------
(***************************************************************************)
(* The strengthening of OneProcessOperates                                 *)
(***************************************************************************)

\* The owner holds a handle, so nobody else creates the mutex.
OwnerHolds == \A p \in Proc : Owns(p) => p \in mutex

OneOwner == \A p, q \in Proc : Owns(p) /\ Owns(q) => p = q

\* Recoveries belong to the owner, or to a daemon that did not wait for them.
WorkersOfOwner ==
    \A p \in working : /\ Owns(p) \/ TimedOut(p)
                       /\ pc[p] = "release" => cmd[p] = Daemon

\* Only a daemon has a server, and only a daemon that shuts down is past "serve".
DaemonServes ==
    \A p \in Proc :
       /\ pc[p] \in {"listen", "serve"} => cmd[p] = Daemon
       /\ pc[p] = "scan" => cmd[p] # Daemon
       /\ spc[p] # "off" => cmd[p] = Daemon /\ pc[p] \in {"serve", "wait", "release", "exit"}
       /\ cmd[p] = Daemon /\ pc[p] \in {"wait", "release", "exit"} => p \in ctxDone

MutexInv == TypeOK /\ OwnerHolds /\ OneOwner /\ WorkersOfOwner /\ DaemonServes

LEMMA ExitKeepsMutexInv ==
    ASSUME MutexInv, NEW p \in Proc, Exit(p)
    PROVE  OwnerHolds' /\ OneOwner' /\ WorkersOfOwner' /\ DaemonServes'
  BY DEF MutexInv, TypeOK, OwnerHolds, OneOwner, WorkersOfOwner, DaemonServes, Owns, OwnerPc,
         TimedOut, Exit, Goto, Daemon

\* Every step keeps the mutex with one owner and the workers with that owner.
LEMMA MutexInvStep == MutexInv /\ [Next]_vars => MutexInv'
  <1> SUFFICES ASSUME MutexInv, [Next]_vars PROVE MutexInv'
    OBVIOUS
  <1> DEFINE Parts == OwnerHolds /\ OneOwner /\ WorkersOfOwner /\ DaemonServes
  <1>0. TypeOK'
    BY TypeOKStep DEF MutexInv
  <1>1. ASSUME NEW p \in Proc, Connects(p) PROVE Parts'
    BY <1>1
       DEF Connects, Goto, MutexInv, TypeOK, OwnerHolds, OneOwner,
           WorkersOfOwner, DaemonServes, Owns, OwnerPc, TimedOut, clientVars,
           serverVars, Daemon, Check, Status
  <1>2. ASSUME NEW p \in Proc, FindsNoPipe(p) PROVE Parts'
    BY <1>2, ExitKeepsMutexInv
       DEF FindsNoPipe, Goto, MutexInv, TypeOK, OwnerHolds, OneOwner,
           WorkersOfOwner, DaemonServes, Owns, OwnerPc, TimedOut, clientVars,
           serverVars, Daemon, Check, Status
  <1>3. ASSUME NEW p \in Proc, FindsBusy(p) PROVE Parts'
    BY <1>3, ExitKeepsMutexInv
       DEF FindsBusy, MutexInv, TypeOK, OwnerHolds, OneOwner, WorkersOfOwner,
           DaemonServes, Owns, OwnerPc, TimedOut, clientVars, serverVars,
           Daemon, Check, Status
  <1>4. ASSUME NEW p \in Proc, IsRefused(p) PROVE Parts'
    BY <1>4, ExitKeepsMutexInv
       DEF IsRefused, MutexInv, TypeOK, OwnerHolds, OneOwner, WorkersOfOwner,
           DaemonServes, Owns, OwnerPc, TimedOut, clientVars, serverVars,
           Daemon, Check, Status
  <1>5. ASSUME NEW p \in Proc, WritesRequest(p) PROVE Parts'
    BY <1>5, ExitKeepsMutexInv
       DEF WritesRequest, Goto, MutexInv, TypeOK, OwnerHolds, OneOwner,
           WorkersOfOwner, DaemonServes, Owns, OwnerPc, TimedOut, clientVars,
           serverVars, Daemon, Check, Status
  <1>6. ASSUME NEW p \in Proc, ReadsAnswer(p) PROVE Parts'
    BY <1>6, ExitKeepsMutexInv
       DEF ReadsAnswer, MutexInv, TypeOK, OwnerHolds, OneOwner,
           WorkersOfOwner, DaemonServes, Owns, OwnerPc, TimedOut, clientVars,
           serverVars, Daemon, Check, Status
  <1>7. ASSUME NEW p \in Proc, LoadsConfig(p) PROVE Parts'
    BY <1>7, ExitKeepsMutexInv
       DEF LoadsConfig, Goto, MutexInv, TypeOK, OwnerHolds, OneOwner,
           WorkersOfOwner, DaemonServes, Owns, OwnerPc, TimedOut, clientVars,
           serverVars, Daemon, Check, Status
  <1>8. ASSUME NEW p \in Proc, IsElevated(p) PROVE Parts'
    BY <1>8
       DEF IsElevated, Goto, MutexInv, TypeOK, OwnerHolds, OneOwner,
           WorkersOfOwner, DaemonServes, Owns, OwnerPc, TimedOut, clientVars,
           serverVars, Daemon, Check, Status
  <1>9. ASSUME NEW p \in Proc, Relaunches(p) PROVE Parts'
    BY <1>9
       DEF Relaunches, Goto, Entrance, MutexInv, TypeOK, OwnerHolds, OneOwner,
           WorkersOfOwner, DaemonServes, Owns, OwnerPc, TimedOut, clientVars,
           serverVars, Daemon, Check, Status
  <1>10. ASSUME NEW p \in Proc, IsDenied(p) PROVE Parts'
    BY <1>10, ExitKeepsMutexInv
       DEF IsDenied, MutexInv, TypeOK, OwnerHolds, OneOwner, WorkersOfOwner,
           DaemonServes, Owns, OwnerPc, TimedOut, clientVars, serverVars,
           Daemon, Check, Status
  <1>11. ASSUME NEW p \in Proc, Acquires(p) PROVE Parts'
    BY <1>11
       DEF Acquires, Goto, MutexInv, TypeOK, OwnerHolds, OneOwner,
           WorkersOfOwner, DaemonServes, Owns, OwnerPc, TimedOut, clientVars,
           serverVars, Daemon, Check, Status
  <1>12. ASSUME NEW p \in Proc, FindsMutex(p) PROVE Parts'
    BY <1>12
       DEF FindsMutex, Goto, MutexInv, TypeOK, OwnerHolds, OneOwner,
           WorkersOfOwner, DaemonServes, Owns, OwnerPc, TimedOut, clientVars,
           serverVars, Daemon, Check, Status
  <1>13. ASSUME NEW p \in Proc, GivesUp(p) PROVE Parts'
    BY <1>13, ExitKeepsMutexInv
       DEF GivesUp, MutexInv, TypeOK, OwnerHolds, OneOwner, WorkersOfOwner,
           DaemonServes, Owns, OwnerPc, TimedOut, clientVars, serverVars,
           Daemon, Check, Status
  <1>14. ASSUME NEW p \in Proc, StartsServer(p) PROVE Parts'
    BY <1>14
       DEF StartsServer, Goto, MutexInv, TypeOK, OwnerHolds, OneOwner,
           WorkersOfOwner, DaemonServes, Owns, OwnerPc, TimedOut, clientVars,
           serverVars, Daemon, Check, Status
  <1>15. ASSUME NEW p \in Proc, ShutsDown(p) PROVE Parts'
    BY <1>15
       DEF ShutsDown, Goto, MutexInv, TypeOK, OwnerHolds, OneOwner,
           WorkersOfOwner, DaemonServes, Owns, OwnerPc, TimedOut, clientVars,
           serverVars, Daemon, Check, Status
  <1>16. ASSUME NEW p \in Proc, Scans(p) PROVE Parts'
    <2>1. pc[p] = "scan" /\ pc' = [pc EXCEPT ![p] = "wait"] /\ working' \subseteq working \union {p}
      BY <1>16 DEF Scans, Goto
    <2>2. cmd' = cmd /\ mutex' = mutex /\ ctxDone' = ctxDone /\ spc' = spc
      BY <1>16 DEF Scans, serverVars
    <2>3. cmd[p] # Daemon
      BY <2>1 DEF MutexInv, DaemonServes
    <2> QED
      BY <2>1, <2>2, <2>3
         DEF MutexInv, TypeOK, OwnerHolds, OneOwner, WorkersOfOwner, DaemonServes, Owns, OwnerPc,
             TimedOut
  <1>17. ASSUME NEW p \in Proc, WaitReturns(p) PROVE Parts'
    BY <1>17
       DEF WaitReturns, Goto, MutexInv, TypeOK, OwnerHolds, OneOwner,
           WorkersOfOwner, DaemonServes, Owns, OwnerPc, TimedOut, clientVars,
           serverVars, Daemon, Check, Status
  <1>18. ASSUME NEW p \in Proc, WaitTimesOut(p) PROVE Parts'
    BY <1>18
       DEF WaitTimesOut, Goto, MutexInv, TypeOK, OwnerHolds, OneOwner,
           WorkersOfOwner, DaemonServes, Owns, OwnerPc, TimedOut, clientVars,
           serverVars, Daemon, Check, Status
  <1>19. ASSUME NEW p \in Proc, Releases(p) PROVE Parts'
    BY <1>19
       DEF Releases, Goto, MutexInv, TypeOK, OwnerHolds, OneOwner,
           WorkersOfOwner, DaemonServes, Owns, OwnerPc, TimedOut, clientVars,
           serverVars, Daemon, Check, Status
  <1>20. ASSUME NEW p \in Proc, Exits(p) PROVE Parts'
    BY <1>20, ExitKeepsMutexInv
       DEF Exits, MutexInv, TypeOK, OwnerHolds, OneOwner, WorkersOfOwner,
           DaemonServes, Owns, OwnerPc, TimedOut, clientVars, serverVars,
           Daemon, Check, Status
  <1>21. ASSUME NEW p \in Proc, LeavesLoop(p) PROVE Parts'
    BY <1>21
       DEF LeavesLoop, ServerGoto, MutexInv, TypeOK, OwnerHolds, OneOwner,
           WorkersOfOwner, DaemonServes, Owns, OwnerPc, TimedOut, clientVars,
           serverVars, Daemon, Check, Status
  <1>22. ASSUME NEW p \in Proc, EntersLoop(p) PROVE Parts'
    BY <1>22
       DEF EntersLoop, ServerGoto, MutexInv, TypeOK, OwnerHolds, OneOwner,
           WorkersOfOwner, DaemonServes, Owns, OwnerPc, TimedOut, clientVars,
           serverVars, Daemon, Check, Status
  <1>23. ASSUME NEW p \in Proc, CreatesPipe(p) PROVE Parts'
    BY <1>23
       DEF CreatesPipe, ServerGoto, MutexInv, TypeOK, OwnerHolds, OneOwner,
           WorkersOfOwner, DaemonServes, Owns, OwnerPc, TimedOut, clientVars,
           serverVars, Daemon, Check, Status
  <1>24. ASSUME NEW p \in Proc, CreateFails(p) PROVE Parts'
    BY <1>24
       DEF CreateFails, ServerFails, ServerGoto, MutexInv, TypeOK, OwnerHolds,
           OneOwner, WorkersOfOwner, DaemonServes, Owns, OwnerPc, TimedOut,
           clientVars, serverVars, Daemon, Check, Status
  <1>25. ASSUME NEW p \in Proc, TakesSlot(p) PROVE Parts'
    BY <1>25
       DEF TakesSlot, ServerGoto, MutexInv, TypeOK, OwnerHolds, OneOwner,
           WorkersOfOwner, DaemonServes, Owns, OwnerPc, TimedOut, clientVars,
           serverVars, Daemon, Check, Status
  <1>26. ASSUME NEW p \in Proc, ConnectReturns(p) PROVE Parts'
    BY <1>26
       DEF ConnectReturns, ServerGoto, MutexInv, TypeOK, OwnerHolds, OneOwner,
           WorkersOfOwner, DaemonServes, Owns, OwnerPc, TimedOut, clientVars,
           serverVars, Daemon, Check, Status
  <1>27. ASSUME NEW p \in Proc, ConnectFails(p) PROVE Parts'
    BY <1>27
       DEF ConnectFails, ServerFails, ServerGoto, MutexInv, TypeOK,
           OwnerHolds, OneOwner, WorkersOfOwner, DaemonServes, Owns, OwnerPc,
           TimedOut, clientVars, serverVars, Daemon, Check, Status
  <1>28. ASSUME NEW p \in Proc, ReleasesSlot(p) PROVE Parts'
    BY <1>28
       DEF ReleasesSlot, ServerGoto, MutexInv, TypeOK, OwnerHolds, OneOwner,
           WorkersOfOwner, DaemonServes, Owns, OwnerPc, TimedOut, clientVars,
           serverVars, Daemon, Check, Status
  <1>29. ASSUME NEW p \in Proc, ChecksContext(p) PROVE Parts'
    BY <1>29
       DEF ChecksContext, ServerGoto, MutexInv, TypeOK, OwnerHolds, OneOwner,
           WorkersOfOwner, DaemonServes, Owns, OwnerPc, TimedOut, clientVars,
           serverVars, Daemon, Check, Status
  <1>30. ASSUME NEW p \in Proc, ReadsRequest(p) PROVE Parts'
    BY <1>30
       DEF ReadsRequest, ServerGoto, MutexInv, TypeOK, OwnerHolds, OneOwner,
           WorkersOfOwner, DaemonServes, Owns, OwnerPc, TimedOut, clientVars,
           serverVars, Daemon, Check, Status
  <1>31. ASSUME NEW p \in Proc, ReadFails(p) PROVE Parts'
    BY <1>31
       DEF ReadFails, ServerFails, ServerGoto, MutexInv, TypeOK, OwnerHolds,
           OneOwner, WorkersOfOwner, DaemonServes, Owns, OwnerPc, TimedOut,
           clientVars, serverVars, Daemon, Check, Status
  <1>32. ASSUME NEW p \in Proc, Handles(p) PROVE Parts'
    BY <1>32
       DEF Handles, ServerGoto, MutexInv, TypeOK, OwnerHolds, OneOwner,
           WorkersOfOwner, DaemonServes, Owns, OwnerPc, TimedOut, clientVars,
           serverVars, Daemon, Check, Status
  <1>33. ASSUME NEW p \in Proc, WritesAnswer(p) PROVE Parts'
    BY <1>33
       DEF WritesAnswer, ServerGoto, ServerFails, MutexInv, TypeOK,
           OwnerHolds, OneOwner, WorkersOfOwner, DaemonServes, Owns, OwnerPc,
           TimedOut, clientVars, serverVars, Daemon, Check, Status
  <1>34. ASSUME NEW p \in Proc, SleepEnds(p) PROVE Parts'
    BY <1>34
       DEF SleepEnds, ServerGoto, MutexInv, TypeOK, OwnerHolds, OneOwner,
           WorkersOfOwner, DaemonServes, Owns, OwnerPc, TimedOut, clientVars,
           serverVars, Daemon, Check, Status
  <1>35. ASSUME NEW p \in Proc, CancelCloses(p) PROVE Parts'
    BY <1>35
       DEF CancelCloses, MutexInv, TypeOK, OwnerHolds, OneOwner,
           WorkersOfOwner, DaemonServes, Owns, OwnerPc, TimedOut, clientVars,
           serverVars, Daemon, Check, Status
  <1>36. ASSUME NEW p \in Proc, WorkersEnd(p) PROVE Parts'
    BY <1>36
       DEF WorkersEnd, MutexInv, TypeOK, OwnerHolds, OneOwner, WorkersOfOwner,
           DaemonServes, Owns, OwnerPc, TimedOut, clientVars, serverVars,
           Daemon, Check, Status
  <1>37. ASSUME NEW p \in Proc, Starts(p) PROVE Parts'
    BY <1>37
       DEF Starts, Goto, Entrance, MutexInv, TypeOK, OwnerHolds, OneOwner,
           WorkersOfOwner, DaemonServes, Owns, OwnerPc, TimedOut, clientVars,
           serverVars, Daemon, Check, Status
  <1>38. ASSUME NEW p \in Proc, Killed(p) PROVE Parts'
    BY <1>38, ExitKeepsMutexInv
       DEF Killed, MutexInv, TypeOK, OwnerHolds, OneOwner, WorkersOfOwner,
           DaemonServes, Owns, OwnerPc, TimedOut, clientVars, serverVars,
           Daemon, Check, Status
  <1>39. ASSUME NEW p \in Proc, Cancelled(p) PROVE Parts'
    BY <1>39
       DEF Cancelled, MutexInv, TypeOK, OwnerHolds, OneOwner, WorkersOfOwner,
           DaemonServes, Owns, OwnerPc, TimedOut, clientVars, serverVars,
           Daemon, Check, Status
  <1>40. ASSUME NEW p \in Proc, FindsWork(p) PROVE Parts'
    BY <1>40
       DEF FindsWork, MutexInv, TypeOK, OwnerHolds, OneOwner, WorkersOfOwner,
           DaemonServes, Owns, OwnerPc, TimedOut, clientVars, serverVars,
           Daemon, Check, Status
  <1>41. ASSUME UNCHANGED vars PROVE Parts'
    BY <1>41
       DEF vars, MutexInv, OwnerHolds, OneOwner, WorkersOfOwner, DaemonServes, Owns, TimedOut,
           clientVars, serverVars
  <1>42. Parts'
    BY <1>1, <1>2, <1>3, <1>4, <1>5, <1>6, <1>7, <1>8, <1>9, <1>10, <1>11,
       <1>12, <1>13, <1>14, <1>15, <1>16, <1>17, <1>18, <1>19, <1>20, <1>21,
       <1>22, <1>23, <1>24, <1>25, <1>26, <1>27, <1>28, <1>29, <1>30, <1>31,
       <1>32, <1>33, <1>34, <1>35, <1>36, <1>37, <1>38, <1>39, <1>40, <1>41
       DEF Next, MainStep, ClientStep, EntryStep, OwnerStep, ServerStep, HostStep
  <1> QED
    BY <1>0, <1>42 DEF MutexInv

LEMMA MutexInvInit == Init => MutexInv
  <1> SUFFICES ASSUME Init PROVE MutexInv
    OBVIOUS
  <1>1. TypeOK
    BY ProcessAssumption DEF Init, TypeOK, MainPc, ServerPc, Command
  <1>2. OwnerHolds /\ OneOwner /\ WorkersOfOwner /\ DaemonServes
    BY ProcessAssumption
       DEF Init, OwnerHolds, OneOwner, WorkersOfOwner, DaemonServes, Owns, OwnerPc, Command
  <1> QED
    BY <1>1, <1>2 DEF MutexInv

\* Two processes never have recoveries under way at once, unless one of them is a
\* daemon whose Shutdown has timed out.
THEOREM MutexKeepsOneOperating == Spec => []OneProcessOperates
  <1>1. Init => MutexInv
    BY MutexInvInit
  <1>2. MutexInv /\ [Next]_vars => MutexInv'
    BY MutexInvStep
  <1>3. MutexInv => OneProcessOperates
    BY DEF MutexInv, TypeOK, WorkersOfOwner, OneOwner, OneProcessOperates
  <1> QED
    BY <1>1, <1>2, <1>3, PTL DEF Spec

-----------------------------------------------------------------------------
(***************************************************************************)
(* The strengthening of HandleIsOwned                                      *)
(***************************************************************************)

\* Once ConnectNamedPipe has returned, nobody but the cancel goroutine closes the
\* handle, and that one does so only after the cancel.
ConnectedUntilCancel ==
    \A p \in Proc : spc[p] \in {"unslot", "checkctx"} /\ p \notin ctxDone => pipe[p] = "connected"

SlotIsEmpty == \A p \in Proc : spc[p] = "checkctx" => p \notin slot

HandleInv == TypeOK /\ ConnectedUntilCancel /\ SlotIsEmpty /\ HandleIsOwned

\* Most steps are none of the server's business.
LEMMA OthersKeepHandle ==
    ASSUME HandleInv, UNCHANGED <<spc, pipe, slot, ctxDone>>
    PROVE  ConnectedUntilCancel' /\ SlotIsEmpty' /\ HandleIsOwned'
  BY DEF HandleInv, ConnectedUntilCancel, SlotIsEmpty, HandleIsOwned

\* With the process goes its server.
LEMMA ExitKeepsHandle ==
    ASSUME HandleInv, NEW p \in Proc, Exit(p)
    PROVE  ConnectedUntilCancel' /\ SlotIsEmpty' /\ HandleIsOwned'
  BY DEF HandleInv, TypeOK, ConnectedUntilCancel, SlotIsEmpty, HandleIsOwned, Exit

LEMMA HandleInvStep == HandleInv /\ [Next]_vars => HandleInv'
  <1> SUFFICES ASSUME HandleInv, [Next]_vars PROVE HandleInv'
    OBVIOUS
  <1> DEFINE Parts == ConnectedUntilCancel /\ SlotIsEmpty /\ HandleIsOwned
  <1>1. TypeOK'
    BY TypeOKStep DEF HandleInv
  <1>2. ASSUME NEW p \in Proc, ClientStep(p) PROVE Parts'
    <2>1. CASE Connects(p)
      BY <2>1 DEF Connects, HandleInv, TypeOK, ConnectedUntilCancel, SlotIsEmpty, HandleIsOwned
    <2>2. CASE UNCHANGED <<spc, pipe, slot, ctxDone>>
      BY <2>2, OthersKeepHandle
    <2>3. CASE Exit(p)
      BY <2>3, ExitKeepsHandle
    <2> QED
      BY <1>2, <2>1, <2>2, <2>3
         DEF ClientStep, FindsNoPipe, FindsBusy, IsRefused, WritesRequest, ReadsAnswer, serverVars
  <1>3. ASSUME NEW p \in Proc, EntryStep(p) PROVE Parts'
    <2>1. CASE UNCHANGED <<spc, pipe, slot, ctxDone>>
      BY <2>1, OthersKeepHandle
    <2>2. CASE Exit(p)
      BY <2>2, ExitKeepsHandle
    <2> QED
      BY <1>3, <2>1, <2>2
         DEF EntryStep, LoadsConfig, IsElevated, Relaunches, IsDenied, Acquires, FindsMutex,
             GivesUp, serverVars
  <1>4. ASSUME NEW p \in Proc, OwnerStep(p) PROVE Parts'
    <2>1. CASE StartsServer(p)
      BY <2>1
         DEF StartsServer, HandleInv, TypeOK, ConnectedUntilCancel, SlotIsEmpty, HandleIsOwned
    <2>2. CASE UNCHANGED <<spc, pipe, slot, ctxDone>>
      BY <2>2, OthersKeepHandle
    <2>3. CASE Exit(p)
      BY <2>3, ExitKeepsHandle
    <2> QED
      BY <1>4, <2>1, <2>2, <2>3
         DEF OwnerStep, ShutsDown, Scans, WaitReturns, WaitTimesOut, Releases, Exits, serverVars
  <1>5. ASSUME NEW p \in Proc, HostStep(p) PROVE Parts'
    <2>1. CASE Cancelled(p)
      BY <2>1
         DEF Cancelled, serverVars, HandleInv, ConnectedUntilCancel, SlotIsEmpty, HandleIsOwned
    <2>2. CASE UNCHANGED <<spc, pipe, slot, ctxDone>>
      BY <2>2, OthersKeepHandle
    <2>3. CASE Exit(p)
      BY <2>3, ExitKeepsHandle
    <2> QED
      BY <1>5, <2>1, <2>2, <2>3 DEF HostStep, Starts, Killed, FindsWork, serverVars
  <1>6. ASSUME NEW p \in Proc, WorkersEnd(p) PROVE Parts'
    BY <1>6, OthersKeepHandle DEF WorkersEnd, serverVars
  <1>7. ASSUME NEW p \in Proc, CancelCloses(p) PROVE Parts'
    BY <1>7
       DEF CancelCloses, ClosePipe, HandleInv, TypeOK, ConnectedUntilCancel, SlotIsEmpty,
           HandleIsOwned
  <1>8. ASSUME NEW p \in Proc, ServerStep(p) PROVE Parts'
    <2> USE DEF ServerGoto, ServerFails, ClosePipe, HandleInv, TypeOK, ConnectedUntilCancel,
                SlotIsEmpty, HandleIsOwned
    <2>1. CASE LeavesLoop(p)
      BY <2>1 DEF LeavesLoop
    <2>2. CASE EntersLoop(p)
      BY <2>2 DEF EntersLoop
    <2>3. CASE CreatesPipe(p)
      BY <2>3 DEF CreatesPipe
    <2>4. CASE CreateFails(p)
      BY <2>4 DEF CreateFails
    <2>5. CASE TakesSlot(p)
      BY <2>5 DEF TakesSlot
    <2>6. CASE ConnectReturns(p)
      BY <2>6 DEF ConnectReturns
    <2>7. CASE ConnectFails(p)
      BY <2>7 DEF ConnectFails
    <2>8. CASE ReleasesSlot(p)
      BY <2>8 DEF ReleasesSlot
    <2>9. CASE ChecksContext(p)
      BY <2>9 DEF ChecksContext
    <2>10. CASE ReadsRequest(p)
      BY <2>10 DEF ReadsRequest
    <2>11. CASE ReadFails(p)
      BY <2>11 DEF ReadFails
    <2>12. CASE Handles(p)
      BY <2>12 DEF Handles
    <2>13. CASE WritesAnswer(p)
      BY <2>13 DEF WritesAnswer
    <2>14. CASE SleepEnds(p)
      BY <2>14 DEF SleepEnds
    <2> QED
      BY <1>8, <2>1, <2>2, <2>3, <2>4, <2>5, <2>6, <2>7, <2>8, <2>9, <2>10,
         <2>11, <2>12, <2>13, <2>14
         DEF ServerStep
  <1>9. ASSUME UNCHANGED vars PROVE Parts'
    BY <1>9, OthersKeepHandle DEF vars, serverVars
  <1>10. Parts'
    BY <1>2, <1>3, <1>4, <1>5, <1>6, <1>7, <1>8, <1>9 DEF Next, MainStep
  <1> QED
    BY <1>1, <1>10 DEF HandleInv

\* The server reads and writes no handle that the cancel goroutine has closed or
\* may still close.
THEOREM HandlesStayOwned == Spec => []HandleIsOwned
  <1>1. Init => HandleInv
    <2> SUFFICES ASSUME Init PROVE HandleInv
      OBVIOUS
    <2>1. TypeOK
      BY ProcessAssumption DEF Init, TypeOK, MainPc, ServerPc, Command
    <2> QED
      BY <2>1 DEF Init, HandleInv, ConnectedUntilCancel, SlotIsEmpty, HandleIsOwned
  <1>2. HandleInv => HandleIsOwned
    BY DEF HandleInv
  <1> QED
    BY <1>1, <1>2, HandleInvStep, PTL DEF Spec
=============================================================================
