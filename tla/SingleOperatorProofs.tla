------------------------ MODULE SingleOperatorProofs ------------------------
(***************************************************************************)
(* Processes implements SingleOperator: every step of the processes is one *)
(* of the operator's, an exit, or nothing that can be seen of the work on  *)
(* devices.                                                                *)
(***************************************************************************)
EXTENDS ProcessesProofs

(***************************************************************************)
(* Who has been told to stop                                               *)
(***************************************************************************)

\* Only a daemon that serves is cancelled, and nothing leads it back from there.
CancelledServed == \A p \in ctxDone : pc[p] \in {"serve", "wait", "release", "exit"}

OperatorInv == MutexInv /\ CancelledServed

LEMMA OperatorInvInit == Init => OperatorInv
  BY MutexInvInit DEF Init, OperatorInv, CancelledServed

\* A step of one process that leaves the contexts alone.
LEMMA CancelledFrame ==
    ASSUME OperatorInv, NEW p \in Proc, UNCHANGED ctxDone,
           \A q \in Proc \ {p} : pc'[q] = pc[q],
           pc'[p] = pc[p] \/ p \notin ctxDone \/ pc'[p] \in {"serve", "wait", "release", "exit"}
    PROVE  CancelledServed'
  BY DEF OperatorInv, MutexInv, TypeOK, CancelledServed

LEMMA ExitKeepsCancelled ==
    ASSUME OperatorInv, NEW p \in Proc, Exit(p)
    PROVE  CancelledServed'
  BY DEF OperatorInv, MutexInv, TypeOK, CancelledServed, Exit, Goto

\* A process elsewhere in main has not been cancelled.
LEMMA NotCancelled ==
    ASSUME OperatorInv, NEW p \in Proc, pc[p] \notin {"serve", "wait", "release", "exit"}
    PROVE  p \notin ctxDone
  BY DEF OperatorInv, CancelledServed

LEMMA OperatorInvStep == OperatorInv /\ [Next]_vars => OperatorInv'
  <1> SUFFICES ASSUME OperatorInv, [Next]_vars PROVE OperatorInv'
    OBVIOUS
  <1>1. MutexInv'
    BY MutexInvStep DEF OperatorInv
  <1>2. pc \in [Proc -> MainPc]
    BY DEF OperatorInv, MutexInv, TypeOK
  <1>3. ASSUME NEW p \in Proc, ClientStep(p) PROVE CancelledServed'
    <2>1. CASE Exit(p)
      BY <2>1, ExitKeepsCancelled
    <2>2. CASE ~Exit(p)
      <3>1. pc[p] \in {"call", "write", "read"}
        BY <1>3
           DEF ClientStep, Connects, FindsNoPipe, FindsBusy, IsRefused, WritesRequest, ReadsAnswer
      <3>2. UNCHANGED ctxDone /\ \A q \in Proc \ {p} : pc'[q] = pc[q]
        BY <1>2, <1>3, <2>2
           DEF ClientStep, Connects, FindsNoPipe, FindsBusy, IsRefused, WritesRequest, ReadsAnswer,
               Goto
      <3> QED
        BY <3>1, <3>2, NotCancelled, CancelledFrame
    <2> QED
      BY <2>1, <2>2
  <1>4. ASSUME NEW p \in Proc, EntryStep(p) PROVE CancelledServed'
    <2>1. CASE Exit(p)
      BY <2>1, ExitKeepsCancelled
    <2>2. CASE ~Exit(p)
      <3>1. pc[p] \in {"config", "elevate", "acquire", "refused"}
        BY <1>4
           DEF EntryStep, LoadsConfig, IsElevated, Relaunches, IsDenied, Acquires, FindsMutex,
               GivesUp
      <3>2. UNCHANGED ctxDone /\ \A q \in Proc \ {p} : pc'[q] = pc[q]
        BY <1>2, <1>4, <2>2
           DEF EntryStep, LoadsConfig, IsElevated, Relaunches, IsDenied, Acquires, FindsMutex,
               GivesUp, Goto
      <3> QED
        BY <3>1, <3>2, NotCancelled, CancelledFrame
    <2> QED
      BY <2>1, <2>2
  <1>5. ASSUME NEW p \in Proc, OwnerStep(p) PROVE CancelledServed'
    <2>1. CASE Exit(p)
      BY <2>1, ExitKeepsCancelled
    <2>2. CASE ~Exit(p)
      <3>1. /\ UNCHANGED ctxDone
            /\ \A q \in Proc \ {p} : pc'[q] = pc[q]
            /\ pc'[p] \in {"serve", "wait", "release", "exit"}
        BY <1>2, <1>5, <2>2
           DEF OwnerStep, StartsServer, ShutsDown, Scans, WaitReturns, WaitTimesOut, Releases,
               Exits, Goto
      <3> QED
        BY <3>1, CancelledFrame
    <2> QED
      BY <2>1, <2>2
  <1>6. ASSUME NEW p \in Proc, HostStep(p) PROVE CancelledServed'
    <2>1. CASE Starts(p)
      <3>1. /\ UNCHANGED ctxDone
            /\ \A q \in Proc \ {p} : pc'[q] = pc[q]
            /\ pc[p] = "off"
        BY <1>2, <2>1 DEF Starts, Goto
      <3> QED
        BY <3>1, NotCancelled, CancelledFrame
    <2>2. CASE Killed(p)
      BY <2>2, ExitKeepsCancelled DEF Killed
    <2>3. CASE Cancelled(p)
      BY <2>3 DEF Cancelled, OperatorInv, CancelledServed
    <2>4. CASE FindsWork(p)
      BY <2>4 DEF FindsWork, OperatorInv, CancelledServed
    <2> QED
      BY <1>6, <2>1, <2>2, <2>3, <2>4 DEF HostStep
  <1>7. ASSUME NEW p \in Proc, ServerStep(p) \/ CancelCloses(p) \/ WorkersEnd(p)
        PROVE  UNCHANGED <<pc, ctxDone>>
    BY <1>7
       DEF ServerStep, LeavesLoop, EntersLoop, CreatesPipe, CreateFails, TakesSlot, ConnectReturns,
           ConnectFails, ReleasesSlot, ChecksContext, ReadsRequest, ReadFails, Handles,
           WritesAnswer, SleepEnds, CancelCloses, WorkersEnd
  <1>8. CASE UNCHANGED <<pc, ctxDone>>
    BY <1>1, <1>8 DEF OperatorInv, CancelledServed
  <1> QED
    BY <1>1, <1>3, <1>4, <1>5, <1>6, <1>7, <1>8 DEF OperatorInv, Next, MainStep, vars

(***************************************************************************)
(* Who the operator is                                                     *)
(***************************************************************************)

LEMMA OwnerIs ==
    ASSUME MutexInv, NEW p \in Proc, Owns(p)
    PROVE  Owner = p
  <1>1. \A q \in Proc : Owns(q) => q = p
    BY DEF MutexInv, OneOwner
  <1> QED
    BY <1>1 DEF Owner

LEMMA OwnerIsNext ==
    ASSUME MutexInv', NEW p \in Proc, Owns(p)'
    PROVE  Owner' = p
  <1>1. \A q \in Proc : Owns(q)' => q = p
    BY DEF MutexInv, OneOwner
  <1> QED
    BY <1>1 DEF Owner

\* A process that is not the owner is not the operator.
LEMMA OwnerOwns ==
    ASSUME NEW p \in Proc, ~Owns(p)
    PROVE  Owner # p
  BY ProcessAssumption DEF Owner

\* A step that makes nobody the owner, and leaves nobody without it.
LEMMA OwnerStays ==
    ASSUME MutexInv, MutexInv', \A q \in Proc : Owns(q)' <=> Owns(q)
    PROVE  Owner' = Owner
  <1>1. CASE \E p \in Proc : Owns(p)
    BY <1>1, OwnerIs, OwnerIsNext
  <1>2. CASE \A p \in Proc : ~Owns(p)
    BY <1>2 DEF Owner
  <1> QED
    BY <1>1, <1>2

(***************************************************************************)
(* Every step is allowed                                                   *)
(***************************************************************************)

LEMMA QuietIsAllowed ==
    ASSUME OperatorInv, OperatorInv', \A q \in Proc : Owns(q)' <=> Owns(q),
           UNCHANGED <<working, ctxDone>>
    PROVE  UNCHANGED Singleton!vars
  BY OwnerStays DEF OperatorInv, Singleton!vars

LEMMA ExitIsAllowed ==
    ASSUME OperatorInv, OperatorInv', NEW p \in Proc, Exit(p)
    PROVE  Singleton!IsGone(p)
  <1>1. \A q \in Proc \ {p} : Owns(q)' <=> Owns(q)
    BY DEF Exit, Goto, Owns, OperatorInv, MutexInv, TypeOK
  <1>2. ~Owns(p)'
    BY DEF Exit, Goto, Owns, OwnerPc, OperatorInv, MutexInv, TypeOK
  <1>3. Owner' = IF Owner = p THEN None ELSE Owner
    <2>1. CASE Owns(p)
      <3>1. Owner = p
        BY <2>1, OwnerIs DEF OperatorInv
      <3>2. \A q \in Proc : ~Owns(q)'
        BY <1>1, <1>2, <2>1 DEF OperatorInv, MutexInv, OneOwner
      <3>3. Owner' = None
        BY <3>2 DEF Owner
      <3> QED
        BY <3>1, <3>3
    <2>2. CASE ~Owns(p)
      BY <1>1, <1>2, <2>2, OwnerStays, OwnerOwns DEF OperatorInv
    <2> QED
      BY <2>1, <2>2
  <1> QED
    BY <1>3 DEF Exit, Singleton!IsGone

LEMMA AcquiresIsAllowed ==
    ASSUME OperatorInv, OperatorInv', NEW p \in Proc, Acquires(p)
    PROVE  Singleton!TakesOver(p)
  <1>1. Owner = None
    BY DEF Acquires, Owner, OperatorInv, MutexInv, OwnerHolds
  <1>2. Owner' = p
    BY OwnerIsNext DEF Acquires, Goto, Owns, OwnerPc, OperatorInv, MutexInv, TypeOK
  <1>3. p \notin working
    BY DEF Acquires, OperatorInv, MutexInv, WorkersOfOwner, Owns, OwnerPc, TimedOut
  <1>4. p \notin ctxDone
    BY NotCancelled DEF Acquires
  <1> QED
    BY <1>1, <1>2, <1>3, <1>4 DEF Acquires, Singleton!TakesOver

\* Releases passes the mutex on: its workers have ended, or the daemon has been
\* cancelled.
LEMMA ReleasesIsAllowed ==
    ASSUME OperatorInv, OperatorInv', NEW p \in Proc, Releases(p)
    PROVE  Singleton!HandsOver(p)
  <1>1. Owner = p
    BY OwnerIs DEF Releases, Owns, OwnerPc, OperatorInv
  <1>2. \A q \in Proc : ~Owns(q)'
    BY DEF Releases, Goto, Owns, OwnerPc, OperatorInv, MutexInv, TypeOK, OneOwner
  <1>3. Owner' = None
    BY <1>2 DEF Owner
  <1>4. p \in working => p \in ctxDone
    BY DEF Releases, OperatorInv, MutexInv, WorkersOfOwner, DaemonServes
  <1> QED
    BY <1>1, <1>3, <1>4 DEF Releases, Singleton!HandsOver

\* Work begins with the start-up scan, an event or a check of the owner's.
LEMMA WorkIsAllowed ==
    ASSUME OperatorInv, OperatorInv', NEW p \in Proc,
           \A q \in Proc : Owns(q)' <=> Owns(q),
           Owns(p), p \notin ctxDone,
           working' = working \union {p}, UNCHANGED ctxDone
    PROVE  Singleton!BeginsWork(p)
  BY OwnerIs, OwnerStays DEF OperatorInv, Singleton!BeginsWork

LEMMA ScansIsAllowed ==
    ASSUME OperatorInv, OperatorInv', NEW p \in Proc, Scans(p)
    PROVE  Singleton!BeginsWork(p) \/ UNCHANGED Singleton!vars
  <1>1. \A q \in Proc : Owns(q)' <=> Owns(q)
    BY DEF Scans, Goto, Owns, OwnerPc, OperatorInv, MutexInv, TypeOK
  <1>2. Owns(p)
    BY DEF Scans, Owns, OwnerPc
  <1>3. p \notin ctxDone
    BY NotCancelled DEF Scans
  <1>4. CASE working' = working \union {p}
    BY <1>1, <1>2, <1>3, <1>4, WorkIsAllowed DEF Scans
  <1>5. CASE working' = working
    BY <1>1, <1>5, QuietIsAllowed DEF Scans
  <1> QED
    BY <1>4, <1>5 DEF Scans

\* A check that comes through the pipe begins work for the owner only.
LEMMA HandlesIsAllowed ==
    ASSUME OperatorInv, OperatorInv', NEW p \in Proc, Handles(p)
    PROVE  Singleton!BeginsWork(p) \/ UNCHANGED Singleton!vars
  <1>1. \A q \in Proc : Owns(q)' <=> Owns(q)
    BY DEF Handles, Owns
  <1>2. CASE UNCHANGED working
    BY <1>1, <1>2, QuietIsAllowed DEF Handles
  <1>3. CASE p \notin ctxDone /\ working' = working \union {p}
    <2>1. Owns(p)
      BY <1>3 DEF Handles, Owns, OwnerPc, OperatorInv, MutexInv, DaemonServes
    <2> QED
      BY <1>1, <1>3, <2>1, WorkIsAllowed DEF Handles
  <1> QED
    BY <1>2, <1>3 DEF Handles

\* A step of main that is neither the end of the process nor a move of the mutex.
LEMMA MainIsAllowed ==
    ASSUME OperatorInv, OperatorInv', NEW p \in Proc, MainStep(p)
    PROVE  Singleton!Next \/ UNCHANGED Singleton!vars
  <1>1. CASE Exit(p)
    BY <1>1, ExitIsAllowed DEF Singleton!Next
  <1>2. CASE Acquires(p)
    BY <1>2, AcquiresIsAllowed DEF Singleton!Next
  <1>3. CASE Releases(p)
    BY <1>3, ReleasesIsAllowed DEF Singleton!Next
  <1>4. CASE Scans(p)
    BY <1>4, ScansIsAllowed DEF Singleton!Next
  <1>5. ASSUME ~Exit(p), ~Acquires(p), ~Releases(p), ~Scans(p)
        PROVE  UNCHANGED Singleton!vars
    <2>1. pc \in [Proc -> MainPc]
      BY DEF OperatorInv, MutexInv, TypeOK
    <2>2. CASE ClientStep(p)
      <3>1. UNCHANGED <<working, ctxDone>> /\ \A q \in Proc : Owns(q)' <=> Owns(q)
        BY <1>5, <2>1, <2>2
           DEF ClientStep, Connects, FindsNoPipe, FindsBusy, IsRefused, WritesRequest, ReadsAnswer,
               Goto, Owns, OwnerPc
      <3> QED
        BY <3>1, QuietIsAllowed
    <2>3. CASE EntryStep(p)
      <3>1. UNCHANGED <<working, ctxDone>> /\ \A q \in Proc : Owns(q)' <=> Owns(q)
        BY <1>5, <2>1, <2>3
           DEF EntryStep, LoadsConfig, IsElevated, Relaunches, IsDenied, FindsMutex, GivesUp, Goto,
               Entrance, Owns, OwnerPc
      <3> QED
        BY <3>1, QuietIsAllowed
    <2>4. CASE OwnerStep(p)
      <3>1. UNCHANGED <<working, ctxDone>> /\ \A q \in Proc : Owns(q)' <=> Owns(q)
        BY <1>5, <2>1, <2>4
           DEF OwnerStep, StartsServer, ShutsDown, WaitReturns, WaitTimesOut, Exits, Goto, Owns,
               OwnerPc
      <3> QED
        BY <3>1, QuietIsAllowed
    <2> QED
      BY <2>2, <2>3, <2>4 DEF MainStep
  <1> QED
    BY <1>1, <1>2, <1>3, <1>4, <1>5

\* The server: only a check that it handles is seen.
LEMMA ServerIsAllowed ==
    ASSUME OperatorInv, OperatorInv', NEW p \in Proc, ServerStep(p)
    PROVE  Singleton!Next \/ UNCHANGED Singleton!vars
  <1>1. CASE Handles(p)
    BY <1>1, HandlesIsAllowed DEF Singleton!Next
  <1>2. CASE ~Handles(p)
    <2>1. UNCHANGED <<pc, working, ctxDone>>
      BY <1>2
         DEF ServerStep, LeavesLoop, EntersLoop, CreatesPipe, CreateFails, TakesSlot,
             ConnectReturns, ConnectFails, ReleasesSlot, ChecksContext, ReadsRequest, ReadFails,
             WritesAnswer, SleepEnds
    <2> QED
      BY <2>1, QuietIsAllowed DEF Owns
  <1> QED
    BY <1>1, <1>2

\* Starts, kills, cancels and the scans of a daemon.
LEMMA HostIsAllowed ==
    ASSUME OperatorInv, OperatorInv', NEW p \in Proc, HostStep(p)
    PROVE  Singleton!Next \/ UNCHANGED Singleton!vars
  <1>1. CASE Starts(p)
    <2>1. UNCHANGED <<working, ctxDone>> /\ \A q \in Proc : Owns(q)' <=> Owns(q)
      BY <1>1 DEF Starts, Goto, Entrance, Owns, OwnerPc, OperatorInv, MutexInv, TypeOK
    <2> QED
      BY <2>1, QuietIsAllowed
  <1>2. CASE Killed(p)
    BY <1>2, ExitIsAllowed DEF Killed, Singleton!Next
  <1>3. CASE Cancelled(p)
    <2>1. Owns(p) /\ \A q \in Proc : Owns(q)' <=> Owns(q)
      BY <1>3 DEF Cancelled, Owns, OwnerPc
    <2>2. Singleton!IsToldToStop(p)
      BY <1>3, <2>1, OwnerIs, OwnerStays DEF Cancelled, OperatorInv, Singleton!IsToldToStop
    <2> QED
      BY <2>2 DEF Singleton!Next
  <1>4. CASE FindsWork(p)
    <2>1. Owns(p) /\ \A q \in Proc : Owns(q)' <=> Owns(q)
      BY <1>4 DEF FindsWork, Owns, OwnerPc
    <2>2. Singleton!BeginsWork(p)
      BY <1>4, <2>1, WorkIsAllowed DEF FindsWork
    <2> QED
      BY <2>2 DEF Singleton!Next
  <1> QED
    BY <1>1, <1>2, <1>3, <1>4 DEF HostStep

LEMMA NextIsAllowed ==
    ASSUME OperatorInv, OperatorInv', [Next]_vars
    PROVE  Singleton!Next \/ UNCHANGED Singleton!vars
  <1>1. ASSUME NEW p \in Proc, CancelCloses(p) PROVE UNCHANGED Singleton!vars
    BY <1>1, QuietIsAllowed DEF CancelCloses, Owns
  <1>2. ASSUME NEW p \in Proc, WorkersEnd(p) PROVE Singleton!EndsWork(p)
    BY <1>2, OwnerStays DEF WorkersEnd, Owns, OperatorInv, Singleton!EndsWork
  <1>3. ASSUME UNCHANGED vars PROVE UNCHANGED Singleton!vars
    BY <1>3, QuietIsAllowed DEF vars, Owns
  <1> QED
    BY <1>1, <1>2, <1>3, MainIsAllowed, ServerIsAllowed, HostIsAllowed DEF Next, Singleton!Next

LEMMA InitIsAllowed == Init => Singleton!Init
  BY DEF Init, Singleton!Init, Owner, Owns, OwnerPc

\* The processes of a machine, however many, started, cancelled and killed at any
\* point, keep to SingleOperator.
THEOREM Implements == Spec => ImplementsSingleOperator
  <1>1. OperatorInv /\ [Next]_vars => OperatorInv'
    BY OperatorInvStep
  <1>2. OperatorInv /\ OperatorInv' /\ [Next]_vars => [Singleton!Next]_(Singleton!vars)
    BY NextIsAllowed
  <1> QED
    BY <1>1, <1>2, OperatorInvInit, InitIsAllowed, PTL
       DEF Spec, ImplementsSingleOperator, Singleton!Spec
=============================================================================
