----------------------------- MODULE PipeProofs -----------------------------
(***************************************************************************)
(* Proofs about the pipe of Processes: for any number of processes a       *)
(* server answers the request of the client it is connected to, and a      *)
(* client that got through is answered unless one of the two ends.         *)
(***************************************************************************)
EXTENDS ProcessesProofs

\* A connection has two ends: the client's, from CreateFile to its exit, and an
\* instance that is connected.
PeerIsConnected ==
    \A c \in Proc : conn[c] # None =>
        /\ pipe[conn[c]] = "connected"
        /\ pc[c] \in {"write", "read"}
        /\ pc[c] = "write" => req[conn[c]] = None

OnePeer == \A c, d \in Proc : conn[c] # None /\ conn[c] = conn[d] => c = d

\* Between two instances nothing is left of the last one.
NothingIsLeft ==
    \A p \in Proc : spc[p] \notin Serving => pipe[p] = "none" /\ req[p] = None

\* A client finds a server that has not got beyond ConnectNamedPipe.
ListensAfresh ==
    \A p \in Proc : pipe[p] = "listening" => spc[p] \in {"take", "connect"} /\ req[p] = None

PipeParts == PeerIsConnected /\ OnePeer /\ NothingIsLeft /\ ListensAfresh /\ RequestsMatch

\* The types, and that only a daemon beyond StartIPCServer has a server, come from
\* the invariant of the mutex.
PipeInv == MutexInv /\ PipeParts

LEMMA PipeInvInit == Init => PipeInv
  <1> SUFFICES ASSUME Init PROVE PipeParts
    BY MutexInvInit DEF PipeInv
  <1> QED
    BY DEF Init, PipeParts, PeerIsConnected, OnePeer, NothingIsLeft, ListensAfresh, RequestsMatch,
           Serving

\* Steps outside CallIPC and the server: a process that is in neither of CallIPC's
\* two blocking calls has no connection.
LEMMA OthersKeepPipe ==
    ASSUME PipeInv, NEW p \in Proc, pc[p] \notin {"write", "read"},
           \A c \in Proc \ {p} : pc'[c] = pc[c] /\ cmd'[c] = cmd[c],
           UNCHANGED <<conn, spc, pipe, req>>
    PROVE  PipeParts'
  <1>1. conn[p] = None
    BY DEF PipeInv, PipeParts, PeerIsConnected
  <1> QED
    BY <1>1
       DEF PipeInv, PipeParts, PeerIsConnected, OnePeer, NothingIsLeft, ListensAfresh,
           RequestsMatch

LEMMA StutterKeepsPipe ==
    ASSUME PipeInv, UNCHANGED <<pc, cmd, conn, spc, pipe, req>>
    PROVE  PipeParts'
  BY DEF PipeInv, PipeParts, PeerIsConnected, OnePeer, NothingIsLeft, ListensAfresh, RequestsMatch

\* A process that goes takes its connection as a client and those to its server.
LEMMA ExitKeepsPipe ==
    ASSUME PipeInv, NEW p \in Proc, Exit(p)
    PROVE  PipeParts'
  <1>1. /\ pc \in [Proc -> MainPc] /\ cmd \in [Proc -> Command \union {None}]
        /\ spc \in [Proc -> ServerPc] /\ pipe \in [Proc -> {"none", "listening", "connected"}]
        /\ req \in [Proc -> Command \union {None}] /\ conn \in [Proc -> Proc \union {None}]
    BY DEF PipeInv, MutexInv, TypeOK
  <1>2. /\ pc' = [pc EXCEPT ![p] = "off"] /\ cmd' = [cmd EXCEPT ![p] = None]
        /\ spc' = [spc EXCEPT ![p] = "off"] /\ pipe' = [pipe EXCEPT ![p] = "none"]
        /\ req' = [req EXCEPT ![p] = None]
        /\ conn' = [c \in Proc |-> IF c = p \/ conn[c] = p THEN None ELSE conn[c]]
    BY DEF Exit, Goto
  <1>3. \A c \in Proc : conn'[c] # None =>
            c # p /\ conn'[c] = conn[c] /\ conn[c] # p /\ conn[c] \in Proc
    BY <1>1, <1>2
  <1> QED
    BY <1>1, <1>2, <1>3
       DEF PipeInv, PipeParts, PeerIsConnected, OnePeer, NothingIsLeft, ListensAfresh,
           RequestsMatch, Serving

\* Every step keeps the two ends of a connection in agreement.
LEMMA PipeInvStep == PipeInv /\ [Next]_vars => PipeInv'
  <1> SUFFICES ASSUME PipeInv, [Next]_vars PROVE PipeInv'
    OBVIOUS
  <1>1. MutexInv'
    BY MutexInvStep DEF PipeInv
  <1>2. ASSUME NEW p \in Proc, ClientStep(p) PROVE PipeParts'
    <2> USE DEF PipeInv, MutexInv, TypeOK, PipeParts, PeerIsConnected, OnePeer, NothingIsLeft,
                ListensAfresh, RequestsMatch, Serving
    <2>1. CASE Connects(p)
      BY <2>1, ProcessAssumption DEF Connects, Goto
    <2>2. CASE pc[p] = "write" /\ conn[p] # None /\ WritesRequest(p)
      BY <2>2, ProcessAssumption DEF WritesRequest, Goto, clientVars
    <2>3. CASE Exit(p)
      BY <2>3, ExitKeepsPipe
    <2>4. CASE pc[p] = "call" /\ cmd' = cmd /\ UNCHANGED <<clientVars, serverVars>>
               /\ (pc' = pc \/ Goto(p, "config"))
      BY <2>4, OthersKeepPipe DEF Goto, clientVars, serverVars
    <2>5. CASE FindsBusy(p) /\ ~Exit(p)
      BY <2>5, StutterKeepsPipe DEF FindsBusy, serverVars
    <2> QED
      BY <1>2, <2>1, <2>2, <2>3, <2>4, <2>5
         DEF ClientStep, FindsNoPipe, IsRefused, WritesRequest, ReadsAnswer
  <1>3. ASSUME NEW p \in Proc, EntryStep(p) PROVE PipeParts'
    <2>1. CASE Exit(p)
      BY <2>1, ExitKeepsPipe
    <2>2. CASE ~Exit(p)
      <3>1. pc[p] \notin {"write", "read"} /\ UNCHANGED <<conn, spc, pipe, req>>
        BY <1>3, <2>2
           DEF EntryStep, LoadsConfig, IsElevated, Relaunches, IsDenied, Acquires, FindsMutex,
               GivesUp, clientVars, serverVars
      <3>2. cmd' = cmd /\ \E l : pc' = [pc EXCEPT ![p] = l]
        BY <1>3, <2>2
           DEF EntryStep, LoadsConfig, IsElevated, Relaunches, IsDenied, Acquires, FindsMutex,
               GivesUp, Goto
      <3>3. pc \in [Proc -> MainPc]
        BY DEF PipeInv, MutexInv, TypeOK
      <3> QED
        BY <3>1, <3>2, <3>3, OthersKeepPipe
    <2> QED
      BY <2>1, <2>2
  <1>4. ASSUME NEW p \in Proc, OwnerStep(p) PROVE PipeParts'
    <2>1. CASE Exit(p)
      BY <2>1, ExitKeepsPipe
    <2>2. CASE StartsServer(p)
      <3>1. spc[p] = "off"
        BY <2>2 DEF StartsServer, PipeInv, MutexInv, TypeOK, DaemonServes
      <3> QED
        BY <2>2, <3>1
           DEF StartsServer, Goto, clientVars, PipeInv, MutexInv, TypeOK, PipeParts,
               PeerIsConnected, OnePeer, NothingIsLeft, ListensAfresh, RequestsMatch, Serving
    <2>3. CASE ~Exit(p) /\ ~StartsServer(p)
      <3>1. pc[p] \notin {"write", "read"} /\ UNCHANGED <<conn, spc, pipe, req>>
        BY <1>4, <2>3
           DEF OwnerStep, ShutsDown, Scans, WaitReturns, WaitTimesOut, Releases, Exits,
               clientVars, serverVars
      <3>2. cmd' = cmd /\ \E l : pc' = [pc EXCEPT ![p] = l]
        BY <1>4, <2>3
           DEF OwnerStep, ShutsDown, Scans, WaitReturns, WaitTimesOut, Releases, Exits, Goto
      <3>3. pc \in [Proc -> MainPc]
        BY DEF PipeInv, MutexInv, TypeOK
      <3> QED
        BY <3>1, <3>2, <3>3, OthersKeepPipe
    <2> QED
      BY <2>1, <2>2, <2>3
  <1>5. ASSUME NEW p \in Proc, HostStep(p) PROVE PipeParts'
    <2>1. CASE Starts(p)
      <3>1. pc[p] = "off" /\ UNCHANGED <<conn, spc, pipe, req>>
        BY <2>1 DEF Starts, clientVars, serverVars
      <3>2. \E k, l : cmd' = [cmd EXCEPT ![p] = k] /\ pc' = [pc EXCEPT ![p] = l]
        BY <2>1 DEF Starts, Goto
      <3>3. pc \in [Proc -> MainPc] /\ cmd \in [Proc -> Command \union {None}]
        BY DEF PipeInv, MutexInv, TypeOK
      <3> QED
        BY <3>1, <3>2, <3>3, OthersKeepPipe
    <2>2. CASE Exit(p)
      BY <2>2, ExitKeepsPipe
    <2>3. CASE UNCHANGED <<pc, cmd, conn, spc, pipe, req>>
      BY <2>3, StutterKeepsPipe
    <2> QED
      BY <1>5, <2>1, <2>2, <2>3 DEF HostStep, Killed, Cancelled, FindsWork, clientVars, serverVars
  <1>6. ASSUME NEW p \in Proc, WorkersEnd(p) PROVE PipeParts'
    BY <1>6, StutterKeepsPipe DEF WorkersEnd, clientVars, serverVars
  <1>7. ASSUME NEW p \in Proc, CancelCloses(p) PROVE PipeParts'
    BY <1>7
       DEF CancelCloses, ClosePipe, PipeInv, MutexInv, TypeOK, PipeParts, PeerIsConnected,
           OnePeer, NothingIsLeft, ListensAfresh, RequestsMatch, Serving
  <1>8. ASSUME NEW p \in Proc, ServerStep(p) PROVE PipeParts'
    <2> USE DEF ServerGoto, ServerFails, ClosePipe, Peer, clientVars, PipeInv, MutexInv, TypeOK,
                PipeParts, PeerIsConnected, OnePeer, NothingIsLeft, ListensAfresh, RequestsMatch,
                Serving
    <2>1. CASE LeavesLoop(p)
      BY <2>1 DEF LeavesLoop
    <2>2. CASE EntersLoop(p)
      BY <2>2 DEF EntersLoop
    <2>3. CASE CreatesPipe(p)
      BY <2>3 DEF CreatesPipe
    <2>4. CASE CreateFails(p)
      BY <2>4 DEF CreateFails
    <2>5. CASE TakesSlot(p)
      BY <2>5 DEF TakesSlot
    <2>6. CASE ConnectReturns(p)
      BY <2>6 DEF ConnectReturns
    <2>7. CASE ConnectFails(p)
      BY <2>7 DEF ConnectFails
    <2>8. CASE ReleasesSlot(p)
      BY <2>8 DEF ReleasesSlot
    <2>9. CASE ChecksContext(p)
      BY <2>9 DEF ChecksContext
    <2>10. CASE ReadsRequest(p)
      BY <2>10 DEF ReadsRequest
    <2>11. CASE ReadFails(p)
      BY <2>11 DEF ReadFails
    <2>12. CASE Handles(p)
      BY <2>12 DEF Handles
    <2>13. CASE WritesAnswer(p)
      BY <2>13 DEF WritesAnswer
    <2>14. CASE SleepEnds(p)
      BY <2>14 DEF SleepEnds
    <2> QED
      BY <1>8, <2>1, <2>2, <2>3, <2>4, <2>5, <2>6, <2>7, <2>8, <2>9, <2>10, <2>11, <2>12, <2>13,
         <2>14
         DEF ServerStep
  <1>9. ASSUME UNCHANGED vars PROVE PipeParts'
    BY <1>9, StutterKeepsPipe DEF vars, clientVars, serverVars
  <1>10. PipeParts'
    BY <1>2, <1>3, <1>4, <1>5, <1>6, <1>7, <1>8, <1>9 DEF Next, MainStep
  <1> QED
    BY <1>1, <1>10 DEF PipeInv

\* A client that got through has a server that serves it, and a server handles the
\* request of the client at the other end of its pipe.
THEOREM RequestsStayMatched == Spec => []RequestsMatch
  <1>1. PipeInv => RequestsMatch
    BY DEF PipeInv, PipeParts
  <1> QED
    BY <1>1, PipeInvInit, PipeInvStep, PTL DEF Spec

-----------------------------------------------------------------------------
(***************************************************************************)
(* The action property                                                     *)
(***************************************************************************)

Answers == \A c, p \in Proc : conn[c] = p /\ conn'[c] # p
             => c \in answered' \/ pc'[c] = "off" \/ pc'[p] = "off" \/ p \in ctxDone

LEMMA ExitAnswers ==
    ASSUME PipeInv, NEW q \in Proc, Exit(q)
    PROVE  Answers
  BY DEF PipeInv, MutexInv, TypeOK, Exit, Goto, Answers

\* Only the server and the cancel goroutine close an instance, and ConnectNamedPipe
\* fails only on one that has no client.
THEOREM AcceptedAreAnswered == Spec => AcceptedIsAnswered
  <1>1. ASSUME PipeInv, [Next]_vars PROVE [Answers]_vars
    <2> SUFFICES ASSUME Next PROVE Answers
      BY <1>1
    <2>1. CASE conn' = conn
      BY <2>1 DEF Answers
    <2>2. CASE \E q \in Proc : Exit(q)
      BY <1>1, <2>2, ExitAnswers
    <2>3. ASSUME NEW q \in Proc, Connects(q) PROVE Answers
      <3>1. conn[q] = None
        BY <1>1, <2>3 DEF Connects, PipeInv, PipeParts, PeerIsConnected
      <3>2. \A c \in Proc \ {q} : conn'[c] = conn[c]
        BY <1>1, <2>3 DEF Connects, PipeInv, MutexInv, TypeOK
      <3> QED
        BY <3>1, <3>2, ProcessAssumption DEF Answers
    <2>4. ASSUME NEW q \in Proc, CancelCloses(q) \/ ChecksContext(q) PROVE Answers
      BY <2>4 DEF CancelCloses, ChecksContext, ClosePipe, Answers
    <2>5. ASSUME NEW q \in Proc, ConnectFails(q) \/ ReadFails(q) PROVE Answers
      <3>1. ClosePipe(q) /\ (Peer(q) = {} \/ pipe[q] = "none")
        BY <2>5 DEF ConnectFails, ReadFails
      <3>2. \A c \in Proc : conn[c] # q
        BY <1>1, <3>1, ProcessAssumption DEF Peer, PipeInv, PipeParts, PeerIsConnected
      <3> QED
        BY <3>1, <3>2 DEF ClosePipe, Answers
    <2>6. ASSUME NEW q \in Proc, WritesAnswer(q) PROVE Answers
      BY <2>6 DEF WritesAnswer, ClosePipe, Peer, Answers
    <2>7. ASSUME NEW q \in Proc, ClientStep(q) \/ EntryStep(q) \/ OwnerStep(q) \/ HostStep(q)
          PROVE  conn' = conn \/ Exit(q) \/ Connects(q)
      BY <2>7
         DEF ClientStep, FindsNoPipe, FindsBusy, IsRefused, WritesRequest, ReadsAnswer, EntryStep,
             LoadsConfig, IsElevated, Relaunches, IsDenied, Acquires, FindsMutex, GivesUp,
             OwnerStep, StartsServer, ShutsDown, Scans, WaitReturns, WaitTimesOut, Releases, Exits,
             HostStep, Starts, Killed, Cancelled, FindsWork, clientVars
    <2>8. ASSUME NEW q \in Proc, ServerStep(q) \/ CancelCloses(q) \/ WorkersEnd(q)
          PROVE  \/ conn' = conn \/ CancelCloses(q) \/ ChecksContext(q) \/ ConnectFails(q)
                 \/ ReadFails(q) \/ WritesAnswer(q)
      BY <2>8
         DEF ServerStep, LeavesLoop, EntersLoop, CreatesPipe, CreateFails, TakesSlot,
             ConnectReturns, ReleasesSlot, ReadsRequest, Handles, SleepEnds, WorkersEnd, clientVars
    <2> QED
      BY <2>1, <2>2, <2>3, <2>4, <2>5, <2>6, <2>7, <2>8 DEF Next, MainStep
  <1> QED
    BY <1>1, PipeInvInit, PipeInvStep, PTL DEF Spec, AcceptedIsAnswered, Answers
=============================================================================
