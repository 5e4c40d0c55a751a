----------------------- MODULE RecoveryManagerProofs -----------------------
(***************************************************************************)
(* Proofs about RecoveryManager, for every set of devices, scanners and    *)
(* workers, every configuration and every choice of what may fail.         *)
(***************************************************************************)
EXTENDS RecoveryManager, FiniteSetTheorems, TLAPS

\* A small step towards every preservation proof: what refreshDevice returns is
\* a DeviceInfo, the stale one included.
LEMMA RefreshedType ==
    ASSUME Typing, NEW i \in DeviceInfo, NEW j \in Refreshed(i)
    PROVE  j \in DeviceInfo
<1>1. \A d \in Device : Reported(d) \subseteq Code
  BY DEF Typing, DevicesTypeOK, Reported, Code
<1>2. \A d \in Device : \A r \in GetDeviceByInstanceID(d) : r \in DeviceInfo
  <2> SUFFICES ASSUME NEW d \in Device, NEW r \in GetDeviceByInstanceID(d)
               PROVE  r \in DeviceInfo
    OBVIOUS
  <2>1. PICK c \in Reported(d) : r = [id |-> d, code |-> c]
    BY DEF GetDeviceByInstanceID, Info
  <2>2. QED
    BY <1>1, <2>1 DEF DeviceInfo
<1>3. \A r \in FindDeviceByFriendlyName(FriendlyName[i.id]) : r \in DeviceInfo
  BY <1>2 DEF FindDeviceByFriendlyName
<1>4. i.id \in Device
  BY DEF DeviceInfo
<1>5. QED
  BY <1>2, <1>3, <1>4 DEF Refreshed

\* What the host does to a device keeps its code one of Code.
LEMMA HostType ==
    ASSUME DevicesTypeOK, Host
    PROVE  DevicesTypeOK'
<1>1. PICK d \in Device : \/ Breaks(d) \/ Heals(d) \/ UserDisables(d) \/ UserEnables(d)
                         \/ Unplugs(d) \/ Plugs(d)
  BY DEF Host
<1>2. ASSUME NEW from, NEW to, to \subseteq Code, SetCode(d, from, to)
      PROVE  DevicesTypeOK'
  BY <1>2 DEF SetCode, DevicesTypeOK
<1>3. /\ Fault \subseteq Code
      /\ {Healthy} \subseteq Code
      /\ {CM_PROB_DISABLED} \subseteq Code
      /\ Code \subseteq Code
  BY DEF Code
<1>4. CASE Breaks(d) \/ Heals(d) \/ UserDisables(d) \/ UserEnables(d)
  BY <1>2, <1>3, <1>4 DEF Breaks, Heals, UserDisables, UserEnables
<1>5. CASE Unplugs(d) \/ Plugs(d)
  BY <1>5 DEF Unplugs, Plugs, DevicesTypeOK
<1>6. QED
  BY <1>1, <1>4, <1>5

\* The initial state is typed.
LEMMA TypingInit == Init => Typing /\ Holding
<1> SUFFICES ASSUME Init PROVE Typing /\ Holding
  OBVIOUS
<1>1. DevicesTypeOK
  <2>1. {Healthy} \union Fault \subseteq Code
    BY DEF Code
  <2>2. present \in [Device -> BOOLEAN]
    BY DEF Init, DevicesInit
  <2>3. code \in [Device -> Code]
    BY <2>1 DEF Init, DevicesInit
  <2>4. QED
    BY <2>2, <2>3 DEF DevicesTypeOK
<1>2. Typing
  <2>1. /\ delayOver \subseteq Device
        /\ state \in [Device -> StateSet]
        /\ running \in [Device -> BOOLEAN]
        /\ attempts \in [Device -> Nat]
    BY DEF Init, StateSet
  <2>2. /\ spc \in [Scanner -> ScannerPc]
        /\ left \in [Scanner -> SUBSET Device]
        /\ todo \in [Scanner -> SUBSET Match]
        /\ cur \in [Scanner -> DeviceInfo \union {None}]
    BY DEF Init, ScannerPc
  <2>3. /\ wpc \in [Worker -> WorkerPc]
        /\ initial \in [Worker -> DeviceInfo \union {None}]
        /\ info \in [Worker -> DeviceInfo \union {None}]
        /\ attempt \in [Worker -> Nat]
    BY DEF Init, WorkerPc
  <2>4. wg \in Int /\ mpc = "serving"
    BY DEF Init
  <2>5. stopping \in BOOLEAN /\ ctxDone \in BOOLEAN
    BY Zenon DEF Init
  <2>6. QED
    BY <1>1, <2>1, <2>2, <2>3, <2>4, <2>5 DEF Typing
<1>3. Holding
  BY DEF Init, Holding
<1>4. QED
  BY <1>2, <1>3

\* No step of a scan breaks the types.
LEMMA TypingScan ==
    ASSUME Typing, Holding, NEW s \in Scanner, ScanBegins(s) \/ ScanStep(s)
    PROVE  Typing' /\ Holding'
<1> USE DEF Typing, Holding, DevicesTypeOK, ScannerPc, StateSet, deviceVars, sessVars, workVars,
            mainVars
<1>1. CASE ScanBegins(s)
  BY <1>1 DEF ScanBegins
<1>2. ASSUME NEW d \in Device, ClearExhausted(s, d) PROVE Typing' /\ Holding'
  BY <1>2 DEF ClearExhausted
<1>3. CASE ClearExhaustedReturns(s)
  BY <1>3 DEF ClearExhaustedReturns
<1>4. CASE Enumerate(s)
  BY <1>4 DEF Enumerate, Unhealthy
<1>5. CASE ScanReturns(s)
  BY <1>5 DEF ScanReturns
<1>6. ASSUME NEW m \in todo[s], Accepts(s, m) PROVE Typing' /\ Holding'
  BY <1>6 DEF Accepts, Match, IsNext
<1>7. ASSUME NEW m \in todo[s], Skips(s, m) PROVE Typing' /\ Holding'
  BY <1>7 DEF Skips
<1>8. CASE Claims(s)
  BY <1>8 DEF Claims, Key, DeviceInfo
<1>9. CASE Coalesces(s)
  BY <1>9 DEF Coalesces
<1>10. ASSUME NEW w \in Worker, Spawns(s, w) PROVE Typing' /\ Holding'
  BY <1>10 DEF Spawns, WorkerPc
<1>11. QED
  BY <1>1, <1>2, <1>3, <1>4, <1>5, <1>6, <1>7, <1>8, <1>9, <1>10 DEF ScanStep

\* No step of a session breaks the types.
LEMMA TypingWorker ==
    ASSUME Typing, Holding, NEW w \in Worker, WorkerStep(w)
    PROVE  Typing' /\ Holding'
<1> USE DEF Typing, Holding, DevicesTypeOK, WorkerPc, StateSet, Goto, deviceVars, sessVars,
            scanVars, mainVars
<1>1. CASE LoopHead(w)
  BY <1>1 DEF LoopHead
<1>2. CASE CountsAttempt(w)
  BY <1>2 DEF CountsAttempt, Key, DeviceInfo
<1>3. CASE Exhausts(w)
  BY <1>3 DEF Exhausts, Key, DeviceInfo
<1>4. CASE Looks(w)
  BY <1>4, RefreshedType DEF Looks
<1>5. CASE Relooks(w)
  BY <1>5, RefreshedType DEF Relooks
<1>6. CASE Disables(w)
  BY <1>6 DEF Disables, DeviceInfo, Code, CallFails, DisableDevice, DisableSucceeds
<1>7. CASE GapEnds(w)
  BY <1>7 DEF GapEnds
<1>8. CASE ChecksDisabled(w)
  BY <1>8, RefreshedType DEF ChecksDisabled
<1>9. CASE Enables(w)
  BY <1>9 DEF Enables, DeviceInfo, Code, CallFails, EnableDevice, EnableSucceeds
<1>10. CASE PostChecks(w)
  BY <1>10 DEF PostChecks
<1>11. CASE RetryWaitEnds(w)
  BY <1>11 DEF RetryWaitEnds
<1>12. CASE Settles(w)
  BY <1>12 DEF Settles, Key, DeviceInfo
<1>13. CASE Releases(w)
  BY <1>13 DEF Releases, Key, DeviceInfo
<1>14. CASE Done(w)
  BY <1>14 DEF Done
<1>15. QED
  BY <1>1, <1>2, <1>3, <1>4, <1>5, <1>6, <1>7, <1>8, <1>9, <1>10, <1>11, <1>12, <1>13, <1>14 DEF WorkerStep

\* Nor does main, the passing of time, or the host.
LEMMA TypingOther ==
    ASSUME Typing, Holding,
           \/ Cancelled
           \/ MainStep
           \/ HostStep
           \/ \E d \in Device : DelayElapses(d)
    PROVE  Typing' /\ Holding'
<1> USE DEF Typing, Holding, DevicesTypeOK, deviceVars, sessVars, scanVars, workVars, mainVars
<1>1. CASE Cancelled
  BY <1>1 DEF Cancelled
<1>2. CASE MainStep
  BY <1>2 DEF MainStep, StopNewWork, CancelsContext, WaitReturns, WaitTimesOut
<1>3. CASE HostStep
  <2>1. DevicesTypeOK'
    BY <1>3, HostType DEF HostStep
  <2>2. QED
    BY <1>3, <2>1 DEF HostStep
<1>4. ASSUME NEW d \in Device, DelayElapses(d) PROVE Typing' /\ Holding'
  BY <1>4 DEF DelayElapses
<1>5. QED
  BY <1>1, <1>2, <1>3, <1>4

LEMMA TypingStutter ==
    ASSUME Typing, Holding, UNCHANGED vars
    PROVE  Typing' /\ Holding'
BY DEF Typing, Holding, DevicesTypeOK, vars, deviceVars, sessVars, scanVars, workVars, mainVars

LEMMA TypingNext == Typing /\ Holding /\ [Next]_vars => Typing' /\ Holding'
<1> SUFFICES ASSUME Typing, Holding, [Next]_vars PROVE Typing' /\ Holding'
  OBVIOUS
<1>1. ASSUME NEW s \in Scanner, ScanBegins(s) \/ ScanStep(s) PROVE Typing' /\ Holding'
  BY <1>1, TypingScan
<1>2. ASSUME NEW w \in Worker, WorkerStep(w) PROVE Typing' /\ Holding'
  BY <1>2, TypingWorker
<1>3. CASE Cancelled \/ MainStep \/ HostStep \/ \E d \in Device : DelayElapses(d)
  BY <1>3, TypingOther
<1>4. CASE UNCHANGED vars
  BY <1>4, TypingStutter
<1>5. QED
  BY <1>1, <1>2, <1>3, <1>4 DEF Next

(***************************************************************************)
(* Ownership: who may touch a session, and what its state says meanwhile.  *)
(***************************************************************************)

LEMMA OwnershipInit == Init => Ownership
<1> SUFFICES ASSUME Init PROVE Ownership
  OBVIOUS
<1>1. \A d \in Device : ~Owned(d)
  BY DEF Init, Owned, Claimed, InSession
<1>2. QED
  BY <1>1 DEF Init, Ownership, SerialRecovery, RunningIsOwned, RecoveringRuns,
              OwnerSeesRecovering, CounterIsPrivate, Claimed, InSession, InAttempt,
              StateIdle, StateRecovering

\* Ownership depends on little: a step that moves goroutines without changing
\* who owns what, and leaves the sessions alone, preserves it.
LEMMA OwnershipFrame ==
    ASSUME Ownership,
           UNCHANGED sessVars,
           \A s \in Scanner : spc'[s] = "spawn" => spc[s] = "spawn",
           \A s \in Scanner : spc[s] = "spawn" => spc'[s] = "spawn" /\ cur'[s] = cur[s],
           \A w \in Worker : wpc[w] \in {"free", "done"} <=> wpc'[w] \in {"free", "done"},
           \A w \in Worker : wpc[w] = "exit" => wpc'[w] = "exit",
           \A w \in Worker : wpc'[w] \in InAttempt => wpc[w] \in InAttempt,
           \A w \in Worker : wpc[w] \notin {"free", "done"}
                               => initial'[w] = initial[w] /\ attempt'[w] = attempt[w]
    PROVE  Ownership'
<1>1. \A s \in Scanner, d \in Device : Claimed(s, d)' <=> Claimed(s, d)
  BY DEF Claimed
<1>2. \A w \in Worker, d \in Device : InSession(w, d)' <=> InSession(w, d)
  BY DEF InSession
<1>3. SerialRecovery'
  BY <1>1, <1>2 DEF Ownership, SerialRecovery
<1>4. RunningIsOwned'
  BY <1>1, <1>2 DEF Ownership, RunningIsOwned, Owned, sessVars
<1>5. RecoveringRuns'
  BY DEF Ownership, RecoveringRuns, sessVars
<1>6. OwnerSeesRecovering'
  BY DEF Ownership, OwnerSeesRecovering, sessVars
<1>7. CounterIsPrivate'
  BY DEF Ownership, CounterIsPrivate, sessVars, InAttempt
<1>8. QED
  BY <1>3, <1>4, <1>5, <1>6, <1>7 DEF Ownership

\* A scan changes the owner of a session only where it claims or spawns.
LEMMA OwnershipScan ==
    ASSUME Typing, Holding, Ownership, NEW s \in Scanner, ScanBegins(s) \/ ScanStep(s)
    PROVE  Ownership'
<1> USE DEF workVars, sessVars
<1>1. CASE ScanBegins(s)
  BY <1>1, OwnershipFrame DEF ScanBegins, Typing
<1>2. ASSUME NEW d \in Device, ClearExhausted(s, d) PROVE Ownership'
  <2>1. \A w \in Worker : wpc[w] \in InAttempt => Key(initial[w]) # d \/ state[d] # StateExhausted
    BY DEF Ownership, OwnerSeesRecovering, InAttempt, StateRecovering, StateExhausted
  <2>2. \A t \in Scanner, e \in Device : Claimed(t, e)' <=> Claimed(t, e)
    BY <1>2 DEF ClearExhausted, Claimed
  <2>3. \A w \in Worker, e \in Device : InSession(w, e)' <=> InSession(w, e)
    BY <1>2 DEF ClearExhausted, InSession
  <2>4. SerialRecovery'
    BY <2>2, <2>3 DEF Ownership, SerialRecovery
  <2>5. RunningIsOwned'
    BY <1>2, <2>2, <2>3 DEF ClearExhausted, Ownership, RunningIsOwned, Owned
  <2>6. RecoveringRuns'
    BY <1>2 DEF ClearExhausted, Ownership, RecoveringRuns, Typing, StateIdle, StateRecovering
  <2>7. \A e \in Device : e # d \/ state[d] # StateExhausted
                            => state'[e] = state[e] /\ attempts'[e] = attempts[e]
    BY <1>2 DEF ClearExhausted, Typing
  <2>8. /\ \A t \in Scanner : spc[t] = "spawn" => Key(cur[t]) \in Device
        /\ \A w \in Worker : wpc[w] # "free" => Key(initial[w]) \in Device
    BY DEF Holding, DeviceInfo, Key
  <2>9. OwnerSeesRecovering'
    BY <1>2, <2>7, <2>8 DEF ClearExhausted, Ownership, OwnerSeesRecovering, Key,
                            StateExhausted, StateRecovering
  <2>10. CounterIsPrivate'
    BY <1>2, <2>1, <2>7, <2>8 DEF ClearExhausted, Ownership, CounterIsPrivate, InAttempt, Key
  <2>11. QED
    BY <2>4, <2>5, <2>6, <2>9, <2>10 DEF Ownership
<1>3. CASE ClearExhaustedReturns(s)
  BY <1>3, OwnershipFrame DEF ClearExhaustedReturns, Typing
<1>4. CASE Enumerate(s)
  BY <1>4, OwnershipFrame DEF Enumerate, Typing
<1>5. CASE ScanReturns(s)
  BY <1>5, OwnershipFrame DEF ScanReturns, Typing
<1>6. ASSUME NEW m \in todo[s], Accepts(s, m) PROVE Ownership'
  BY <1>6, OwnershipFrame DEF Accepts, Typing
<1>7. ASSUME NEW m \in todo[s], Skips(s, m) PROVE Ownership'
  BY <1>7, OwnershipFrame DEF Skips, Typing
<1>8. CASE Claims(s)
  <2> DEFINE d == Key(cur[s])
  <2>1. d \in Device
    BY <1>8 DEF Claims, Holding, DeviceInfo, Key
  <2>2. ~Owned(d)
    BY <1>8, <2>1 DEF Claims, MayClaim, Ownership, RunningIsOwned
  <2>3. \A t \in Scanner, e \in Device :
           Claimed(t, e)' <=> Claimed(t, e) \/ (t = s /\ e = d)
    BY <1>8 DEF Claims, Claimed, Typing
  <2>4. \A w \in Worker, e \in Device : InSession(w, e)' <=> InSession(w, e)
    BY <1>8 DEF Claims, InSession
  <2>5. SerialRecovery'
    BY <2>2, <2>3, <2>4 DEF Ownership, SerialRecovery, Owned
  <2>6. RunningIsOwned'
    BY <1>8, <2>1, <2>3, <2>4 DEF Claims, Ownership, RunningIsOwned, Owned, Typing
  <2>7. RecoveringRuns'
    BY <1>8, <2>1 DEF Claims, Ownership, RecoveringRuns, Typing
  <2>8. OwnerSeesRecovering'
    BY <1>8, <2>1 DEF Claims, Ownership, OwnerSeesRecovering, Typing, Holding, Key, DeviceInfo
  <2>9. CounterIsPrivate'
    BY <1>8 DEF Claims, Ownership, CounterIsPrivate
  <2>10. QED
    BY <2>5, <2>6, <2>7, <2>8, <2>9 DEF Ownership
<1>9. CASE Coalesces(s)
  BY <1>9, OwnershipFrame DEF Coalesces, Typing
<1>10. ASSUME NEW w \in Worker, Spawns(s, w) PROVE Ownership'
  <2> DEFINE d == Key(cur[s])
  <2>1. d \in Device /\ Claimed(s, d)
    BY <1>10 DEF Spawns, Holding, DeviceInfo, Key, Claimed
  <2>2. \A t \in Scanner, e \in Device : Claimed(t, e)' <=> Claimed(t, e) /\ t # s
    BY <1>10 DEF Spawns, Claimed, Typing
  <2>3. \A v \in Worker, e \in Device :
           InSession(v, e)' <=> InSession(v, e) \/ (v = w /\ e = d)
    BY <1>10 DEF Spawns, InSession, Typing, WorkerPc
  <2>4. SerialRecovery'
    BY <2>1, <2>2, <2>3 DEF Ownership, SerialRecovery
  <2>5. RunningIsOwned'
    <3>1. \A e \in Device : Owned(e)' <=> Owned(e)
      BY <2>1, <2>2, <2>3 DEF Owned, Claimed
    <3>2. QED
      BY <1>10, <3>1 DEF Spawns, Ownership, RunningIsOwned
  <2>6. RecoveringRuns'
    BY <1>10 DEF Spawns, Ownership, RecoveringRuns
  <2>7. OwnerSeesRecovering'
    BY <1>10 DEF Spawns, Ownership, OwnerSeesRecovering, Typing, Key
  <2>8. CounterIsPrivate'
    BY <1>10 DEF Spawns, Ownership, CounterIsPrivate, Typing, InAttempt
  <2>9. QED
    BY <2>4, <2>5, <2>6, <2>7, <2>8 DEF Ownership
<1>11. QED
  BY <1>1, <1>2, <1>3, <1>4, <1>5, <1>6, <1>7, <1>8, <1>9, <1>10 DEF ScanStep

\* The owner of a session is alone with it: every other session in progress,
\* and every other claim, is for another device.
LEMMA SoleOwner ==
    ASSUME Holding, Ownership, NEW w \in Worker, wpc[w] \notin {"free", "done"}
    PROVE  /\ Key(initial[w]) \in Device
           /\ InSession(w, Key(initial[w]))
           /\ running[Key(initial[w])]
           /\ \A v \in Worker : v # w /\ wpc[v] \notin {"free", "done"}
                                  => Key(initial[v]) # Key(initial[w])
           /\ \A s \in Scanner : spc[s] = "spawn" => Key(cur[s]) # Key(initial[w])
           /\ \A v \in Worker : wpc[v] # "free" => Key(initial[v]) \in Device
           /\ \A s \in Scanner : spc[s] = "spawn" => Key(cur[s]) \in Device
<1>1. /\ \A v \in Worker : wpc[v] # "free" => Key(initial[v]) \in Device
      /\ \A s \in Scanner : spc[s] = "spawn" => Key(cur[s]) \in Device
  BY DEF Holding, DeviceInfo, Key
<1>2. Key(initial[w]) \in Device /\ InSession(w, Key(initial[w]))
  BY <1>1 DEF InSession
<1>3. running[Key(initial[w])]
  BY <1>2 DEF Ownership, RunningIsOwned, Owned
<1>4. QED
  BY <1>1, <1>2, <1>3 DEF Ownership, SerialRecovery, InSession, Claimed

\* A session's own steps keep it owned until its deferred release.
LEMMA OwnershipWorker ==
    ASSUME Typing, Holding, Ownership, NEW w \in Worker, WorkerStep(w)
    PROVE  Ownership'
<1> DEFINE d == Key(initial[w])
<1>1. CASE LoopHead(w)
  BY <1>1, OwnershipFrame DEF LoopHead, Goto, Typing, WorkerPc, InAttempt, sessVars, scanVars
<1>2. CASE CountsAttempt(w)
  <2>1. wpc[w] \notin {"free", "done"}
    BY <1>2 DEF CountsAttempt
  <2>2. \A e \in Device : e # d => /\ state'[e] = state[e]
                                 /\ attempts'[e] = attempts[e]
                                 /\ running'[e] = running[e]
    BY <1>2 DEF CountsAttempt, Typing
  <2>3. \A v \in Worker : v # w => wpc'[v] = wpc[v] /\ attempt'[v] = attempt[v]
    BY <1>2 DEF CountsAttempt, Goto, Typing
  <2>4. initial' = initial /\ spc' = spc /\ cur' = cur
    BY <1>2 DEF CountsAttempt, scanVars
  <2>5. \A s \in Scanner, e \in Device : Claimed(s, e)' <=> Claimed(s, e)
    BY <2>4 DEF Claimed
  <2>6. \A v \in Worker, e \in Device : InSession(v, e)' <=> InSession(v, e)
    BY <1>2, <2>1, <2>3, <2>4 DEF CountsAttempt, Goto, InSession, Typing, WorkerPc
  <2>7. SerialRecovery'
    BY <2>5, <2>6 DEF Ownership, SerialRecovery
  <2>8. running' = running
    BY <1>2 DEF CountsAttempt, sessVars
  <2>9. RunningIsOwned'
    BY <2>5, <2>6, <2>8 DEF Ownership, RunningIsOwned, Owned
  <2>10. RecoveringRuns'
    BY <2>1, <2>2, <2>8, SoleOwner DEF Ownership, RecoveringRuns
  <2>11. state' = state
    BY <1>2 DEF CountsAttempt, Goto, Typing
  <2>12. OwnerSeesRecovering'
    BY <1>2, <2>1, <2>3, <2>4, <2>11 DEF CountsAttempt, Ownership, OwnerSeesRecovering
  <2>13. attempts'[d] = attempt'[w]
    BY <1>2, <2>1, SoleOwner DEF CountsAttempt, Typing
  <2>14. CounterIsPrivate'
    BY <2>1, <2>2, <2>3, <2>4, <2>13, SoleOwner DEF Ownership, CounterIsPrivate, InAttempt
  <2>15. QED
    BY <2>7, <2>9, <2>10, <2>12, <2>14 DEF Ownership
<1>3. CASE Exhausts(w)
  <2>1. wpc[w] \notin {"free", "done"}
    BY <1>3 DEF Exhausts
  <2>2. \A e \in Device : e # d => /\ state'[e] = state[e]
                                 /\ attempts'[e] = attempts[e]
                                 /\ running'[e] = running[e]
    BY <1>3 DEF Exhausts, Typing
  <2>3. \A v \in Worker : v # w => wpc'[v] = wpc[v] /\ attempt'[v] = attempt[v]
    BY <1>3 DEF Exhausts, Goto, Typing
  <2>4. initial' = initial /\ spc' = spc /\ cur' = cur
    BY <1>3 DEF Exhausts, scanVars
  <2>5. \A s \in Scanner, e \in Device : Claimed(s, e)' <=> Claimed(s, e)
    BY <2>4 DEF Claimed
  <2>6. \A v \in Worker, e \in Device : InSession(v, e)' <=> InSession(v, e)
    BY <1>3, <2>1, <2>3, <2>4 DEF Exhausts, Goto, InSession, Typing, WorkerPc
  <2>7. SerialRecovery'
    BY <2>5, <2>6 DEF Ownership, SerialRecovery
  <2>8. running' = running
    BY <1>3 DEF Exhausts, sessVars
  <2>9. RunningIsOwned'
    BY <2>5, <2>6, <2>8 DEF Ownership, RunningIsOwned, Owned
  <2>10. RecoveringRuns'
    BY <2>1, <2>2, <2>8, SoleOwner DEF Ownership, RecoveringRuns
  <2>11. wpc'[w] = "exit"
    BY <1>3 DEF Exhausts, Goto, Typing
  <2>12. OwnerSeesRecovering'
    BY <2>1, <2>2, <2>3, <2>4, <2>11, SoleOwner DEF Ownership, OwnerSeesRecovering
  <2>13. CounterIsPrivate'
    BY <2>1, <2>2, <2>3, <2>4, <2>11, SoleOwner DEF Ownership, CounterIsPrivate, InAttempt
  <2>14. QED
    BY <2>7, <2>9, <2>10, <2>12, <2>13 DEF Ownership
<1>4. CASE Looks(w)
  BY <1>4, OwnershipFrame DEF Looks, Goto, Typing, WorkerPc, InAttempt, sessVars, scanVars
<1>5. CASE Relooks(w)
  BY <1>5, OwnershipFrame DEF Relooks, Goto, Typing, WorkerPc, InAttempt, sessVars, scanVars
<1>6. CASE Disables(w)
  BY <1>6, OwnershipFrame DEF Disables, Goto, Typing, WorkerPc, InAttempt, sessVars, scanVars
<1>7. CASE GapEnds(w)
  BY <1>7, OwnershipFrame DEF GapEnds, Goto, Typing, WorkerPc, InAttempt, sessVars, scanVars
<1>8. CASE ChecksDisabled(w)
  BY <1>8, OwnershipFrame DEF ChecksDisabled, Goto, Typing, WorkerPc, InAttempt, sessVars, scanVars
<1>9. CASE Enables(w)
  BY <1>9, OwnershipFrame DEF Enables, Goto, Typing, WorkerPc, InAttempt, sessVars, scanVars
<1>10. CASE PostChecks(w)
  BY <1>10, OwnershipFrame DEF PostChecks, Goto, Typing, WorkerPc, InAttempt, sessVars, scanVars
<1>11. CASE RetryWaitEnds(w)
  BY <1>11, OwnershipFrame DEF RetryWaitEnds, Goto, Typing, WorkerPc, InAttempt, sessVars, scanVars
<1>12. CASE Settles(w)
  <2>1. wpc[w] \notin {"free", "done"}
    BY <1>12 DEF Settles
  <2>2. \A e \in Device : e # d => /\ state'[e] = state[e]
                                 /\ attempts'[e] = attempts[e]
                                 /\ running'[e] = running[e]
    BY <1>12 DEF Settles, Typing
  <2>3. \A v \in Worker : v # w => wpc'[v] = wpc[v] /\ attempt'[v] = attempt[v]
    BY <1>12 DEF Settles, Goto, Typing
  <2>4. initial' = initial /\ spc' = spc /\ cur' = cur
    BY <1>12 DEF Settles, scanVars
  <2>5. \A s \in Scanner, e \in Device : Claimed(s, e)' <=> Claimed(s, e)
    BY <2>4 DEF Claimed
  <2>6. \A v \in Worker, e \in Device : InSession(v, e)' <=> InSession(v, e)
    BY <1>12, <2>1, <2>3, <2>4 DEF Settles, Goto, InSession, Typing, WorkerPc
  <2>7. SerialRecovery'
    BY <2>5, <2>6 DEF Ownership, SerialRecovery
  <2>8. running' = running
    BY <1>12 DEF Settles, sessVars
  <2>9. RunningIsOwned'
    BY <2>5, <2>6, <2>8 DEF Ownership, RunningIsOwned, Owned
  <2>10. RecoveringRuns'
    BY <2>1, <2>2, <2>8, SoleOwner DEF Ownership, RecoveringRuns
  <2>11. wpc'[w] = "exit"
    BY <1>12 DEF Settles, Goto, Typing
  <2>12. OwnerSeesRecovering'
    BY <2>1, <2>2, <2>3, <2>4, <2>11, SoleOwner DEF Ownership, OwnerSeesRecovering
  <2>13. CounterIsPrivate'
    BY <2>1, <2>2, <2>3, <2>4, <2>11, SoleOwner DEF Ownership, CounterIsPrivate, InAttempt
  <2>14. QED
    BY <2>7, <2>9, <2>10, <2>12, <2>13 DEF Ownership
<1>13. CASE Releases(w)
  <2>1. wpc[w] \notin {"free", "done"}
    BY <1>13 DEF Releases
  <2>2. \A e \in Device : e # d => /\ state'[e] = state[e]
                                 /\ attempts'[e] = attempts[e]
                                 /\ running'[e] = running[e]
    BY <1>13 DEF Releases, Typing
  <2>3. \A v \in Worker : v # w => wpc'[v] = wpc[v] /\ attempt'[v] = attempt[v]
    BY <1>13 DEF Releases, Goto, Typing
  <2>4. initial' = initial /\ spc' = spc /\ cur' = cur
    BY <1>13 DEF Releases, scanVars
  <2>5. \A s \in Scanner, e \in Device : Claimed(s, e)' <=> Claimed(s, e)
    BY <2>4 DEF Claimed
  <2>6. \A v \in Worker, e \in Device : InSession(v, e)' <=> InSession(v, e) /\ v # w
    BY <1>13, <2>1, <2>3, <2>4 DEF Releases, Goto, InSession, Typing, WorkerPc
  <2>7. SerialRecovery'
    BY <2>5, <2>6 DEF Ownership, SerialRecovery
  <2>8. ~running'[d] /\ state'[d] # StateRecovering /\ wpc'[w] = "done"
    BY <1>13, <2>1, SoleOwner DEF Releases, Goto, Typing, StateIdle, StateRecovering
  <2>9. \A e \in Device : e = d => ~Owned(e)'
    BY <2>1, <2>5, <2>6, SoleOwner DEF Owned, Claimed, InSession
  <2>10. \A e \in Device : e # d => (Owned(e)' <=> Owned(e))
    BY <2>5, <2>6, SoleOwner DEF Owned, InSession
  <2>11. RunningIsOwned'
    BY <2>2, <2>8, <2>9, <2>10 DEF Ownership, RunningIsOwned
  <2>12. RecoveringRuns'
    BY <2>2, <2>8 DEF Ownership, RecoveringRuns
  <2>13. OwnerSeesRecovering'
    BY <2>1, <2>2, <2>3, <2>4, <2>8, SoleOwner DEF Ownership, OwnerSeesRecovering
  <2>14. CounterIsPrivate'
    BY <2>1, <2>2, <2>3, <2>4, <2>8, SoleOwner DEF Ownership, CounterIsPrivate, InAttempt
  <2>15. QED
    BY <2>7, <2>11, <2>12, <2>13, <2>14 DEF Ownership
<1>14. CASE Done(w)
  BY <1>14, OwnershipFrame DEF Done, Goto, Typing, WorkerPc, InAttempt, sessVars, scanVars
<1>15. QED
  BY <1>1, <1>2, <1>3, <1>4, <1>5, <1>6, <1>7, <1>8, <1>9, <1>10, <1>11, <1>12, <1>13, <1>14 DEF WorkerStep

\* No other step has anything to do with sessions.
LEMMA OwnershipNext ==
    ASSUME Typing, Holding, Ownership, [Next]_vars
    PROVE  Ownership'
<1>1. ASSUME NEW s \in Scanner, ScanBegins(s) \/ ScanStep(s) PROVE Ownership'
  BY <1>1, OwnershipScan
<1>2. ASSUME NEW w \in Worker, WorkerStep(w) PROVE Ownership'
  BY <1>2, OwnershipWorker
<1>3. CASE Cancelled \/ MainStep \/ HostStep \/ \E d \in Device : DelayElapses(d)
  <2>1. UNCHANGED <<sessVars, scanVars, workVars>>
    BY <1>3 DEF Cancelled, MainStep, StopNewWork, CancelsContext, WaitReturns, WaitTimesOut,
                HostStep, DelayElapses
  <2>2. QED
    BY <2>1, OwnershipFrame DEF scanVars, workVars
<1>4. CASE UNCHANGED vars
  BY <1>4, OwnershipFrame DEF vars, scanVars, workVars
<1>5. QED
  BY <1>1, <1>2, <1>3, <1>4 DEF Next

(***************************************************************************)
(* Counting: the WaitGroup counts the worker goroutines that exist.        *)
(***************************************************************************)
LEMMA CountingInit == Init => Counting
<1> SUFFICES ASSUME Init PROVE Counting
  OBVIOUS
<1>1. Live = {}
  BY DEF Init, Live
<1>2. QED
  BY <1>1, FS_EmptySet DEF Init, Counting

LEMMA LiveFinite == IsFiniteSet(Live) /\ Cardinality(Live) \in Nat
BY WorkerAssumption, FS_Subset, FS_CardinalityType DEF Live

LEMMA CountingNext ==
    ASSUME Typing, Counting, [Next]_vars
    PROVE  Counting'
<1> USE DEF Counting, Live
<1>1. ASSUME NEW s \in Scanner, NEW w \in Worker, Spawns(s, w) PROVE Counting'
  <2>1. w \notin Live /\ Live' = Live \union {w}
    BY <1>1 DEF Spawns, Typing
  <2>2. Cardinality(Live \union {w}) = Cardinality(Live) + 1
    BY <2>1, LiveFinite, FS_AddElement
  <2>3. QED
    BY <1>1, <2>1, <2>2 DEF Spawns
<1>2. ASSUME NEW w \in Worker, Done(w) PROVE Counting'
  <2>1. w \in Live /\ Live' = Live \ {w}
    BY <1>2 DEF Done, Goto, Typing
  <2>2. Cardinality(Live \ {w}) = Cardinality(Live) - 1
    BY <2>1, LiveFinite, FS_RemoveElement
  <2>3. QED
    BY <1>2, <2>1, <2>2 DEF Done
<1>3. ASSUME NEW s \in Scanner, ScanBegins(s) \/ ScanStep(s),
             ~ \E w \in Worker : Spawns(s, w)
      PROVE  Counting'
  <2>1. wg' = wg /\ wpc' = wpc
    BY <1>3 DEF ScanBegins, ScanStep, ClearExhausted, ClearExhaustedReturns, Enumerate,
                ScanReturns, Accepts, Skips, Claims, Coalesces, workVars
  <2>2. QED
    BY <2>1
<1>4. ASSUME NEW w \in Worker, WorkerStep(w), ~Done(w) PROVE Counting'
  <2>1. /\ wg' = wg
        /\ wpc[w] # "free"
        /\ \E pc \in WorkerPc \ {"free"} : wpc' = [wpc EXCEPT ![w] = pc]
    BY <1>4 DEF WorkerStep, LoopHead, CountsAttempt, Exhausts, Looks, Relooks, Disables, GapEnds,
                ChecksDisabled, Enables, PostChecks, RetryWaitEnds, Settles, Releases, Goto,
                WorkerPc
  <2>2. Live' = Live
    BY <2>1 DEF Typing
  <2>3. QED
    BY <2>1, <2>2
<1>5. CASE Cancelled \/ MainStep \/ HostStep \/ \E d \in Device : DelayElapses(d)
  BY <1>5 DEF Cancelled, MainStep, StopNewWork, CancelsContext, WaitReturns, WaitTimesOut,
              HostStep, DelayElapses, workVars
<1>6. CASE UNCHANGED vars
  BY <1>6 DEF vars, workVars
<1>7. QED
  BY <1>1, <1>2, <1>3, <1>4, <1>5, <1>6 DEF Next, ScanStep, WorkerStep

(***************************************************************************)
(* Quiescence: what a Wait that has returned guarantees.                   *)
(***************************************************************************)
\* A worker that starts after Wait has returned leaves at its first look at
\* the context, which has been cancelled before Wait was called.
LEMMA QuiescenceNext ==
    ASSUME Typing, Counting, Quiescence, [Next]_vars
    PROVE  Quiescence'
<1> USE DEF Quiescence, CancelledBeforeWait, QuietAfterWait
<1>1. CASE WaitReturns
  <2>1. Live = {}
    BY <1>1, LiveFinite, FS_EmptySet DEF WaitReturns, Counting
  <2>2. \A w \in Worker : wpc[w] = "free"
    BY <2>1 DEF Live
  <2>3. QED
    BY <1>1, <2>2 DEF WaitReturns, workVars
<1>2. CASE Cancelled \/ StopNewWork \/ CancelsContext \/ WaitTimesOut
  BY <1>2 DEF Cancelled, StopNewWork, CancelsContext, WaitTimesOut, workVars
<1>3. ASSUME NEW s \in Scanner, ScanBegins(s) \/ ScanStep(s) PROVE Quiescence'
  <2>1. UNCHANGED mainVars
    BY <1>3 DEF ScanBegins, ScanStep, ClearExhausted, ClearExhaustedReturns, Enumerate,
                ScanReturns, Accepts, Skips, Claims, Coalesces, Spawns
  <2>2. \A w \in Worker : wpc'[w] \in {wpc[w], "top"}
    BY <1>3 DEF ScanBegins, ScanStep, ClearExhausted, ClearExhaustedReturns, Enumerate,
                ScanReturns, Accepts, Skips, Claims, Coalesces, Spawns, workVars, Typing
  <2>3. QED
    BY <2>1, <2>2 DEF mainVars
<1>4. ASSUME NEW w \in Worker, WorkerStep(w) PROVE Quiescence'
  <2>1. UNCHANGED mainVars
    BY <1>4 DEF WorkerStep, LoopHead, CountsAttempt, Exhausts, Looks, Relooks, Disables, GapEnds,
                ChecksDisabled, Enables, PostChecks, RetryWaitEnds, Settles, Releases, Done
  <2>2. \A v \in Worker : v # w => wpc'[v] = wpc[v]
    BY <1>4 DEF WorkerStep, LoopHead, CountsAttempt, Exhausts, Looks, Relooks, Disables, GapEnds,
                ChecksDisabled, Enables, PostChecks, RetryWaitEnds, Settles, Releases, Done,
                Goto, Typing
  <2>3. ctxDone /\ wpc[w] \in {"free", "top", "exit", "done"}
          => wpc'[w] \in {"free", "top", "exit", "done"}
    BY <1>4 DEF WorkerStep, LoopHead, CountsAttempt, Exhausts, Looks, Relooks, Disables, GapEnds,
                ChecksDisabled, Enables, PostChecks, RetryWaitEnds, Settles, Releases, Done,
                Goto, Typing
  <2>4. QED
    BY <2>1, <2>2, <2>3 DEF mainVars
<1>5. CASE HostStep \/ \E d \in Device : DelayElapses(d)
  BY <1>5 DEF HostStep, DelayElapses, workVars, mainVars
<1>6. CASE UNCHANGED vars
  BY <1>6 DEF vars, workVars, mainVars
<1>7. QED
  BY <1>1, <1>2, <1>3, <1>4, <1>5, <1>6 DEF Next, MainStep

(***************************************************************************)
(* The theorems.                                                           *)
(***************************************************************************)
LEMMA IInvInit == Init => IInv
<1>1. Init => Quiescence
  BY DEF Init, Quiescence, CancelledBeforeWait, QuietAfterWait
<1>2. QED
  BY <1>1, TypingInit, OwnershipInit, CountingInit DEF IInv

LEMMA IInvNext == IInv /\ [Next]_vars => IInv'
BY TypingNext, OwnershipNext, CountingNext, QuiescenceNext DEF IInv

\* IInv holds in every reachable state.
THEOREM Inductive == Spec => []IInv
<1>1. QED
  BY IInvInit, IInvNext, PTL DEF Spec

\* Every variable keeps its type; the WaitGroup's counter never goes below 0,
\* which in Go would be a panic.
THEOREM TypeCorrect == Spec => []TypeOK
<1>1. IInv => TypeOK
  BY LiveFinite DEF IInv, Typing, TypeOK, Counting
<1>2. QED
  BY <1>1, Inductive, PTL

\* The same device never runs concurrent recoveries: its session has at most
\* one owner, from the claim in HandleDeviceProblem to the deferred release.
THEOREM SessionsAreSerial == Spec => []SerialRecovery
<1>1. IInv => SerialRecovery
  BY DEF IInv, Ownership
<1>2. QED
  BY <1>1, Inductive, PTL

\* A device marked Recovering or running has a goroutine that will release it.
THEOREM NoSessionIsStuck == Spec => []NoStuckSession
<1>1. IInv => NoStuckSession
  BY DEF IInv, Ownership, NoStuckSession, RecoveringRuns, RunningIsOwned
<1>2. QED
  BY <1>1, Inductive, PTL

\* Nobody but the session moves its attempt counter between count and outcome.
THEOREM CounterStaysPrivate == Spec => []CounterIsPrivate
<1>1. IInv => CounterIsPrivate
  BY DEF IInv, Ownership
<1>2. QED
  BY <1>1, Inductive, PTL

\* After Shutdown's Wait no worker operates on a device.
THEOREM ShutdownIsQuiet == Spec => []QuietAfterWait
<1>1. IInv => QuietAfterWait
  BY DEF IInv, Quiescence
<1>2. QED
  BY <1>1, Inductive, PTL

\* Only the clearing step of a check takes a device out of Exhausted: a session
\* that is given up or settled was Recovering, and a claim refuses Exhausted.
THEOREM ExhaustedIsSticky == Spec => OnlyCheckClears
<1> DEFINE Sticky == \A d \in Device : state[d] = StateExhausted /\ state'[d] # StateExhausted
                                         => \E s \in Checker : spc[s] = "clear"
<1>1. IInv /\ [Next]_vars => Sticky
  <2> SUFFICES ASSUME IInv, [Next]_vars PROVE Sticky
    OBVIOUS
  <2> USE DEF IInv, Typing
  <2>1. ASSUME NEW s \in Scanner, ScanBegins(s) \/ ScanStep(s) PROVE Sticky
    <3>1. ASSUME NEW d \in Device, ClearExhausted(s, d) PROVE Sticky
      BY <3>1 DEF ClearExhausted, Holding
    <3>2. CASE Claims(s)
      BY <3>2 DEF Claims, MayClaim
    <3>3. CASE state' = state
      BY <3>3
    <3>4. QED
      BY <2>1, <3>1, <3>2, <3>3 DEF ScanBegins, ScanStep, ClearExhaustedReturns, Enumerate,
            ScanReturns, Accepts, Skips, Coalesces, Spawns, sessVars
  <2>2. ASSUME NEW w \in Worker, WorkerStep(w) PROVE Sticky
    <3>1. CASE Exhausts(w)
      BY <3>1 DEF Exhausts
    <3>2. CASE Settles(w)
      <4>1. state[Key(initial[w])] # StateExhausted
        BY <3>2 DEF Settles, Ownership, OwnerSeesRecovering, StateRecovering, StateExhausted
      <4>2. QED
        BY <3>2, <4>1 DEF Settles
    <3>3. CASE Releases(w)
      BY <3>3 DEF Releases, StateRecovering, StateExhausted
    <3>4. CASE state' = state
      BY <3>4
    <3>5. QED
      BY <2>2, <3>1, <3>2, <3>3, <3>4 DEF WorkerStep, LoopHead, CountsAttempt, Looks, Relooks,
            Disables, GapEnds, ChecksDisabled, Enables, PostChecks, RetryWaitEnds, Done, sessVars
  <2>3. CASE Cancelled \/ MainStep \/ HostStep \/ \E d \in Device : DelayElapses(d)
    BY <2>3 DEF Cancelled, MainStep, StopNewWork, CancelsContext, WaitReturns, WaitTimesOut,
                HostStep, DelayElapses, sessVars
  <2>4. CASE UNCHANGED vars
    BY <2>4 DEF vars, sessVars
  <2>5. QED
    BY <2>1, <2>2, <2>3, <2>4 DEF Next
<1>2. QED
  BY <1>1, Inductive, PTL DEF Spec, OnlyCheckClears

\* With unique names refreshDevice never comes back with another device.
LEMMA RefreshKeepsDevice ==
    ASSUME NamesAreUnique, NEW i \in DeviceInfo, NEW j \in Refreshed(i)
    PROVE  j.id = i.id
<1>1. \A d \in Device : \A r \in GetDeviceByInstanceID(d) : r.id = d
  BY DEF GetDeviceByInstanceID, Info
<1>2. i.id \in Device
  BY DEF DeviceInfo
<1>3. \A r \in FindDeviceByFriendlyName(FriendlyName[i.id]) : r.id = i.id
  BY <1>1, <1>2 DEF FindDeviceByFriendlyName, NamesAreUnique
<1>4. QED
  BY <1>1, <1>2, <1>3 DEF Refreshed

\* A session with a device in hand has its own device in hand.
LEMMA KeepsItsDeviceStep ==
    ASSUME NamesAreUnique, Typing, Holding, KeepsItsDevice, [Next]_vars
    PROVE  KeepsItsDevice'
<1> USE DEF KeepsItsDevice, Key
<1>1. ASSUME NEW s \in Scanner, ScanBegins(s) \/ ScanStep(s) PROVE KeepsItsDevice'
  <2>1. ASSUME NEW w \in Worker, Spawns(s, w) PROVE KeepsItsDevice'
    BY <2>1 DEF Spawns, Typing
  <2>2. CASE UNCHANGED workVars
    BY <2>2 DEF workVars
  <2>3. QED
    BY <1>1, <2>1, <2>2 DEF ScanBegins, ScanStep, ClearExhausted, ClearExhaustedReturns, Enumerate,
          ScanReturns, Accepts, Skips, Claims, Coalesces
<1>2. ASSUME NEW w \in Worker, WorkerStep(w) PROVE KeepsItsDevice'
  <2> USE DEF Typing
  <2>1. CASE Looks(w)
    <3>1. PICK i \in Refreshed(initial[w]) :
             IF IsHealthy(i) \/ ~PassesFilter(Key(initial[w]), i.code)
               THEN Goto(w, "settle") /\ UNCHANGED info
               ELSE Goto(w, "relook") /\ info' = [info EXCEPT ![w] = i]
      BY <2>1 DEF Looks
    <3>2. i.id = initial[w].id
      BY <2>1, RefreshKeepsDevice DEF Looks, Holding
    <3>3. QED
      BY <2>1, <3>1, <3>2 DEF Looks, Goto
  <2>2. CASE Relooks(w)
    <3>1. PICK i \in Refreshed(info[w]) : /\ info' = [info EXCEPT ![w] = i]
                                          /\ Goto(w, IF IsDisabled(i) THEN "check" ELSE "disable")
      BY <2>2 DEF Relooks
    <3>2. i.id = info[w].id
      BY <2>2, RefreshKeepsDevice DEF Relooks, Holding
    <3>3. QED
      BY <2>2, <3>1, <3>2 DEF Relooks, Goto
  <2>3. CASE ChecksDisabled(w)
    <3>1. PICK i \in Refreshed(info[w]) : /\ info' = [info EXCEPT ![w] = i]
                                          /\ Goto(w, IF IsDisabled(i) THEN "enable" ELSE "post")
      BY <2>3 DEF ChecksDisabled
    <3>2. i.id = info[w].id
      BY <2>3, RefreshKeepsDevice DEF ChecksDisabled, Holding
    <3>3. QED
      BY <2>3, <3>1, <3>2 DEF ChecksDisabled, Goto
  <2>4. CASE Disables(w) \/ Enables(w) \/ GapEnds(w)
    BY <2>4 DEF Disables, Enables, GapEnds, Goto
  <2>5. CASE LoopHead(w) \/ CountsAttempt(w) \/ Exhausts(w) \/ RetryWaitEnds(w) \/ Settles(w)
    BY <2>5 DEF LoopHead, CountsAttempt, Exhausts, RetryWaitEnds, Settles, Goto
  <2>6. CASE PostChecks(w)
    BY <2>6 DEF PostChecks, Goto
  <2>7. CASE Releases(w) \/ Done(w)
    BY <2>7 DEF Releases, Done, Goto
  <2>8. QED
    BY <1>2, <2>1, <2>2, <2>3, <2>4, <2>5, <2>6, <2>7 DEF WorkerStep
<1>3. CASE Cancelled \/ MainStep \/ HostStep \/ \E d \in Device : DelayElapses(d)
  BY <1>3 DEF Cancelled, MainStep, StopNewWork, CancelsContext, WaitReturns, WaitTimesOut,
              HostStep, DelayElapses, workVars
<1>4. CASE UNCHANGED vars
  BY <1>4 DEF vars, workVars
<1>5. QED
  BY <1>1, <1>2, <1>3, <1>4 DEF Next

\* "Same device never runs concurrent recoveries", for the device that is
\* operated on: true when no two devices share a friendly name.
THEOREM OperationsAreSerial == NamesAreUnique => (Spec => []NoConcurrentOperations)
<1> SUFFICES ASSUME NamesAreUnique PROVE Spec => []NoConcurrentOperations
  OBVIOUS
<1>1. Init => KeepsItsDevice
  BY DEF Init, KeepsItsDevice
<1>2. IInv /\ KeepsItsDevice /\ [Next]_vars => KeepsItsDevice'
  BY KeepsItsDeviceStep DEF IInv
<1>3. IInv /\ KeepsItsDevice => NoConcurrentOperations
  <2> SUFFICES ASSUME IInv, KeepsItsDevice, NEW v \in Worker, NEW w \in Worker,
                      Operating(v), Operating(w), info[v].id = info[w].id
               PROVE  v = w
    BY DEF NoConcurrentOperations
  <2>1. Key(initial[w]) \in Device
    BY DEF IInv, Holding, Operating, Key, DeviceInfo
  <2>2. InSession(v, Key(initial[w])) /\ InSession(w, Key(initial[w]))
    BY DEF KeepsItsDevice, Operating, InSession, Key
  <2>3. QED
    BY <2>1, <2>2 DEF IInv, Ownership, SerialRecovery
<1>4. QED
  BY <1>1, <1>2, <1>3, Inductive, PTL DEF Spec

=============================================================================
