------------------------ MODULE DeviceRecoveryProofs ------------------------
(***************************************************************************)
(* RecoveryManager implements DeviceRecovery: every step of the manager is *)
(* a step of the life cycle of one device, a check that begins or ends its *)
(* clearing, or nothing that the abstract specification can see.           *)
(***************************************************************************)
EXTENDS RecoveryManagerProofs, WellFoundedInduction

(***************************************************************************)
(* Configuration                                                           *)
(***************************************************************************)

\* A non-empty set of natural numbers has a least element.
LEMMA NatMin ==
    ASSUME NEW T, T \subseteq Nat, T # {}
    PROVE  \E x \in T : \A y \in T : x <= y
<1> DEFINE R == OpToRel(<, Nat)
<1>1. IsWellFoundedOn(R, Nat)
  BY NatLessThanWellFounded
<1>2. \A x, y \in T : y < x => <<y, x>> \in R
  BY DEF OpToRel
<1> HIDE DEF R
<1>3. PICK x \in T : \A y \in T : ~ (<<y, x>> \in R)
  BY <1>1, WFMin
<1>4. \A y \in T : ~ (y < x)
  BY <1>2, <1>3
<1>5. \A y \in T : x <= y
  BY <1>4
<1>6. QED
  BY <1>5

\* FindMatcher finds an entry for every configured device, and max_retries > 0.
LEMMA MaxRetriesPositive ==
    ASSUME NEW d \in Configured
    PROVE  MaxRetriesOf(d) \in Nat \ {0}
<1>1. Matching(d) # {} /\ Matching(d) \subseteq Nat /\ Matching(d) \subseteq DOMAIN Entry
  BY EntryAssumption DEF Configured, Matching
<1>2. \E i \in Matching(d) : \A j \in Matching(d) : i <= j
  BY <1>1, NatMin
<1>3. FindMatcher(d) \in Matching(d)
  BY <1>2 DEF FindMatcher
<1>4. QED
  BY <1>1, <1>3, EntryAssumption DEF MaxRetriesOf

(***************************************************************************)
(* The attempt counters                                                    *)
(***************************************************************************)

LEMMA RInvInit == Init => RInv
<1> SUFFICES ASSUME Init PROVE RInv
  OBVIOUS
<1>1. \A w \in Worker : wpc[w] = "free"
  BY DEF Init
<1>2. QED
  BY <1>1 DEF Init, RInv, FreshCounters, BoundedAttempts

\* A step that leaves the counters and the workers' places alone preserves RInv.
LEMMA RInvFrame ==
    ASSUME RInv, UNCHANGED <<attempts, wpc, initial, attempt>>, ctxDone => ctxDone'
    PROVE  RInv'
BY DEF RInv, FreshCounters, BoundedAttempts, InSession

\* Of a scan's steps only the clearing of a session and the start of a worker
\* matter to the counters.
LEMMA RInvScan ==
    ASSUME IInv, RInv, NEW s \in Scanner, ScanBegins(s) \/ ScanStep(s)
    PROVE  RInv'
<1> USE DEF IInv
<1>1. ASSUME NEW d \in Device, ClearExhausted(s, d) PROVE RInv'
  <2>1. UNCHANGED <<wpc, initial, attempt, ctxDone>>
    BY <1>1 DEF ClearExhausted, workVars, mainVars
  <2>2. \A e \in Device : attempts'[e] = attempts[e] \/ (e = d /\ attempts'[e] = 0 /\ state[e] = StateExhausted)
    BY <1>1 DEF ClearExhausted, Typing
  <2>3. \A w \in Worker : wpc[w] \in {"top", "count"} =>
           /\ Key(initial[w]) \in Device
           /\ state[Key(initial[w])] # StateExhausted
    BY DEF Ownership, OwnerSeesRecovering, Holding, DeviceInfo, Key, StateRecovering, StateExhausted
  <2>4. \A w \in Worker : wpc[w] \in {"top", "count"} =>
           attempts'[Key(initial[w])] = attempts[Key(initial[w])]
    BY <2>2, <2>3
  <2>5. FreshCounters'
    BY <2>1, <2>2, <2>4 DEF RInv, FreshCounters, InSession
  <2>6. BoundedAttempts'
    BY <2>1 DEF RInv, BoundedAttempts
  <2>7. QED
    BY <2>5, <2>6 DEF RInv
<1>2. ASSUME NEW w \in Worker, Spawns(s, w) PROVE RInv'
  <2> DEFINE d == Key(cur[s])
  <2>1. d \in Device /\ Claimed(s, d)
    BY <1>2 DEF Spawns, Holding, DeviceInfo, Key, Claimed
  <2>2. \A v \in Worker : ~InSession(v, d)
    BY <2>1 DEF Ownership, SerialRecovery
  <2>3. /\ attempts' = attempts /\ attempt' = attempt /\ ctxDone' = ctxDone
        /\ \A v \in Worker : v # w => wpc'[v] = wpc[v] /\ initial'[v] = initial[v]
        /\ wpc[w] = "free" /\ wpc'[w] = "top" /\ Key(initial'[w]) = d
    BY <1>2 DEF Spawns, Typing, sessVars, mainVars, Key
  <2>4. attempt[w] = 0 /\ (~ctxDone => attempts[d] = 0)
    BY <2>1, <2>2, <2>3 DEF RInv, FreshCounters
  <2>5. \A e \in Device : ~ctxDone' /\ (\A v \in Worker : InSession(v, e)' => wpc'[v] = "exit")
                            => attempts'[e] = 0
    <3> SUFFICES ASSUME NEW e \in Device, ~ctxDone',
                        \A v \in Worker : InSession(v, e)' => wpc'[v] = "exit"
                 PROVE  attempts'[e] = 0
      OBVIOUS
    <3>1. \A v \in Worker : v # w => (InSession(v, e)' <=> InSession(v, e))
      BY <2>3 DEF InSession, Key
    <3>2. ~InSession(w, e)
      BY <2>3 DEF InSession
    <3>3. QED
      BY <2>3, <3>1, <3>2 DEF RInv, FreshCounters
  <2>6. FreshCounters'
    BY <2>3, <2>4, <2>5 DEF RInv, FreshCounters, Key
  <2>7. d \in Configured => 0 <= MaxRetriesOf(d)
    BY MaxRetriesPositive
  <2>8. BoundedAttempts'
    BY <2>3, <2>4, <2>7 DEF RInv, BoundedAttempts, Key
  <2>9. QED
    BY <2>6, <2>8 DEF RInv
<1>3. CASE UNCHANGED <<attempts, wpc, initial, attempt, ctxDone>>
  BY <1>3, RInvFrame
<1>4. QED
  BY <1>1, <1>2, <1>3 DEF ScanBegins, ScanStep, ClearExhaustedReturns, Enumerate, ScanReturns,
        Accepts, Skips, Claims, Coalesces, sessVars, workVars, mainVars

\* A worker's steps keep its counter its own; only cancelled sessions leave
\* one behind.
LEMMA RInvWorker ==
    ASSUME IInv, RInv, NEW w \in Worker, WorkerStep(w)
    PROVE  RInv'
<1> USE DEF IInv
<1> DEFINE d == Key(initial[w])
<1>1. wpc[w] # "free" /\ ctxDone' = ctxDone
  BY DEF WorkerStep, LoopHead, CountsAttempt, Exhausts, Looks, Relooks, Disables, GapEnds,
         ChecksDisabled, Enables, PostChecks, RetryWaitEnds, Settles, Releases, Done, mainVars
<1>2. d \in Device
  BY <1>1 DEF Holding, DeviceInfo, Key
<1>3. \A v \in Worker : v # w => /\ wpc'[v] = wpc[v]
                                /\ initial'[v] = initial[v]
                                /\ attempt'[v] = attempt[v]
  BY DEF WorkerStep, LoopHead, CountsAttempt, Exhausts, Looks, Relooks, Disables, GapEnds,
         ChecksDisabled, Enables, PostChecks, RetryWaitEnds, Settles, Releases, Done, Goto, Typing
<1>4. \A e \in Device : e # d => attempts'[e] = attempts[e]
  BY DEF WorkerStep, LoopHead, CountsAttempt, Exhausts, Looks, Relooks, Disables, GapEnds,
         ChecksDisabled, Enables, PostChecks, RetryWaitEnds, Settles, Releases, Done, Typing,
         sessVars
<1>5. wpc[w] # "done" => \A v \in Worker : v # w /\ wpc[v] \notin {"free", "done"}
                                          => Key(initial[v]) # d /\ Key(initial[v]) \in Device
  BY <1>1, SoleOwner
<1>6. wpc[w] = "done" => attempts' = attempts
  BY DEF WorkerStep, LoopHead, CountsAttempt, Exhausts, Looks, Relooks, Disables, GapEnds,
         ChecksDisabled, Enables, PostChecks, RetryWaitEnds, Settles, Releases, Done, sessVars
<1>7. \A v \in Worker : v # w /\ wpc[v] \notin {"free", "done"}
                         => attempts'[Key(initial[v])] = attempts[Key(initial[v])]
  BY <1>4, <1>5, <1>6
<1>8. /\ wpc'[w] # "free" => initial'[w] = initial[w]
      /\ wpc'[w] = "free" => attempt'[w] = 0
      /\ wpc[w] # "done" => wpc'[w] # "free"
  BY DEF WorkerStep, LoopHead, CountsAttempt, Exhausts, Looks, Relooks, Disables, GapEnds,
         ChecksDisabled, Enables, PostChecks, RetryWaitEnds, Settles, Releases, Done, Goto, Typing
<1>9. ASSUME wpc'[w] \in {"top", "count"}
      PROVE  /\ attempts'[d] = attempts[d]
             /\ attempt'[w] = attempt[w]
             /\ wpc[w] \in {"post", "retry"} \/ (wpc[w] = "top" /\ ~ctxDone)
  BY <1>2, <1>9 DEF WorkerStep, LoopHead, CountsAttempt, Exhausts, Looks, Relooks, Disables, GapEnds,
         ChecksDisabled, Enables, PostChecks, RetryWaitEnds, Settles, Releases, Done, Goto, Typing,
         sessVars
<1>10. ASSUME wpc'[w] \in {"top", "count"} PROVE attempts'[d] = attempt'[w]
  <2>1. CASE wpc[w] = "top" /\ ~ctxDone
    BY <1>9, <1>10, <2>1 DEF RInv, FreshCounters
  <2>2. CASE wpc[w] \in {"post", "retry"}
    BY <1>9, <1>10, <2>2 DEF Ownership, CounterIsPrivate, InAttempt
  <2>3. QED
    BY <1>9, <1>10, <2>1, <2>2
<1>11. \A v \in Worker : wpc'[v] = "count" \/ (wpc'[v] = "top" /\ ~ctxDone')
                            => attempts'[Key(initial'[v])] = attempt'[v]
  <2> SUFFICES ASSUME NEW v \in Worker, wpc'[v] = "count" \/ (wpc'[v] = "top" /\ ~ctxDone')
               PROVE  attempts'[Key(initial'[v])] = attempt'[v]
    OBVIOUS
  <2>1. CASE v = w
    BY <2>1, <1>8, <1>10
  <2>2. CASE v # w
    BY <2>2, <1>1, <1>3, <1>7 DEF RInv, FreshCounters
  <2>3. QED
    BY <2>1, <2>2
<1>12. ~ctxDone' => \A e \in Device : (\A v \in Worker : InSession(v, e)' => wpc'[v] = "exit")
                                        => attempts'[e] = 0
  <2> SUFFICES ASSUME ~ctxDone, NEW e \in Device,
                      \A v \in Worker : InSession(v, e)' => wpc'[v] = "exit"
               PROVE  attempts'[e] = 0
    BY <1>1
  <2>1. \A v \in Worker : v # w => (InSession(v, e)' <=> InSession(v, e))
    BY <1>3 DEF InSession, Key
  <2>2. CASE e # d \/ wpc[w] = "done"
    <3>1. ~InSession(w, e)
      BY <2>2 DEF InSession
    <3>2. \A v \in Worker : InSession(v, e) => wpc[v] = "exit"
      BY <1>3, <2>1, <3>1
    <3>3. attempts'[e] = attempts[e]
      BY <1>4, <1>6, <2>2
    <3>4. QED
      BY <3>2, <3>3 DEF RInv, FreshCounters
  <2>3. CASE e = d /\ wpc[w] # "done"
    <3>1. wpc'[w] \in {"exit", "done"}
      BY <1>8, <2>3 DEF InSession
    <3>2. wpc[w] = "exit" \/ attempts'[d] = 0
      BY <1>2, <3>1 DEF WorkerStep, LoopHead, CountsAttempt, Exhausts, Looks, Relooks, Disables,
            GapEnds, ChecksDisabled, Enables, PostChecks, RetryWaitEnds, Settles, Releases, Done,
            Goto, Typing
    <3>3. ASSUME wpc[w] = "exit" PROVE attempts'[d] = attempts[d]
      BY <3>3 DEF WorkerStep, LoopHead, CountsAttempt, Exhausts, Looks, Relooks, Disables,
            GapEnds, ChecksDisabled, Enables, PostChecks, RetryWaitEnds, Settles, Releases, Done
    <3>4. ASSUME wpc[w] = "exit" PROVE \A v \in Worker : InSession(v, d) => wpc[v] = "exit"
      BY <1>1, <1>5, <3>4 DEF InSession
    <3>5. QED
      BY <1>2, <2>3, <3>2, <3>3, <3>4 DEF RInv, FreshCounters
  <2>4. QED
    BY <2>2, <2>3
<1>13. FreshCounters'
  BY <1>3, <1>8, <1>11, <1>12 DEF RInv, FreshCounters
<1>14. ASSUME d \in Configured, wpc'[w] \notin {"free", "exit", "done"}
       PROVE  IF wpc'[w] = "exhaust" THEN attempt'[w] = MaxRetriesOf(d) + 1
                                     ELSE attempt'[w] <= MaxRetriesOf(d)
  <2>1. MaxRetriesOf(d) \in Nat
    BY <1>14, MaxRetriesPositive
  <2>2. CASE CountsAttempt(w)
    <3>1. attempt[w] <= MaxRetriesOf(d) /\ attempts[d] = attempt[w] /\ attempt[w] \in Nat
      BY <1>14, <2>2 DEF CountsAttempt, RInv, BoundedAttempts, FreshCounters, Typing
    <3>2. /\ attempt'[w] = attempt[w] + 1
          /\ wpc'[w] = IF attempt[w] + 1 > MaxRetriesOf(d) THEN "exhaust" ELSE "look"
      BY <2>2, <3>1 DEF CountsAttempt, Goto, Typing
    <3>3. QED
      BY <2>1, <3>1, <3>2
  <2>3. CASE ~CountsAttempt(w)
    <3>1. /\ attempt'[w] = attempt[w]
          /\ wpc'[w] # "exhaust"
          /\ wpc[w] \notin {"free", "exit", "done", "exhaust"}
      BY <1>14, <2>3 DEF WorkerStep, LoopHead, Exhausts, Looks, Relooks, Disables, GapEnds,
            ChecksDisabled, Enables, PostChecks, RetryWaitEnds, Settles, Releases, Done, Goto, Typing
    <3>2. QED
      BY <1>14, <3>1 DEF RInv, BoundedAttempts
  <2>4. QED
    BY <2>2, <2>3
<1>15. BoundedAttempts'
  <2> SUFFICES ASSUME NEW v \in Worker, wpc'[v] \notin {"free", "exit", "done"},
                      Key(initial'[v]) \in Configured
               PROVE  IF wpc'[v] = "exhaust" THEN attempt'[v] = MaxRetriesOf(Key(initial'[v])) + 1
                                             ELSE attempt'[v] <= MaxRetriesOf(Key(initial'[v]))
    BY DEF BoundedAttempts, Key, Configured, Matching, MaxRetriesOf, FindMatcher
  <2>1. CASE v = w
    BY <2>1, <1>8, <1>14
  <2>2. CASE v # w
    BY <2>2, <1>3 DEF RInv, BoundedAttempts
  <2>3. QED
    BY <2>1, <2>2
<1>16. QED
  BY <1>13, <1>15 DEF RInv

LEMMA RInvNext == IInv /\ RInv /\ [Next]_vars => RInv'
<1> SUFFICES ASSUME IInv, RInv, [Next]_vars PROVE RInv'
  OBVIOUS
<1>1. ASSUME NEW s \in Scanner, ScanBegins(s) \/ ScanStep(s) PROVE RInv'
  BY <1>1, RInvScan
<1>2. ASSUME NEW w \in Worker, WorkerStep(w) PROVE RInv'
  BY <1>2, RInvWorker
<1>3. CASE Cancelled \/ MainStep \/ HostStep \/ \E d \in Device : DelayElapses(d)
  BY <1>3, RInvFrame DEF Cancelled, MainStep, StopNewWork, CancelsContext, WaitReturns,
        WaitTimesOut, HostStep, DelayElapses, sessVars, workVars, mainVars
<1>4. CASE UNCHANGED vars
  BY <1>4, RInvFrame DEF vars, sessVars, workVars, mainVars
<1>5. QED
  BY <1>1, <1>2, <1>3, <1>4 DEF Next

\* RInv holds in every reachable state: a session's attempts start at 1, go up
\* one by one, and only the last, which gives the device up, exceeds max_retries.
THEOREM CountersStartFresh == Spec => []RInv
<1>1. QED
  BY RInvInit, RInvNext, Inductive, PTL DEF Spec

(***************************************************************************)
(* The number of cycles the abstract specification sees                    *)
(***************************************************************************)

\* A session has one worker, and its local counter is the one that is seen.
LEMMA CountedOf ==
    ASSUME SerialRecovery, NEW d \in Device, NEW w \in Worker, InSession(w, d)
    PROVE  Counted(d) = {attempt[w]}
<1>1. \A v \in Worker : InSession(v, d) <=> v = w
  BY DEF SerialRecovery
<1>2. QED
  BY <1>1 DEF Counted

LEMMA CountedOfNext ==
    ASSUME SerialRecovery', NEW d \in Device, NEW w \in Worker, InSession(w, d)'
    PROVE  Counted(d)' = {attempt'[w]}
<1>1. \A v \in Worker : InSession(v, d)' <=> v = w
  BY DEF SerialRecovery
<1>2. QED
  BY <1>1 DEF Counted

LEMMA CyclesOf ==
    ASSUME SerialRecovery, NEW d \in Device, NEW w \in Worker, InSession(w, d),
           state[d] = StateRecovering
    PROVE  CyclesBegun(d) = IF attempt[w] > MaxRetriesOf(d) THEN MaxRetriesOf(d) ELSE attempt[w]
BY CountedOf DEF CyclesBegun

LEMMA CyclesOfNext ==
    ASSUME SerialRecovery', NEW d \in Device, NEW w \in Worker, InSession(w, d)',
           state'[d] = StateRecovering
    PROVE  CyclesBegun(d)' = IF attempt'[w] > MaxRetriesOf(d) THEN MaxRetriesOf(d) ELSE attempt'[w]
<1>1. Counted(d)' = {attempt'[w]}
  BY CountedOfNext
<1>2. MaxRetriesOf(d)' = MaxRetriesOf(d)
  BY DEF MaxRetriesOf, FindMatcher, Matching
<1>3. QED
  BY <1>1, <1>2 DEF CyclesBegun

\* Without a worker, or out of Recovering, no cycle has begun.
LEMMA CyclesZero ==
    ASSUME NEW d \in Device, state[d] # StateRecovering \/ \A w \in Worker : ~InSession(w, d)
    PROVE  CyclesBegun(d) = 0
BY DEF CyclesBegun, Counted

LEMMA CyclesZeroNext ==
    ASSUME NEW d \in Device, state'[d] # StateRecovering \/ \A w \in Worker : ~InSession(w, d)'
    PROVE  CyclesBegun(d)' = 0
BY DEF CyclesBegun, Counted

\* A step that leaves a device's state, worker and counter alone leaves its
\* cycles alone.
LEMMA CyclesFrame ==
    ASSUME NEW d \in Device, state'[d] = state[d],
           \A w \in Worker : /\ InSession(w, d)' <=> InSession(w, d)
                             /\ InSession(w, d) => attempt'[w] = attempt[w]
    PROVE  CyclesBegun(d)' = CyclesBegun(d)
<1>1. Counted(d)' = Counted(d)
  BY DEF Counted
<1>2. MaxRetriesOf(d)' = MaxRetriesOf(d)
  BY DEF MaxRetriesOf, FindMatcher, Matching
<1>3. QED
  BY <1>1, <1>2 DEF CyclesBegun

(***************************************************************************)
(* Steps of the abstract specification                                     *)
(***************************************************************************)

\* Nothing that the abstract specification sees of d changes.
Unseen(d) == state'[d] = state[d] /\ CyclesBegun(d)' = CyclesBegun(d)

\* What it sees of d changes by one of its actions.
Seen(d) ==
    \/ /\ state[d] = StateIdle /\ state'[d] = StateRecovering
       /\ CyclesBegun(d)' = CyclesBegun(d)
    \/ /\ state[d] = StateRecovering /\ state'[d] = StateRecovering
       /\ CyclesBegun(d) < MaxRetriesOf(d) /\ CyclesBegun(d)' = CyclesBegun(d) + 1
    \/ /\ state[d] = StateRecovering /\ state'[d] = StateIdle
       /\ CyclesBegun(d)' = 0
    \/ /\ state[d] = StateRecovering /\ state'[d] = StateExhausted
       /\ CyclesBegun(d) = MaxRetriesOf(d) /\ CyclesBegun(d)' = 0
    \/ /\ Clearing /\ state[d] = StateExhausted /\ state'[d] = StateIdle
       /\ CyclesBegun(d)' = CyclesBegun(d)

Allowed == Promise!Next \/ UNCHANGED Promise!vars

LEMMA StutterAllowed ==
    ASSUME \A d \in Configured : Unseen(d), Clearing' = Clearing
    PROVE  Allowed
<1>1. [d \in Configured |-> state'[d]] = [d \in Configured |-> state[d]]
  BY DEF Unseen
<1>2. [d \in Configured |-> CyclesBegun(d)'] = [d \in Configured |-> CyclesBegun(d)]
  BY DEF Unseen
<1>3. Configured' = Configured
  BY DEF Configured, Matching
<1>4. QED
  BY <1>1, <1>2, <1>3 DEF Allowed, Promise!vars

LEMMA OneDeviceAllowed ==
    ASSUME NEW d \in Configured, Seen(d), \A e \in Configured \ {d} : Unseen(e),
           Clearing' = Clearing
    PROVE  Allowed
<1> DEFINE st == [e \in Configured |-> state[e]]
           cy == [e \in Configured |-> CyclesBegun(e)]
           st2 == [e \in Configured |-> state'[e]]
           cy2 == [e \in Configured |-> CyclesBegun(e)']
           mx == [e \in Configured |-> MaxRetriesOf(e)]
<1>1. /\ st2 = [st EXCEPT ![d] = state'[d]]
      /\ cy2 = [cy EXCEPT ![d] = CyclesBegun(d)']
  BY DEF Unseen
<1>2. st[d] = state[d] /\ cy[d] = CyclesBegun(d) /\ mx[d] = MaxRetriesOf(d)
  OBVIOUS
<1>3. CyclesBegun(d)' = CyclesBegun(d) => cy2 = cy
  BY DEF Unseen
<1>4. state'[d] = state[d] => st2 = st
  BY DEF Unseen
<1>5. Configured' = Configured
  BY DEF Configured, Matching
<1> HIDE DEF st, cy, st2, cy2, mx
<1>6. SUFFICES Promise!Next
  BY DEF Allowed
<1>7. CASE state[d] = StateIdle /\ state'[d] = StateRecovering /\ CyclesBegun(d)' = CyclesBegun(d)
  <2>1. Promise!Begin(d)
    BY <1>1, <1>2, <1>3, <1>5, <1>7 DEF Promise!Begin, st, cy, st2, cy2, StateIdle, StateRecovering
  <2>2. QED
    BY <2>1 DEF Promise!Next
<1>8. CASE /\ state[d] = StateRecovering /\ state'[d] = StateRecovering
           /\ CyclesBegun(d) < MaxRetriesOf(d) /\ CyclesBegun(d)' = CyclesBegun(d) + 1
  <2>1. Promise!Attempt(d)
    BY <1>1, <1>2, <1>4, <1>5, <1>8 DEF Promise!Attempt, st, cy, st2, cy2, mx, StateRecovering
  <2>2. QED
    BY <2>1 DEF Promise!Next
<1>9. CASE /\ state[d] = StateRecovering /\ state'[d] = StateIdle
           /\ CyclesBegun(d)' = 0
  <2>1. Promise!Finish(d)
    BY <1>1, <1>2, <1>5, <1>9 DEF Promise!Finish, st, cy, st2, cy2, StateIdle, StateRecovering
  <2>2. QED
    BY <2>1 DEF Promise!Next
<1>10. CASE /\ state[d] = StateRecovering /\ state'[d] = StateExhausted
            /\ CyclesBegun(d) = MaxRetriesOf(d) /\ CyclesBegun(d)' = 0
  <2>1. Promise!GiveUp(d)
    BY <1>1, <1>2, <1>5, <1>10
       DEF Promise!GiveUp, st, cy, st2, cy2, mx, StateRecovering, StateExhausted
  <2>2. QED
    BY <2>1 DEF Promise!Next
<1>11. CASE /\ Clearing /\ state[d] = StateExhausted /\ state'[d] = StateIdle
            /\ CyclesBegun(d)' = CyclesBegun(d)
  <2>1. Promise!Clear(d)
    BY <1>1, <1>2, <1>3, <1>5, <1>11
       DEF Promise!Clear, st, cy, st2, cy2, StateIdle, StateExhausted
  <2>2. QED
    BY <2>1 DEF Promise!Next
<1>12. QED
  BY <1>7, <1>8, <1>9, <1>10, <1>11 DEF Seen

\* Only a check that begins or ends its clearing changes Clearing.
LEMMA CheckAllowed ==
    ASSUME \A d \in Configured : Unseen(d), Clearing' = ~Clearing
    PROVE  Allowed
<1>1. [d \in Configured |-> state'[d]] = [d \in Configured |-> state[d]]
  BY DEF Unseen
<1>2. [d \in Configured |-> CyclesBegun(d)'] = [d \in Configured |-> CyclesBegun(d)]
  BY DEF Unseen
<1>3. Configured' = Configured
  BY DEF Configured, Matching
<1>4. Promise!CheckBeginsOrEnds
  BY <1>1, <1>2, <1>3 DEF Promise!CheckBeginsOrEnds
<1>5. QED
  BY <1>4 DEF Allowed, Promise!Next

LEMMA InitAllowed == Init => Promise!Init
<1> SUFFICES ASSUME Init PROVE Promise!Init
  OBVIOUS
<1>1. \A d \in Configured : d \in Device /\ state[d] = "Idle"
  BY DEF Init, Configured, StateIdle
<1>2. \A d \in Configured : CyclesBegun(d) = 0
  BY <1>1, CyclesZero DEF StateRecovering
<1>3. Clearing = FALSE
  BY ScannerAssumption DEF Init, Clearing
<1>4. QED
  BY <1>1, <1>2, <1>3 DEF Promise!Init

(***************************************************************************)
(* Every step of the manager is allowed                                    *)
(***************************************************************************)

\* The scanners' steps that the abstract specification does not see.
LEMMA QuietStepAllowed ==
    ASSUME UNCHANGED <<state, wpc, initial, attempt>>, Clearing' = Clearing
    PROVE  Allowed
<1>1. ASSUME NEW d \in Configured PROVE Unseen(d)
  <2>1. d \in Device
    BY DEF Configured
  <2>2. CyclesBegun(d)' = CyclesBegun(d)
    BY <2>1, CyclesFrame DEF InSession
  <2>3. QED
    BY <2>2 DEF Unseen
<1>2. QED
  BY <1>1, StutterAllowed

LEMMA ClearingSame ==
    ASSUME \A s \in Checker : spc'[s] = "clear" <=> spc[s] = "clear"
    PROVE  Clearing' = Clearing
<1>1. Clearing' <=> Clearing
  BY DEF Clearing
<1>2. Clearing \in BOOLEAN /\ Clearing' \in BOOLEAN
  BY DEF Clearing
<1>3. QED
  BY <1>1, <1>2

LEMMA ScanAllowed ==
    ASSUME IInv, RInv, NEW s \in Scanner, ScanBegins(s) \/ ScanStep(s)
    PROVE  Allowed
<1> USE DEF IInv
<1>1. \A d \in Configured : d \in Device
  BY DEF Configured
<1>2. CASE ScanBegins(s) \/ ClearExhaustedReturns(s)
  <2>1. UNCHANGED <<state, wpc, initial, attempt>>
    BY <1>2 DEF ScanBegins, ClearExhaustedReturns, sessVars, workVars
  <2>2. \A d \in Configured : Unseen(d)
    BY <1>1, <2>1, CyclesFrame DEF Unseen, InSession
  <2>3. Clearing \in BOOLEAN /\ Clearing' \in BOOLEAN
    BY DEF Clearing
  <2>4. CASE Clearing' = Clearing
    BY <2>2, <2>4, StutterAllowed
  <2>5. CASE Clearing' = ~Clearing
    BY <2>2, <2>5, CheckAllowed
  <2>6. QED
    BY <2>3, <2>4, <2>5
<1>3. ASSUME NEW d \in Device, ClearExhausted(s, d) PROVE Allowed
  <2>1. /\ Clearing
        /\ UNCHANGED <<wpc, initial, attempt, spc>>
    BY <1>3 DEF ClearExhausted, Holding, Clearing, workVars
  <2>2. Clearing' = Clearing
    BY <2>1, ClearingSame
  <2>3. \A e \in Device : e # d => state'[e] = state[e]
    BY <1>3 DEF ClearExhausted, Typing
  <2>4. \A e \in Configured \ {d} : Unseen(e)
    BY <1>1, <2>1, <2>3, CyclesFrame DEF Unseen, InSession
  <2>5. CASE state[d] = StateExhausted
    <3>1. state'[d] = StateIdle
      BY <1>3, <2>5 DEF ClearExhausted, Typing
    <3>2. CyclesBegun(d) = 0 /\ CyclesBegun(d)' = 0
      BY <2>5, <3>1, CyclesZero, CyclesZeroNext DEF StateIdle, StateExhausted, StateRecovering
    <3>3. Seen(d)
      BY <2>1, <2>5, <3>1, <3>2 DEF Seen
    <3>4. QED
      BY <2>2, <2>4, <3>3, OneDeviceAllowed, StutterAllowed
  <2>6. CASE state[d] # StateExhausted
    <3>1. state' = state
      BY <1>3, <2>6 DEF ClearExhausted
    <3>2. QED
      BY <2>1, <2>2, <3>1, QuietStepAllowed
  <2>7. QED
    BY <2>5, <2>6
<1>4. CASE Claims(s)
  <2>1. PICK d \in Device : d = Key(cur[s])
    BY <1>4 DEF Claims, Holding, DeviceInfo, Key
  <2>2. /\ ~running[d] /\ state[d] = StateIdle /\ state'[d] = StateRecovering
        /\ \A e \in Device : e # d => state'[e] = state[e]
        /\ UNCHANGED <<wpc, initial, attempt>>
        /\ \A t \in Scanner : spc'[t] = "clear" <=> spc[t] = "clear"
    BY <1>4, <2>1 DEF Claims, MayClaim, Typing, StateSet, workVars
  <2>3. Clearing' = Clearing
    BY <2>2, ScannerAssumption, ClearingSame
  <2>4. \A w \in Worker : ~InSession(w, d) /\ ~InSession(w, d)'
    <3>1. \A w \in Worker : ~InSession(w, d)
      BY <2>1, <2>2 DEF Ownership, RunningIsOwned, Owned
    <3>2. QED
      BY <2>2, <3>1 DEF InSession
  <2>5. CyclesBegun(d) = 0 /\ CyclesBegun(d)' = 0
    BY <2>1, <2>4 DEF CyclesBegun, Counted
  <2>6. Seen(d)
    BY <2>2, <2>5 DEF Seen
  <2>7. \A e \in Configured \ {d} : Unseen(e)
    BY <1>1, <2>2, CyclesFrame DEF Unseen, InSession
  <2>8. QED
    BY <2>3, <2>6, <2>7, OneDeviceAllowed, StutterAllowed
<1>5. ASSUME NEW w \in Worker, Spawns(s, w) PROVE Allowed
  <2>1. PICK d \in Device : d = Key(cur[s]) /\ Claimed(s, d)
    BY <1>5 DEF Spawns, Holding, DeviceInfo, Key, Claimed
  <2>2. /\ state' = state /\ attempt' = attempt
        /\ \A v \in Worker : v # w => wpc'[v] = wpc[v] /\ initial'[v] = initial[v]
        /\ wpc[w] = "free" /\ wpc'[w] = "top" /\ Key(initial'[w]) = d
        /\ \A t \in Scanner : spc'[t] = "clear" <=> spc[t] = "clear"
    BY <1>5, <2>1 DEF Spawns, Typing, sessVars, Key
  <2>3. Clearing' = Clearing
    BY <2>2, ScannerAssumption, ClearingSame
  <2>4. \A v \in Worker : ~InSession(v, d)
    BY <2>1 DEF Ownership, SerialRecovery
  <2>5. \A v \in Worker : InSession(v, d)' <=> v = w
    BY <2>2, <2>4 DEF InSession
  <2>6. attempt'[w] = 0
    BY <2>2 DEF RInv, FreshCounters
  <2>7. Counted(d)' = {0}
    BY <2>5, <2>6 DEF Counted
  <2>8. ASSUME d \in Configured PROVE Unseen(d)
    <3>1. CyclesBegun(d) = 0
      BY <2>1, <2>4, CyclesZero
    <3>2. MaxRetriesOf(d)' = MaxRetriesOf(d) /\ MaxRetriesOf(d) \in Nat
      BY <2>8, MaxRetriesPositive DEF MaxRetriesOf, FindMatcher, Matching
    <3>3. CyclesBegun(d)' = 0
      BY <2>7, <3>2 DEF CyclesBegun
    <3>4. QED
      BY <2>2, <3>1, <3>3 DEF Unseen
  <2>9. ASSUME NEW e \in Configured, e # d PROVE Unseen(e)
    <3>1. \A v \in Worker : InSession(v, e)' <=> InSession(v, e)
      BY <2>2, <2>9 DEF InSession, Key
    <3>2. QED
      BY <1>1, <2>2, <3>1, CyclesFrame DEF Unseen
  <2>10. QED
    BY <2>3, <2>8, <2>9, StutterAllowed
<1>6. CASE /\ UNCHANGED <<state, wpc, initial, attempt>>
           /\ \A t \in Scanner : spc'[t] = "clear" <=> spc[t] = "clear"
  BY <1>6, ScannerAssumption, ClearingSame, QuietStepAllowed
<1>7. ASSUME Enumerate(s) \/ ScanReturns(s) \/ Coalesces(s)
               \/ \E m \in todo[s] : Accepts(s, m) \/ Skips(s, m)
      PROVE  /\ UNCHANGED <<state, wpc, initial, attempt>>
             /\ \A t \in Scanner : spc'[t] = "clear" <=> spc[t] = "clear"
  BY <1>7 DEF Enumerate, ScanReturns, Coalesces, Accepts, Skips, Typing, sessVars, workVars
<1>8. QED
  BY <1>2, <1>3, <1>4, <1>5, <1>6, <1>7 DEF ScanStep

LEMMA WorkerAllowed ==
    ASSUME IInv, SerialRecovery', RInv, NEW w \in Worker, WorkerStep(w)
    PROVE  Allowed
<1> USE DEF IInv
<1>1. /\ wpc[w] # "free"
      /\ UNCHANGED spc
  BY DEF WorkerStep, LoopHead, CountsAttempt, Exhausts, Looks, Relooks, Disables, GapEnds,
         ChecksDisabled, Enables, PostChecks, RetryWaitEnds, Settles, Releases, Done, scanVars
<1>2. PICK d \in Device : d = Key(initial[w])
  BY <1>1 DEF Holding, DeviceInfo, Key
<1>3. Clearing' = Clearing
  BY <1>1, ClearingSame
<1>4. \A v \in Worker : v # w => /\ wpc'[v] = wpc[v]
                                /\ initial'[v] = initial[v]
                                /\ attempt'[v] = attempt[v]
  BY DEF WorkerStep, LoopHead, CountsAttempt, Exhausts, Looks, Relooks, Disables, GapEnds,
         ChecksDisabled, Enables, PostChecks, RetryWaitEnds, Settles, Releases, Done, Goto, Typing
<1>5. /\ wpc'[w] # "free" => initial'[w] = initial[w]
      /\ wpc'[w] = "free" <=> wpc[w] = "done"
      /\ wpc'[w] = "done" <=> wpc[w] = "exit"
  BY <1>1 DEF WorkerStep, LoopHead, CountsAttempt, Exhausts, Looks, Relooks, Disables, GapEnds,
         ChecksDisabled, Enables, PostChecks, RetryWaitEnds, Settles, Releases, Done, Goto, Typing
<1>6. \A e \in Device : e # d => state'[e] = state[e]
  BY <1>2 DEF WorkerStep, LoopHead, CountsAttempt, Exhausts, Looks, Relooks, Disables, GapEnds,
         ChecksDisabled, Enables, PostChecks, RetryWaitEnds, Settles, Releases, Done, Typing,
         sessVars
<1>7. ASSUME NEW e \in Configured, e # d PROVE Unseen(e)
  <2>1. e \in Device /\ ~InSession(w, e) /\ ~InSession(w, e)'
    BY <1>2, <1>5, <1>7 DEF Configured, InSession, Key
  <2>2. \A v \in Worker : /\ InSession(v, e)' <=> InSession(v, e)
                          /\ InSession(v, e) => attempt'[v] = attempt[v]
    BY <1>4, <2>1 DEF InSession, Key
  <2>3. QED
    BY <1>6, <1>7, <2>1, <2>2, CyclesFrame DEF Unseen
<1>8. SUFFICES ASSUME d \in Configured PROVE Unseen(d) \/ Seen(d)
  BY <1>3, <1>7, StutterAllowed, OneDeviceAllowed
<1>9. /\ InSession(w, d) <=> wpc[w] # "done"
      /\ InSession(w, d)' <=> wpc[w] \notin {"done", "exit"}
  BY <1>1, <1>2, <1>5 DEF InSession, Key
<1>10. wpc[w] \notin {"done", "exit"} => state[d] = StateRecovering
  BY <1>1, <1>2 DEF Ownership, OwnerSeesRecovering
<1>11. MaxRetriesOf(d) \in Nat \ {0} /\ attempt[w] \in Nat
  BY <1>8, MaxRetriesPositive DEF Typing
<1>12. SerialRecovery
  BY DEF Ownership
<1>13. CASE CountsAttempt(w)
  <2>1. /\ wpc[w] = "count"
        /\ attempt[w] <= MaxRetriesOf(d)
        /\ attempt'[w] = attempt[w] + 1
        /\ state'[d] = state[d]
    BY <1>2, <1>8, <1>13 DEF CountsAttempt, RInv, BoundedAttempts, FreshCounters, Typing
  <2>2. CyclesBegun(d) = attempt[w]
    BY <1>9, <1>10, <1>11, <1>12, <2>1, CyclesOf
  <2>3. CyclesBegun(d)' = IF attempt[w] + 1 > MaxRetriesOf(d) THEN MaxRetriesOf(d)
                                                             ELSE attempt[w] + 1
    BY <1>9, <1>10, <2>1, CyclesOfNext
  <2>4. QED
    BY <1>10, <1>11, <2>1, <2>2, <2>3 DEF Unseen, Seen
<1>14. CASE Exhausts(w)
  <2>1. /\ wpc[w] = "exhaust"
        /\ attempt[w] = MaxRetriesOf(d) + 1
        /\ state'[d] = StateExhausted
    BY <1>2, <1>8, <1>14 DEF Exhausts, RInv, BoundedAttempts, Typing
  <2>2. CyclesBegun(d) = MaxRetriesOf(d)
    BY <1>9, <1>10, <1>11, <1>12, <2>1, CyclesOf
  <2>3. CyclesBegun(d)' = 0
    BY <2>1, CyclesZeroNext DEF StateExhausted, StateRecovering
  <2>4. QED
    BY <1>10, <2>1, <2>2, <2>3 DEF Seen
<1>15. CASE Settles(w) \/ (Releases(w) /\ state[d] = StateRecovering)
  <2>1. state[d] = StateRecovering /\ state'[d] = StateIdle
    BY <1>2, <1>10, <1>15 DEF Settles, Releases, Typing
  <2>2. CyclesBegun(d)' = 0
    BY <2>1, CyclesZeroNext DEF StateIdle, StateRecovering
  <2>3. QED
    BY <2>1, <2>2 DEF Seen
<1>16. CASE Releases(w) /\ state[d] # StateRecovering
  <2>1. state'[d] = state[d]
    BY <1>2, <1>16 DEF Releases, Typing
  <2>2. CyclesBegun(d) = 0 /\ CyclesBegun(d)' = 0
    BY <1>16, <2>1, CyclesZero, CyclesZeroNext
  <2>3. QED
    BY <2>1, <2>2 DEF Unseen
<1>17. CASE Done(w)
  <2>1. state' = state /\ wpc[w] = "done"
    BY <1>17 DEF Done, sessVars
  <2>2. \A v \in Worker : /\ InSession(v, d)' <=> InSession(v, d)
                          /\ InSession(v, d) => attempt'[v] = attempt[v]
    BY <1>4, <1>9, <2>1 DEF InSession, Key
  <2>3. QED
    BY <2>1, <2>2, CyclesFrame DEF Unseen
<1>18. CASE ~(CountsAttempt(w) \/ Exhausts(w) \/ Settles(w) \/ Releases(w) \/ Done(w))
  <2>1. state' = state /\ attempt' = attempt /\ wpc[w] \notin {"done", "exit"}
    BY <1>18 DEF WorkerStep, LoopHead, Looks, Relooks, Disables, GapEnds, ChecksDisabled,
           Enables, PostChecks, RetryWaitEnds, sessVars
  <2>2. \A v \in Worker : InSession(v, d)' <=> InSession(v, d)
    BY <1>4, <1>9, <2>1 DEF InSession, Key
  <2>3. QED
    BY <2>1, <2>2, CyclesFrame DEF Unseen
<1>19. QED
  BY <1>13, <1>14, <1>15, <1>16, <1>17, <1>18

LEMMA NextAllowed == IInv /\ IInv' /\ RInv /\ [Next]_vars => [Promise!Next]_(Promise!vars)
<1> SUFFICES ASSUME IInv, IInv', RInv, [Next]_vars PROVE Allowed
  BY DEF Allowed
<1>1. ASSUME NEW s \in Scanner, ScanBegins(s) \/ ScanStep(s) PROVE Allowed
  BY <1>1, ScanAllowed
<1>2. ASSUME NEW w \in Worker, WorkerStep(w) PROVE Allowed
  <2>1. SerialRecovery'
    BY DEF IInv, Ownership
  <2>2. QED
    BY <1>2, <2>1, WorkerAllowed
<1>3. ASSUME UNCHANGED <<state, wpc, initial, attempt, spc>> PROVE Allowed
  <2>1. Clearing' = Clearing
    BY <1>3, ClearingSame
  <2>2. QED
    BY <1>3, <2>1, QuietStepAllowed
<1>4. CASE Cancelled \/ MainStep \/ HostStep \/ \E d \in Device : DelayElapses(d)
  BY <1>3, <1>4 DEF Cancelled, MainStep, StopNewWork, CancelsContext, WaitReturns,
        WaitTimesOut, HostStep, DelayElapses, sessVars, workVars, scanVars
<1>5. CASE UNCHANGED vars
  BY <1>3, <1>5 DEF vars, sessVars, workVars, scanVars
<1>6. QED
  BY <1>1, <1>2, <1>4, <1>5 DEF Next

\* The recovery manager implements the life cycle: a device is Recovering for
\* at most max_retries counted cycles, is given up only after all of them, and
\* leaves Exhausted only in a check.
THEOREM Implements == Spec => ImplementsDeviceRecovery
<1>1. QED
  BY InitAllowed, NextAllowed, Inductive, CountersStartFresh, PTL
     DEF Spec, ImplementsDeviceRecovery, Promise!Spec
=============================================================================
