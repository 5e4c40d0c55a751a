-------------------------- MODULE RecoveryManager --------------------------
(***************************************************************************)
(* recovery.go: scans, per-device recovery sessions and their shutdown.    *)
(*                                                                         *)
(* Three kinds of goroutine share the manager:                             *)
(*   - scanners, the goroutines that call Scan: the startup scan, the      *)
(*     debounce timer's callbacks and the IPC server's check;              *)
(*   - workers, the goroutines HandleDeviceProblem starts, one a session;  *)
(*   - main, which calls Shutdown.                                         *)
(* A step is what a goroutine does between two points where another one    *)
(* may see or change what it works on: a critical section of rm.mu or      *)
(* sess.mu, one call of a device operation, one end of a wait.             *)
(***************************************************************************)
EXTENDS Devices, Integers, Sequences, FiniteSets

CONSTANTS
    Entry,            \* cfg.Devices, a sequence of [names, maxRetries, problemCode, delayed]
    Scanner,          \* goroutines that may be inside Scan at the same time
    Checker,          \* the scanners whose reason is "check"
    Worker,           \* worker goroutines that may exist at the same time
    WaitMayTimeOut,   \* BOOLEAN: the 60 s of Shutdown may pass before Wait returns
    None              \* no DeviceInfo

ASSUME EntryAssumption ==
    /\ DOMAIN Entry \subseteq Nat
    /\ \A i \in DOMAIN Entry : /\ Entry[i].maxRetries \in Nat \ {0}
                               /\ Entry[i].problemCode \subseteq Code
                               /\ Entry[i].delayed \in BOOLEAN

ASSUME ScannerAssumption == Checker \subseteq Scanner

ASSUME WorkerAssumption == IsFiniteSet(Worker)

VARIABLES
    delayOver,        \* the devices whose rec_delay clock has passed sec
    state,            \* [Device -> StateSet]: deviceSession.state
    running,          \* [Device -> BOOLEAN]: deviceSession.running
    attempts,         \* [Device -> Nat]: deviceSession.attempts
    spc,              \* [Scanner -> ScannerPc]: where a scanner is in Scan
    left,             \* [Scanner -> SUBSET Device]: sessions ClearExhausted still visits
    todo,             \* [Scanner -> SUBSET Match]: unhealthy matches still to handle
    cur,              \* [Scanner -> DeviceInfo]: the match being handled
    wpc,              \* [Worker -> WorkerPc]: where a worker is in runSession
    initial,          \* [Worker -> DeviceInfo]: the snapshot the session started from
    info,             \* [Worker -> DeviceInfo]: the last refreshed snapshot
    attempt,          \* [Worker -> Nat]: the local attempt number
    wg,               \* rm.wg's counter
    stopping,         \* rm.stopping
    ctxDone,          \* the daemon's context is cancelled
    mpc               \* where main is in Shutdown

sessVars == <<state, running, attempts>>
scanVars == <<spc, left, todo, cur>>
workVars == <<wpc, initial, info, attempt>>
mainVars == <<stopping, ctxDone, mpc>>
vars == <<deviceVars, delayOver, sessVars, scanVars, workVars, wg, mainVars>>

StateIdle       == "Idle"
StateRecovering == "Recovering"
StateExhausted  == "Exhausted"
StateSet == {StateIdle, StateRecovering, StateExhausted}

(***************************************************************************)
(* Configuration                                                           *)
(***************************************************************************)

Matching(d) == {i \in DOMAIN Entry : FriendlyName[d] \in Entry[i].names}

Configured == {d \in Device : Matching(d) # {}}

\* The first entry that matches, for a configured device.
FindMatcher(d) == CHOOSE i \in Matching(d) : \A j \in Matching(d) : i <= j

MaxRetriesOf(d) == Entry[FindMatcher(d)].maxRetries

\* An absent or empty ProblemCode set filters nothing.
PassesFilter(d, c) == LET set == Entry[FindMatcher(d)].problemCode
                      IN  set = {} \/ c \in set

\* A device is its own session key: every device has an instance ID.
Key(i) == i.id

\* A todo item: entry number and device snapshot, in the order Scan visits them.
Match == [entry : DOMAIN Entry, dev : DeviceInfo]

(***************************************************************************)
(* Scan                                                                    *)
(***************************************************************************)

\* rm.mu is held across more than one step only by ClearExhausted.
MuFree == \A s \in Scanner : spc[s] # "clear"

ScanBegins(s) ==
    /\ spc[s] = "idle"
    /\ IF s \in Checker
         THEN /\ MuFree
              /\ spc' = [spc EXCEPT ![s] = "clear"]
              /\ left' = [left EXCEPT ![s] = Device]
         ELSE /\ spc' = [spc EXCEPT ![s] = "enumerate"]
              /\ UNCHANGED left
    /\ UNCHANGED <<deviceVars, delayOver, sessVars, todo, cur, workVars, wg, mainVars>>

\* Mutant: every session is reset, not only the Exhausted ones.
ClearEverything(s, d) ==
    /\ spc[s] = "clear"
    /\ d \in left[s]
    /\ left' = [left EXCEPT ![s] = @ \ {d}]
    /\ state' = [state EXCEPT ![d] = IF @ = StateExhausted THEN StateIdle ELSE @]
    /\ attempts' = [attempts EXCEPT ![d] = 0]
    /\ UNCHANGED <<deviceVars, delayOver, running, spc, todo, cur, workVars, wg, mainVars>>

\* One iteration of the loop of ClearExhausted, in the map's order: any order.
ClearExhausted(s, d) ==
    /\ spc[s] = "clear"
    /\ d \in left[s]
    /\ left' = [left EXCEPT ![s] = @ \ {d}]
    /\ IF state[d] = StateExhausted
         THEN /\ state' = [state EXCEPT ![d] = StateIdle]
              /\ attempts' = [attempts EXCEPT ![d] = 0]
         ELSE UNCHANGED <<state, attempts>>
    /\ UNCHANGED <<deviceVars, delayOver, running, spc, todo, cur, workVars, wg, mainVars>>

\* The loop is over and rm.mu is released.
ClearExhaustedReturns(s) ==
    /\ spc[s] = "clear"
    /\ left[s] = {}
    /\ spc' = [spc EXCEPT ![s] = "enumerate"]
    /\ UNCHANGED <<deviceVars, delayOver, sessVars, left, todo, cur, workVars, wg, mainVars>>

\* Healthy matches are only logged.
Unhealthy(list) ==
    {m \in Match : /\ m.dev.id \in DOMAIN list
                   /\ m.dev.code = list[m.dev.id]
                   /\ ~IsHealthy(m.dev)
                   /\ FriendlyName[m.dev.id] \in Entry[m.entry].names}

Enumerate(s) ==
    /\ spc[s] = "enumerate"
    /\ \/ /\ EnumerateFails
          /\ spc' = [spc EXCEPT ![s] = "idle"]
          /\ UNCHANGED todo
       \/ \E list \in Enumerations :
             /\ spc' = [spc EXCEPT ![s] = "handle"]
             /\ todo' = [todo EXCEPT ![s] = Unhealthy(list)]
    /\ UNCHANGED <<deviceVars, delayOver, sessVars, left, cur, workVars, wg, mainVars>>

ScanReturns(s) ==
    /\ spc[s] = "handle"
    /\ todo[s] = {}
    /\ spc' = [spc EXCEPT ![s] = "idle"]
    /\ UNCHANGED <<deviceVars, delayOver, sessVars, left, todo, cur, workVars, wg, mainVars>>

(***************************************************************************)
(* HandleDeviceProblem                                                     *)
(***************************************************************************)

\* Scan's loops: entry by entry, and the devices of an entry in Windows' order.
IsNext(s, m) == /\ m \in todo[s]
                /\ \A n \in todo[s] : m.entry <= n.entry

\* The rec_delay gate: Sec = 0 or absent, the clock passed it, or a check.
RecDelayAllows(s, d) == \/ ~Entry[FindMatcher(d)].delayed
                        \/ d \in delayOver
                        \/ s \in Checker

\* The ProblemCode and rec_delay gates let the match through; rm.mu is taken
\* for the stopping flag and the session lookup.
Accepts(s, m) ==
    /\ spc[s] = "handle"
    /\ IsNext(s, m)
    /\ PassesFilter(m.dev.id, m.dev.code)
    /\ RecDelayAllows(s, m.dev.id)
    /\ MuFree
    /\ ~stopping
    /\ todo' = [todo EXCEPT ![s] = @ \ {m}]
    /\ cur' = [cur EXCEPT ![s] = m.dev]
    /\ spc' = [spc EXCEPT ![s] = "claim"]
    /\ UNCHANGED <<deviceVars, delayOver, sessVars, left, workVars, wg, mainVars>>

\* One of the gates, or the stopping flag, drops the match.
Skips(s, m) ==
    /\ spc[s] = "handle"
    /\ IsNext(s, m)
    /\ \/ ~PassesFilter(m.dev.id, m.dev.code)
       \/ ~RecDelayAllows(s, m.dev.id)
       \/ MuFree /\ stopping
    /\ todo' = [todo EXCEPT ![s] = @ \ {m}]
    /\ UNCHANGED <<deviceVars, delayOver, sessVars, spc, left, cur, workVars, wg, mainVars>>

\* Mutants: a session may start whatever the running flag says; one may start
\* beside another; a device given up is picked up again by any event.
MayClaimUnreleased(d) == state[d] \notin {StateExhausted, StateRecovering}
MayClaimTwice(d) == state[d] # StateExhausted
MayClaimExhausted(d) == ~running[d] /\ state[d] # StateRecovering

\* What the critical section of sess.mu finds before a session may start.
MayClaim(d) == /\ state[d] # StateExhausted
               /\ ~running[d]
               /\ state[d] # StateRecovering

Claims(s) ==
    LET d == Key(cur[s])
    IN  /\ spc[s] = "claim"
        /\ MayClaim(d)
        /\ running' = [running EXCEPT ![d] = TRUE]
        /\ state' = [state EXCEPT ![d] = StateRecovering]
        /\ spc' = [spc EXCEPT ![s] = "spawn"]
        /\ UNCHANGED <<deviceVars, delayOver, attempts, left, todo, cur, workVars, wg, mainVars>>

\* Mutant: the event waits for the session instead of coalescing into it.
WaitsForSession(s) ==
    /\ spc[s] = "claim"
    /\ ~MayClaim(Key(cur[s]))
    /\ UNCHANGED vars

\* Exhausted: only check clears.  Running: the event coalesces.
Coalesces(s) ==
    /\ spc[s] = "claim"
    /\ ~MayClaim(Key(cur[s]))
    /\ spc' = [spc EXCEPT ![s] = "handle"]
    /\ cur' = [cur EXCEPT ![s] = None]
    /\ UNCHANGED <<deviceVars, delayOver, sessVars, left, todo, workVars, wg, mainVars>>

\* Mutant: the goroutine is started without wg.Add(1).
SpawnsUncounted(s, w) ==
    /\ spc[s] = "spawn"
    /\ wpc[w] = "free"
    /\ wpc' = [wpc EXCEPT ![w] = "top"]
    /\ initial' = [initial EXCEPT ![w] = cur[s]]
    /\ spc' = [spc EXCEPT ![s] = "handle"]
    /\ cur' = [cur EXCEPT ![s] = None]
    /\ UNCHANGED <<deviceVars, delayOver, sessVars, left, todo, info, attempt, wg, mainVars>>

\* wg.Add(1) and the go statement.
Spawns(s, w) ==
    /\ spc[s] = "spawn"
    /\ wpc[w] = "free"
    /\ wg' = wg + 1
    /\ wpc' = [wpc EXCEPT ![w] = "top"]
    /\ initial' = [initial EXCEPT ![w] = cur[s]]
    /\ spc' = [spc EXCEPT ![s] = "handle"]
    /\ cur' = [cur EXCEPT ![s] = None]
    /\ UNCHANGED <<deviceVars, delayOver, sessVars, left, todo, info, attempt, mainVars>>

(***************************************************************************)
(* runSession                                                              *)
(***************************************************************************)

Goto(w, pc) == wpc' = [wpc EXCEPT ![w] = pc]

\* refreshDevice: by instance ID, else by name, else the stale snapshot.
Refreshed(i) ==
    LET byId   == GetDeviceByInstanceID(i.id)
        byName == FindDeviceByFriendlyName(FriendlyName[i.id])
    IN  IF byId # {} THEN byId
        ELSE byName \union (IF byName = {} \/ EnumerateFails THEN {i} ELSE {})

\* The select on ctx.Done() at the head of the loop.
LoopHead(w) ==
    /\ wpc[w] = "top"
    /\ Goto(w, IF ctxDone THEN "exit" ELSE "count")
    /\ UNCHANGED <<deviceVars, delayOver, sessVars, scanVars, initial, info, attempt, wg, mainVars>>

\* Mutant: the attempt is not counted.
ForgetsAttempt(w) ==
    LET d == Key(initial[w])
    IN  /\ wpc[w] = "count"
        /\ attempt' = [attempt EXCEPT ![w] = attempts[d] + 1]
        /\ Goto(w, IF attempts[d] + 1 > MaxRetriesOf(d) THEN "exhaust" ELSE "look")
        /\ UNCHANGED <<deviceVars, delayOver, sessVars, scanVars, initial, info, wg, mainVars>>

CountsAttempt(w) ==
    LET d == Key(initial[w])
    IN  /\ wpc[w] = "count"
        /\ attempts' = [attempts EXCEPT ![d] = @ + 1]
        /\ attempt' = [attempt EXCEPT ![w] = attempts[d] + 1]
        /\ Goto(w, IF attempts[d] + 1 > MaxRetriesOf(d) THEN "exhaust" ELSE "look")
        /\ UNCHANGED <<deviceVars, delayOver, state, running, scanVars, initial, info, wg, mainVars>>

Exhausts(w) ==
    LET d == Key(initial[w])
    IN  /\ wpc[w] = "exhaust"
        /\ state' = [state EXCEPT ![d] = StateExhausted]
        /\ attempts' = [attempts EXCEPT ![d] = 0]
        /\ Goto(w, "exit")
        /\ UNCHANGED <<deviceVars, delayOver, running, scanVars, initial, info, attempt, wg, mainVars>>

\* First refresh of the attempt: healthy, or filtered out, ends the session.
\* info is a variable of the loop's body and is dropped when that is left.
Looks(w) ==
    /\ wpc[w] = "look"
    /\ \E i \in Refreshed(initial[w]) :
          IF IsHealthy(i) \/ ~PassesFilter(Key(initial[w]), i.code)
            THEN Goto(w, "settle") /\ UNCHANGED info
            ELSE Goto(w, "relook") /\ info' = [info EXCEPT ![w] = i]
    /\ UNCHANGED <<deviceVars, delayOver, sessVars, scanVars, initial, attempt, wg, mainVars>>

\* The refresh before Disable: only "already disabled" is looked at.
Relooks(w) ==
    /\ wpc[w] = "relook"
    /\ \E i \in Refreshed(info[w]) :
          /\ info' = [info EXCEPT ![w] = i]
          /\ Goto(w, IF IsDisabled(i) THEN "check" ELSE "disable")
    /\ UNCHANGED <<deviceVars, delayOver, sessVars, scanVars, initial, attempt, wg, mainVars>>

Disables(w) ==
    /\ wpc[w] = "disable"
    /\ DisableDevice(info[w])
    /\ Goto(w, "gap")
    /\ UNCHANGED <<delayOver, sessVars, scanVars, initial, info, attempt, wg, mainVars>>

\* sleepOrDone over the fixed gap; at the end of it both channels may be ready.
GapEnds(w) ==
    /\ wpc[w] = "gap"
    /\ \/ Goto(w, "check") /\ UNCHANGED info
       \/ ctxDone /\ Goto(w, "exit") /\ info' = [info EXCEPT ![w] = None]
    /\ UNCHANGED <<deviceVars, delayOver, sessVars, scanVars, initial, attempt, wg, mainVars>>

\* The refresh before Enable: an enabled device is not enabled again.
ChecksDisabled(w) ==
    /\ wpc[w] = "check"
    /\ \E i \in Refreshed(info[w]) :
          /\ info' = [info EXCEPT ![w] = i]
          /\ Goto(w, IF IsDisabled(i) THEN "enable" ELSE "post")
    /\ UNCHANGED <<deviceVars, delayOver, sessVars, scanVars, initial, attempt, wg, mainVars>>

Enables(w) ==
    /\ wpc[w] = "enable"
    /\ EnableDevice(info[w])
    /\ Goto(w, "post")
    /\ UNCHANGED <<delayOver, sessVars, scanVars, initial, info, attempt, wg, mainVars>>

\* The recheck after Enable; the last attempt goes back to the loop without a wait.
PostChecks(w) ==
    /\ wpc[w] = "post"
    /\ \E i \in Refreshed(info[w]) :
          Goto(w, IF IsHealthy(i) THEN "settle"
                  ELSE IF attempt[w] < MaxRetriesOf(Key(initial[w])) THEN "retry" ELSE "top")
    /\ info' = [info EXCEPT ![w] = None]
    /\ UNCHANGED <<deviceVars, delayOver, sessVars, scanVars, initial, attempt, wg, mainVars>>

\* sleepOrDone over retry_interval.
RetryWaitEnds(w) ==
    /\ wpc[w] = "retry"
    /\ \/ Goto(w, "top")
       \/ ctxDone /\ Goto(w, "exit")
    /\ UNCHANGED <<deviceVars, delayOver, sessVars, scanVars, initial, info, attempt, wg, mainVars>>

\* Mutant: success does not reset the counter.
SettlesKeepingCount(w) ==
    LET d == Key(initial[w])
    IN  /\ wpc[w] = "settle"
        /\ state' = [state EXCEPT ![d] = StateIdle]
        /\ Goto(w, "exit")
        /\ UNCHANGED <<deviceVars, delayOver, running, attempts, scanVars, initial, info, attempt,
                       wg, mainVars>>

\* Success, already healthy, or filtered out: back to Idle with a fresh counter.
Settles(w) ==
    LET d == Key(initial[w])
    IN  /\ wpc[w] = "settle"
        /\ attempts' = [attempts EXCEPT ![d] = 0]
        /\ state' = [state EXCEPT ![d] = StateIdle]
        /\ Goto(w, "exit")
        /\ UNCHANGED <<deviceVars, delayOver, running, scanVars, initial, info, attempt, wg, mainVars>>

\* Mutant: the deferred function only clears running.
ReleasesRunning(w) ==
    /\ wpc[w] = "exit"
    /\ running' = [running EXCEPT ![Key(initial[w])] = FALSE]
    /\ Goto(w, "done")
    /\ UNCHANGED <<deviceVars, delayOver, state, attempts, scanVars, initial, info, attempt, wg,
                   mainVars>>

\* The deferred function: a session that was cancelled is not left Recovering.
Releases(w) ==
    LET d == Key(initial[w])
    IN  /\ wpc[w] = "exit"
        /\ running' = [running EXCEPT ![d] = FALSE]
        /\ state' = [state EXCEPT ![d] = IF @ = StateRecovering THEN StateIdle ELSE @]
        /\ Goto(w, "done")
        /\ UNCHANGED <<deviceVars, delayOver, attempts, scanVars, initial, info, attempt, wg, mainVars>>

\* Mutant: the goroutine ends without wg.Done().
EndsUncounted(w) ==
    /\ wpc[w] = "done"
    /\ Goto(w, "free")
    /\ initial' = [initial EXCEPT ![w] = None]
    /\ attempt' = [attempt EXCEPT ![w] = 0]
    /\ UNCHANGED <<deviceVars, delayOver, sessVars, scanVars, info, wg, mainVars>>

\* The other deferred call, wg.Done(); the goroutine is gone.
Done(w) ==
    /\ wpc[w] = "done"
    /\ wg' = wg - 1
    /\ Goto(w, "free")
    /\ initial' = [initial EXCEPT ![w] = None]
    /\ attempt' = [attempt EXCEPT ![w] = 0]
    /\ UNCHANGED <<deviceVars, delayOver, sessVars, scanVars, info, mainVars>>

(***************************************************************************)
(* Shutdown                                                                *)
(***************************************************************************)

\* The signal goroutine, or the listener's exit, cancels the context.
Cancelled ==
    /\ mpc = "serving"
    /\ ~ctxDone
    /\ ctxDone' = TRUE
    /\ UNCHANGED <<deviceVars, delayOver, sessVars, scanVars, workVars, wg, stopping, mpc>>

StopNewWork ==
    /\ mpc = "serving"
    /\ MuFree
    /\ stopping' = TRUE
    /\ mpc' = "cancel"
    /\ UNCHANGED <<deviceVars, delayOver, sessVars, scanVars, workVars, wg, ctxDone>>

\* Mutant: Shutdown waits without cancelling.
WaitsUncancelled ==
    /\ mpc = "cancel"
    /\ mpc' = "wait"
    /\ UNCHANGED <<deviceVars, delayOver, sessVars, scanVars, workVars, wg, stopping, ctxDone>>

CancelsContext ==
    /\ mpc = "cancel"
    /\ ctxDone' = TRUE
    /\ mpc' = "wait"
    /\ UNCHANGED <<deviceVars, delayOver, sessVars, scanVars, workVars, wg, stopping>>

WaitReturns ==
    /\ mpc = "wait"
    /\ wg = 0
    /\ mpc' = "returned"
    /\ UNCHANGED <<deviceVars, delayOver, sessVars, scanVars, workVars, wg, stopping, ctxDone>>

WaitTimesOut ==
    /\ WaitMayTimeOut
    /\ mpc = "wait"
    /\ mpc' = "timedout"
    /\ UNCHANGED <<deviceVars, delayOver, sessVars, scanVars, workVars, wg, stopping, ctxDone>>

(***************************************************************************)
(* Specification                                                           *)
(***************************************************************************)

\* Time passes: the rec_delay of a device is over, and stays so.
DelayElapses(d) ==
    /\ d \in Configured \ delayOver
    /\ Entry[FindMatcher(d)].delayed
    /\ delayOver' = delayOver \union {d}
    /\ UNCHANGED <<deviceVars, sessVars, scanVars, workVars, wg, mainVars>>

Init ==
    /\ DevicesInit
    /\ delayOver = {}
    /\ state = [d \in Device |-> StateIdle]
    /\ running = [d \in Device |-> FALSE]
    /\ attempts = [d \in Device |-> 0]
    /\ spc = [s \in Scanner |-> "idle"]
    /\ left = [s \in Scanner |-> {}]
    /\ todo = [s \in Scanner |-> {}]
    /\ cur = [s \in Scanner |-> None]
    /\ wpc = [w \in Worker |-> "free"]
    /\ initial = [w \in Worker |-> None]
    /\ info = [w \in Worker |-> None]
    /\ attempt = [w \in Worker |-> 0]
    /\ wg = 0
    /\ stopping = FALSE
    /\ ctxDone = FALSE
    /\ mpc = "serving"

\* What a scanner does once it is inside Scan.
ScanStep(s) ==
    \/ \E d \in Device : ClearExhausted(s, d)
    \/ ClearExhaustedReturns(s)
    \/ Enumerate(s)
    \/ ScanReturns(s)
    \/ \E m \in todo[s] : Accepts(s, m) \/ Skips(s, m)
    \/ Claims(s)
    \/ Coalesces(s)
    \/ \E w \in Worker : Spawns(s, w)

WorkerStep(w) ==
    \/ LoopHead(w)
    \/ CountsAttempt(w)
    \/ Exhausts(w)
    \/ Looks(w)
    \/ Relooks(w)
    \/ Disables(w)
    \/ GapEnds(w)
    \/ ChecksDisabled(w)
    \/ Enables(w)
    \/ PostChecks(w)
    \/ RetryWaitEnds(w)
    \/ Settles(w)
    \/ Releases(w)
    \/ Done(w)

MainStep == \/ StopNewWork
            \/ CancelsContext
            \/ WaitReturns
            \/ WaitTimesOut

HostStep == /\ Host
            /\ UNCHANGED <<delayOver, sessVars, scanVars, workVars, wg, mainVars>>

Next == \/ \E s \in Scanner : ScanBegins(s)
        \/ \E s \in Scanner : ScanStep(s)
        \/ \E w \in Worker : WorkerStep(w)
        \/ \E d \in Device : DelayElapses(d)
        \/ Cancelled
        \/ MainStep
        \/ HostStep

Spec == Init /\ [][Next]_vars
(***************************************************************************)
(* Fairness: a goroutine that can run is run, calls return, timers fire,   *)
(* and Go's mutexes are starvation free.  Nothing makes a scan begin, a    *)
(* device change, or anyone cancel the context.                            *)
(***************************************************************************)
Fairness ==
    /\ \A s \in Scanner : SF_vars(ScanStep(s))
    /\ \A w \in Worker : WF_vars(WorkerStep(w))
    /\ SF_vars(ctxDone /\ StopNewWork)
    /\ WF_vars(CancelsContext)
    /\ WF_vars(WaitReturns)

FairSpec == Spec /\ Fairness

-----------------------------------------------------------------------------
(***************************************************************************)
(* Properties                                                              *)
(***************************************************************************)

ScannerPc == {"idle", "clear", "enumerate", "handle", "claim", "spawn"}

WorkerPc == {"free", "top", "count", "exhaust", "look", "relook", "disable", "gap",
             "check", "enable", "post", "retry", "settle", "exit", "done"}

\* The variables' types; that wg is no negative number takes more than types.
Typing ==
    /\ DevicesTypeOK
    /\ delayOver \subseteq Device
    /\ state \in [Device -> StateSet]
    /\ running \in [Device -> BOOLEAN]
    /\ attempts \in [Device -> Nat]
    /\ spc \in [Scanner -> ScannerPc]
    /\ left \in [Scanner -> SUBSET Device]
    /\ todo \in [Scanner -> SUBSET Match]
    /\ cur \in [Scanner -> DeviceInfo \union {None}]
    /\ wpc \in [Worker -> WorkerPc]
    /\ initial \in [Worker -> DeviceInfo \union {None}]
    /\ info \in [Worker -> DeviceInfo \union {None}]
    /\ attempt \in [Worker -> Nat]
    /\ wg \in Int
    /\ stopping \in BOOLEAN
    /\ ctxDone \in BOOLEAN
    /\ mpc \in {"serving", "cancel", "wait", "returned", "timedout"}

\* Every variable keeps its type, and the WaitGroup's counter never goes below
\* 0, which in Go is a panic.
TypeOK == Typing /\ wg \in Nat

\* A scanner between its claim and its go statement, and a worker up to its
\* deferred release, own the session of their device.
Claimed(s, d) == spc[s] = "spawn" /\ Key(cur[s]) = d
InSession(w, d) == wpc[w] \notin {"free", "done"} /\ Key(initial[w]) = d

Owned(d) == \/ \E s \in Scanner : Claimed(s, d)
            \/ \E w \in Worker : InSession(w, d)

\* "Same device never runs concurrent recoveries": a session has at most one
\* owner, counting the goroutine that has claimed it and not started it yet.
SerialRecovery ==
    \A d \in Device :
        /\ \A s, t \in Scanner : Claimed(s, d) /\ Claimed(t, d) => s = t
        /\ \A v, w \in Worker : InSession(v, d) /\ InSession(w, d) => v = w
        /\ \A s \in Scanner, w \in Worker : ~(Claimed(s, d) /\ InSession(w, d))

\* No session is stuck: a device shown Recovering, or still marked running,
\* has a goroutine that will release it.  Otherwise every later event for it
\* would be coalesced into a session that does not exist.
NoStuckSession == \A d \in Device : state[d] = StateRecovering \/ running[d] => Owned(d)

\* From its count to its outcome a session's attempt number is its own: no
\* clear, no other scan and no other session moves the shared counter.
InAttempt == {"exhaust", "look", "relook", "disable", "gap", "check", "enable",
              "post", "retry", "settle"}

CounterIsPrivate ==
    \A w \in Worker : wpc[w] \in InAttempt => attempts[Key(initial[w])] = attempt[w]

\* Exhausted is sticky: only the clearing step of a check takes a device out
\* of it, whatever events and sessions are under way.
OnlyCheckClears ==
    [][\A d \in Device : state[d] = StateExhausted /\ state'[d] # StateExhausted
                           => \E s \in Checker : spc[s] = "clear"]_vars

\* Once Shutdown's Wait has returned no worker is inside a device operation or
\* will reach one, though a scan that passed the stopping check before it was
\* set may still start a worker.
QuietAfterWait ==
    mpc = "returned" => \A w \in Worker : wpc[w] \in {"free", "top", "exit", "done"}

\* Every session ends: the loop is bounded and no failure keeps it waiting.
SessionsEnd == \A d \in Device : running[d] ~> ~running[d]

\* Every scan ends, whatever other scans clear and whatever it finds.
ScansEnd == \A s \in Scanner : spc[s] # "idle" ~> (spc[s] = "idle")

\* A cancelled daemon gets out of Shutdown without its 60 s timeout.
ShutdownCompletes == ctxDone ~> (mpc = "returned")

(***************************************************************************)
(* The inductive invariant, in named parts.                                *)
(***************************************************************************)

\* A goroutine past the point where it got its DeviceInfo has one; only checks
\* clear.
Holding ==
    /\ \A s \in Scanner : spc[s] = "clear" => s \in Checker
    /\ \A s \in Scanner : spc[s] \in {"claim", "spawn"} => cur[s] \in DeviceInfo
    /\ \A w \in Worker : wpc[w] # "free" => initial[w] \in DeviceInfo
    /\ \A w \in Worker : wpc[w] \in {"relook", "disable", "gap", "check", "enable", "post"}
                           => info[w] \in DeviceInfo

\* The running flag is true exactly while some goroutine owns the session.
RunningIsOwned == \A d \in Device : running[d] <=> Owned(d)

RecoveringRuns == \A d \in Device : state[d] = StateRecovering => running[d]

\* From its claim to its outcome the owner finds the state it has set.
OwnerSeesRecovering ==
    /\ \A s \in Scanner : spc[s] = "spawn" => state[Key(cur[s])] = StateRecovering
    /\ \A w \in Worker : wpc[w] \notin {"free", "done", "exit"}
                           => state[Key(initial[w])] = StateRecovering

Ownership == /\ SerialRecovery
             /\ RunningIsOwned
             /\ RecoveringRuns
             /\ OwnerSeesRecovering
             /\ CounterIsPrivate

\* The WaitGroup counts the worker goroutines that exist.
Live == {w \in Worker : wpc[w] # "free"}

Counting == wg = Cardinality(Live)

CancelledBeforeWait == mpc \in {"wait", "returned", "timedout"} => ctxDone

Quiescence == CancelledBeforeWait /\ QuietAfterWait

\* What the proofs need in addition to the properties above, all in one: it is
\* true initially and every step of the manager preserves it.
IInv == Typing /\ Holding /\ Ownership /\ Counting /\ Quiescence

(***************************************************************************)
(* Statements of the docs and comments that the code does not keep.        *)
(***************************************************************************)

\* README: "Recover only when the device's current ProblemCode is in the set".
\* The call of Disable is made on the refreshed copy in hand.
DisablesOnlyMatching ==
    \A w \in Worker :
        wpc[w] = "disable" => PassesFilter(Key(initial[w]), info[w].code)

\* README: "Disable / Enable temporarily interrupts the device": a device that
\* is disabled, when only sessions disable devices, has a session to enable it.
DisableIsTemporary == \A d \in Device : code[d] = CM_PROB_DISABLED => Owned(d)

\* recovery.go: "Same device never runs concurrent recoveries", taken for the
\* device that is operated on rather than for the session key.
Operating(w) == wpc[w] \in {"disable", "gap", "check", "enable"}

NoConcurrentOperations ==
    \A v, w \in Worker :
        Operating(v) /\ Operating(w) /\ info[v].id = info[w].id => v = w

\* README: "when a device is unhealthy, performs a controlled soft reset": a scan
\* that enumerates an unhealthy device, which no gate drops, leads to a Disable or
\* to the end of the fault or of the attempts, in a session of its own or in the
\* one it coalesces into.
InHand(d) == /\ present[d]
             /\ code[d] # Healthy
             /\ PassesFilter(d, code[d])
             /\ ~Entry[FindMatcher(d)].delayed
             /\ \E s \in Scanner : spc[s] = "enumerate"

TakenCareOf(d) == \/ code[d] = Healthy
                  \/ state[d] = StateExhausted
                  \/ \E w \in Worker : wpc[w] = "disable" /\ Key(info[w]) = d

UnhealthyIsReset ==
    \A d \in Configured : InHand(d) ~> (TakenCareOf(d) \/ stopping \/ ctxDone)

\* NoConcurrentOperations rests on this: no two devices share a name, so that the fallback of
\* refreshDevice finds no other device than the session's own.
NamesAreUnique == \A d, e \in Device : FriendlyName[d] = FriendlyName[e] => d = e

KeepsItsDevice ==
    \A w \in Worker : wpc[w] \in {"relook", "disable", "gap", "check", "enable", "post"}
                       => Key(info[w]) = Key(initial[w])

(***************************************************************************)
(* The abstract specification this module implements.                      *)
(***************************************************************************)

Counted(d) == {attempt[w] : w \in {v \in Worker : InSession(v, d)}}

CyclesBegun(d) ==
    IF state[d] = StateRecovering /\ Counted(d) # {}
      THEN LET n == CHOOSE a \in Counted(d) : TRUE
           IN  IF n > MaxRetriesOf(d) THEN MaxRetriesOf(d) ELSE n
      ELSE 0

Clearing == \E s \in Checker : spc[s] = "clear"

Promise == INSTANCE DeviceRecovery
             WITH Device     <- Configured,
                  MaxRetries <- [d \in Configured |-> MaxRetriesOf(d)],
                  state      <- [d \in Configured |-> state[d]],
                  cycles     <- [d \in Configured |-> CyclesBegun(d)],
                  checking   <- Clearing

\* A device's sessions keep the life cycle of DeviceRecovery.
ImplementsDeviceRecovery == Promise!Spec

\* What the refinement rests on beside IInv.  While the context is alive a
\* session's counter is 0 until its worker counts, so a cycle number starts at 1;
\* a worker counts on from its own last attempt; and an attempt that goes on to
\* Disable is at most maxRetries.
FreshCounters ==
    /\ \A w \in Worker : wpc[w] = "free" => attempt[w] = 0
    /\ \A w \in Worker : wpc[w] = "count" \/ (wpc[w] = "top" /\ ~ctxDone)
                           => attempts[Key(initial[w])] = attempt[w]
    /\ ~ctxDone => \A d \in Device : (\A w \in Worker : InSession(w, d) => wpc[w] = "exit")
                                      => attempts[d] = 0

BoundedAttempts ==
    \A w \in Worker :
        wpc[w] \notin {"free", "exit", "done"} /\ Key(initial[w]) \in Configured =>
            IF wpc[w] = "exhaust" THEN attempt[w] = MaxRetriesOf(Key(initial[w])) + 1
                                  ELSE attempt[w] <= MaxRetriesOf(Key(initial[w]))

RInv == FreshCounters /\ BoundedAttempts
=============================================================================
