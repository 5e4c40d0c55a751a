--------------------------- MODULE RecDelayProofs ---------------------------
(***************************************************************************)
(* Proofs about RecDelay: for all devices, files and defaults, no device   *)
(* is recovered early, the gate of a device stays open, the ready wait is  *)
(* kept and bounded, and the variables keep their types.                   *)
(***************************************************************************)
EXTENDS RecDelay, TLAPS

\* What the properties need of the types; a poll interval may be longer than Far.
Types ==
    /\ file \in File
    /\ up \in Time
    /\ phase \in {"off", "starting", "waiting", "scan", "running"}
    /\ age \in Time
    /\ seen \in [Device -> Time \union {Never}]
    /\ waited \in Time
    /\ pollIn \in Nat
    /\ sick \subseteq present /\ present \subseteq Device

\* A daemon that runs has the configuration of the file, and that file is valid.
CfgInUse == phase # "off" => Validates(file) /\ cfg = Resolved(file)

\* The next poll is due before the longest wait and a poll are over.
PollInTime ==
    phase = "waiting" => waited + pollIn <= Wish(file.maxWait, DefaultReadyMaxWait)
                                              + Wish(file.poll, DefaultReadyPoll)

DelayInv == Types /\ CfgInUse /\ NeverEarly /\ ScansWhenReady /\ PollInTime

-----------------------------------------------------------------------------
(***************************************************************************)
(* The configuration in use                                                *)
(***************************************************************************)

\* Zero and an omitted field ask for the default, whichever function takes it.
LEMMA WishIsMet ==
    ASSUME NEW p \in RawInt, ValidInt(p), NEW default \in Nat \ {0}
    PROVE  UnlessZero(ResolveInt(p, default), default) = Wish(p, default)
           /\ Wish(p, default) \in Nat \ {0}
  BY DEF RawInt, ValidInt, UnlessZero, ResolveInt, Wish

\* The settings of the ready wait are those the file asks for.
LEMMA ReadySettings ==
    ASSUME Types, CfgInUse, phase # "off"
    PROVE  /\ MinUptime = Wish(file.minUptime, DefaultReadyMinUptime)
           /\ MaxWait = Wish(file.maxWait, DefaultReadyMaxWait)
           /\ Poll = Wish(file.poll, DefaultReadyPoll)
           /\ MinUptime \in Nat \ {0} /\ MaxWait \in Nat \ {0} /\ Poll \in Nat \ {0}
  <1>1. /\ file.minUptime \in RawInt /\ file.maxWait \in RawInt /\ file.poll \in RawInt
        /\ DefaultReadyMinUptime \in Nat \ {0} /\ DefaultReadyMaxWait \in Nat \ {0}
        /\ DefaultReadyPoll \in Nat \ {0}
    BY RecDelayAssumption DEF Types
  <1>2. ValidInt(file.minUptime) /\ ValidInt(file.maxWait) /\ ValidInt(file.poll)
    BY DEF CfgInUse, Validates
  <1>3. /\ cfg.minUptime = ResolveInt(file.minUptime, DefaultReadyMinUptime)
        /\ cfg.maxWait = ResolveInt(file.maxWait, DefaultReadyMaxWait)
        /\ cfg.poll = ResolveInt(file.poll, DefaultReadyPoll)
    BY DEF CfgInUse, Resolved
  <1> QED
    BY <1>1, <1>2, <1>3, WishIsMet DEF MinUptime, MaxWait, Poll

\* An entry in use has the clock and the seconds of its line of the file.
LEMMA EntryInUse ==
    ASSUME Types, CfgInUse, phase # "off", NEW d \in Device
    PROVE  LET r == cfg.delay[d]
           IN  /\ r.present \in BOOLEAN
               /\ ~r.present => AskedClock(d) = "none"
               /\ r.present => /\ r.exact
                               /\ r.sec = file.delay[d].sec /\ r.sec \in Nat
                               /\ r.based = AskedClock(d) /\ r.based \in Clock
  <1> DEFINE raw == file.delay[d]
  <1>1. raw \in RawDelay
    BY RecDelayAssumption DEF Types
  <1>2. Parses(raw) /\ ValidDelay(Parsed(raw))
    BY DEF CfgInUse, Validates
  <1>3. cfg.delay[d] = Normalised(Parsed(raw))
    BY DEF CfgInUse, Resolved
  <1>4. CASE raw = Omitted
    BY <1>3, <1>4 DEF Normalised, Parsed, NoDelay, AskedClock
  <1>5. CASE raw # Omitted /\ raw.kind = "number"
    <2>1. Parsed(raw) = [present |-> TRUE, based |-> "uptime", exact |-> TRUE, sec |-> raw.sec]
      BY <1>5 DEF Parsed
    <2>2. raw.sec \in Int
      BY <1>1, <1>5 DEF RawDelay
    <2>3. cfg.delay[d] = [Parsed(raw) EXCEPT !.exact = TRUE]
      BY <1>3, <2>1 DEF Normalised
    <2>4. /\ cfg.delay[d].present /\ cfg.delay[d].exact
          /\ cfg.delay[d].based = "uptime" /\ cfg.delay[d].sec = raw.sec
      BY <2>1, <2>3
    <2>5. raw.sec >= 0
      BY <1>2, <2>1 DEF ValidDelay
    <2>6. AskedClock(d) = "uptime"
      BY <1>5 DEF AskedClock
    <2> QED
      BY <2>2, <2>4, <2>5, <2>6 DEF Clock
  <1>6. CASE raw # Omitted /\ raw.kind = "object"
    <2>1. Parsed(raw) = [present |-> TRUE, based |-> raw.based, exact |-> raw.exact, sec |-> raw.sec]
      BY <1>6 DEF Parsed
    <2>2. raw.sec \in Int
      BY <1>1, <1>6 DEF RawDelay
    <2>3. cfg.delay[d] = [Parsed(raw) EXCEPT !.exact = TRUE]
      BY <1>3, <2>1 DEF Normalised
    <2>4. /\ cfg.delay[d].present /\ cfg.delay[d].exact
          /\ cfg.delay[d].based = raw.based /\ cfg.delay[d].sec = raw.sec
      BY <2>1, <2>3
    <2>5. raw.sec >= 0 /\ raw.based \in Clock
      BY <1>2, <2>1 DEF ValidDelay
    <2>6. AskedClock(d) = raw.based
      BY <1>6 DEF AskedClock
    <2> QED
      BY <2>2, <2>4, <2>5, <2>6
  <1>7. raw # Omitted => raw.kind \in {"number", "object"}
    BY <1>1, <1>2 DEF RawDelay, Parses
  <1> QED
    BY <1>4, <1>5, <1>6, <1>7

-----------------------------------------------------------------------------
(***************************************************************************)
(* The gate                                                                *)
(***************************************************************************)

LEMMA NotedTypes ==
    ASSUME Types
    PROVE  /\ NoteFirstSeen \in [Device -> Time \union {Never}]
           /\ \A d \in sick : d \in Device /\ NoteFirstSeen[d] \in Time
  <1>1. 0 \in Time
    BY RecDelayAssumption DEF Time
  <1>2. NoteFirstSeen \in [Device -> Time \union {Never}]
    BY <1>1 DEF Types, NoteFirstSeen
  <1>3. ASSUME NEW d \in sick PROVE d \in Device /\ NoteFirstSeen[d] \in Time
    <2>1. d \in Device /\ d \in present /\ seen[d] \in Time \union {Never}
      BY DEF Types
    <2>2. NoteFirstSeen[d] = IF seen[d] = Never THEN 0 ELSE seen[d]
      BY <2>1 DEF NoteFirstSeen
    <2> QED
      BY <1>1, <2>1, <2>2
  <1> QED
    BY <1>2, <1>3

\* An open gate means that the time the file asks for is over.
LEMMA OpenMeansOver ==
    ASSUME Types, CfgInUse, phase # "off", NEW d \in sick, Allows(d, NoteFirstSeen)
    PROVE  AskedOver(d, [up |-> up, age |-> age, seen |-> NoteFirstSeen[d]])
  <1>1. d \in Device /\ NoteFirstSeen[d] \in Time
    BY NotedTypes
  <1>2. up \in Nat /\ age \in Nat /\ NoteFirstSeen[d] \in Nat
    BY <1>1, RecDelayAssumption DEF Types, Time
  <1>3. cfg.bypass = IF file.bypass = Omitted THEN DefaultUptimeBypass ELSE file.bypass
    BY DEF CfgInUse, Resolved, ResolveInt
  <1>4. CASE ~cfg.delay[d].present
    BY <1>1, <1>4, EntryInUse DEF AskedOver
  <1>5. CASE cfg.delay[d].present
    <2>1. /\ cfg.delay[d].exact
          /\ cfg.delay[d].sec = file.delay[d].sec /\ cfg.delay[d].sec \in Nat
          /\ cfg.delay[d].based = AskedClock(d)
      BY <1>1, <1>5, EntryInUse
    <2> QED
      BY <1>2, <1>3, <1>5, <2>1 DEF Allows, AskedOver
  <1> QED
    BY <1>4, <1>5

\* So an automatic scan starts nothing early.
LEMMA ScanIsNotEarly ==
    ASSUME Types, CfgInUse, phase # "off", NeverEarly, AutomaticScan, UNCHANGED file
    PROVE  NeverEarly'
  <1>1. SUFFICES ASSUME NEW d \in Device, started'[d] # Never
                 PROVE  AskedOver(d, started[d])'
    BY DEF NeverEarly
  <1>2. ASSUME NEW at, started'[d] = at, AskedOver(d, at)
        PROVE  AskedOver(d, started[d])'
    BY <1>2 DEF AskedOver, AskedClock
  <1>3. CASE started'[d] = started[d]
    BY <1>1, <1>2, <1>3 DEF NeverEarly
  <1>4. CASE d \in sick /\ Allows(d, NoteFirstSeen)
             /\ started'[d] = [up |-> up, age |-> age, seen |-> NoteFirstSeen[d]]
    <2>1. AskedOver(d, [up |-> up, age |-> age, seen |-> NoteFirstSeen[d]])
      BY <1>4, OpenMeansOver
    <2> QED
      BY <1>2, <1>4, <2>1
  <1> QED
    BY <1>3, <1>4 DEF AutomaticScan

-----------------------------------------------------------------------------
(***************************************************************************)
(* The invariant                                                           *)
(***************************************************************************)

\* A clock does not go back and stops at Far.
LEMMA LaterIsLater ==
    ASSUME NEW n \in Time
    PROVE  Later(n) \in Time /\ n <= Later(n) /\ Later(n) <= n + 1
  BY RecDelayAssumption DEF Later, Time

LEMMA DelayInvInit == Init => DelayInv
  <1> SUFFICES ASSUME Init PROVE DelayInv
    OBVIOUS
  <1>1. 0 \in Time
    BY RecDelayAssumption DEF Time
  <1>2. Types
    BY <1>1 DEF Init, Types
  <1>3. NeverEarly
    BY DEF Init, NeverEarly
  <1> QED
    BY <1>2, <1>3 DEF DelayInv, Init, CfgInUse, ScansWhenReady, PollInTime

LEMMA TickTypes ==
    ASSUME Types, Tick
    PROVE  /\ Types'
           /\ up <= up' /\ age <= age'
           /\ \A d \in Device : seen[d] # Never => seen'[d] = Later(seen[d])
  <1>1. up' \in Time /\ up <= up'
    BY LaterIsLater DEF Types, Tick
  <1>2. age' \in Time /\ age <= age'
    <2>1. age <= age
      BY DEF Types, Time
    <2> QED
      BY <2>1, LaterIsLater DEF Types, Tick
  <1>3. seen' \in [Device -> Time \union {Never}]
    BY LaterIsLater DEF Types, Tick
  <1>4. waited' \in Time
    BY LaterIsLater DEF Types, Tick
  <1>5. pollIn' \in Nat
    BY DEF Types, Tick
  <1>6. \A d \in Device : seen[d] # Never => seen'[d] = Later(seen[d])
    BY DEF Tick
  <1> QED
    BY <1>1, <1>2, <1>3, <1>4, <1>5, <1>6 DEF Types, Tick, configVars, deviceVars

LEMMA DelayInvStep == DelayInv /\ [Next]_vars => DelayInv'
  <1> SUFFICES ASSUME DelayInv, [Next]_vars PROVE DelayInv'
    OBVIOUS
  <1> USE DEF DelayInv
  <1>0. 0 \in Time /\ 0 \in Nat
    BY RecDelayAssumption DEF Time
  <1>kept. ASSUME UNCHANGED <<file, started>> PROVE NeverEarly'
    BY <1>kept DEF NeverEarly, AskedOver, AskedClock
  <1>same. ASSUME UNCHANGED <<file, phase, cfg>> PROVE CfgInUse'
    BY <1>same DEF CfgInUse, Validates, Resolved
  <1>wait. ASSUME UNCHANGED <<file, phase, up, waitVars>>
           PROVE  ScansWhenReady' /\ PollInTime'
    BY <1>wait DEF ScansWhenReady, PollInTime, waitVars
  <1>1. CASE Starts
    <2>1. Types'
      BY <1>0, <1>1 DEF Types, Starts, waitVars, deviceVars
    <2>2. CfgInUse'
      BY <1>1 DEF Starts, CfgInUse, Validates, Resolved
    <2>3. NeverEarly'
      BY <1>1, <1>kept DEF Starts
    <2> QED
      BY <1>1, <2>1, <2>2, <2>3 DEF Starts, ScansWhenReady, PollInTime
  <1>2. CASE Waits
    <2>1. Types'
      BY <1>0, <1>2 DEF Types, Waits, configVars, deviceVars
    <2>2. CfgInUse'
      BY <1>2 DEF Waits, CfgInUse, Validates, Resolved, configVars
    <2>3. NeverEarly'
      BY <1>2, <1>kept DEF Waits, configVars
    <2>4. /\ Wish(file.maxWait, DefaultReadyMaxWait) \in Nat
          /\ Wish(file.poll, DefaultReadyPoll) \in Nat
      BY <1>2, ReadySettings DEF Waits
    <2>5. PollInTime'
      BY <1>2, <2>4 DEF Waits, PollInTime, configVars
    <2> QED
      BY <1>2, <2>1, <2>2, <2>3, <2>5 DEF Waits, ScansWhenReady
  <1>3. CASE Polls
    <2>1. /\ MinUptime = Wish(file.minUptime, DefaultReadyMinUptime)
          /\ MaxWait = Wish(file.maxWait, DefaultReadyMaxWait)
          /\ Poll = Wish(file.poll, DefaultReadyPoll)
          /\ MaxWait \in Nat /\ Poll \in Nat
      BY <1>3, ReadySettings DEF Polls
    <2>2. UNCHANGED <<file, cfg, up, waited, started>>
      BY <1>3 DEF Polls, configVars
    <2>3. Types'
      BY <1>3, <2>1 DEF Types, Polls, configVars, deviceVars
    <2>4. phase # "off" /\ CfgInUse'
      BY <1>3, <2>2 DEF Polls, CfgInUse, Validates, Resolved
    <2>5. CASE phase' = "scan" /\ ((ticks /\ up >= MinUptime) \/ waited > MaxWait)
      <3>1. ScansWhenReady'
        BY <2>1, <2>2, <2>5 DEF ScansWhenReady
      <3>2. PollInTime'
        BY <2>5 DEF PollInTime
      <3> QED
        BY <1>kept, <2>2, <2>3, <2>4, <3>1, <3>2
    <2>6. CASE phase' = "waiting" /\ pollIn' = Poll /\ ~(waited > MaxWait)
      <3>1. waited \in Nat
        BY RecDelayAssumption DEF Types, Time
      <3>2. PollInTime'
        BY <2>1, <2>2, <2>6, <3>1 DEF PollInTime
      <3>3. ScansWhenReady'
        BY <2>6 DEF ScansWhenReady
      <3> QED
        BY <1>kept, <2>2, <2>3, <2>4, <3>2, <3>3
    <2> QED
      BY <1>3, <2>5, <2>6 DEF Polls
  <1>4. CASE StartupScan
    <2>1. seen' \in [Device -> Time \union {Never}]
      BY <1>4, NotedTypes DEF StartupScan, AutomaticScan, Types
    <2>2. Types'
      BY <1>4, <2>1 DEF Types, StartupScan, configVars, waitVars, deviceVars
    <2>3. CfgInUse'
      BY <1>4 DEF StartupScan, CfgInUse, Validates, Resolved, configVars
    <2>4. NeverEarly'
      BY <1>4, <1>kept, ScanIsNotEarly DEF StartupScan, configVars
    <2> QED
      BY <1>4, <2>2, <2>3, <2>4
      DEF StartupScan, ScansWhenReady, PollInTime, configVars, waitVars
  <1>5. CASE EventScan
    <2>1. Types'
      BY <1>5, NotedTypes
      DEF Types, EventScan, AutomaticScan, configVars, waitVars, deviceVars
    <2>2. NeverEarly'
      BY <1>5, ScanIsNotEarly DEF EventScan, configVars
    <2> QED
      BY <1>5, <1>same, <1>wait, <2>1, <2>2 DEF EventScan, configVars
  <1>6. CASE CheckScan
    <2>1. Types'
      BY <1>6, NotedTypes DEF Types, CheckScan, configVars, waitVars, deviceVars
    <2> QED
      BY <1>6, <1>same, <1>wait, <1>kept, <2>1 DEF CheckScan, configVars
  <1>7. CASE Stops
    <2>1. Types'
      BY <1>0, <1>7 DEF Types, Stops, deviceVars
    <2>2. NeverEarly'
      BY <1>7 DEF Stops, NeverEarly
    <2> QED
      BY <1>7, <2>1, <2>2 DEF Stops, CfgInUse, ScansWhenReady, PollInTime
  <1>8. CASE Tick
    <2>1. Types' /\ up <= up'
      BY <1>8, TickTypes
    <2>2. UNCHANGED <<file, phase, cfg, started>>
      BY <1>8 DEF Tick, configVars
    <2>3. CASE phase \in {"scan", "running"}
      <3>1. waited' = waited /\ phase' = phase /\ file' = file
        BY <1>8, <2>2, <2>3 DEF Tick
      <3>2. Wish(file.minUptime, DefaultReadyMinUptime) \in Nat
        BY <2>3, ReadySettings
      <3>3. up \in Nat /\ up' \in Nat
        BY <2>1, RecDelayAssumption DEF Types, Time
      <3>4. ScansWhenReady'
        BY <2>1, <2>3, <3>1, <3>2, <3>3 DEF ScansWhenReady
      <3> QED
        BY <1>kept, <1>same, <2>1, <2>2, <2>3, <3>4 DEF PollInTime
    <2>4. CASE phase = "waiting"
      <3>1. waited' = Later(waited) /\ pollIn' = pollIn - 1 /\ phase' = phase /\ file' = file
        BY <1>8, <2>2, <2>4 DEF Tick
      <3>2. waited \in Nat /\ waited' \in Nat /\ waited' <= waited + 1
        BY <3>1, LaterIsLater, RecDelayAssumption DEF Types, Time
      <3>3. /\ Wish(file.maxWait, DefaultReadyMaxWait) \in Nat
            /\ Wish(file.poll, DefaultReadyPoll) \in Nat
        BY <2>4, ReadySettings
      <3>4. PollInTime'
        BY <2>4, <3>1, <3>2, <3>3 DEF PollInTime, Types
      <3> QED
        BY <1>kept, <1>same, <2>1, <2>2, <2>4, <3>4 DEF ScansWhenReady
    <2>5. CASE phase \notin {"scan", "running", "waiting"}
      BY <1>kept, <1>same, <2>1, <2>2, <2>5 DEF ScansWhenReady, PollInTime
    <2> QED
      BY <2>3, <2>4, <2>5
  <1>9. CASE DeviceStep
    <2>1. UNCHANGED <<configVars, up, phase, age, seen, waitVars, started>>
      BY <1>9 DEF DeviceStep, Arrives, Leaves, Fails, Heals
    <2>2. sick' \subseteq present' /\ present' \subseteq Device
      BY <1>9 DEF Types, DeviceStep, Arrives, Leaves, Fails, Heals
    <2>3. Types'
      BY <2>1, <2>2 DEF Types, configVars, waitVars
    <2> QED
      BY <1>same, <1>wait, <1>kept, <2>1, <2>3 DEF configVars
  <1>10. CASE UNCHANGED vars
    <2>1. Types'
      BY <1>10 DEF Types, vars, configVars, waitVars, deviceVars
    <2> QED
      BY <1>same, <1>wait, <1>kept, <1>10, <2>1 DEF vars, configVars
  <1> QED
    BY <1>1, <1>2, <1>3, <1>4, <1>5, <1>6, <1>7, <1>8, <1>9, <1>10 DEF Next, DaemonStep

LEMMA DelayInvHolds == Spec => []DelayInv
  BY DelayInvInit, DelayInvStep, PTL DEF Spec

-----------------------------------------------------------------------------
(***************************************************************************)
(* The theorems                                                            *)
(***************************************************************************)

\* No device is recovered automatically before its rec_delay is over, as the
\* file and the README have it, whatever the clocks, scans, checks, restarts and
\* comings and goings of devices were.
THEOREM DelaysAreKept == Spec => []NeverEarly
  BY DelayInvHolds, PTL DEF DelayInv

\* The initial scan, and any scan after it, waits for the uptime the file asks
\* for or for the longest wait, whichever fields are zero or omitted.
THEOREM ScansWaitForTheSystem == Spec => []ScansWhenReady
  BY DelayInvHolds, PTL DEF DelayInv

\* WaitForSystemReady is over one poll after its longest wait.
THEOREM TheWaitIsBounded == Spec => []ReadyWaitIsBounded
  <1>1. ASSUME DelayInv PROVE ReadyWaitIsBounded
    <2>1. SUFFICES ASSUME phase = "waiting" PROVE ReadyWaitIsBounded
      BY DEF ReadyWaitIsBounded
    <2>2. /\ Wish(file.maxWait, DefaultReadyMaxWait) \in Nat
          /\ Wish(file.poll, DefaultReadyPoll) \in Nat
      BY <1>1, <2>1, ReadySettings DEF DelayInv
    <2>3. waited \in Nat /\ pollIn \in Nat
      BY <1>1, RecDelayAssumption DEF DelayInv, Types, Time
    <2> QED
      BY <1>1, <2>1, <2>2, <2>3 DEF DelayInv, PollInTime, ReadyWaitIsBounded
  <1> QED
    BY <1>1, DelayInvHolds, PTL

\* While a daemon lives its configuration stays and its clocks go on.
LEMMA ClocksGoOn ==
    ASSUME Types, Next, phase # "off", phase' # "off", NEW d \in Device
    PROVE  /\ cfg' = cfg /\ ticks' = ticks
           /\ up \in Nat /\ up' \in Nat /\ up <= up'
           /\ age \in Nat /\ age' \in Nat /\ age <= age'
           /\ seen[d] # Never => /\ seen'[d] # Never
                                 /\ seen[d] \in Nat /\ seen'[d] \in Nat
                                 /\ seen[d] <= seen'[d]
  <1>0. up \in Nat /\ age \in Nat /\ (seen[d] # Never => seen[d] \in Nat)
    BY RecDelayAssumption DEF Types, Time
  <1>1. CASE Tick
    <2>1. Types' /\ up <= up' /\ age <= age' /\ (seen[d] # Never => seen'[d] = Later(seen[d]))
      BY <1>1, TickTypes
    <2>2. up' \in Nat /\ age' \in Nat
      BY <2>1, RecDelayAssumption DEF Types, Time
    <2>3. ASSUME seen[d] # Never
          PROVE  seen'[d] \in Nat /\ seen[d] <= seen'[d]
      <3>1. seen[d] \in Time
        BY <2>3 DEF Types
      <3> QED
        BY <2>1, <2>3, <3>1, LaterIsLater, RecDelayAssumption DEF Time
    <2>4. cfg' = cfg /\ ticks' = ticks
      BY <1>1 DEF Tick, configVars
    <2> QED
      BY <1>0, <2>1, <2>2, <2>3, <2>4, RecDelayAssumption
  <1>2. CASE seen' \in {seen, NoteFirstSeen} /\ UNCHANGED <<configVars, up, age>>
    <2>1. seen[d] # Never => seen'[d] = seen[d]
      BY <1>2 DEF NoteFirstSeen
    <2> QED
      BY <1>0, <1>2, <2>1 DEF configVars
  <1>3. CASE Waits \/ Polls \/ DeviceStep
    <2>1. seen' = seen /\ UNCHANGED <<configVars, up, age>>
      BY <1>3 DEF Waits, Polls, DeviceStep, Arrives, Leaves, Fails, Heals
    <2> QED
      BY <1>2, <2>1
  <1>4. CASE StartupScan \/ EventScan \/ CheckScan
    <2>1. seen' \in {seen, NoteFirstSeen} /\ UNCHANGED <<configVars, up, age>>
      BY <1>4 DEF StartupScan, EventScan, CheckScan, AutomaticScan
    <2> QED
      BY <1>2, <2>1
  <1> QED
    BY <1>1, <1>3, <1>4 DEF Next, DaemonStep, Starts, Stops

\* A gate that a daemon has opened stays open as long as it lives: what
\* RecoveryManager assumes of delayOver.
THEOREM OpenGatesStayOpen == Spec => GateStaysOpen
  <1>1. ASSUME DelayInv, [Next]_vars
        PROVE  [\A d \in Device : (phase # "off" /\ phase' # "off" /\ Allows(d, seen))
                                     => Allows(d, seen)']_vars
    <2>1. SUFFICES ASSUME Next, NEW d \in Device, phase # "off", phase' # "off", Allows(d, seen)
                   PROVE  Allows(d, seen)'
      BY <1>1
    <2>2. /\ cfg' = cfg /\ ticks' = ticks
          /\ up \in Nat /\ up' \in Nat /\ up <= up'
          /\ age \in Nat /\ age' \in Nat /\ age <= age'
          /\ seen[d] # Never => /\ seen'[d] # Never
                                /\ seen[d] \in Nat /\ seen'[d] \in Nat
                                /\ seen[d] <= seen'[d]
      BY <1>1, <2>1, ClocksGoOn DEF DelayInv
    <2>3. CASE ~cfg.delay[d].present
      BY <2>2, <2>3 DEF Allows
    <2>4. CASE cfg.delay[d].present
      <3>1. cfg.delay[d].sec \in Nat
        BY <1>1, <2>1, <2>4, EntryInUse DEF DelayInv
      <3>2. cfg.bypass \in Nat
        <4>1. file.bypass \in RawInt /\ DefaultUptimeBypass \in Nat
          BY <1>1, RecDelayAssumption DEF DelayInv, Types
        <4>2. ValidInt(file.bypass) /\ cfg.bypass = ResolveInt(file.bypass, DefaultUptimeBypass)
          BY <1>1, <2>1 DEF DelayInv, CfgInUse, Validates, Resolved
        <4> QED
          BY <4>1, <4>2 DEF RawInt, ValidInt, ResolveInt
      <3> QED
        BY <2>1, <2>2, <2>4, <3>1, <3>2 DEF Allows
    <2> QED
      BY <2>3, <2>4
  <1> QED
    BY <1>1, DelayInvHolds, PTL DEF Spec, GateStaysOpen

-----------------------------------------------------------------------------
(***************************************************************************)
(* The types                                                               *)
(***************************************************************************)

NotLoaded == phase = "off" => cfg = Omitted

\* The clocks noted at a first recovery.
NotedClocks ==
    \A d \in Device : started[d] # Never
        => started[d].up \in Time /\ started[d].age \in Time /\ started[d].seen \in Time

TypeInv == ticks \in BOOLEAN /\ NotLoaded /\ NotedClocks

LEMMA ScanNotesClocks ==
    ASSUME Types, NotedClocks, AutomaticScan
    PROVE  NotedClocks'
  <1> SUFFICES ASSUME NEW d \in Device, started'[d] # Never
               PROVE  /\ started'[d].up \in Time
                      /\ started'[d].age \in Time
                      /\ started'[d].seen \in Time
    BY DEF NotedClocks
  <1>1. CASE started'[d] = started[d]
    BY <1>1 DEF NotedClocks
  <1>2. CASE d \in sick /\ started'[d] = [up |-> up, age |-> age, seen |-> NoteFirstSeen[d]]
    BY <1>2, NotedTypes DEF Types
  <1> QED
    BY <1>1, <1>2 DEF AutomaticScan

LEMMA TypeInvStep == DelayInv /\ TypeInv /\ [Next]_vars => TypeInv'
  <1> SUFFICES ASSUME DelayInv, TypeInv, [Next]_vars PROVE TypeInv'
    OBVIOUS
  <1>1. ticks' = ticks
    BY DEF Next, DaemonStep, Starts, Waits, Polls, StartupScan, EventScan, CheckScan, Stops,
           DeviceStep, Arrives, Leaves, Fails, Heals, Tick, vars, configVars
  <1>2. NotLoaded'
    BY DEF TypeInv, NotLoaded, Next, DaemonStep, Starts, Waits, Polls, StartupScan, EventScan,
           CheckScan, Stops, DeviceStep, Arrives, Leaves, Fails, Heals, Tick, vars, configVars
  <1>3. NotedClocks'
    <2>1. CASE AutomaticScan
      BY <2>1, ScanNotesClocks DEF DelayInv, TypeInv
    <2>2. CASE Stops
      BY <2>2 DEF Stops, NotedClocks
    <2>3. CASE started' = started
      BY <2>3 DEF TypeInv, NotedClocks
    <2> QED
      BY <2>1, <2>2, <2>3
         DEF Next, DaemonStep, Starts, Waits, Polls, StartupScan, EventScan, CheckScan,
             DeviceStep, Arrives, Leaves, Fails, Heals, Tick, vars
  <1> QED
    BY <1>1, <1>2, <1>3 DEF TypeInv

\* The variables keep their types, and a daemon has no spelling of a clock in its
\* configuration that recDelayAllows does not know.
THEOREM TypesAreKept == Spec => []TypeOK
  <1>1. Init => TypeInv
    BY DEF Init, TypeInv, NotLoaded, NotedClocks
  <1>2. ASSUME DelayInv, TypeInv PROVE TypeOK
    <2>1. cfg = Omitted <=> phase = "off"
      BY <1>2, LoadedAssumption DEF DelayInv, Types, CfgInUse, TypeInv, NotLoaded
    <2>2. ASSUME phase # "off", NEW d \in Device, cfg.delay[d].present
          PROVE  cfg.delay[d].exact /\ cfg.delay[d].based \in Clock
      BY <1>2, <2>2, EntryInUse DEF DelayInv
    <2> QED
      BY <1>2, <2>1, <2>2 DEF TypeOK, DelayInv, Types, TypeInv, NotedClocks
  <1> QED
    BY <1>1, <1>2, TypeInvStep, DelayInvHolds, PTL DEF Spec
=============================================================================
