------------------------------ MODULE RecDelay ------------------------------
(***************************************************************************)
(* When a daemon may touch a device: the configuration file with its       *)
(* omitted fields, numbers and spellings, the wait for the system to be    *)
(* ready, and the gate of rec_delay with its three clocks (config.go,      *)
(* ready_windows.go, recovery.go).                                         *)
(*                                                                         *)
(* Time goes on forever: a clock counts ticks up to Far, beyond every      *)
(* delay a file asks for, and stays there.  A file holds a rec_delay as it *)
(* is written: Omitted, a number, or an object whose "based" is a word and *)
(* whether it is spelled exactly as in the code.                           *)
(***************************************************************************)
EXTENDS Integers

CONSTANTS
    Device,         \* the configured devices, one entry each
    File,           \* the configuration files that may be there
    Omitted,        \* a field that is not in the file, or is null
    Never,          \* the clock of a device that no scan has seen
    Far,            \* where clocks stop counting
    DefaultUptimeBypass, DefaultReadyMinUptime, DefaultReadyPoll, DefaultReadyMaxWait

Clock == {"uptime", "daemon", "device"}

RawDelay == {Omitted}
            \union [kind : {"number"}, sec : Int]
            \union [kind : {"object"}, based : Clock \union {"unknown"}, exact : BOOLEAN, sec : Int]
            \union [kind : {"partial"}]

RawInt == Int \union {Omitted}

ASSUME RecDelayAssumption ==
    /\ \A f \in File : /\ \A d \in Device : f.delay[d] \in RawDelay
                       /\ f.bypass \in RawInt
                       /\ f.minUptime \in RawInt
                       /\ f.poll \in RawInt
                       /\ f.maxWait \in RawInt
    /\ Far \in Nat
    /\ Never \notin Nat
    /\ {DefaultUptimeBypass, DefaultReadyMinUptime, DefaultReadyPoll, DefaultReadyMaxWait}
         \subseteq Nat \ {0}

VARIABLES
    file,       \* config.json
    ticks,      \* GetTickCount64 is there
    up,         \* time since boot
    phase,      \* "off", "starting", "waiting", "scan" or "running"
    cfg,        \* the Config that LoadConfig has returned, or Omitted
    age,        \* time since the process created its recovery manager
    seen,       \* [Device -> time since firstSeen, or Never]
    waited,     \* time since WaitForSystemReady began
    pollIn,     \* time to its next poll
    sick,       \* the devices that are there and have a problem
    present,    \* the devices that are there
    started     \* [Device -> the clocks at its first automatic recovery, or Never]

configVars == <<file, ticks, cfg>>
deviceVars == <<sick, present>>
waitVars == <<waited, pollIn>>
vars == <<configVars, up, phase, age, seen, waitVars, deviceVars, started>>

(***************************************************************************)
(* LoadConfig                                                              *)
(***************************************************************************)

\* RecDelaySpec.UnmarshalJSON, which refuses an object without both members.
Parses(raw) == raw # Omitted => raw.kind # "partial"

NoDelay == [present |-> FALSE, based |-> "unknown", exact |-> FALSE, sec |-> 0]

Parsed(raw) ==
    IF raw = Omitted THEN NoDelay
    ELSE IF raw.kind = "number"
    THEN [present |-> TRUE, based |-> "uptime", exact |-> TRUE, sec |-> raw.sec]
    ELSE [present |-> TRUE, based |-> raw.based, exact |-> raw.exact, sec |-> raw.sec]

\* Validate of a rec_delay.
ValidDelay(r) == r.present => r.based \in Clock /\ r.sec >= 0

ValidInt(p) == p # Omitted => p >= 0

Validates(f) ==
    /\ \A d \in Device : Parses(f.delay[d]) /\ ValidDelay(Parsed(f.delay[d]))
    /\ \A p \in {f.bypass, f.minUptime, f.poll, f.maxWait} : ValidInt(p)

\* Mutant: the loop's copy of the entry is normalised, not the entry.
NormalisedCopy(r) == r

\* Validate leaves the exact spelling in the configuration.
Normalised(r) == IF r.present THEN [r EXCEPT !.exact = TRUE] ELSE r

ResolveInt(p, default) == IF p = Omitted THEN default ELSE p

\* WaitForSystemReady takes its own default for a value of zero.
UnlessZero(n, default) == IF n <= 0 THEN default ELSE n

Resolved(f) ==
    [delay     |-> [d \in Device |-> Normalised(Parsed(f.delay[d]))],
     bypass    |-> ResolveInt(f.bypass, DefaultUptimeBypass),
     minUptime |-> ResolveInt(f.minUptime, DefaultReadyMinUptime),
     poll      |-> ResolveInt(f.poll, DefaultReadyPoll),
     maxWait   |-> ResolveInt(f.maxWait, DefaultReadyMaxWait)]

\* A process that has loaded its file is told from one that has not.
ASSUME LoadedAssumption == \A f \in File : Validates(f) => Resolved(f) # Omitted

(***************************************************************************)
(* The gate                                                                *)
(***************************************************************************)

\* noteFirstSeen for every device that matches, healthy or not; a device that
\* goes away keeps its clock.
NoteFirstSeen == [d \in Device |-> IF d \in present /\ seen[d] = Never THEN 0 ELSE seen[d]]

\* Mutant: every clock has the bypass.
AllowsBypassed(d, seenAt) ==
    LET r == cfg.delay[d]
    IN  \/ ~r.present
        \/ r.sec = 0
        \/ r.exact /\ ticks /\ cfg.bypass > 0 /\ up >= cfg.bypass
        \/ r.exact /\ r.based = "uptime" /\ ticks /\ up >= r.sec
        \/ r.exact /\ r.based = "daemon" /\ age >= r.sec
        \/ r.exact /\ r.based = "device" /\ seenAt[d] # Never /\ seenAt[d] >= r.sec

\* recDelayAllows of an automatic scan; a check does not ask.
Allows(d, seenAt) ==
    LET r == cfg.delay[d]
    IN  \/ ~r.present
        \/ r.sec = 0
        \/ /\ r.exact /\ r.based = "uptime" /\ ticks
           /\ (cfg.bypass > 0 /\ up >= cfg.bypass) \/ up >= r.sec
        \/ r.exact /\ r.based = "daemon" /\ age >= r.sec
        \/ r.exact /\ r.based = "device" /\ seenAt[d] # Never /\ seenAt[d] >= r.sec

\* Scan: every match is noted, and an unhealthy one is handed on.  What the
\* recovery does is the subject of RecoveryManager.
AutomaticScan ==
    /\ seen' = NoteFirstSeen
    /\ started' = [d \in Device |->
                     IF started[d] = Never /\ d \in sick /\ Allows(d, NoteFirstSeen)
                       THEN [up |-> up, age |-> age, seen |-> NoteFirstSeen[d]]
                       ELSE started[d]]

(***************************************************************************)
(* The daemon                                                              *)
(***************************************************************************)

\* LoadConfig, without which the process exits, and NewDaemon; the listener is
\* given some time to register.
Starts ==
    /\ phase = "off"
    /\ Validates(file)
    /\ cfg' = Resolved(file)
    /\ phase' = "starting"
    /\ age' = 0
    /\ UNCHANGED <<file, ticks, up, seen, waitVars, deviceVars, started>>

\* WaitForSystemReady, with its first look at the uptime at once.
Waits ==
    /\ phase = "starting"
    /\ phase' = "waiting"
    /\ waited' = 0
    /\ pollIn' = 0
    /\ UNCHANGED <<configVars, up, age, seen, deviceVars, started>>

MinUptime == UnlessZero(cfg.minUptime, DefaultReadyMinUptime)
MaxWait == UnlessZero(cfg.maxWait, DefaultReadyMaxWait)
Poll == UnlessZero(cfg.poll, DefaultReadyPoll)

\* Mutants: no deadline; one that is a poll interval away.
PollsForever ==
    /\ phase = "waiting"
    /\ pollIn = 0
    /\ IF ticks /\ up >= MinUptime
         THEN phase' = "scan" /\ UNCHANGED pollIn
         ELSE pollIn' = Poll /\ UNCHANGED phase
    /\ UNCHANGED <<configVars, up, age, seen, waited, deviceVars, started>>

PollsBriefly ==
    /\ phase = "waiting"
    /\ pollIn = 0
    /\ IF (ticks /\ up >= MinUptime) \/ waited >= Poll
         THEN phase' = "scan" /\ UNCHANGED pollIn
         ELSE pollIn' = Poll /\ UNCHANGED phase
    /\ UNCHANGED <<configVars, up, age, seen, waited, deviceVars, started>>

Polls ==
    /\ phase = "waiting"
    /\ pollIn = 0
    /\ IF (ticks /\ up >= MinUptime) \/ waited > MaxWait
         THEN phase' = "scan" /\ UNCHANGED pollIn
         ELSE pollIn' = Poll /\ UNCHANGED phase
    /\ UNCHANGED <<configVars, up, age, seen, waited, deviceVars, started>>

\* The initial scan, which notes nothing when Enumerate fails, and one for an
\* event.
StartupScan ==
    /\ phase = "scan"
    /\ AutomaticScan \/ UNCHANGED <<seen, started>>
    /\ phase' = "running"
    /\ UNCHANGED <<configVars, up, age, waitVars, deviceVars>>

\* Mutant: the clock of a device that has gone starts again with its return.
EventScanForgets ==
    /\ phase = "running"
    /\ seen' = [d \in Device |-> IF d \in present THEN NoteFirstSeen[d] ELSE Never]
    /\ started' = [d \in Device |->
                     IF started[d] = Never /\ d \in sick /\ Allows(d, NoteFirstSeen)
                       THEN [up |-> up, age |-> age, seen |-> NoteFirstSeen[d]]
                       ELSE started[d]]
    /\ UNCHANGED <<configVars, up, phase, age, waitVars, deviceVars>>

EventScan ==
    /\ phase = "running"
    /\ AutomaticScan
    /\ UNCHANGED <<configVars, up, phase, age, waitVars, deviceVars>>

\* A check over IPC, in every phase: it ignores the delay and starts the clocks.
CheckScan ==
    /\ phase # "off"
    /\ seen' = NoteFirstSeen
    /\ UNCHANGED <<configVars, up, phase, age, waitVars, deviceVars, started>>

Stops ==
    /\ phase # "off"
    /\ phase' = "off"
    /\ cfg' = Omitted
    /\ age' = 0
    /\ seen' = [d \in Device |-> Never]
    /\ waited' = 0
    /\ pollIn' = 0
    /\ started' = [d \in Device |-> Never]
    /\ UNCHANGED <<file, ticks, up, deviceVars>>

(***************************************************************************)
(* The world                                                               *)
(***************************************************************************)

Later(n) == IF n < Far THEN n + 1 ELSE Far

\* A poll that is due is not put off; other steps may take any time.
Tick ==
    /\ ~(phase = "waiting" /\ pollIn = 0)
    /\ up' = Later(up)
    /\ age' = IF phase = "off" THEN age ELSE Later(age)
    /\ seen' = [d \in Device |-> IF seen[d] = Never THEN Never ELSE Later(seen[d])]
    /\ waited' = IF phase = "waiting" THEN Later(waited) ELSE waited
    /\ pollIn' = IF phase = "waiting" THEN pollIn - 1 ELSE pollIn
    /\ UNCHANGED <<configVars, phase, deviceVars, started>>

Arrives(d) ==
    /\ d \notin present
    /\ present' = present \union {d}
    /\ sick' \in {sick, sick \union {d}}
    /\ UNCHANGED <<configVars, up, phase, age, seen, waitVars, started>>

Leaves(d) ==
    /\ d \in present
    /\ present' = present \ {d}
    /\ sick' = sick \ {d}
    /\ UNCHANGED <<configVars, up, phase, age, seen, waitVars, started>>

Fails(d) ==
    /\ d \in present \ sick
    /\ sick' = sick \union {d}
    /\ UNCHANGED <<configVars, up, phase, age, seen, waitVars, present, started>>

Heals(d) ==
    /\ d \in sick
    /\ sick' = sick \ {d}
    /\ UNCHANGED <<configVars, up, phase, age, seen, waitVars, present, started>>

Init ==
    /\ file \in File
    /\ ticks \in BOOLEAN
    /\ up = 0
    /\ phase = "off"
    /\ cfg = Omitted
    /\ age = 0
    /\ seen = [d \in Device |-> Never]
    /\ waited = 0
    /\ pollIn = 0
    /\ sick \in SUBSET Device
    /\ present = sick
    /\ started = [d \in Device |-> Never]

DaemonStep == Starts \/ Waits \/ Polls \/ StartupScan \/ EventScan \/ CheckScan \/ Stops

DeviceStep == \E d \in Device : Arrives(d) \/ Leaves(d) \/ Fails(d) \/ Heals(d)

Next == DaemonStep \/ DeviceStep \/ Tick

Spec == Init /\ [][Next]_vars

\* Time goes on and the main goroutine runs.  Nothing in the daemon makes an
\* EventScan when a delay has passed: that events keep coming, while a scan
\* would start something, and that one finds its Enumerate working, is asked of
\* the world.
Fairness == WF_vars(Tick) /\ WF_vars(Waits) /\ WF_vars(Polls) /\ WF_vars(StartupScan)
EventsKeepComing == SF_vars(EventScan)

FairSpec == Spec /\ Fairness /\ EventsKeepComing

-----------------------------------------------------------------------------
(***************************************************************************)
(* Properties                                                              *)
(***************************************************************************)

Time == 0..Far

\* Every variable keeps its type; a configuration in use has no spelling left
\* that recDelayAllows does not know.
TypeOK ==
    /\ file \in File
    /\ ticks \in BOOLEAN
    /\ up \in Time
    /\ phase \in {"off", "starting", "waiting", "scan", "running"}
    /\ cfg = Omitted <=> phase = "off"
    /\ phase # "off" => \A d \in Device : cfg.delay[d].present
                          => cfg.delay[d].exact /\ cfg.delay[d].based \in Clock
    /\ age \in Time
    /\ seen \in [Device -> Time \union {Never}]
    /\ waited \in Time
    /\ pollIn \in Nat
    /\ sick \subseteq present /\ present \subseteq Device
    /\ \A d \in Device : started[d] # Never
          => /\ started[d].up \in Time
             /\ started[d].age \in Time
             /\ started[d].seen \in Time

\* README.md, "Devices" and "Advanced settings": a number counts from boot, a
\* delay of zero or none is no delay, and the bypass is for the uptime clock.
AskedClock(d) ==
    LET raw == file.delay[d]
    IN  IF raw = Omitted THEN "none"
        ELSE IF raw.kind = "number" THEN "uptime"
        ELSE IF raw.kind = "object" THEN raw.based ELSE "none"

AskedOver(d, at) ==
    LET sec == file.delay[d].sec
        bypass == IF file.bypass = Omitted THEN DefaultUptimeBypass ELSE file.bypass
    IN  /\ AskedClock(d) = "uptime" => at.up >= sec \/ (bypass > 0 /\ at.up >= bypass)
        /\ AskedClock(d) = "daemon" => at.age >= sec
        /\ AskedClock(d) = "device" => at.seen >= sec

\* No device is recovered automatically before the time its line of the file
\* asks for, whatever the device, the daemon and the checks have done before.
NeverEarly == \A d \in Device : started[d] # Never => AskedOver(d, started[d])

\* The gate of a device that a daemon has opened stays open as long as the
\* daemon lives, though the device goes away and comes back: RecoveryManager's
\* delayOver only grows.
GateStaysOpen ==
    [][\A d \in Device : (phase # "off" /\ phase' # "off" /\ Allows(d, seen))
                            => Allows(d, seen)']_vars

\* "Safe to run at logon/startup": the initial scan and the ones after it come
\* no sooner than the machine has been up for the time the file asks for, or the
\* longest wait is over; zero and nothing ask for the default.
Wish(p, default) == IF p \in {0, Omitted} THEN default ELSE p

ScansWhenReady ==
    phase \in {"scan", "running"}
      => \/ up >= Wish(file.minUptime, DefaultReadyMinUptime)
         \/ waited > Wish(file.maxWait, DefaultReadyMaxWait)

\* The wait is over one poll after ready_max_wait_sec at the latest, with or
\* without GetTickCount64.
ReadyWaitIsBounded ==
    phase = "waiting" => waited <= Wish(file.maxWait, DefaultReadyMaxWait)
                                     + Wish(file.poll, DefaultReadyPoll)

\* A device that keeps being unhealthy, be it always or again and again, is
\* recovered in the end if its clock exists and events keep coming.
DelayEnds ==
    \A d \in Device :
       (/\ ticks \/ AskedClock(d) # "uptime"
        /\ <>[](phase = "running")
        /\ []<>(d \in sick)) => <>(started[d] # Never)
=============================================================================
