--------------------------- MODULE DeviceRecovery ---------------------------
(***************************************************************************)
(* What the recovery manager promises about one device, without threads,   *)
(* locks, snapshots or Windows calls.                                      *)
(*                                                                         *)
(* A device is Idle, Recovering or Exhausted.  A session makes at most     *)
(* MaxRetries Disable/Enable cycles, starting from the first; it may end   *)
(* early at any time, but it gives the device up only after all of them.   *)
(* A device given up stays so until a check clears it.                     *)
(***************************************************************************)
EXTENDS Naturals

CONSTANTS Device,        \* the configured devices
          MaxRetries     \* [Device -> Nat \ {0}]

VARIABLES state,         \* [Device -> state]
          cycles,        \* [Device -> Nat]: attempts begun by the current session
          checking       \* a check is clearing Exhausted devices

vars == <<state, cycles, checking>>

Init == /\ state = [d \in Device |-> "Idle"]
        /\ cycles = [d \in Device |-> 0]
        /\ checking = FALSE

Begin(d) == /\ state[d] = "Idle"
            /\ state' = [state EXCEPT ![d] = "Recovering"]
            /\ UNCHANGED <<cycles, checking>>

Attempt(d) == /\ state[d] = "Recovering"
              /\ cycles[d] < MaxRetries[d]
              /\ cycles' = [cycles EXCEPT ![d] = @ + 1]
              /\ UNCHANGED <<state, checking>>

\* Success, nothing left to do, filtered out, or cancelled.
Finish(d) == /\ state[d] = "Recovering"
             /\ state' = [state EXCEPT ![d] = "Idle"]
             /\ cycles' = [cycles EXCEPT ![d] = 0]
             /\ UNCHANGED checking

GiveUp(d) == /\ state[d] = "Recovering"
             /\ cycles[d] = MaxRetries[d]
             /\ state' = [state EXCEPT ![d] = "Exhausted"]
             /\ cycles' = [cycles EXCEPT ![d] = 0]
             /\ UNCHANGED checking

Clear(d) == /\ checking
            /\ state[d] = "Exhausted"
            /\ state' = [state EXCEPT ![d] = "Idle"]
            /\ UNCHANGED <<cycles, checking>>

CheckBeginsOrEnds == /\ checking' = ~checking
                     /\ UNCHANGED <<state, cycles>>

Next == \/ CheckBeginsOrEnds
        \/ \E d \in Device : Begin(d) \/ Attempt(d) \/ Finish(d) \/ GiveUp(d) \/ Clear(d)

Spec == Init /\ [][Next]_vars
=============================================================================
