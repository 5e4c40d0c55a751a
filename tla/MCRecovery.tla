----------------------------- MODULE MCRecovery -----------------------------
(***************************************************************************)
(* Small instances of RecoveryManager for TLC.                             *)
(***************************************************************************)
EXTENDS RecoveryManager, TLC

CONSTANTS d1, d2, w1, w2, pnp, check

OneDevice == {d1}
TwoDevices == {d1, d2}

DistinctNames == d1 :> "gpu" @@ d2 :> "usb"
SameName == [d \in TwoDevices |-> "gpu"]

\* What happens to the devices: nothing; faults that come, or come and go; the
\* user in Device Manager and faults; a cable, of any device or of one of the two.
Undisturbed == [d \in TwoDevices |-> {}]
Breaking == [d \in TwoDevices |-> {"break"}]
ComingAndGoing == [d \in TwoDevices |-> {"break", "heal"}]
UserAndFaults == [d \in TwoDevices |-> {"user", "break"}]
Plugging == [d \in TwoDevices |-> {"plug"}]
PluggingOne == [Undisturbed EXCEPT ![d2] = {"plug"}]

EntryOf(names, maxRetries, problemCode, delayed) ==
    [names |-> names, maxRetries |-> maxRetries, problemCode |-> problemCode,
     delayed |-> delayed]

\* One exact name, two attempts, only Code 43 as in the README, behind a rec_delay.
Filtered == <<EntryOf({"gpu"}, 2, {43}, TRUE)>>

\* One exact name, one attempt, no filter, no delay.
Plain == <<EntryOf({"gpu"}, 1, {}, FALSE)>>

\* Only Code 43, as in the README's example.
Only43 == <<EntryOf({"gpu"}, 1, {43}, FALSE)>>

\* A regex entry that covers both names, and an exact one it overlaps.
Overlapping == <<EntryOf({"gpu", "usb"}, 1, {}, FALSE), EntryOf({"usb"}, 2, {}, FALSE)>>

Code43 == {43}
Codes43And10 == {10, 43}

WorkerSymmetry == Permutations({w1, w2})
=============================================================================
