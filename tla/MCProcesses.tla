---------------------------- MODULE MCProcesses ----------------------------
(***************************************************************************)
(* Small instances of Processes for TLC.                                   *)
(***************************************************************************)
EXTENDS Processes, TLC

CONSTANTS p1, p2

\* Every pair of a daemon or a check with any command.
EveryPair == p1 :> {Daemon, Check} @@ p2 :> {Daemon, Check, Status}
=============================================================================
