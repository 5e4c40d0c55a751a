--------------------------- MODULE SingleOperator ---------------------------
(***************************************************************************)
(* What the singleton promises about the processes of one machine, without *)
(* handles, pipes and elevation.                                           *)
(*                                                                         *)
(* At most one process is the operator.  Only the operator begins work on  *)
(* devices, and not after it has been told to stop.  It hands over when    *)
(* its work is done; one that has been told to stop may hand over before,  *)
(* and then it is on its way out: it begins nothing more until it is gone. *)
(***************************************************************************)
CONSTANTS Proc,        \* the processes
          None         \* no process

VARIABLES operator,    \* the process that may begin work, or None
          working,     \* the processes with work under way
          stopping     \* the processes that have been told to stop

vars == <<operator, working, stopping>>

Init == /\ operator = None
        /\ working = {}
        /\ stopping = {}

TakesOver(p) == /\ operator = None
                /\ p \notin working \union stopping
                /\ operator' = p
                /\ UNCHANGED <<working, stopping>>

BeginsWork(p) == /\ operator = p
                 /\ p \notin stopping
                 /\ working' = working \union {p}
                 /\ UNCHANGED <<operator, stopping>>

EndsWork(p) == /\ working' = working \ {p}
               /\ UNCHANGED <<operator, stopping>>

IsToldToStop(p) == /\ operator = p
                   /\ stopping' = stopping \union {p}
                   /\ UNCHANGED <<operator, working>>

HandsOver(p) == /\ operator = p
                /\ p \in working => p \in stopping
                /\ operator' = None
                /\ UNCHANGED <<working, stopping>>

\* At any time, with its work and all.
IsGone(p) == /\ operator' = IF operator = p THEN None ELSE operator
             /\ working' = working \ {p}
             /\ stopping' = stopping \ {p}

Next == \E p \in Proc : \/ TakesOver(p)
                        \/ BeginsWork(p)
                        \/ EndsWork(p)
                        \/ IsToldToStop(p)
                        \/ HandsOver(p)
                        \/ IsGone(p)

Spec == Init /\ [][Next]_vars
=============================================================================
