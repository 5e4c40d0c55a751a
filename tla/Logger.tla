------------------------------- MODULE Logger -------------------------------
(***************************************************************************)
(* The log file and the processes that write it: a daemon, one-shot checks *)
(* and daemons that find the mutex taken only after their first lines      *)
(* (logger.go).                                                            *)
(*                                                                         *)
(* The file is a sequence of cells, each with its writer.  A process has   *)
(* one Logger; its mutex makes a writeLine one after another in a process, *)
(* and every system call of it is a step that other processes may come     *)
(* between.  A system call may fail.                                       *)
(***************************************************************************)
EXTENDS Naturals, FiniteSets, Sequences

CONSTANTS
    Proc,           \* processes that may log at the same time
    LogMaxBytes,    \* advanced.log_max_bytes, in cells
    DefaultMax,     \* defaultMaxLogBytes
    LineLengths,    \* the lengths of lines
    HeaderLength,   \* the length of the "log rotated" line
    Hole            \* a cell that nobody has written

ASSUME LoggerAssumption == /\ LogMaxBytes \in Nat
                           /\ DefaultMax \in Nat \ {0}
                           /\ LineLengths \subseteq Nat \ {0}
                           /\ HeaderLength \in Nat \ {0}
                           /\ Hole \notin Proc

\* There are finitely many processes, and one of the lines is the longest.
ASSUME BoundsAssumption == /\ IsFiniteSet(Proc)
                           /\ \E n \in LineLengths : \A m \in LineLengths : m <= n

\* SetMaxBytes ignores a value that is not positive.
Limit == IF LogMaxBytes > 0 THEN LogMaxBytes ELSE DefaultMax

VARIABLES
    disk,       \* the cells of the file
    pc,         \* where a process is in writeLine, or "off"
    handle,     \* l.file: "append", "plain", "closed" after a failed Close, or "nil"
    pos,        \* the file pointer of a plain handle
    size,       \* l.size
    want,       \* the length of the line under way
    alone       \* the processes that no other has logged beside since they started

vars == <<disk, pc, handle, pos, size, want, alone>>

Running == {p \in Proc : pc[p] # "off"}

Goto(p, l) == pc' = [pc EXCEPT ![p] = l]

HasFile(p) == handle[p] \in {"append", "plain"}

(***************************************************************************)
(* The file                                                                *)
(***************************************************************************)

\* The file with n cells of p at an offset, and a hole when that lies behind the
\* end: another process may have truncated the file.
Written(p, at, n) ==
    [i \in 1..(IF at + n > Len(disk) /\ n > 0 THEN at + n ELSE Len(disk)) |->
       IF i \in at + 1 .. at + n THEN p
       ELSE IF i <= Len(disk) THEN disk[i] ELSE Hole]

\* WriteString of n cells, of which k get into the file, and l.size += k.
WriteString(p, k) ==
    IF handle[p] = "append"
      THEN disk' = Written(p, Len(disk), k) /\ UNCHANGED pos
      ELSE disk' = Written(p, pos[p], k) /\ pos' = [pos EXCEPT ![p] = @ + k]

(***************************************************************************)
(* Loggers                                                                 *)
(***************************************************************************)

\* Mutant: the file is opened without O_APPEND.
OpensPlain(p) ==
    /\ pc[p] = "off"
    /\ Goto(p, "idle")
    /\ handle' = [handle EXCEPT ![p] = "plain"]
    /\ pos' = [pos EXCEPT ![p] = 0]
    /\ size' = [size EXCEPT ![p] = Len(disk)]
    /\ alone' = IF Running = {} THEN {p} ELSE {}
    /\ UNCHANGED <<disk, want>>

\* NewLogger, before the process has the mutex; a process without a log ends.
Opens(p) ==
    /\ pc[p] = "off"
    /\ Goto(p, "idle")
    /\ handle' = [handle EXCEPT ![p] = "append"]
    /\ size' = [size EXCEPT ![p] = Len(disk)]
    /\ alone' = IF Running = {} THEN {p} ELSE {}
    /\ UNCHANGED <<disk, pos, want>>

\* Close, or the end of the process at any point.
Ends(p) ==
    /\ pc[p] # "off"
    /\ Goto(p, "off")
    /\ handle' = [handle EXCEPT ![p] = "nil"]
    /\ pos' = [pos EXCEPT ![p] = 0]
    /\ size' = [size EXCEPT ![p] = 0]
    /\ want' = [want EXCEPT ![p] = 0]
    /\ alone' = alone \ {p}
    /\ UNCHANGED disk

\* Mutant: the length of the line is left out of the comparison.
StartsLateRotation(p) ==
    /\ pc[p] = "idle"
    /\ handle[p] # "nil"
    /\ \E n \in LineLengths : /\ want' = [want EXCEPT ![p] = n]
                              /\ Goto(p, IF size[p] <= Limit THEN "line" ELSE "close")
    /\ UNCHANGED <<disk, handle, pos, size, alone>>

\* writeLine of an enabled logger; without a file the line is only printed.
StartsLine(p) ==
    /\ pc[p] = "idle"
    /\ handle[p] # "nil"
    /\ \E n \in LineLengths : /\ want' = [want EXCEPT ![p] = n]
                              /\ Goto(p, IF size[p] + n <= Limit THEN "line" ELSE "close")
    /\ UNCHANGED <<disk, handle, pos, size, alone>>

\* A Close that fails closes all the same, and every later one fails.
Closes(p) ==
    /\ pc[p] = "close"
    /\ \/ HasFile(p) /\ Goto(p, "truncate")
       \/ Goto(p, "line")
    /\ handle' = [handle EXCEPT ![p] = "closed"]
    /\ UNCHANGED <<disk, pos, size, want, alone>>

\* Mutants: the file is opened again as NewLogger does; l.size is not reset.
TruncatesNothing(p) ==
    /\ pc[p] = "truncate"
    /\ handle' = [handle EXCEPT ![p] = "append"]
    /\ size' = [size EXCEPT ![p] = 0]
    /\ Goto(p, "header")
    /\ UNCHANGED <<disk, pos, want, alone>>

TruncatesUncounted(p) ==
    /\ pc[p] = "truncate"
    /\ disk' = <<>>
    /\ handle' = [handle EXCEPT ![p] = "plain"]
    /\ pos' = [pos EXCEPT ![p] = 0]
    /\ Goto(p, "header")
    /\ UNCHANGED <<size, want, alone>>

\* OpenFile with O_TRUNC, which has no O_APPEND, under whoever else has it open.
Truncates(p) ==
    /\ pc[p] = "truncate"
    /\ disk' = <<>>
    /\ handle' = [handle EXCEPT ![p] = "plain"]
    /\ pos' = [pos EXCEPT ![p] = 0]
    /\ size' = [size EXCEPT ![p] = 0]
    /\ Goto(p, "header")
    /\ UNCHANGED <<want, alone>>

TruncateFails(p) ==
    /\ pc[p] = "truncate"
    /\ handle' = [handle EXCEPT ![p] = "nil"]
    /\ Goto(p, "line")
    /\ UNCHANGED <<disk, pos, size, want, alone>>

WritesHeader(p) ==
    /\ pc[p] = "header"
    /\ \E k \in 0..HeaderLength : /\ WriteString(p, k)
                                    /\ size' = [size EXCEPT ![p] = @ + k]
    /\ Goto(p, "line")
    /\ UNCHANGED <<handle, want, alone>>

\* The line itself, after an error of the rotation too.
WritesLine(p) ==
    /\ pc[p] = "line"
    /\ \E k \in 0..(IF HasFile(p) THEN want[p] ELSE 0) :
          /\ WriteString(p, k)
          /\ size' = [size EXCEPT ![p] = @ + k]
    /\ want' = [want EXCEPT ![p] = 0]
    /\ Goto(p, "idle")
    /\ UNCHANGED <<handle, alone>>

Init ==
    /\ disk = <<>>
    /\ pc = [p \in Proc |-> "off"]
    /\ handle = [p \in Proc |-> "nil"]
    /\ pos = [p \in Proc |-> 0]
    /\ size = [p \in Proc |-> 0]
    /\ want = [p \in Proc |-> 0]
    /\ alone = {}

LoggerStep(p) == \/ Opens(p)
                 \/ Ends(p)
                 \/ StartsLine(p)
                 \/ Closes(p)
                 \/ Truncates(p)
                 \/ TruncateFails(p)
                 \/ WritesHeader(p)
                 \/ WritesLine(p)

Next == \E p \in Proc : LoggerStep(p)

Spec == Init /\ [][Next]_vars

-----------------------------------------------------------------------------
(***************************************************************************)
(* Properties                                                              *)
(***************************************************************************)

\* The largest file that a process on its own leaves behind: a full one, or one
\* that has just been rotated for a line.
LongestLine == CHOOSE n \in LineLengths : \A m \in LineLengths : m <= n
FullFile == IF HeaderLength + LongestLine > Limit THEN HeaderLength + LongestLine ELSE Limit

\* Every variable keeps its type, and no logger counts more than a full file
\* without a rotation, except what it found at its start.
TypeOK ==
    /\ disk \in Seq(Proc \union {Hole})
    /\ pc \in [Proc -> {"off", "idle", "close", "truncate", "header", "line"}]
    /\ handle \in [Proc -> {"append", "plain", "closed", "nil"}]
    /\ pos \in [Proc -> 0..FullFile]
    /\ size \in [Proc -> 0..(Cardinality(Proc) * FullFile)]
    /\ want \in [Proc -> LineLengths \union {0}]
    /\ alone \subseteq Running /\ Cardinality(alone) <= 1

\* README.md, "Logging": "Before write: if current_size + line_length would
\* exceed the cap, truncate then write".  current_size is the logger's own count:
\* for a process that logs alone it is the size of the file.
LoneObeysCap ==
    \A p \in alone : (pc[p] = "line" /\ HasFile(p))
                       => Len(disk) + want[p] <= Limit \/ Len(disk) <= HeaderLength

LoneCountIsTrue == \A p \in alone : HasFile(p) => size[p] = Len(disk)

\* Nothing that is in the file is lost but by a rotation, as long as one process
\* at a time is logging.
LoneKeepsLines ==
    [][\A p \in Proc : p \in alone' /\ pc[p] # "truncate"
           => Len(disk) <= Len(disk') /\ SubSeq(disk', 1, Len(disk)) = disk]_vars

\* Processes that log at the same time do not see each other's lines and truncate
\* under each other, but the file does not outgrow one full file for each.
FileStaysBounded == Len(disk) <= Cardinality(Proc) * FullFile
=============================================================================
