---------------------------- MODULE LoggerProofs ----------------------------
(***************************************************************************)
(* Proofs about Logger: for every limit, every lengths of lines and any    *)
(* number of processes, a process that logs alone keeps the limit, its     *)
(* count is the size of the file and it loses no line but by a rotation;   *)
(* and processes that truncate under each other keep the file within one   *)
(* full file for each.                                                     *)
(***************************************************************************)
EXTENDS Logger, SequenceTheorems, FiniteSetTheorems, TLAPS

Cell == Proc \union {Hole}

Types ==
    /\ disk \in Seq(Cell)
    /\ pc \in [Proc -> {"off", "idle", "close", "truncate", "header", "line"}]
    /\ handle \in [Proc -> {"append", "plain", "closed", "nil"}]
    /\ pos \in [Proc -> Nat]
    /\ size \in [Proc -> Nat]
    /\ want \in [Proc -> Nat]
    /\ alone \subseteq Proc

\* A process counted as alone is the only one that runs.
AloneIsAlone ==
    \A p \in alone : /\ pc[p] # "off"
                     /\ \A q \in Proc : pc[q] # "off" => q = p

\* A file that has just been truncated has nothing of this process yet, and the
\* file pointer of a process that logs alone is at the end.
FreshAfterTruncate ==
    \A p \in Proc : pc[p] = "header" => handle[p] = "plain" /\ pos[p] = 0 /\ size[p] = 0

PlainAtEnd == \A p \in alone : handle[p] = "plain" => pos[p] = size[p]

ClosedInRotation == \A p \in Proc : pc[p] = "truncate" => handle[p] = "closed"

LoneInv == /\ Types
           /\ AloneIsAlone
           /\ FreshAfterTruncate
           /\ ClosedInRotation
           /\ PlainAtEnd
           /\ LoneCountIsTrue
           /\ LoneObeysCap

-----------------------------------------------------------------------------
(***************************************************************************)
(* Writing                                                                 *)
(***************************************************************************)

LEMMA WrittenIsSeq ==
    ASSUME disk \in Seq(Cell), NEW p \in Proc, NEW at \in Nat, NEW n \in Nat
    PROVE  Written(p, at, n) \in Seq(Cell)
  <1> DEFINE m == IF at + n > Len(disk) /\ n > 0 THEN at + n ELSE Len(disk)
  <1>1. Len(disk) \in Nat /\ disk \in [1..Len(disk) -> Cell]
    BY LenProperties
  <1>2. m \in Nat
    BY <1>1
  <1>3. Written(p, at, n) \in [1..m -> Cell]
    BY <1>1 DEF Written, Cell
  <1> HIDE DEF m
  <1> QED
    BY <1>2, <1>3, SeqDef

\* The file ends with the cells written, or where it did.
LEMMA WrittenLength ==
    ASSUME disk \in Seq(Cell), NEW p \in Proc, NEW at \in Nat, NEW n \in Nat
    PROVE  Len(Written(p, at, n)) = IF at + n > Len(disk) /\ n > 0 THEN at + n ELSE Len(disk)
  <1> DEFINE w == Written(p, at, n)
             a == Len(w)
             b == IF at + n > Len(disk) /\ n > 0 THEN at + n ELSE Len(disk)
  <1>1. Len(disk) \in Nat
    BY LenProperties
  <1>2. DOMAIN w = 1..b
    BY DEF Written
  <1>3. w \in Seq(Cell)
    BY WrittenIsSeq
  <1> HIDE DEF w
  <1>4. a \in Nat /\ b \in Nat /\ 1..a = 1..b
    BY <1>1, <1>2, <1>3, LenProperties
  <1> HIDE DEF a, b
  <1>5. (a \in 1..a <=> a \in 1..b) /\ (b \in 1..a <=> b \in 1..b)
    BY <1>4, Zenon
  <1>6. a = b
    BY <1>4, <1>5
  <1> QED
    BY <1>6 DEF a, b, w

\* n cells at the end make the file n cells longer.
LEMMA WrittenAtEnd ==
    ASSUME disk \in Seq(Cell), NEW p \in Proc, NEW n \in Nat
    PROVE  Len(Written(p, Len(disk), n)) = Len(disk) + n
  <1>1. Len(disk) \in Nat
    BY LenProperties
  <1> QED
    BY <1>1, WrittenLength

\* WriteString of a process that logs alone: file and file pointer grow alike.
LEMMA LoneWrite ==
    ASSUME LoneInv, NEW p \in alone, HasFile(p), NEW k \in Nat, WriteString(p, k)
    PROVE  /\ disk' \in Seq(Cell)
           /\ Len(disk') = Len(disk) + k
           /\ pos' \in [Proc -> Nat]
           /\ handle[p] = "plain" => pos'[p] = size[p] + k
  <1>1. Len(disk) \in Nat /\ size[p] = Len(disk) /\ p \in Proc
    BY LenProperties DEF LoneInv, Types, LoneCountIsTrue
  <1>2. CASE handle[p] = "append"
    BY <1>1, <1>2, WrittenIsSeq, WrittenAtEnd DEF LoneInv, Types, WriteString
  <1>3. CASE handle[p] = "plain"
    <2>1. pos[p] = Len(disk)
      BY <1>1, <1>3 DEF LoneInv, PlainAtEnd
    <2>2. disk' = Written(p, Len(disk), k) /\ pos' = [pos EXCEPT ![p] = @ + k]
      BY <1>3, <2>1 DEF WriteString
    <2>3. disk' \in Seq(Cell) /\ Len(disk') = Len(disk) + k
      BY <1>1, <2>2, WrittenIsSeq, WrittenAtEnd DEF LoneInv, Types
    <2>4. pos' \in [Proc -> Nat] /\ pos'[p] = size[p] + k
      BY <1>1, <2>1, <2>2 DEF LoneInv, Types
    <2> QED
      BY <2>3, <2>4
  <1> QED
    BY <1>2, <1>3 DEF HasFile

\* Any WriteString keeps the types.
LEMMA WriteTypes ==
    ASSUME LoneInv, NEW p \in Proc, NEW k \in Nat, WriteString(p, k)
    PROVE  disk' \in Seq(Cell) /\ pos' \in [Proc -> Nat]
  <1>1. Len(disk) \in Nat
    BY LenProperties DEF LoneInv, Types
  <1>2. pos[p] \in Nat /\ pos' \in [Proc -> Nat]
    <2>1. pos \in [Proc -> Nat] /\ pos[p] \in Nat
      BY DEF LoneInv, Types
    <2>2. pos' = pos \/ pos' = [pos EXCEPT ![p] = @ + k]
      BY DEF WriteString
    <2> QED
      BY <2>1, <2>2
  <1>3. disk' = Written(p, Len(disk), k) \/ disk' = Written(p, pos[p], k)
    BY DEF WriteString
  <1>4. disk \in Seq(Cell)
    BY DEF LoneInv, Types
  <1>5. Written(p, Len(disk), k) \in Seq(Cell) /\ Written(p, pos[p], k) \in Seq(Cell)
    BY <1>1, <1>2, <1>4, WrittenIsSeq
  <1> QED
    BY <1>2, <1>3, <1>5

-----------------------------------------------------------------------------
(***************************************************************************)
(* The steps of a logger                                                   *)
(***************************************************************************)

LEMMA OpensKeeps ==
    ASSUME LoneInv, NEW p \in Proc, Opens(p) PROVE LoneInv'
  <1>1. Len(disk) \in Nat
    BY LenProperties DEF LoneInv, Types
  <1>2. Types'
    BY <1>1 DEF LoneInv, Types, Opens, Goto
  <1> QED
    BY <1>1, <1>2
       DEF LoneInv, Types, AloneIsAlone, FreshAfterTruncate, ClosedInRotation, PlainAtEnd,
           LoneCountIsTrue, LoneObeysCap, HasFile, Opens, Goto, Running

LEMMA EndsKeeps ==
    ASSUME LoneInv, NEW p \in Proc, Ends(p) PROVE LoneInv'
  BY DEF LoneInv, Types, AloneIsAlone, FreshAfterTruncate, ClosedInRotation, PlainAtEnd,
         LoneCountIsTrue, LoneObeysCap, HasFile, Ends, Goto

LEMMA StartsLineKeeps ==
    ASSUME LoneInv, NEW p \in Proc, StartsLine(p) PROVE LoneInv'
  <1>1. PICK n \in LineLengths :
          /\ want' = [want EXCEPT ![p] = n]
          /\ Goto(p, IF size[p] + n <= Limit THEN "line" ELSE "close")
    BY DEF StartsLine
  <1>2. n \in Nat /\ Limit \in Nat
    BY LoggerAssumption DEF Limit
  <1>3. Len(disk) \in Nat
    BY LenProperties DEF LoneInv, Types
  <1> QED
    BY <1>1, <1>2, <1>3
       DEF LoneInv, Types, AloneIsAlone, FreshAfterTruncate, ClosedInRotation, PlainAtEnd,
           LoneCountIsTrue, LoneObeysCap, HasFile, StartsLine, Goto

LEMMA RotationKeeps ==
    ASSUME LoneInv, NEW p \in Proc, Closes(p) \/ Truncates(p) \/ TruncateFails(p) PROVE LoneInv'
  <1> USE DEF LoneInv, Types, AloneIsAlone, FreshAfterTruncate, ClosedInRotation, PlainAtEnd,
              LoneCountIsTrue, LoneObeysCap, HasFile, Goto
  <1>1. CASE Closes(p)
    <2>1. CASE pc' = [pc EXCEPT ![p] = "truncate"]
      BY <1>1, <2>1 DEF Closes
    <2>2. CASE pc' = [pc EXCEPT ![p] = "line"]
      BY <1>1, <2>2 DEF Closes
    <2> QED
      BY <1>1, <2>1, <2>2 DEF Closes
  <1>2. CASE Truncates(p)
    <2>1. disk' \in Seq(Cell) /\ Len(disk') = 0
      BY <1>2 DEF Truncates
    <2> QED
      BY <1>2, <2>1 DEF Truncates
  <1>3. CASE TruncateFails(p)
    BY <1>3 DEF TruncateFails
  <1> QED
    BY <1>1, <1>2, <1>3

LEMMA HeaderKeeps ==
    ASSUME LoneInv, NEW p \in Proc, WritesHeader(p) PROVE LoneInv'
  <1>1. PICK k \in 0..HeaderLength : WriteString(p, k) /\ size' = [size EXCEPT ![p] = @ + k]
    BY DEF WritesHeader
  <1>2. k \in Nat /\ HeaderLength \in Nat
    BY LoggerAssumption
  <1>3. Types'
    BY <1>1, <1>2, WriteTypes DEF LoneInv, Types, WritesHeader, Goto
  <1>4. p \in alone => /\ Len(disk') = size'[p]
                       /\ pos'[p] = size'[p]
                       /\ Len(disk') <= HeaderLength
    <2> SUFFICES ASSUME p \in alone
                 PROVE  Len(disk') = size'[p] /\ pos'[p] = size'[p] /\ Len(disk') <= HeaderLength
      OBVIOUS
    <2>1. HasFile(p) /\ handle[p] = "plain" /\ size[p] = 0 /\ Len(disk) = 0
      BY DEF LoneInv, FreshAfterTruncate, LoneCountIsTrue, HasFile, WritesHeader
    <2>2. Len(disk') = k /\ pos'[p] = k
      BY <1>1, <1>2, <2>1, LoneWrite
    <2> QED
      BY <1>1, <1>2, <2>1, <2>2 DEF LoneInv, Types
  <1>5. AloneIsAlone' /\ FreshAfterTruncate' /\ ClosedInRotation'
    <2>1. pc'[p] = "line" /\ pc[p] # "off" /\ UNCHANGED <<handle, alone>>
      BY DEF LoneInv, Types, WritesHeader, Goto
    <2>2. \A q \in Proc : q # p => pc'[q] = pc[q] /\ size'[q] = size[q] /\ pos'[q] = pos[q]
      BY <1>1 DEF LoneInv, Types, WriteString, WritesHeader, Goto
    <2>3. AloneIsAlone'
      BY <2>1, <2>2 DEF LoneInv, Types, AloneIsAlone
    <2>4. FreshAfterTruncate'
      BY <2>1, <2>2 DEF LoneInv, Types, FreshAfterTruncate
    <2>5. ClosedInRotation'
      BY <2>1, <2>2 DEF LoneInv, Types, ClosedInRotation
    <2> QED
      BY <2>3, <2>4, <2>5
  <1>6. \A q \in alone : q = p /\ pc'[q] = "line" /\ q \in Proc
    BY DEF LoneInv, Types, AloneIsAlone, WritesHeader, Goto
  <1>7. UNCHANGED <<handle, alone>>
    BY DEF WritesHeader
  <1>8. PlainAtEnd' /\ LoneCountIsTrue'
    BY <1>4, <1>6, <1>7 DEF LoneInv, PlainAtEnd, LoneCountIsTrue, HasFile
  <1>9. LoneObeysCap'
    BY <1>3, <1>4, <1>6, <1>7 DEF LoneObeysCap, HasFile, Types
  <1> QED
    BY <1>3, <1>5, <1>8, <1>9 DEF LoneInv

LEMMA LineKeeps ==
    ASSUME LoneInv, NEW p \in Proc, WritesLine(p) PROVE LoneInv'
  <1>1. PICK k \in 0..(IF HasFile(p) THEN want[p] ELSE 0) :
          WriteString(p, k) /\ size' = [size EXCEPT ![p] = @ + k]
    BY DEF WritesLine
  <1>2. k \in Nat
    BY <1>1 DEF LoneInv, Types
  <1>3. Types'
    BY <1>1, <1>2, WriteTypes DEF LoneInv, Types, WritesLine, Goto
  <1>4. p \in alone /\ HasFile(p) => /\ Len(disk') = size'[p]
                                     /\ handle[p] = "plain" => pos'[p] = size'[p]
    BY <1>1, <1>2, LoneWrite DEF LoneInv, Types, LoneCountIsTrue
  <1>5. AloneIsAlone' /\ FreshAfterTruncate' /\ ClosedInRotation'
    <2>1. pc'[p] = "idle" /\ pc[p] # "off" /\ UNCHANGED <<handle, alone>>
      BY DEF LoneInv, Types, WritesLine, Goto
    <2>2. \A q \in Proc : q # p => pc'[q] = pc[q] /\ size'[q] = size[q] /\ pos'[q] = pos[q]
      BY <1>1 DEF LoneInv, Types, WriteString, WritesLine, Goto
    <2>3. AloneIsAlone'
      BY <2>1, <2>2 DEF LoneInv, Types, AloneIsAlone
    <2>4. FreshAfterTruncate'
      BY <2>1, <2>2 DEF LoneInv, Types, FreshAfterTruncate
    <2>5. ClosedInRotation'
      BY <2>1, <2>2 DEF LoneInv, Types, ClosedInRotation
    <2> QED
      BY <2>3, <2>4, <2>5
  <1>6. \A q \in alone : q = p /\ pc'[q] = "idle" /\ q \in Proc
    BY DEF LoneInv, Types, AloneIsAlone, WritesLine, Goto
  <1>7. UNCHANGED <<handle, alone>>
    BY DEF WritesLine
  <1>8. PlainAtEnd' /\ LoneCountIsTrue'
    BY <1>4, <1>6, <1>7 DEF LoneInv, PlainAtEnd, LoneCountIsTrue, HasFile
  <1>9. LoneObeysCap'
    BY <1>3, <1>4, <1>6, <1>7 DEF LoneObeysCap, HasFile, Types
  <1> QED
    BY <1>3, <1>5, <1>8, <1>9 DEF LoneInv

LEMMA LoneInvInit == Init => LoneInv
  BY LoggerAssumption
     DEF Init, LoneInv, Types, AloneIsAlone, FreshAfterTruncate, ClosedInRotation, PlainAtEnd,
         LoneCountIsTrue, LoneObeysCap

LEMMA LoneInvStep == LoneInv /\ [Next]_vars => LoneInv'
  <1> SUFFICES ASSUME LoneInv, [Next]_vars PROVE LoneInv'
    OBVIOUS
  <1>1. ASSUME NEW p \in Proc, LoggerStep(p) PROVE LoneInv'
    BY <1>1, OpensKeeps, EndsKeeps, StartsLineKeeps, RotationKeeps, HeaderKeeps, LineKeeps
       DEF LoggerStep
  <1>2. CASE UNCHANGED vars
    BY <1>2
       DEF vars, LoneInv, Types, AloneIsAlone, FreshAfterTruncate, ClosedInRotation, PlainAtEnd,
           LoneCountIsTrue, LoneObeysCap, HasFile
  <1> QED
    BY <1>1, <1>2 DEF Next

\* A process that logs alone truncates before any line that would take the file
\* beyond the limit.
THEOREM LoneLoggerObeysCap == Spec => []LoneObeysCap
  <1>1. LoneInv => LoneObeysCap
    BY DEF LoneInv
  <1> QED
    BY <1>1, LoneInvInit, LoneInvStep, PTL DEF Spec

\* Its own count, which it compares with the limit, is the size of the file.
THEOREM LoneLoggerCounts == Spec => []LoneCountIsTrue
  <1>1. LoneInv => LoneCountIsTrue
    BY DEF LoneInv
  <1> QED
    BY <1>1, LoneInvInit, LoneInvStep, PTL DEF Spec

-----------------------------------------------------------------------------
(***************************************************************************)
(* The bound on the file                                                   *)
(***************************************************************************)

\* What the limit and the lengths of lines are to each other.
LEMMA Lengths ==
    /\ Limit \in Nat /\ HeaderLength \in Nat /\ FullFile \in Nat \ {0}
    /\ Limit <= FullFile
    /\ \A n \in LineLengths \union {0} : n \in Nat /\ HeaderLength + n <= FullFile
  <1>1. LongestLine \in LineLengths /\ \A n \in LineLengths : n <= LongestLine
    BY BoundsAssumption DEF LongestLine
  <1>2. Limit \in Nat /\ HeaderLength \in Nat \ {0} /\ LineLengths \subseteq Nat
    BY LoggerAssumption DEF Limit
  <1>3. LongestLine \in Nat
    BY <1>1, <1>2
  <1> QED
    BY <1>1, <1>2, <1>3 DEF FullFile

\* The cells that the running loggers may still write before they rotate, each with
\* its logger: what it has not counted of a full file.
Spare(run, count) == {x \in Proc \X (1..FullFile) : run[x[1]] # "off" /\ count[x[1]] < x[2]}

Room(r, n) == IF r = "off" \/ n >= FullFile THEN 0 ELSE FullFile - n

SpareOfOthers(p, run, count) == {x \in Spare(run, count) : x[1] # p}

\* The other processes have a full file each at most.
LEMMA OthersAreBounded ==
    ASSUME NEW p \in Proc, NEW run, NEW count
    PROVE  /\ IsFiniteSet(SpareOfOthers(p, run, count))
           /\ Cardinality(SpareOfOthers(p, run, count)) \in Nat
           /\ Cardinality(SpareOfOthers(p, run, count)) + FullFile <= Cardinality(Proc) * FullFile
  <1> DEFINE O == SpareOfOthers(p, run, count)
             R == Proc \ {p}
             A == R \X (1..FullFile)
  <1>1. FullFile \in Nat \ {0} /\ Cardinality(Proc) \in Nat
    BY Lengths, BoundsAssumption, FS_CardinalityType
  <1>2. IsFiniteSet(R) /\ Cardinality(R) = Cardinality(Proc) - 1
    BY BoundsAssumption, FS_RemoveElement
  <1>3. IsFiniteSet(1..FullFile) /\ Cardinality(1..FullFile) = FullFile
    BY <1>1, FS_Interval
  <1>4. IsFiniteSet(A) /\ Cardinality(A) = Cardinality(R) * Cardinality(1..FullFile)
    BY <1>2, <1>3, FS_Product
  <1>5. O \in SUBSET A
    BY DEF SpareOfOthers, Spare
  <1>6. IsFiniteSet(O) /\ Cardinality(O) <= Cardinality(A)
    BY <1>4, <1>5, FS_Subset
  <1>7. Cardinality(O) \in Nat
    BY <1>6, FS_CardinalityType
  <1>8. Cardinality(A) = (Cardinality(Proc) - 1) * FullFile
    BY <1>2, <1>3, <1>4
  <1>9. (Cardinality(Proc) - 1) * FullFile = Cardinality(Proc) * FullFile - FullFile
    BY <1>1
  <1>10. Cardinality(Proc) * FullFile \in Nat
    BY <1>1
  <1> HIDE DEF O, A
  <1>11. Cardinality(O) + FullFile <= Cardinality(Proc) * FullFile
    BY <1>1, <1>6, <1>7, <1>8, <1>9, <1>10
  <1> QED
    BY <1>6, <1>7, <1>11 DEF O

LEMMA SpareSplits ==
    ASSUME NEW p \in Proc, NEW run, NEW count, count[p] \in Nat
    PROVE  Cardinality(Spare(run, count))
             = Cardinality(SpareOfOthers(p, run, count)) + Room(run[p], count[p])
  <1> DEFINE S == Spare(run, count)
             O == SpareOfOthers(p, run, count)
             M == {x \in S : x[1] = p}
             I == count[p] + 1 .. FullFile
  <1>1. FullFile \in Nat \ {0}
    BY Lengths
  <1>2. S = O \union M /\ O \cap M = {}
    BY DEF SpareOfOthers
  <1>3. IsFiniteSet(O) /\ Cardinality(O) \in Nat
    BY OthersAreBounded
  <1>4. IsFiniteSet(M) /\ Cardinality(M) = Room(run[p], count[p])
    <2>1. CASE run[p] = "off" \/ count[p] >= FullFile
      <3>1. M = {}
        BY <1>1, <2>1 DEF Spare
      <3> QED
        BY <2>1, <3>1, FS_EmptySet DEF Room
    <2>2. CASE ~(run[p] = "off" \/ count[p] >= FullFile)
      <3>1. M = {p} \X I
        <4>1. ASSUME NEW x \in M PROVE x \in {p} \X I
          BY <1>1, <4>1 DEF Spare
        <4>2. ASSUME NEW x \in {p} \X I PROVE x \in M
          BY <1>1, <2>2, <4>2 DEF Spare
        <4> QED
          BY <4>1, <4>2
      <3>2. IsFiniteSet(I) /\ Cardinality(I) = FullFile - count[p]
        <4>1. count[p] + 1 \in Int /\ FullFile \in Int /\ ~(count[p] + 1 > FullFile)
          BY <1>1, <2>2
        <4>2. IsFiniteSet(I) /\ Cardinality(I) = FullFile - (count[p] + 1) + 1
          BY <4>1, FS_Interval
        <4> HIDE DEF I
        <4> QED
          BY <1>1, <4>2
      <3>3. IsFiniteSet({p}) /\ Cardinality({p}) = 1
        BY FS_Singleton
      <3>4. IsFiniteSet({p} \X I) /\ Cardinality({p} \X I) = Cardinality({p}) * Cardinality(I)
        BY <3>2, <3>3, FS_Product
      <3> HIDE DEF M, I
      <3>5. Cardinality(M) = FullFile - count[p]
        BY <1>1, <3>1, <3>2, <3>3, <3>4
      <3> QED
        BY <2>2, <3>1, <3>4, <3>5 DEF Room
    <2> QED
      BY <2>1, <2>2
  <1>5. Cardinality(M) \in Nat
    BY <1>4, FS_CardinalityType
  <1>6. Cardinality(O \union M) = Cardinality(O) + Cardinality(M) - Cardinality(O \cap M)
    BY <1>3, <1>4, FS_Union
  <1>7. Cardinality(O \cap M) = 0
    BY <1>2, FS_EmptySet
  <1> HIDE DEF O, M, S
  <1>8. Cardinality(S) = Cardinality(O) + Cardinality(M)
    BY <1>2, <1>3, <1>5, <1>6, <1>7
  <1> QED
    BY <1>4, <1>8 DEF S, O

\* A step of one logger that takes its own room for what the file grows, or leaves
\* no more than a full file for itself, leaves room for all of them.
LEMMA RoomIsKept ==
    ASSUME NEW p \in Proc, NEW run, NEW count, NEW n \in Nat,
           NEW run2, NEW count2, NEW n2 \in Nat,
           count[p] \in Nat, count2[p] \in Nat,
           \A q \in Proc \ {p} : run2[q] = run[q] /\ count2[q] = count[q],
           n + Cardinality(Spare(run, count)) <= Cardinality(Proc) * FullFile,
           \/ n2 + Room(run2[p], count2[p]) <= FullFile
           \/ n2 + Room(run2[p], count2[p]) <= n + Room(run[p], count[p])
    PROVE  n2 + Cardinality(Spare(run2, count2)) <= Cardinality(Proc) * FullFile
  <1>1. SpareOfOthers(p, run2, count2) = SpareOfOthers(p, run, count)
    BY DEF SpareOfOthers, Spare
  <1>2. FullFile \in Nat /\ Cardinality(Proc) \in Nat
    BY Lengths, BoundsAssumption, FS_CardinalityType
  <1>3. Cardinality(Proc) * FullFile \in Nat
    BY <1>2
  <1>4. Room(run2[p], count2[p]) \in Nat /\ Room(run[p], count[p]) \in Nat
    BY <1>2 DEF Room
  <1> DEFINE c == Cardinality(SpareOfOthers(p, run, count))
             t == Cardinality(Proc) * FullFile
  <1>5. c \in Nat /\ c + FullFile <= t
    BY OthersAreBounded
  <1>6. /\ Cardinality(Spare(run, count)) = c + Room(run[p], count[p])
        /\ Cardinality(Spare(run2, count2)) = c + Room(run2[p], count2[p])
    BY <1>1, SpareSplits
  <1> HIDE DEF c, t
  <1>7. t \in Nat /\ n + (c + Room(run[p], count[p])) <= t
    BY <1>3, <1>6 DEF t
  <1>8. n2 + (c + Room(run2[p], count2[p])) <= t
    BY <1>2, <1>4, <1>5, <1>7
  <1> QED
    BY <1>6, <1>8 DEF t

LEMMA SpareIsFinite ==
    ASSUME NEW run, NEW count
    PROVE  Cardinality(Spare(run, count)) \in Nat
  <1>1. IsFiniteSet(1..FullFile)
    BY Lengths, FS_Interval
  <1>2. IsFiniteSet(Proc \X (1..FullFile))
    BY <1>1, BoundsAssumption, FS_Product
  <1>3. Spare(run, count) \in SUBSET (Proc \X (1..FullFile))
    BY DEF Spare
  <1> QED
    BY <1>2, <1>3, FS_Subset, FS_CardinalityType

\* What every logger counts, of its own and of a file that others write too.
CountsAreBounded ==
    \A p \in Proc : /\ pos[p] <= FullFile
                    /\ size[p] <= Cardinality(Proc) * FullFile
                    /\ handle[p] = "plain" => pos[p] = size[p]
                    /\ want[p] \in LineLengths \union {0}
                    /\ pc[p] = "line" /\ HasFile(p) => size[p] + want[p] <= FullFile

RoomIsLeft == Len(disk) + Cardinality(Spare(pc, size)) <= Cardinality(Proc) * FullFile

BoundInv == LoneInv /\ CountsAreBounded /\ RoomIsLeft

\* One full file is within the bound as soon as there is a process.
LEMMA OneFileIsBounded ==
    ASSUME NEW p \in Proc
    PROVE  /\ Cardinality(Proc) * FullFile \in Nat
           /\ FullFile <= Cardinality(Proc) * FullFile
  <1>1. FullFile \in Nat /\ Cardinality(Proc) \in Nat
    BY Lengths, BoundsAssumption, FS_CardinalityType
  <1>2. Cardinality(SpareOfOthers(p, pc, size)) \in Nat
        /\ Cardinality(SpareOfOthers(p, pc, size)) + FullFile <= Cardinality(Proc) * FullFile
    BY OthersAreBounded
  <1>3. Cardinality(Proc) * FullFile \in Nat
    BY <1>1
  <1> DEFINE t == Cardinality(Proc) * FullFile
  <1> HIDE DEF t
  <1>4. FullFile <= t
    BY <1>1, <1>2, <1>3 DEF t
  <1> QED
    BY <1>3, <1>4 DEF t

LEMMA FileIsBounded == BoundInv => Len(disk) <= Cardinality(Proc) * FullFile
  <1> SUFFICES ASSUME BoundInv PROVE Len(disk) <= Cardinality(Proc) * FullFile
    OBVIOUS
  <1>1. Len(disk) \in Nat /\ Cardinality(Spare(pc, size)) \in Nat
    BY LenProperties, SpareIsFinite DEF BoundInv, LoneInv, Types
  <1>2. Cardinality(Proc) * FullFile \in Nat
    BY Lengths, BoundsAssumption, FS_CardinalityType
  <1> QED
    BY <1>1, <1>2 DEF BoundInv, RoomIsLeft

\* Steps that write nothing and count nothing.
LEMMA QuietKeepsBound ==
    ASSUME BoundInv, NEW p \in Proc, LoneInv', UNCHANGED <<disk, pos, size>>, pc[p] # "off",
           \A q \in Proc \ {p} :
              pc'[q] = pc[q] /\ handle'[q] = handle[q] /\ want'[q] = want[q],
           handle'[p] = "plain" => handle[p] = "plain",
           want'[p] \in LineLengths \union {0},
           pc'[p] = "line" /\ HasFile(p)' => size[p] + want'[p] <= FullFile
    PROVE  CountsAreBounded' /\ RoomIsLeft'
  <1>1. CountsAreBounded'
    BY DEF BoundInv, CountsAreBounded, HasFile
  <1>2. Len(disk) \in Nat /\ size[p] \in Nat
    BY LenProperties DEF BoundInv, LoneInv, Types
  <1>3. FullFile \in Nat
    BY Lengths
  <1>4. Len(disk) + Room(pc'[p], size[p]) <= Len(disk) + Room(pc[p], size[p])
    BY <1>2, <1>3 DEF Room
  <1>5. RoomIsLeft'
    BY <1>2, <1>4, RoomIsKept DEF BoundInv, RoomIsLeft
  <1> QED
    BY <1>1, <1>5

LEMMA OpensKeepsBound ==
    ASSUME BoundInv, NEW p \in Proc, Opens(p) PROVE CountsAreBounded' /\ RoomIsLeft'
  <1>1. Len(disk) \in Nat /\ size[p] \in Nat /\ FullFile \in Nat
    BY LenProperties, Lengths DEF BoundInv, LoneInv, Types
  <1>2. /\ UNCHANGED <<disk, pos, want>>
        /\ pc'[p] = "idle" /\ handle'[p] = "append" /\ size'[p] = Len(disk)
        /\ \A q \in Proc \ {p} : pc'[q] = pc[q] /\ handle'[q] = handle[q] /\ size'[q] = size[q]
    BY DEF Opens, Goto, BoundInv, LoneInv, Types
  <1>3. CountsAreBounded'
    BY <1>2, FileIsBounded DEF BoundInv, CountsAreBounded, HasFile
  <1>4. \/ Len(disk) + Room(pc'[p], size'[p]) <= FullFile
        \/ Len(disk) + Room(pc'[p], size'[p]) <= Len(disk) + Room(pc[p], size[p])
    BY <1>1, <1>2 DEF Room
  <1>5. RoomIsLeft'
    BY <1>1, <1>2, <1>4, RoomIsKept DEF BoundInv, RoomIsLeft
  <1> QED
    BY <1>3, <1>5

LEMMA EndsKeepsBound ==
    ASSUME BoundInv, NEW p \in Proc, Ends(p) PROVE CountsAreBounded' /\ RoomIsLeft'
  <1>1. Len(disk) \in Nat /\ size[p] \in Nat /\ FullFile \in Nat
    BY LenProperties, Lengths DEF BoundInv, LoneInv, Types
  <1>2. /\ UNCHANGED disk
        /\ pc'[p] = "off" /\ handle'[p] = "nil" /\ size'[p] = 0 /\ pos'[p] = 0 /\ want'[p] = 0
        /\ \A q \in Proc \ {p} : /\ pc'[q] = pc[q] /\ handle'[q] = handle[q]
                                 /\ size'[q] = size[q] /\ pos'[q] = pos[q] /\ want'[q] = want[q]
    BY DEF Ends, Goto, BoundInv, LoneInv, Types
  <1>3. CountsAreBounded'
    BY <1>1, <1>2, OneFileIsBounded DEF BoundInv, CountsAreBounded, HasFile
  <1>4. Len(disk) + Room(pc'[p], size'[p]) <= Len(disk) + Room(pc[p], size[p])
    BY <1>1, <1>2 DEF Room
  <1>5. RoomIsLeft'
    BY <1>1, <1>2, <1>4, RoomIsKept DEF BoundInv, RoomIsLeft
  <1> QED
    BY <1>3, <1>5

LEMMA StartsLineKeepsBound ==
    ASSUME BoundInv, NEW p \in Proc, StartsLine(p) PROVE CountsAreBounded' /\ RoomIsLeft'
  <1>1. PICK n \in LineLengths :
          /\ want' = [want EXCEPT ![p] = n]
          /\ Goto(p, IF size[p] + n <= Limit THEN "line" ELSE "close")
    BY DEF StartsLine
  <1>2. n \in Nat /\ Limit \in Nat /\ FullFile \in Nat /\ Limit <= FullFile /\ size[p] \in Nat
    BY Lengths DEF BoundInv, LoneInv, Types
  <1>3. LoneInv'
    BY StartsLineKeeps DEF BoundInv
  <1>4. want'[p] = n /\ (pc'[p] = "line" => size[p] + n <= FullFile)
    BY <1>1, <1>2 DEF Goto, BoundInv, LoneInv, Types
  <1>5. \A q \in Proc \ {p} : pc'[q] = pc[q] /\ want'[q] = want[q]
    BY <1>1 DEF Goto, BoundInv, LoneInv, Types
  <1> QED
    BY <1>3, <1>4, <1>5, QuietKeepsBound DEF StartsLine

LEMMA RotationKeepsBound ==
    ASSUME BoundInv, NEW p \in Proc, Closes(p) \/ Truncates(p) \/ TruncateFails(p)
    PROVE  CountsAreBounded' /\ RoomIsLeft'
  <1>1. LoneInv'
    BY RotationKeeps DEF BoundInv
  <1>2. want[p] \in LineLengths \union {0}
    BY DEF BoundInv, CountsAreBounded
  <1>3. CASE Closes(p) \/ TruncateFails(p)
    <2>1. /\ UNCHANGED <<disk, pos, size, want>> /\ pc[p] # "off"
          /\ handle'[p] \in {"closed", "nil"}
          /\ \A q \in Proc \ {p} : pc'[q] = pc[q] /\ handle'[q] = handle[q]
      BY <1>3 DEF Closes, TruncateFails, Goto, BoundInv, LoneInv, Types
    <2> QED
      BY <1>1, <1>2, <2>1, QuietKeepsBound DEF HasFile
  <1>4. CASE Truncates(p)
    <2>1. /\ UNCHANGED want /\ disk' = <<>>
          /\ pc'[p] = "header" /\ handle'[p] = "plain" /\ size'[p] = 0 /\ pos'[p] = 0
          /\ \A q \in Proc \ {p} : /\ pc'[q] = pc[q] /\ handle'[q] = handle[q]
                                   /\ size'[q] = size[q] /\ pos'[q] = pos[q]
      BY <1>4 DEF Truncates, Goto, BoundInv, LoneInv, Types
    <2>2. Len(disk') = 0 /\ FullFile \in Nat /\ Len(disk) \in Nat /\ size[p] \in Nat
      BY <2>1, LenProperties, Lengths DEF BoundInv, LoneInv, Types
    <2>3. CountsAreBounded'
      BY <2>1, <2>2, OneFileIsBounded DEF BoundInv, CountsAreBounded, HasFile
    <2>4. Len(disk') + Room(pc'[p], size'[p]) <= FullFile
      BY <2>1, <2>2 DEF Room
    <2>5. RoomIsLeft'
      BY <2>1, <2>2, <2>4, RoomIsKept DEF BoundInv, RoomIsLeft
    <2> QED
      BY <2>3, <2>5
  <1> QED
    BY <1>3, <1>4

LEMMA RoomStep ==
    ASSUME BoundInv, NEW p \in Proc, size'[p] \in Nat, Len(disk') \in Nat,
           \A q \in Proc \ {p} : pc'[q] = pc[q] /\ size'[q] = size[q],
           \/ Len(disk') + Room(pc'[p], size'[p]) <= FullFile
           \/ Len(disk') + Room(pc'[p], size'[p]) <= Len(disk) + Room(pc[p], size[p])
    PROVE  RoomIsLeft'
  <1>1. Len(disk) \in Nat /\ size[p] \in Nat
    BY LenProperties DEF BoundInv, LoneInv, Types
  <1>2. Len(disk) + Cardinality(Spare(pc, size)) <= Cardinality(Proc) * FullFile
    BY DEF BoundInv, RoomIsLeft
  <1> QED
    BY <1>1, <1>2, RoomIsKept DEF RoomIsLeft

\* WriteString of k cells that a full file has room for: what the file grows, the
\* logger counts.
LEMMA WriteKeepsBound ==
    ASSUME BoundInv, NEW p \in Proc, NEW k \in Nat, WriteString(p, k), LoneInv',
           size' = [size EXCEPT ![p] = @ + k],
           IF HasFile(p) THEN size[p] + k <= FullFile ELSE k = 0,
           UNCHANGED handle, pc[p] # "off", pc'[p] # "off",
           \A q \in Proc \ {p} : pc'[q] = pc[q] /\ want'[q] = want[q],
           want'[p] \in LineLengths \union {0},
           pc'[p] = "line" /\ HasFile(p) => size[p] + k + want'[p] <= FullFile
    PROVE  CountsAreBounded' /\ RoomIsLeft'
  <1>1. /\ Len(disk) \in Nat /\ Len(disk') \in Nat /\ size[p] \in Nat /\ FullFile \in Nat
        /\ pos[p] \in Nat /\ disk \in Seq(Cell)
    BY LenProperties, Lengths DEF BoundInv, LoneInv, Types
  <1>2. size'[p] = size[p] + k /\ \A q \in Proc \ {p} : size'[q] = size[q] /\ pos'[q] = pos[q]
    BY DEF WriteString, BoundInv, LoneInv, Types
  <1>6. ASSUME \/ Len(disk') + Room(pc'[p], size'[p]) <= FullFile
               \/ Len(disk') + Room(pc'[p], size'[p]) <= Len(disk) + Room(pc[p], size[p])
        PROVE  RoomIsLeft'
    BY <1>1, <1>2, <1>6, RoomStep
  <1>3. CASE handle[p] = "append"
    <2>1. size[p] + k <= FullFile /\ HasFile(p)
      BY <1>3 DEF HasFile
    <2>2. Len(disk') = Len(disk) + k /\ pos' = pos
      BY <1>1, <1>3, WrittenAtEnd DEF WriteString
    <2>3. CountsAreBounded'
      BY <1>1, <1>2, <1>3, <2>1, <2>2, OneFileIsBounded DEF BoundInv, CountsAreBounded, HasFile
    <2>4. Len(disk') + Room(pc'[p], size'[p]) <= Len(disk) + Room(pc[p], size[p])
      BY <1>1, <1>2, <2>1, <2>2 DEF Room
    <2>5. RoomIsLeft'
      BY <1>6, <2>4
    <2> QED
      BY <2>3, <2>5
  <1>4. CASE handle[p] = "plain"
    <2>1. size[p] + k <= FullFile /\ HasFile(p) /\ pos[p] = size[p]
      BY <1>4 DEF HasFile, BoundInv, CountsAreBounded
    <2>2. disk' = Written(p, pos[p], k) /\ pos'[p] = pos[p] + k
      BY <1>1, <1>4 DEF WriteString, BoundInv, LoneInv, Types
    <2>3. Len(disk') = IF size[p] + k > Len(disk) /\ k > 0 THEN size[p] + k ELSE Len(disk)
      BY <1>1, <2>1, <2>2, WrittenLength
    <2>4. CountsAreBounded'
      BY <1>1, <1>2, <1>4, <2>1, <2>2, OneFileIsBounded DEF BoundInv, CountsAreBounded, HasFile
    <2>5. \/ Len(disk') + Room(pc'[p], size'[p]) <= FullFile
          \/ Len(disk') + Room(pc'[p], size'[p]) <= Len(disk) + Room(pc[p], size[p])
      BY <1>1, <1>2, <2>1, <2>3 DEF Room
    <2>6. RoomIsLeft'
      BY <1>6, <2>5
    <2> QED
      BY <2>4, <2>6
  <1>5. CASE ~HasFile(p)
    <2>1. k = 0 /\ handle[p] # "append" /\ handle[p] # "plain"
      BY <1>5 DEF HasFile
    <2>2. disk' = Written(p, pos[p], 0) /\ pos' = [pos EXCEPT ![p] = @ + 0]
      BY <2>1 DEF WriteString
    <2>3. pos'[p] = pos[p]
      BY <1>1, <2>2 DEF BoundInv, LoneInv, Types
    <2>4. Len(disk') = Len(disk)
      BY <1>1, <2>2, WrittenLength
    <2>5. CountsAreBounded'
      BY <1>1, <1>2, <1>5, <2>1, <2>3 DEF BoundInv, CountsAreBounded, HasFile
    <2>6. Len(disk') + Room(pc'[p], size'[p]) <= Len(disk) + Room(pc[p], size[p])
      BY <1>1, <1>2, <2>1, <2>4 DEF Room
    <2>7. RoomIsLeft'
      BY <1>6, <2>6
    <2> QED
      BY <2>5, <2>7
  <1> QED
    BY <1>3, <1>4, <1>5 DEF HasFile

LEMMA HeaderKeepsBound ==
    ASSUME BoundInv, NEW p \in Proc, WritesHeader(p) PROVE CountsAreBounded' /\ RoomIsLeft'
  <1>1. PICK k \in 0..HeaderLength : WriteString(p, k) /\ size' = [size EXCEPT ![p] = @ + k]
    BY DEF WritesHeader
  <1>2. HasFile(p) /\ size[p] = 0
    BY DEF WritesHeader, HasFile, BoundInv, LoneInv, FreshAfterTruncate
  <1>3. want[p] \in LineLengths \union {0}
    BY DEF BoundInv, CountsAreBounded
  <1>4. k \in Nat /\ size[p] + k <= FullFile /\ size[p] + k + want[p] <= FullFile
    BY <1>2, <1>3, Lengths
  <1>5. /\ UNCHANGED <<handle, want>> /\ pc[p] # "off" /\ pc'[p] # "off"
        /\ \A q \in Proc \ {p} : pc'[q] = pc[q]
    BY DEF WritesHeader, Goto, BoundInv, LoneInv, Types
  <1>6. LoneInv'
    BY HeaderKeeps DEF BoundInv
  <1>7. IF HasFile(p) THEN size[p] + k <= FullFile ELSE k = 0
    BY <1>2, <1>4
  <1>8. \A q \in Proc \ {p} : pc'[q] = pc[q] /\ want'[q] = want[q]
    BY <1>5
  <1>9. want'[p] \in LineLengths \union {0} /\ size[p] + k + want'[p] <= FullFile
    BY <1>3, <1>4, <1>5
  <1> QED
    BY <1>1, <1>4, <1>5, <1>6, <1>7, <1>8, <1>9, WriteKeepsBound

LEMMA LineKeepsBound ==
    ASSUME BoundInv, NEW p \in Proc, WritesLine(p) PROVE CountsAreBounded' /\ RoomIsLeft'
  <1>1. PICK k \in 0..(IF HasFile(p) THEN want[p] ELSE 0) :
          WriteString(p, k) /\ size' = [size EXCEPT ![p] = @ + k]
    BY DEF WritesLine
  <1>2. want[p] \in Nat /\ size[p] \in Nat /\ FullFile \in Nat
    BY Lengths DEF BoundInv, LoneInv, Types
  <1>3. k \in Nat /\ (IF HasFile(p) THEN size[p] + k <= FullFile ELSE k = 0)
    <2>1. HasFile(p) => size[p] + want[p] <= FullFile
      BY DEF WritesLine, BoundInv, CountsAreBounded
    <2>2. CASE HasFile(p)
      <3>1. k \in 0..want[p]
        BY <1>1, <2>2
      <3> QED
        BY <1>2, <2>1, <2>2, <3>1
    <2>3. CASE ~HasFile(p)
      <3>1. k \in 0..0
        BY <1>1, <2>3
      <3> QED
        BY <2>3, <3>1
    <2> QED
      BY <2>2, <2>3
  <1>4. /\ UNCHANGED handle /\ pc[p] # "off" /\ pc'[p] = "idle" /\ want'[p] = 0
        /\ \A q \in Proc \ {p} : pc'[q] = pc[q] /\ want'[q] = want[q]
    BY DEF WritesLine, Goto, BoundInv, LoneInv, Types
  <1>5. LoneInv'
    BY LineKeeps DEF BoundInv
  <1> QED
    BY <1>1, <1>3, <1>4, <1>5, WriteKeepsBound

LEMMA BoundInvInit == Init => BoundInv
  <1> SUFFICES ASSUME Init PROVE BoundInv
    OBVIOUS
  <1>1. LoneInv
    BY LoneInvInit
  <1>2. FullFile \in Nat /\ Cardinality(Proc) * FullFile \in Nat
    BY Lengths, BoundsAssumption, FS_CardinalityType
  <1>3. CountsAreBounded
    BY <1>2 DEF Init, CountsAreBounded, HasFile
  <1>4. Spare(pc, size) = {}
    BY DEF Init, Spare
  <1>5. Len(disk) = 0 /\ Cardinality(Spare(pc, size)) = 0
    BY <1>4, FS_EmptySet DEF Init
  <1> QED
    BY <1>1, <1>2, <1>3, <1>5 DEF BoundInv, RoomIsLeft

LEMMA BoundInvStep == BoundInv /\ [Next]_vars => BoundInv'
  <1> SUFFICES ASSUME BoundInv, [Next]_vars PROVE BoundInv'
    OBVIOUS
  <1>1. LoneInv'
    BY LoneInvStep DEF BoundInv
  <1>2. ASSUME NEW p \in Proc, LoggerStep(p) PROVE CountsAreBounded' /\ RoomIsLeft'
    BY <1>2, OpensKeepsBound, EndsKeepsBound, StartsLineKeepsBound, RotationKeepsBound,
       HeaderKeepsBound, LineKeepsBound
       DEF LoggerStep
  <1>3. CASE UNCHANGED vars
    BY <1>1, <1>3 DEF vars, BoundInv, CountsAreBounded, RoomIsLeft, HasFile
  <1> QED
    BY <1>1, <1>2, <1>3 DEF Next, BoundInv

\* Whatever processes truncate under each other, the file does not outgrow a full
\* one for each.
THEOREM FileOutgrowsNoBound == Spec => []FileStaysBounded
  <1>1. BoundInv => FileStaysBounded
    BY FileIsBounded DEF FileStaysBounded
  <1> QED
    BY <1>1, BoundInvInit, BoundInvStep, PTL DEF Spec

\* The variables keep their types and every count its bound.
THEOREM LogTypesAreKept == Spec => []TypeOK
  <1>1. ASSUME BoundInv PROVE TypeOK
    <2>1. FullFile \in Nat /\ Cardinality(Proc) * FullFile \in Nat
      BY Lengths, BoundsAssumption, FS_CardinalityType
    <2>2. pos \in [Proc -> 0..FullFile] /\ size \in [Proc -> 0..(Cardinality(Proc) * FullFile)]
      BY <1>1, <2>1 DEF BoundInv, LoneInv, Types, CountsAreBounded
    <2>3. want \in [Proc -> LineLengths \union {0}]
      BY <1>1 DEF BoundInv, LoneInv, Types, CountsAreBounded
    <2>4. alone \subseteq Running
      BY <1>1 DEF BoundInv, LoneInv, Types, AloneIsAlone, Running
    <2>5. Cardinality(alone) <= 1
      <3>1. CASE alone = {}
        BY <3>1, FS_EmptySet
      <3>2. ASSUME NEW p \in alone PROVE Cardinality(alone) <= 1
        <4>1. alone = {p}
          BY <1>1, <3>2 DEF BoundInv, LoneInv, Types, AloneIsAlone
        <4> QED
          BY <4>1, FS_Singleton
      <3> QED
        BY <3>1, <3>2
    <2> QED
      BY <1>1, <2>2, <2>3, <2>4, <2>5 DEF TypeOK, BoundInv, LoneInv, Types, Cell
  <1> QED
    BY <1>1, BoundInvInit, BoundInvStep, PTL DEF Spec

-----------------------------------------------------------------------------
(***************************************************************************)
(* The action property                                                     *)
(***************************************************************************)

Longer(d, e) == Len(d) <= Len(e) /\ SubSeq(e, 1, Len(d)) = d

\* Cells written at the end, or none, leave the others where they are.
LEMMA WrittenIsLonger ==
    ASSUME disk \in Seq(Cell), NEW p \in Proc, NEW at \in Nat, NEW n \in Nat,
           at = Len(disk) \/ n = 0
    PROVE  Longer(disk, Written(p, at, n))
  <1> DEFINE w == Written(p, at, n)
             m == Len(disk)
             s == SubSeq(w, 1, m)
  <1>1. m \in Nat /\ w \in Seq(Cell) /\ m <= Len(w)
    <2>1. m \in Nat /\ w \in Seq(Cell)
      BY LenProperties, WrittenIsSeq
    <2>2. Len(w) = IF at + n > m /\ n > 0 THEN at + n ELSE m
      BY WrittenLength
    <2> HIDE DEF w, m
    <2> QED
      BY <2>1, <2>2
  <1>2. \A i \in 1..m : w[i] = disk[i] /\ w[i] \in Cell
    <2> SUFFICES ASSUME NEW i \in 1..m PROVE w[i] = disk[i] /\ w[i] \in Cell
      OBVIOUS
    <2>1. disk[i] \in Cell
      BY LenProperties
    <2>2. i \notin at + 1 .. at + n
      BY <1>1
    <2>3. w[i] = disk[i]
      BY <1>1, <2>2 DEF Written
    <2> QED
      BY <2>1, <2>3
  <1> HIDE DEF w
  <1>3. s \in Seq(Cell) /\ Len(s) = m /\ \A i \in 1..m : s[i] = w[i]
    <2>1. 1 \in Int /\ m \in Int /\ \A i \in 1..m : w[i] \in Cell
      BY <1>1, <1>2
    <2>2. /\ s \in Seq(Cell)
          /\ Len(s) = IF 1 <= m THEN m - 1 + 1 ELSE 0
          /\ \A i \in 1 .. m - 1 + 1 : s[i] = w[1 + i - 1]
      BY <2>1, SubSeqProperties
    <2> HIDE DEF s
    <2>3. \A i \in 1..m : i \in 1 .. m - 1 + 1 /\ 1 + i - 1 = i
      BY <1>1
    <2> QED
      BY <1>1, <2>2, <2>3
  <1> HIDE DEF s
  <1>4. s = disk
    BY <1>2, <1>3, SeqEqual
  <1> QED
    BY <1>1, <1>4 DEF Longer, s, w

\* WriteString of a process that logs alone, and of one without a file.
LEMMA LoneWriteIsLonger ==
    ASSUME LoneInv, NEW p \in alone, NEW k \in Nat, WriteString(p, k), HasFile(p) \/ k = 0
    PROVE  Longer(disk, disk')
  <1>1. disk \in Seq(Cell) /\ Len(disk) \in Nat /\ p \in Proc /\ pos[p] \in Nat
    BY LenProperties DEF LoneInv, Types
  <1>2. CASE handle[p] = "append"
    BY <1>1, <1>2, WrittenIsLonger DEF WriteString
  <1>3. CASE handle[p] # "append"
    <2>1. disk' = Written(p, pos[p], k)
      BY <1>3 DEF WriteString
    <2>2. pos[p] = Len(disk) \/ k = 0
      BY <1>3 DEF HasFile, LoneInv, PlainAtEnd, LoneCountIsTrue
    <2> QED
      BY <1>1, <2>1, <2>2, WrittenIsLonger
  <1> QED
    BY <1>2, <1>3

KeepsLines == \A p \in alone' : pc[p] = "truncate" \/ Longer(disk, disk')

\* As long as one process at a time is logging, nothing that is in the file is lost
\* but by a rotation.
THEOREM LoneLoggerKeepsLines == Spec => LoneKeepsLines
  <1>1. ASSUME LoneInv, [Next]_vars PROVE [KeepsLines]_vars
    <2> SUFFICES ASSUME Next PROVE KeepsLines
      BY <1>1
    <2>1. PICK q \in Proc : LoggerStep(q)
      BY DEF Next
    <2>2. CASE disk' = disk
      <3>1. Len(disk) \in Nat /\ SubSeq(disk, 1, Len(disk)) = disk
        BY <1>1, LenProperties, SubSeqFull DEF LoneInv, Types
      <3> QED
        BY <2>2, <3>1 DEF KeepsLines, Longer
    <2>3. CASE Truncates(q) \/ WritesHeader(q) \/ WritesLine(q)
      <3>1. alone' = alone /\ \A p \in alone : p = q
        BY <1>1, <2>3
           DEF LoneInv, Types, AloneIsAlone, Truncates, WritesHeader, WritesLine, Goto
      <3>2. CASE Truncates(q)
        BY <3>1, <3>2 DEF Truncates, KeepsLines
      <3>3. ASSUME WritesHeader(q), q \in alone PROVE Longer(disk, disk')
        <4>1. PICK k \in 0..HeaderLength : WriteString(q, k)
          BY <3>3 DEF WritesHeader
        <4>2. k \in Nat /\ HasFile(q)
          BY <1>1, <3>3, LoggerAssumption DEF WritesHeader, HasFile, LoneInv, FreshAfterTruncate
        <4> QED
          BY <1>1, <3>3, <4>1, <4>2, LoneWriteIsLonger
      <3>4. ASSUME WritesLine(q), q \in alone PROVE Longer(disk, disk')
        <4>1. PICK k \in 0..(IF HasFile(q) THEN want[q] ELSE 0) : WriteString(q, k)
          BY <3>4 DEF WritesLine
        <4>2. k \in Nat /\ (HasFile(q) \/ k = 0)
          BY <1>1, <4>1 DEF LoneInv, Types
        <4> QED
          BY <1>1, <3>4, <4>1, <4>2, LoneWriteIsLonger
      <3> QED
        BY <2>3, <3>1, <3>2, <3>3, <3>4 DEF KeepsLines
    <2>4. disk' = disk \/ Truncates(q) \/ WritesHeader(q) \/ WritesLine(q)
      BY <2>1 DEF LoggerStep, Opens, Ends, StartsLine, Closes, TruncateFails
    <2> QED
      BY <2>2, <2>3, <2>4
  <1> QED
    <2>1. LoneInv /\ [Next]_vars
            => [\A p \in Proc : p \in alone' /\ pc[p] # "truncate"
                   => Len(disk) <= Len(disk') /\ SubSeq(disk', 1, Len(disk)) = disk]_vars
      BY <1>1 DEF KeepsLines, Longer
    <2> QED
      BY <2>1, LoneInvInit, LoneInvStep, PTL DEF Spec, LoneKeepsLines
=============================================================================
