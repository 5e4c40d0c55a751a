\* Two processes that start, log and end at will.
SPECIFICATION Spec
CONSTANTS
    Proc = {p1, p2}
    LogMaxBytes = 3
    DefaultMax = 5
    LineLengths = {1, 3}
    HeaderLength = 1
    Hole = Hole
SYMMETRY ProcSymmetry
INVARIANTS
    TypeOK
    LoneObeysCap
    LoneCountIsTrue
    FileStaysBounded
PROPERTIES
    LoneKeepsLines
