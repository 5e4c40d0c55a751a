\* Two devices of different names under overlapping entries, one of them unplugged
\* and plugged, and one event scan.
SPECIFICATION Spec
CONSTANTS
    d1 = d1
    d2 = d2
    w1 = w1
    w2 = w2
    pnp = pnp
    check = check
    None = None
    Device = {d1, d2}
    FriendlyName <- DistinctNames
    Fault <- Code43
    HostActs <- PluggingOne
    OpsMayFail = FALSE
    ReadsMayFail = FALSE
    Entry <- Overlapping
    Scanner = {pnp}
    Checker = {}
    Worker = {w1, w2}
    WaitMayTimeOut = FALSE
INVARIANTS
    SerialRecovery
    NoStuckSession
    NoConcurrentOperations
SYMMETRY WorkerSymmetry
CHECK_DEADLOCK FALSE
