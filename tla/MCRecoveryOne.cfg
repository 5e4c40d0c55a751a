\* One device, an event scan and a check, two worker goroutines, and a shutdown
\* that may time out.
SPECIFICATION Spec
CONSTANTS
    d1 = d1
    d2 = d2
    w1 = w1
    w2 = w2
    pnp = pnp
    check = check
    None = None
    Device = {d1}
    FriendlyName <- DistinctNames
    Fault <- Code43
    HostActs <- ComingAndGoing
    OpsMayFail = TRUE
    ReadsMayFail = FALSE
    Entry <- Filtered
    Scanner = {pnp, check}
    Checker = {check}
    Worker = {w1, w2}
    WaitMayTimeOut = TRUE
INVARIANTS
    TypeOK
    SerialRecovery
    NoStuckSession
    CounterIsPrivate
    QuietAfterWait
    IInv
    RInv
PROPERTIES
    OnlyCheckClears
    ImplementsDeviceRecovery
SYMMETRY WorkerSymmetry
CHECK_DEADLOCK FALSE
