\* One device that breaks at any time and that the user disables and enables, one
\* attempt, reads and calls that may fail: what must eventually happen.
SPECIFICATION FairSpec
CONSTANTS
    d1 = d1
    d2 = d2
    w1 = w1
    w2 = w2
    pnp = pnp
    check = check
    None = None
    Device = {d1}
    FriendlyName <- DistinctNames
    Fault <- Code43
    HostActs <- UserAndFaults
    OpsMayFail = TRUE
    ReadsMayFail = TRUE
    Entry <- Plain
    Scanner = {pnp, check}
    Checker = {check}
    Worker = {w1}
    WaitMayTimeOut = FALSE
PROPERTIES
    SessionsEnd
    ScansEnd
    ShutdownCompletes
CHECK_DEADLOCK FALSE
