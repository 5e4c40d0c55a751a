\* A device that fails again while the session that has recovered it ends.
SPECIFICATION FairSpec
CONSTANTS
    d1 = d1
    d2 = d2
    w1 = w1
    w2 = w2
    pnp = pnp
    check = check
    None = None
    Device = {d1}
    FriendlyName <- DistinctNames
    Fault <- Code43
    HostActs <- Breaking
    OpsMayFail = FALSE
    ReadsMayFail = FALSE
    Entry <- Plain
    Scanner = {pnp}
    Checker = {}
    Worker = {w1}
    WaitMayTimeOut = FALSE
PROPERTY UnhealthyIsReset
CHECK_DEADLOCK FALSE
