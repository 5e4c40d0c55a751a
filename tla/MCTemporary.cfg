\* A session that is cancelled between Disable and Enable.
SPECIFICATION Spec
CONSTANTS
    d1 = d1
    d2 = d2
    w1 = w1
    w2 = w2
    pnp = pnp
    check = check
    None = None
    Device = {d1}
    FriendlyName <- DistinctNames
    Fault <- Code43
    HostActs <- Undisturbed
    OpsMayFail = FALSE
    ReadsMayFail = FALSE
    Entry <- Only43
    Scanner = {pnp, check}
    Checker = {check}
    Worker = {w1, w2}
    WaitMayTimeOut = FALSE
INVARIANT DisableIsTemporary
CHECK_DEADLOCK FALSE
