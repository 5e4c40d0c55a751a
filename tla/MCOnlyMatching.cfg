\* A problem code that changes between the two refreshes of an attempt.
SPECIFICATION Spec
CONSTANTS
    d1 = d1
    d2 = d2
    w1 = w1
    w2 = w2
    pnp = pnp
    check = check
    None = None
    Device = {d1}
    FriendlyName <- DistinctNames
    Fault <- Codes43And10
    HostActs <- Breaking
    OpsMayFail = FALSE
    ReadsMayFail = FALSE
    Entry <- Only43
    Scanner = {pnp, check}
    Checker = {check}
    Worker = {w1, w2}
    WaitMayTimeOut = FALSE
INVARIANT DisablesOnlyMatching
CHECK_DEADLOCK FALSE
