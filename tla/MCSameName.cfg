\* Two devices of one friendly name, one of them unplugged.
SPECIFICATION Spec
CONSTANTS
    d1 = d1
    d2 = d2
    w1 = w1
    w2 = w2
    pnp = pnp
    check = check
    None = None
    Device = {d1, d2}
    FriendlyName <- SameName
    Fault <- Code43
    HostActs <- Plugging
    OpsMayFail = FALSE
    ReadsMayFail = FALSE
    Entry <- Plain
    Scanner = {pnp, check}
    Checker = {check}
    Worker = {w1, w2}
    WaitMayTimeOut = FALSE
INVARIANT NoConcurrentOperations
CHECK_DEADLOCK FALSE
