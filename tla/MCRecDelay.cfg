\* One device, every way to write its rec_delay, and the ready settings.
SPECIFICATION FairSpec
CONSTANTS
    d1 = d1
    Omitted = Omitted
    Never = Never
    Device = {d1}
    File <- Files
    Far = 5
    DefaultUptimeBypass = 4
    DefaultReadyMinUptime = 2
    DefaultReadyPoll = 1
    DefaultReadyMaxWait = 3
INVARIANTS
    TypeOK
    NeverEarly
    ScansWhenReady
    ReadyWaitIsBounded
PROPERTIES
    GateStaysOpen
    DelayEnds
CHECK_DEADLOCK FALSE
