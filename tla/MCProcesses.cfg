\* Two processes at a time, each started, killed and started again at will.
SPECIFICATION FairSpec
CONSTANTS
    p1 = p1
    p2 = p2
    None = None
    Proc = {p1, p2}
    MayRun <- EveryPair
    Retries = 2
INVARIANTS
    TypeOK
    OneProcessOperates
    HandleIsOwned
    RequestsMatch
PROPERTIES
    ImplementsSingleOperator
    AcceptedIsAnswered
    CommandsEnd
    ServerComesBack
    DaemonEnds
CHECK_DEADLOCK FALSE
