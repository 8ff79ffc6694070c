CONSTANTS
    wrong = wrong
    right = right
    NoKey = NoKey
    screened = screened
    w1 = w1
    w2 = w2
    w3 = w3
    again = again
    good1 = good1
    good2 = good2
    out = out
    f1 = f1
    b1 = b1
    f2 = f2
    Stop = Stop
    NoRelease = NoRelease
    Requests = {w1,w2,w3,again,good1,good2,out}
    NegativeKeys = {wrong,right,screened}
    RightKeys = {right}
    ScreenPositive = {wrong,right}
    MaxWaitersPerKey = 1
    MaxWaitersGlobal = 2
    Releases <- MCReleases
    MaxPending = 1
    Frontends = {f1,f2}
    Backends = {b1}
    FrontendCapacity = 1
    BackendCapacity = 1
    MaxConnections = 3
    IdOf <- MCIdOf
    KeyOf <- MCKeyOf
    Workloads <- MCWorkloads
SPECIFICATION FairServiceSpec
INVARIANTS
    OneTerminalEach
    Conservation
    NoRequestLost
    DrainedStaysIdle
    ReportIsTruthful
    AnswersAreRight
    BoundsKept
PROPERTIES
    EveryRequestEnds
    ShutdownEnds
CHECK_DEADLOCK FALSE
