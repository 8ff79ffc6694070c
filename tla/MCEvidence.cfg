CONSTANTS
    Ports = {1, 2}
    MaxSequence = 2
    MaxSession = 3
    Productions <- MCProductions
    BackendPorts = {1, 2}
    MaxBackendSession = 3
    None = None
    Absent = Absent
    Partial = Partial
    c1 = c1
    c2 = c2
    c3 = c3
    o1 = o1
    o2 = o2
    n1 = n1
    n2 = n2
    Calls = {c1, c2, c3}
    Outputs = {o1, o2}
    Nonces = {n1, n2}
    Seeds = 2
SPECIFICATION FairEvidenceSpec
INVARIANTS
    ExpiryIsHonoured
    ReportedIsDurable
    LoginIsRight
    MeasurementsDisjoint
    NonceBindsOneCall
PROPERTIES
    ProductionEnds
CHECK_DEADLOCK FALSE
