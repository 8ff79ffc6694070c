CONSTANTS
    None = None
    alice = alice
    acct = acct
    p1 = p1
    p2 = p2
    p3 = p3
    Users = {alice}
    Edges = {e1}
    Accounts = {acct}
    Passwords = {p1, p2, p3}
    Generations <- MCGenerations
    Versions <- MCVersions
    Owner <- MCOwner
    Creds <- MCCreds
    SerializedAdmin = TRUE
    ReuseAfterDelete = TRUE
    ResumeInterrupted = TRUE
    MaxRepresentationEpochs = 2
VIEW BesidesTracker
SPECIFICATION ControlSpec
INVARIANT TypeOK
PROPERTY ImplementsAuthority
CHECK_DEADLOCK FALSE
