CONSTANTS
    None = None
    alice = alice
    nick = nick
    acct = acct
    p1 = p1
    p2 = p2
    LastVersion = 1
    Users = {alice, nick}
    Edges = {e1, e2}
    Accounts = {acct}
    Passwords = {p1, p2}
    Generations <- MCGenerations
    Versions <- MCVersions
    Owner <- MCOwner
    Creds <- MCCreds
    SerializedAdmin = TRUE
    ReuseAfterDelete = TRUE
    ResumeInterrupted = TRUE
    MaxRepresentationEpochs = 1
SYMMETRY EdgeSymmetry
VIEW BesidesTracker
SPECIFICATION ControlSpec
INVARIANT FailOpenReachesAccount
CHECK_DEADLOCK FALSE
