CONSTANTS
    None = None
    alice = alice
    acct = acct
    p1 = p1
    p2 = p2
    p3 = p3
    Users = {alice}
    Edges = {e1}
    Accounts = {acct}
    Passwords = {p1, p2, p3}
    Generations <- MCGenerations
    Versions <- MCVersions
    Owner <- MCOwner
    Creds <- MCCreds
    SerializedAdmin = FALSE
    ReuseAfterDelete = TRUE
    ResumeInterrupted = TRUE
    MaxRepresentationEpochs = 3
VIEW BesidesTracker
SPECIFICATION ControlSpec
INVARIANT DeletedNotLive
CHECK_DEADLOCK FALSE
