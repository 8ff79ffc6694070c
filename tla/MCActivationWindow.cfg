CONSTANTS
    None = None
    alice = alice
    nick = nick
    acct = acct
    p1 = p1
    p2 = p2
    LastVersion = 3
    Users = {alice}
    Edges = {e1}
    Accounts = {acct}
    Passwords = {p1, p2}
    Generations <- MCGenerations
    Versions <- MCVersions
    Owner <- MCOwner
    Creds <- MCCreds
    SerializedAdmin = TRUE
    ReuseAfterDelete = TRUE
    ResumeInterrupted = FALSE
    MaxRepresentationEpochs = 3
VIEW BesidesTracker
SPECIFICATION ControlSpec
INVARIANT DualVerificationWindow
CHECK_DEADLOCK FALSE
