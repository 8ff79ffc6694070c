CONSTANTS
    None = None
    alice = alice
    acct = acct
    p1 = p1
    p2 = p2
    LastGeneration = 1
    LastVersion = 1
    Users = {alice}
    Edges = {}
    Accounts = {acct}
    Passwords = {p1}
    Requests = {1, 2, 3}
    InjectedKinds = {}
    MaxWaitersPerKey = 2
    MaxWaitersGlobal = 1
    Generations <- MCGenerations
    Versions <- MCVersions
    Owner <- MCOwner
    Creds <- MCCreds
SPECIFICATION DataPlaneSpec
INVARIANT FlightsAccounted
PROPERTY EveryLoginAnswered
CHECK_DEADLOCK FALSE
