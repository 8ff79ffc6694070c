CONSTANTS
    None = None
    alice = alice
    acct = acct
    p1 = p1
    p2 = p2
    LastGeneration = 2
    LastVersion = 2
    Users = {alice}
    Edges = {}
    Accounts = {acct}
    Passwords = {p1, p2}
    Requests = {1, 2}
    InjectedKinds = {"TRANSIENT_FAILURE", "PARTIAL_AUTHENTICATOR_FAILURE", "CREDENTIAL_MISMATCH"}
    MaxWaitersPerKey = 1
    MaxWaitersGlobal = 1
    Generations <- MCGenerations
    Versions <- MCVersions
    Owner <- MCOwner
    Creds <- MCCreds
SPECIFICATION DataPlaneSpec
INVARIANTS
    DataPlaneTypeOK
    NegativeCacheSound
    LoginInvariant
    ContinuouslyValidAccepted
    UnavailableIsNotDenied
    AcceptedWasAllowed
CHECK_DEADLOCK FALSE
