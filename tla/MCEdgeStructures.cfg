CONSTANTS
    s1 = s1
    s2 = s2
    s3 = s3
    east = east
    west = west
    Keys = {1, 2, 3, 4}
    Scopes = {s1, s2, s3}
    AccountOf <- MCAccountOf
    Regions = {east, west}
    Offers <- MCOffers
    Ttls = {1, 3}
    Capacity = 3
    Settings <- MCSettings
    ResetAfter = 2
    MaxFrequency = 3
    MaxUses = 2
    ReadLag = 1
    Lifetimes = 1
    HeapKeys = {1, 2, 3, 4, 5, 6}
    Expiries = {1, 2}
    Empty = Empty
    Tokens = {1, 2, 3, 4, 5, 6}
    Buckets = {0, 1}
    Offsets = {0, 1}
    BucketOf <- MCBucketOf
    FingerprintOf <- MCFingerprintOf
    MaxKicks = 3
SPECIFICATION StructuresSpec
INVARIANTS
    BoundsHold
    IndexesAgree
    GroupOrdersAgree
    HitIsCurrent
    NoFalseNegatives
    TablesHoldMembers
PROPERTIES
    EvictionServesAdmission
    PurgeIsExact
CHECK_DEADLOCK FALSE
