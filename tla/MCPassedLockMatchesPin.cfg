CONSTANTS
    t1 = t1
    t2 = t2
    k1 = k1
    k2 = k2
    a1 = a1
    a2 = a2
    Tenants = {t1, t2}
    Keys = {k1, k2}
    Accounts = {a1, a2}
    NoTenant = NoTenant
    NoKey = NoKey
    NoAccount = NoAccount
    NoFile = NoFile
    Fallback = NoKey
    MemberOf <- MCMemberOf
    HomeOf <- MCHomeOf
    MaxEpoch = 1
    MaxSwitches = 1
    Requests = {r1}
    GrantInputs <- MCGrantInputs
    Readers = {r1}
    NoRows = NoRows
    Passes = {p1, p2}
    NoPass = NoPass
    Absent = Absent
    Empty = Empty
    Torn = Torn
    MaxData = 2
    MaxSalt = 3
    MaxRuns = 2
SPECIFICATION MCSpec
PROPERTY PassedLockMatchesPin
