CONSTANTS
    t1 = t1
    t2 = t2
    k1 = k1
    k2 = k2
    a1 = a1
    a2 = a2
    Tenants = {t1, t2}
    Keys = {k1, k2}
    Accounts = {a1, a2}
    NoTenant = NoTenant
    NoKey = NoKey
    NoAccount = NoAccount
    NoFile = NoFile
    Fallback = NoKey
    MemberOf <- MCMemberOf
    HomeOf <- MCHomeOf
    MaxEpoch = 2
    MaxSwitches = 2
SPECIFICATION Spec
INVARIANT OverrideNeverOutlivesTenant
