CONSTANTS
    t1 = t1
    t2 = t2
    k1 = k1
    k2 = k2
    a1 = a1
    a2 = a2
    Tenants = {t1, t2}
    Keys = {k1, k2}
    Accounts = {a1, a2}
    NoTenant = NoTenant
    NoKey = NoKey
    NoAccount = NoAccount
    NoFile = NoFile
    Fallback = NoKey
    MemberOf <- MCMemberOf
    HomeOf <- MCHomeOf
    MaxEpoch = 2
    MaxSwitches = 2
    c3 = c3
    Callers = {c1, c2, c3}
    CacheKeys = {x, y}
    Max = 1
    NoCaller = NoCaller
    NoRow = NoRow
    Error = Error
    MaxGen = 1
    MaxBust = 1
    Attempts = {b1, b2, b3, b4}
    b1 = b1
    b2 = b2
    b3 = b3
    b4 = b4
    u1 = u1
    u2 = u2
    Clients = {u1, u2}
    ClientOf <- MCClientOf
    NoAttempt = NoAttempt
    BaseDelay = 1
    MaxDelay = 2
    ForgetAfter = 3
    MaxTracked = 1
    MaxNow = 4
    Askers = {q1, q2}
    Auths = {i1, i2}
    NoSession = 0
    NoHolder = NoHolder
    MaxSessions = 2
    MaxTurns = 1
SPECIFICATION SessionSpec
INVARIANTS
    OverrideIsLive
    AccountNamesOverride
    HomeIsOfIdentity
    CachedRowsAreCurrent
    AnswersAreOfTheirEra
    TablesAreKept
PROPERTIES
    ImplementsSession
    SessionsStayHome
    NoAttemptInLockout
    EveryoneIsAnswered
