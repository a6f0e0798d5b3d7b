SPECIFICATION RecordsSpec
CONSTANTS
    s1 = s1
    s2 = s2
    v1 = v1
    t1 = t1
    t2 = t2
    Builders = {b1, b2}
    Teardowns = {t1, t2}
    Sites = {s1, s2}
    Slots = {n1, n2}
    RevZones = {v1}
    RevOf <- MCRevOf
    Template <- MCTemplate
    MaxWrong = 1
    Customer = Customer
    Free = Free
    NoSite = NoSite
    NoSlot = NoSlot
    AuditKeys = {m1, m2}
    NoAuditKey = NoAuditKey
    MaxEntries = 3
    MaxStarts = 2
    MaxHarm = 1
PROPERTY TeardownTouchesOnlyItsSite
CHECK_DEADLOCK FALSE
