SPECIFICATION Spec
CONSTANTS
    r1 = r1
    r2 = r2
    w1 = w1
    w2 = w2
    p1 = p1
    p2 = p2
    a1 = a1
    a2 = a2
    t1 = t1
    t2 = t2
    d1 = d1
    d2 = d2
    brute = brute
    unknown = unknown
    failed = failed
    blank = blank
    e1 = e1
    none = none
    Keys <- MCKeys
    Unknown = unknown
    KeyOrder <- MCKeyOrder
    Keywords <- MCKeywords
    Blank = blank
    Requests = {r1, r2}
    Workers = {w1}
    Processes = {p1, p2}
    Home <- Paired
    Alerts = {a1, a2}
    Tasks = {t1, t2}
    Definitions = {d1}
    Registered = {d1}
    Orders = {0}
    WazuhIds = {e1}
    Descriptions <- Attacks
    NoId = none
    NoAlert = none
    NoTask = none
    NoDefinition = none
    InitTypes <- MCTypes
    InitMapped <- OneMapped
    AdminKeys = {brute}
    AdminRows <- MCAdminRows
    Limit <- RaceLimit
SYMMETRY Symmetric
INVARIANTS
    TypeOK
    OneResponsePerEvent
    NoSilentLoss
PROPERTY ImplementsLifecycle
