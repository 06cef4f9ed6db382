SPECIFICATION Spec
CONSTANTS
    gateway = gateway
    attacker = attacker
    subnet = subnet
    Threads = {t1, t2}
    Actions = {a1, a2, a3}
    Ips <- BlockIps
    Addresses <- MCAddresses
    Covers <- BlockCovers
    Protected <- MCProtected
    NoIp = NoIp
    NoAction = NoAction
    InitProfile <- BlockProfile
    Limit <- OneEach
INVARIANTS TypeOK  DuplicatesAreBounded StoresAgree RevokesAreBacked
PROPERTIES LogMovesForward ImplementsBlockLifecycle
SYMMETRY Symmetry
